---------------------------- MODULE AssetProofs ----------------------------
(* Proofs about Asset, for any number of threads. *)
EXTENDS Asset, TLAPS

\* Registrants, loaders and Worker are different threads, none is NoThread.
LEMMA ThreadKinds ==
  /\ \A t \in Registrants : t \notin Loaders /\ t # Worker /\ t \in Threads
  /\ \A t \in Loaders : t \notin Registrants /\ t # Worker /\ t \in Threads
  /\ \A t \in SyncLoaders : t \in Loaders
  /\ Worker \in Threads
  /\ \A t \in Threads : t # NoThread
  /\ \A t \in Threads : t \in Registrants \/ t \in Loaders \/ t = Worker
BY ThreadsAssumption DEF Threads, Loaders

\* The initial state satisfies TypeOK.
LEMMA InitType == Init => TypeOK
<1> USE ThreadKinds, ThreadsAssumption DEF Init, TypeOK, InitialPC, RegistrantPCs,
        LoaderPCs, WorkerPCs, CompletePCs, RaisePCs, WaitPCs, Final
<1> SUFFICES ASSUME Init PROVE TypeOK
  OBVIOUS
<1>1. spurious \in 0..MaxSpurious
  OBVIOUS
<1>2. calls \in [Registrants -> [Final -> Nat]]
  OBVIOUS
<1>3. todo \in [Threads -> SUBSET Registrants]
  OBVIOUS
<1>4. /\ pc \in [Threads -> RegistrantPCs \cup LoaderPCs \cup WorkerPCs]
      /\ \A r \in Registrants : pc[r] \in RegistrantPCs
      /\ \A l \in Loaders : pc[l] \in LoaderPCs
      /\ pc[Worker] \in WorkerPCs
  OBVIOUS
<1> QED BY <1>1, <1>2, <1>3, <1>4

\* run_when_loaded preserves TypeOK.
LEMMA RunWhenLoadedType ==
  ASSUME TypeOK, NEW r \in Registrants, RunWhenLoaded(r)
  PROVE  TypeOK'
<1> USE ThreadKinds DEF TypeOK, Final, RegistrantPCs, LoaderPCs, WorkerPCs,
        CompletePCs, RaisePCs, WaitPCs,
        Goto, Lock, Unlock, Free, object, loading, delivery
<1>1. CASE RunWhenLoadedCheck(r)  BY <1>1 DEF RunWhenLoadedCheck
<1>2. CASE RunWhenLoadedLockedFinal(r)  BY <1>2 DEF RunWhenLoadedLockedFinal
<1>3. CASE RunWhenLoadedLockedPending(r)  BY <1>3 DEF RunWhenLoadedLockedPending
<1>4. CASE RunWhenLoadedAppend(r)  BY <1>4 DEF RunWhenLoadedAppend
<1>5. ASSUME NEW outcome \in Final, RunWhenLoadedCall(r, outcome) PROVE TypeOK'
  BY <1>5 DEF RunWhenLoadedCall
<1> QED BY <1>1, <1>2, <1>3, <1>4, <1>5 DEF RunWhenLoaded

\* complete_loading preserves TypeOK.
LEMMA CompleteLoadingType ==
  ASSUME TypeOK, NEW t \in Loaders \cup {Worker}, CompleteLoading(t)
  PROVE  TypeOK'
<1> USE ThreadKinds DEF TypeOK, Final, RegistrantPCs, LoaderPCs, WorkerPCs,
        CompletePCs, RaisePCs, WaitPCs,
        Goto, Lock, Unlock, Free, object, loading, delivery
<1>1. CASE CompleteLoadingLock(t)  BY <1>1 DEF CompleteLoadingLock
<1>2. CASE CompleteLoadingSet(t)  BY <1>2 DEF CompleteLoadingSet
<1>3. CASE CompleteLoadingUnlock(t)  BY <1>3 DEF CompleteLoadingUnlock
<1>4. CASE CompleteLoadingNotify(t)  BY <1>4 DEF CompleteLoadingNotify
<1>5. CASE CompleteLoadingRun(t)  BY <1>5 DEF CompleteLoadingRun
<1>6. CASE CompleteLoadingClear(t)  BY <1>6 DEF CompleteLoadingClear
<1> QED BY <1>1, <1>2, <1>3, <1>4, <1>5, <1>6 DEF CompleteLoading

\* raise_error_flag preserves TypeOK.
LEMMA RaiseErrorFlagType ==
  ASSUME TypeOK, NEW t \in Loaders \cup {Worker}, RaiseErrorFlag(t)
  PROVE  TypeOK'
<1> USE ThreadKinds DEF TypeOK, Final, RegistrantPCs, LoaderPCs, WorkerPCs,
        CompletePCs, RaisePCs, WaitPCs,
        Goto, Lock, Unlock, Free, object, loading, delivery
<1>1. CASE RaiseErrorSet(t)  BY <1>1 DEF RaiseErrorSet
<1>2. CASE RaiseErrorNotify(t)  BY <1>2 DEF RaiseErrorNotify
<1>3. CASE RaiseErrorLock(t)  BY <1>3 DEF RaiseErrorLock
<1>4. CASE RaiseErrorRun(t)  BY <1>4 DEF RaiseErrorRun
<1>5. CASE RaiseErrorClear(t)  BY <1>5 DEF RaiseErrorClear
<1> QED BY <1>1, <1>2, <1>3, <1>4, <1>5 DEF RaiseErrorFlag

\* internal_wait_for_complete preserves TypeOK.
LEMMA InternalWaitType ==
  ASSUME TypeOK, NEW l \in SyncLoaders, InternalWait(l)
  PROVE  TypeOK'
<1> USE ThreadKinds DEF TypeOK, Final, RegistrantPCs, LoaderPCs, WorkerPCs,
        CompletePCs, RaisePCs, WaitPCs,
        Goto, Lock, Unlock, Free, object, loading, delivery
<1>1. CASE WaitCheck(l)  BY <1>1 DEF WaitCheck
<1>2. CASE WaitLock(l)  BY <1>2 DEF WaitLock
<1>3. CASE WaitPredicateTrue(l)  BY <1>3 DEF WaitPredicateTrue
<1>4. CASE WaitPredicateFalse(l)  BY <1>4 DEF WaitPredicateFalse
<1>5. CASE WaitBlock(l)  BY <1>5 DEF WaitBlock
<1>6. CASE WaitNotified(l)  BY <1>6 DEF WaitNotified
<1> QED BY <1>1, <1>2, <1>3, <1>4, <1>5, <1>6 DEF InternalWait

\* call_loaders_sync and the load task preserve TypeOK.
LEMMA CallLoadersType ==
  ASSUME TypeOK, NEW l \in Loaders, CallLoaders(l)
  PROVE  TypeOK'
<1> USE ThreadKinds DEF TypeOK, Final, RegistrantPCs, LoaderPCs, WorkerPCs,
        CompletePCs, RaisePCs, WaitPCs,
        Goto, Lock, Unlock, Free, object, loading, delivery
<1>1. CASE ObtainOwnership(l)  BY <1>1 DEF ObtainOwnership
<1>2. CASE LoseOwnership(l)  BY <1>2 DEF LoseOwnership
<1>3. CASE LoaderFinishes(l)  BY <1>3 DEF LoaderFinishes
<1>4. CASE LoaderFails(l)  BY <1>4 DEF LoaderFails
<1>5. CASE LoaderDelegates(l)  BY <1>5 DEF LoaderDelegates
<1>6. CASE OwnerReraises(l)  BY <1>6 DEF OwnerReraises
<1>7. CASE WaiterThrows(l)  BY <1>7 DEF WaiterThrows
<1> QED BY <1>1, <1>2, <1>3, <1>4, <1>5, <1>6, <1>7 DEF CallLoaders

\* The handler Worker runs preserves TypeOK.
LEMMA WorkerStartsType ==
  ASSUME TypeOK, NEW outcome \in Final, WorkerStarts(outcome)
  PROVE  TypeOK'
<1>1. Worker \in Threads /\ Worker \notin Registrants \cup Loaders
  BY ThreadKinds
<1>2. pc' = [pc EXCEPT ![Worker] = IF outcome = "ready" THEN "cl_lock" ELSE "re_set"]
  BY DEF WorkerStarts, Goto
<1>3. /\ pc' \in [Threads -> RegistrantPCs \cup LoaderPCs \cup WorkerPCs]
      /\ pc'[Worker] \in WorkerPCs
  BY <1>1, <1>2 DEF TypeOK, WorkerPCs, CompletePCs, RaisePCs
<1>4. \A t \in Threads : t # Worker => pc'[t] = pc[t]
  BY <1>2 DEF TypeOK
<1> QED BY <1>1, <1>3, <1>4, ThreadKinds
        DEF TypeOK, WorkerStarts, object, delivery

\* A spurious wakeup preserves TypeOK.
LEMMA WaitSpuriousWakeupType ==
  ASSUME TypeOK, NEW l \in SyncLoaders, WaitSpuriousWakeup(l)
  PROVE  TypeOK'
BY ThreadKinds, ThreadsAssumption DEF TypeOK, Final, RegistrantPCs, LoaderPCs,
    WorkerPCs, CompletePCs, RaisePCs, WaitPCs,
        Goto, Lock, Unlock, Free, object, loading, delivery, WaitSpuriousWakeup

\* Every step preserves TypeOK.
LEMMA NextType == TypeOK /\ [Next]_vars => TypeOK'
<1> SUFFICES ASSUME TypeOK, [Next]_vars PROVE TypeOK'
  OBVIOUS
<1>1. ASSUME NEW t \in Threads, Step(t) PROVE TypeOK'
  BY <1>1, ThreadKinds, RunWhenLoadedType, CompleteLoadingType, RaiseErrorFlagType,
      InternalWaitType, CallLoadersType, WorkerStartsType DEF Step
<1>2. ASSUME NEW l \in SyncLoaders, WaitSpuriousWakeup(l) PROVE TypeOK'
  BY <1>2, WaitSpuriousWakeupType
<1>3. CASE UNCHANGED vars
  BY <1>3 DEF vars, object, loading, delivery, TypeOK, Final, RegistrantPCs,
      LoaderPCs, WorkerPCs, CompletePCs, RaisePCs, WaitPCs
<1> QED BY <1>1, <1>2, <1>3 DEF Next


\* run_when_loaded preserves MutexInv.
LEMMA RunWhenLoadedMutex ==
  ASSUME TypeOK, MutexInv, NEW r \in Registrants, RunWhenLoaded(r)
  PROVE  MutexInv'
<1> USE ThreadKinds DEF TypeOK, MutexInv, LockedPCs, Final,
        Goto, Lock, Unlock, Free, object, loading, delivery
<1>1. CASE RunWhenLoadedCheck(r)  BY <1>1 DEF RunWhenLoadedCheck
<1>2. CASE RunWhenLoadedLockedFinal(r)  BY <1>2 DEF RunWhenLoadedLockedFinal
<1>3. CASE RunWhenLoadedLockedPending(r)  BY <1>3 DEF RunWhenLoadedLockedPending
<1>4. CASE RunWhenLoadedAppend(r)  BY <1>4 DEF RunWhenLoadedAppend
<1>5. ASSUME NEW outcome \in Final, RunWhenLoadedCall(r, outcome) PROVE MutexInv'
  BY <1>5 DEF RunWhenLoadedCall
<1> QED BY <1>1, <1>2, <1>3, <1>4, <1>5 DEF RunWhenLoaded

\* complete_loading preserves MutexInv.
LEMMA CompleteLoadingMutex ==
  ASSUME TypeOK, MutexInv, NEW t \in Loaders \cup {Worker}, CompleteLoading(t)
  PROVE  MutexInv'
<1> USE ThreadKinds DEF TypeOK, MutexInv, LockedPCs, Final,
        Goto, Lock, Unlock, Free, object, loading, delivery
<1>1. CASE CompleteLoadingLock(t)  BY <1>1 DEF CompleteLoadingLock
<1>2. CASE CompleteLoadingSet(t)  BY <1>2 DEF CompleteLoadingSet
<1>3. CASE CompleteLoadingUnlock(t)  BY <1>3 DEF CompleteLoadingUnlock
<1>4. CASE CompleteLoadingNotify(t)  BY <1>4 DEF CompleteLoadingNotify
<1>5. CASE CompleteLoadingRun(t)  BY <1>5 DEF CompleteLoadingRun
<1>6. CASE CompleteLoadingClear(t)  BY <1>6 DEF CompleteLoadingClear
<1> QED BY <1>1, <1>2, <1>3, <1>4, <1>5, <1>6 DEF CompleteLoading

\* raise_error_flag preserves MutexInv.
LEMMA RaiseErrorFlagMutex ==
  ASSUME TypeOK, MutexInv, NEW t \in Loaders \cup {Worker}, RaiseErrorFlag(t)
  PROVE  MutexInv'
<1> USE ThreadKinds DEF TypeOK, MutexInv, LockedPCs, Final,
        Goto, Lock, Unlock, Free, object, loading, delivery
<1>1. CASE RaiseErrorSet(t)  BY <1>1 DEF RaiseErrorSet
<1>2. CASE RaiseErrorNotify(t)  BY <1>2 DEF RaiseErrorNotify
<1>3. CASE RaiseErrorLock(t)  BY <1>3 DEF RaiseErrorLock
<1>4. CASE RaiseErrorRun(t)  BY <1>4 DEF RaiseErrorRun
<1>5. CASE RaiseErrorClear(t)  BY <1>5 DEF RaiseErrorClear
<1> QED BY <1>1, <1>2, <1>3, <1>4, <1>5 DEF RaiseErrorFlag

\* internal_wait_for_complete preserves MutexInv.
LEMMA InternalWaitMutex ==
  ASSUME TypeOK, MutexInv, NEW l \in SyncLoaders, InternalWait(l)
  PROVE  MutexInv'
<1> USE ThreadKinds DEF TypeOK, MutexInv, LockedPCs, Final,
        Goto, Lock, Unlock, Free, object, loading, delivery
<1>1. CASE WaitCheck(l)  BY <1>1 DEF WaitCheck
<1>2. CASE WaitLock(l)  BY <1>2 DEF WaitLock
<1>3. CASE WaitPredicateTrue(l)  BY <1>3 DEF WaitPredicateTrue
<1>4. CASE WaitPredicateFalse(l)  BY <1>4 DEF WaitPredicateFalse
<1>5. CASE WaitBlock(l)  BY <1>5 DEF WaitBlock
<1>6. CASE WaitNotified(l)  BY <1>6 DEF WaitNotified
<1> QED BY <1>1, <1>2, <1>3, <1>4, <1>5, <1>6 DEF InternalWait

\* call_loaders_sync and the load task preserve MutexInv.
LEMMA CallLoadersMutex ==
  ASSUME TypeOK, MutexInv, NEW l \in Loaders, CallLoaders(l)
  PROVE  MutexInv'
<1> USE ThreadKinds DEF TypeOK, MutexInv, LockedPCs, Final,
        Goto, Lock, Unlock, Free, object, loading, delivery
<1>1. CASE ObtainOwnership(l)  BY <1>1 DEF ObtainOwnership
<1>2. CASE LoseOwnership(l)  BY <1>2 DEF LoseOwnership
<1>3. CASE LoaderFinishes(l)  BY <1>3 DEF LoaderFinishes
<1>4. CASE LoaderFails(l)  BY <1>4 DEF LoaderFails
<1>5. CASE LoaderDelegates(l)  BY <1>5 DEF LoaderDelegates
<1>6. CASE OwnerReraises(l)  BY <1>6 DEF OwnerReraises
<1>7. CASE WaiterThrows(l)  BY <1>7 DEF WaiterThrows
<1> QED BY <1>1, <1>2, <1>3, <1>4, <1>5, <1>6, <1>7 DEF CallLoaders

\* The handler Worker runs preserves MutexInv.
LEMMA WorkerStartsMutex ==
  ASSUME TypeOK, MutexInv, NEW outcome \in Final, WorkerStarts(outcome)
  PROVE  MutexInv'
<1> USE ThreadKinds DEF TypeOK, MutexInv, LockedPCs, Final,
        Goto, Lock, Unlock, Free, object, loading, delivery
<1>1. CASE outcome = "ready"  BY <1>1 DEF WorkerStarts
<1>2. CASE outcome = "error"  BY <1>2 DEF WorkerStarts
<1> QED BY <1>1, <1>2

\* A spurious wakeup preserves MutexInv.
LEMMA WaitSpuriousWakeupMutex ==
  ASSUME TypeOK, MutexInv, NEW l \in SyncLoaders, WaitSpuriousWakeup(l)
  PROVE  MutexInv'
BY ThreadKinds DEF TypeOK, MutexInv, LockedPCs, Final,
        Goto, Lock, Unlock, Free, object, loading, delivery, WaitSpuriousWakeup

\* Every step preserves MutexInv.
LEMMA NextMutex == TypeOK /\ MutexInv /\ [Next]_vars => MutexInv'
<1> SUFFICES ASSUME TypeOK, MutexInv, [Next]_vars PROVE MutexInv'
  OBVIOUS
<1>1. ASSUME NEW t \in Threads, Step(t) PROVE MutexInv'
  BY <1>1, ThreadKinds, RunWhenLoadedMutex, CompleteLoadingMutex,
      RaiseErrorFlagMutex, InternalWaitMutex, CallLoadersMutex,
      WorkerStartsMutex DEF Step
<1>2. ASSUME NEW l \in SyncLoaders, WaitSpuriousWakeup(l) PROVE MutexInv'
  BY <1>2, WaitSpuriousWakeupMutex
<1>3. CASE UNCHANGED vars
  BY <1>3 DEF vars, object, loading, delivery, TypeOK, MutexInv, LockedPCs, Final
<1> QED BY <1>1, <1>2, <1>3 DEF Next


-----------------------------------------------------------------------------
(* Only one thread settles the state, only one completes the asset.        *)

\* While a thread is about to settle a loading asset, no other thread is.
LEMMA OneSettler ==
  ASSUME TypeOK, LocationInv, OwnerInv, current_state = "loading",
         NEW t \in Loaders \cup {Worker}, pc[t] \in {"cl_set", "re_set"},
         NEW u \in Threads, u # t
  PROVE  pc[u] \notin {"own", "cl_lock", "cl_set", "re_set"}
<1> USE ThreadKinds DEF TypeOK, RegistrantPCs, OwnerInv, WaitPCs
<1>1. CASE u \in Registrants
  BY <1>1
<1>2. CASE u = Worker
  <2>1. t = owner
    BY <1>2
  <2> QED BY <1>2, <2>1
<1>3. CASE u \in Loaders /\ t = Worker
  <2>1. pc[owner] \notin {"own", "cl_lock", "cl_set", "re_set"}
    BY <1>3
  <2> QED BY <1>3, <2>1
<1>4. CASE u \in Loaders /\ t \in Loaders
  <2>1. t = owner
    BY <1>4
  <2> QED BY <1>4, <2>1
<1> QED BY <1>1, <1>2, <1>3, <1>4

\* Two threads never run complete_loading at once.
LEMMA OneCompleter ==
  ASSUME TypeOK, OwnerInv,
         NEW t \in Loaders \cup {Worker}, pc[t] \in CompletePCs,
         NEW u \in Threads, u # t
  PROVE  pc[u] \notin CompletePCs
<1> USE ThreadKinds DEF TypeOK, RegistrantPCs, OwnerInv, WaitPCs, CompletePCs
<1>1. CASE u \in Registrants
  BY <1>1
<1>2. CASE u = Worker
  <2>1. t = owner
    BY <1>2
  <2> QED BY <1>2, <2>1
<1>3. CASE u \in Loaders /\ t = Worker
  <2>1. pc[owner] \notin CompletePCs
    BY <1>3
  <2> QED BY <1>3, <2>1
<1>4. CASE u \in Loaders /\ t \in Loaders
  <2>1. t = owner
    BY <1>4
  <2> QED BY <1>4, <2>1
<1> QED BY <1>1, <1>2, <1>3, <1>4

\* run_when_loaded preserves LocationInv.
LEMMA RunWhenLoadedLocation ==
  ASSUME TypeOK, MutexInv, LocationInv, OwnerInv,
         NEW r \in Registrants, RunWhenLoaded(r)
  PROVE  LocationInv'
<1> USE ThreadKinds DEF TypeOK, MutexInv, LocationInv, OwnerInv, LockedPCs, Final,
        WaitPCs,
        Goto, Lock, Unlock, Free, object, loading, delivery
<1>1. CASE RunWhenLoadedCheck(r)  BY <1>1 DEF RunWhenLoadedCheck
<1>2. CASE RunWhenLoadedLockedFinal(r)  BY <1>2 DEF RunWhenLoadedLockedFinal
<1>3. CASE RunWhenLoadedLockedPending(r)  BY <1>3 DEF RunWhenLoadedLockedPending
<1>4. CASE RunWhenLoadedAppend(r)  BY <1>4 DEF RunWhenLoadedAppend
<1>5. ASSUME NEW outcome \in Final, RunWhenLoadedCall(r, outcome) PROVE LocationInv'
  BY <1>5 DEF RunWhenLoadedCall
<1> QED BY <1>1, <1>2, <1>3, <1>4, <1>5 DEF RunWhenLoaded

\* complete_loading preserves LocationInv.
LEMMA CompleteLoadingLocation ==
  ASSUME TypeOK, MutexInv, LocationInv, OwnerInv,
         NEW t \in Loaders \cup {Worker}, CompleteLoading(t)
  PROVE  LocationInv'
<1> USE ThreadKinds DEF TypeOK, MutexInv, LocationInv, OwnerInv, LockedPCs, Final,
        WaitPCs,
        Goto, Lock, Unlock, Free, object, loading, delivery
<1>1. CASE CompleteLoadingLock(t)  BY <1>1 DEF CompleteLoadingLock
<1>2. CASE CompleteLoadingSet(t)
  <2>1. /\ pc[t] = "cl_set"
        /\ current_state = "loading" /\ current_state' = "ready"
        /\ data' /\ data
    BY <1>2 DEF CompleteLoadingSet
  <2>2. \A u \in Threads : u # t => pc[u] \notin {"own", "cl_lock", "cl_set", "re_set"}
    BY <2>1, OneSettler
  <2> QED BY <1>2, <2>1, <2>2 DEF CompleteLoadingSet
<1>3. CASE CompleteLoadingUnlock(t)  BY <1>3 DEF CompleteLoadingUnlock
<1>4. CASE CompleteLoadingNotify(t)  BY <1>4 DEF CompleteLoadingNotify
<1>5. CASE CompleteLoadingRun(t)  BY <1>5 DEF CompleteLoadingRun
<1>6. CASE CompleteLoadingClear(t)  BY <1>6 DEF CompleteLoadingClear
<1> QED BY <1>1, <1>2, <1>3, <1>4, <1>5, <1>6 DEF CompleteLoading

\* raise_error_flag preserves LocationInv.
LEMMA RaiseErrorFlagLocation ==
  ASSUME TypeOK, MutexInv, LocationInv, OwnerInv,
         NEW t \in Loaders \cup {Worker}, RaiseErrorFlag(t)
  PROVE  LocationInv'
<1> USE ThreadKinds DEF TypeOK, MutexInv, LocationInv, OwnerInv, LockedPCs, Final,
        WaitPCs,
        Goto, Lock, Unlock, Free, object, loading, delivery
<1>1. CASE RaiseErrorSet(t)
  <2>1. CASE current_state = "loading"
    <3>1. \A u \in Threads : u # t => pc[u] \notin {"own", "cl_lock", "cl_set", "re_set"}
      BY <1>1, <2>1, OneSettler DEF RaiseErrorSet
    <3> QED BY <1>1, <2>1, <3>1 DEF RaiseErrorSet
  <2>2. CASE current_state = "error"
    BY <1>1, <2>2 DEF RaiseErrorSet
  <2> QED BY <1>1, <2>1, <2>2 DEF RaiseErrorSet
<1>2. CASE RaiseErrorNotify(t)  BY <1>2 DEF RaiseErrorNotify
<1>3. CASE RaiseErrorLock(t)  BY <1>3 DEF RaiseErrorLock
<1>4. CASE RaiseErrorRun(t)  BY <1>4 DEF RaiseErrorRun
<1>5. CASE RaiseErrorClear(t)  BY <1>5 DEF RaiseErrorClear
<1> QED BY <1>1, <1>2, <1>3, <1>4, <1>5 DEF RaiseErrorFlag

\* internal_wait_for_complete preserves LocationInv.
LEMMA InternalWaitLocation ==
  ASSUME TypeOK, MutexInv, LocationInv, OwnerInv,
         NEW l \in SyncLoaders, InternalWait(l)
  PROVE  LocationInv'
<1> USE ThreadKinds DEF TypeOK, MutexInv, LocationInv, OwnerInv, LockedPCs, Final,
        WaitPCs,
        Goto, Lock, Unlock, Free, object, loading, delivery
<1>1. CASE WaitCheck(l)  BY <1>1 DEF WaitCheck
<1>2. CASE WaitLock(l)  BY <1>2 DEF WaitLock
<1>3. CASE WaitPredicateTrue(l)  BY <1>3 DEF WaitPredicateTrue
<1>4. CASE WaitPredicateFalse(l)  BY <1>4 DEF WaitPredicateFalse
<1>5. CASE WaitBlock(l)  BY <1>5 DEF WaitBlock
<1>6. CASE WaitNotified(l)  BY <1>6 DEF WaitNotified
<1> QED BY <1>1, <1>2, <1>3, <1>4, <1>5, <1>6 DEF InternalWait

\* call_loaders_sync and the load task preserve LocationInv.
LEMMA CallLoadersLocation ==
  ASSUME TypeOK, MutexInv, LocationInv, OwnerInv, NEW l \in Loaders, CallLoaders(l)
  PROVE  LocationInv'
<1> USE ThreadKinds DEF TypeOK, MutexInv, LocationInv, OwnerInv, LockedPCs, Final,
        WaitPCs,
        Goto, Lock, Unlock, Free, object, loading, delivery
<1>1. CASE ObtainOwnership(l)  BY <1>1 DEF ObtainOwnership
<1>2. CASE LoseOwnership(l)  BY <1>2 DEF LoseOwnership
<1>3. CASE LoaderFinishes(l)  BY <1>3 DEF LoaderFinishes
<1>4. CASE LoaderFails(l)  BY <1>4 DEF LoaderFails
<1>5. CASE LoaderDelegates(l)  BY <1>5 DEF LoaderDelegates
<1>6. CASE OwnerReraises(l)  BY <1>6 DEF OwnerReraises
<1>7. CASE WaiterThrows(l)  BY <1>7 DEF WaiterThrows
<1> QED BY <1>1, <1>2, <1>3, <1>4, <1>5, <1>6, <1>7 DEF CallLoaders

\* The handler Worker runs preserves LocationInv.
LEMMA WorkerStartsLocation ==
  ASSUME TypeOK, MutexInv, LocationInv, OwnerInv,
         NEW outcome \in Final, WorkerStarts(outcome)
  PROVE  LocationInv'
<1> USE ThreadKinds DEF TypeOK, MutexInv, LocationInv, OwnerInv, LockedPCs, Final,
        WaitPCs,
        Goto, Lock, Unlock, Free, object, loading, delivery
<1>1. CASE outcome = "ready"  BY <1>1 DEF WorkerStarts
<1>2. CASE outcome = "error"  BY <1>2 DEF WorkerStarts
<1> QED BY <1>1, <1>2

\* A spurious wakeup preserves LocationInv.
LEMMA WaitSpuriousWakeupLocation ==
  ASSUME TypeOK, MutexInv, LocationInv, OwnerInv,
         NEW l \in SyncLoaders, WaitSpuriousWakeup(l)
  PROVE  LocationInv'
BY ThreadKinds DEF TypeOK, MutexInv, LocationInv, OwnerInv, LockedPCs, Final, WaitPCs,
        Goto, Lock, Unlock, Free, object, loading, delivery, WaitSpuriousWakeup

\* Every step preserves LocationInv.
LEMMA NextLocation ==
  TypeOK /\ MutexInv /\ LocationInv /\ OwnerInv /\ [Next]_vars => LocationInv'
<1> SUFFICES ASSUME TypeOK, MutexInv, LocationInv, OwnerInv, [Next]_vars
             PROVE  LocationInv'
  OBVIOUS
<1>1. ASSUME NEW t \in Threads, Step(t) PROVE LocationInv'
  BY <1>1, ThreadKinds, RunWhenLoadedLocation, CompleteLoadingLocation,
      RaiseErrorFlagLocation, InternalWaitLocation, CallLoadersLocation,
      WorkerStartsLocation DEF Step
<1>2. ASSUME NEW l \in SyncLoaders, WaitSpuriousWakeup(l) PROVE LocationInv'
  BY <1>2, WaitSpuriousWakeupLocation
<1>3. CASE UNCHANGED vars
  BY <1>3 DEF vars, object, loading, delivery, TypeOK, MutexInv, LocationInv,
      OwnerInv, LockedPCs, Final, WaitPCs
<1> QED BY <1>1, <1>2, <1>3 DEF Next


\* run_when_loaded preserves OwnerInv.
LEMMA RunWhenLoadedOwner ==
  ASSUME TypeOK, LocationInv, OwnerInv, NEW r \in Registrants, RunWhenLoaded(r)
  PROVE  OwnerInv'
<1> USE ThreadKinds DEF TypeOK, LocationInv, OwnerInv, Final, WaitPCs,
        Goto, Lock, Unlock, Free, object, loading, delivery
<1>1. CASE RunWhenLoadedCheck(r)  BY <1>1 DEF RunWhenLoadedCheck
<1>2. CASE RunWhenLoadedLockedFinal(r)  BY <1>2 DEF RunWhenLoadedLockedFinal
<1>3. CASE RunWhenLoadedLockedPending(r)  BY <1>3 DEF RunWhenLoadedLockedPending
<1>4. CASE RunWhenLoadedAppend(r)  BY <1>4 DEF RunWhenLoadedAppend
<1>5. ASSUME NEW outcome \in Final, RunWhenLoadedCall(r, outcome) PROVE OwnerInv'
  BY <1>5 DEF RunWhenLoadedCall
<1> QED BY <1>1, <1>2, <1>3, <1>4, <1>5 DEF RunWhenLoaded

\* complete_loading preserves OwnerInv.
LEMMA CompleteLoadingOwner ==
  ASSUME TypeOK, LocationInv, OwnerInv,
         NEW t \in Loaders \cup {Worker}, CompleteLoading(t)
  PROVE  OwnerInv'
<1> USE ThreadKinds DEF TypeOK, LocationInv, OwnerInv, Final, WaitPCs,
        Goto, Lock, Unlock, Free, object, loading, delivery
<1>1. CASE CompleteLoadingLock(t)  BY <1>1 DEF CompleteLoadingLock
<1>2. CASE CompleteLoadingSet(t)  BY <1>2 DEF CompleteLoadingSet
<1>3. CASE CompleteLoadingUnlock(t)  BY <1>3 DEF CompleteLoadingUnlock
<1>4. CASE CompleteLoadingNotify(t)  BY <1>4 DEF CompleteLoadingNotify
<1>5. CASE CompleteLoadingRun(t)  BY <1>5 DEF CompleteLoadingRun
<1>6. CASE CompleteLoadingClear(t)  BY <1>6 DEF CompleteLoadingClear
<1> QED BY <1>1, <1>2, <1>3, <1>4, <1>5, <1>6 DEF CompleteLoading

\* raise_error_flag preserves OwnerInv.
LEMMA RaiseErrorFlagOwner ==
  ASSUME TypeOK, LocationInv, OwnerInv,
         NEW t \in Loaders \cup {Worker}, RaiseErrorFlag(t)
  PROVE  OwnerInv'
<1> USE ThreadKinds DEF TypeOK, LocationInv, OwnerInv, Final, WaitPCs,
        Goto, Lock, Unlock, Free, object, loading, delivery
<1>1. CASE RaiseErrorSet(t)  BY <1>1 DEF RaiseErrorSet
<1>2. CASE RaiseErrorNotify(t)  BY <1>2 DEF RaiseErrorNotify
<1>3. CASE RaiseErrorLock(t)  BY <1>3 DEF RaiseErrorLock
<1>4. CASE RaiseErrorRun(t)  BY <1>4 DEF RaiseErrorRun
<1>5. CASE RaiseErrorClear(t)  BY <1>5 DEF RaiseErrorClear
<1> QED BY <1>1, <1>2, <1>3, <1>4, <1>5 DEF RaiseErrorFlag

\* internal_wait_for_complete preserves OwnerInv.
LEMMA InternalWaitOwner ==
  ASSUME TypeOK, LocationInv, OwnerInv, NEW l \in SyncLoaders, InternalWait(l)
  PROVE  OwnerInv'
<1> USE ThreadKinds DEF TypeOK, LocationInv, OwnerInv, Final, WaitPCs,
        Goto, Lock, Unlock, Free, object, loading, delivery
<1>1. CASE WaitCheck(l)  BY <1>1 DEF WaitCheck
<1>2. CASE WaitLock(l)  BY <1>2 DEF WaitLock
<1>3. CASE WaitPredicateTrue(l)  BY <1>3 DEF WaitPredicateTrue
<1>4. CASE WaitPredicateFalse(l)  BY <1>4 DEF WaitPredicateFalse
<1>5. CASE WaitBlock(l)  BY <1>5 DEF WaitBlock
<1>6. CASE WaitNotified(l)  BY <1>6 DEF WaitNotified
<1> QED BY <1>1, <1>2, <1>3, <1>4, <1>5, <1>6 DEF InternalWait

\* call_loaders_sync and the load task preserve OwnerInv.
LEMMA CallLoadersOwner ==
  ASSUME TypeOK, LocationInv, OwnerInv, NEW l \in Loaders, CallLoaders(l)
  PROVE  OwnerInv'
<1> USE ThreadKinds DEF TypeOK, LocationInv, OwnerInv, Final, WaitPCs,
        Goto, Lock, Unlock, Free, object, loading, delivery
<1>1. CASE ObtainOwnership(l)  BY <1>1 DEF ObtainOwnership
<1>2. CASE LoseOwnership(l)  BY <1>2 DEF LoseOwnership
<1>3. CASE LoaderFinishes(l)  BY <1>3 DEF LoaderFinishes
<1>4. CASE LoaderFails(l)  BY <1>4 DEF LoaderFails
<1>5. CASE LoaderDelegates(l)  BY <1>5 DEF LoaderDelegates
<1>6. CASE OwnerReraises(l)  BY <1>6 DEF OwnerReraises
<1>7. CASE WaiterThrows(l)  BY <1>7 DEF WaiterThrows
<1> QED BY <1>1, <1>2, <1>3, <1>4, <1>5, <1>6, <1>7 DEF CallLoaders

\* The handler Worker runs preserves OwnerInv.
LEMMA WorkerStartsOwner ==
  ASSUME TypeOK, LocationInv, OwnerInv, NEW outcome \in Final, WorkerStarts(outcome)
  PROVE  OwnerInv'
<1> USE ThreadKinds DEF TypeOK, LocationInv, OwnerInv, Final, WaitPCs,
        Goto, Lock, Unlock, Free, object, loading, delivery
<1>1. CASE outcome = "ready"  BY <1>1 DEF WorkerStarts
<1>2. CASE outcome = "error"  BY <1>2 DEF WorkerStarts
<1> QED BY <1>1, <1>2

\* A spurious wakeup preserves OwnerInv.
LEMMA WaitSpuriousWakeupOwner ==
  ASSUME TypeOK, LocationInv, OwnerInv, NEW l \in SyncLoaders, WaitSpuriousWakeup(l)
  PROVE  OwnerInv'
BY ThreadKinds DEF TypeOK, LocationInv, OwnerInv, Final, WaitPCs,
        Goto, Lock, Unlock, Free, object, loading, delivery, WaitSpuriousWakeup

\* Every step preserves OwnerInv.
LEMMA NextOwner == TypeOK /\ LocationInv /\ OwnerInv /\ [Next]_vars => OwnerInv'
<1> SUFFICES ASSUME TypeOK, LocationInv, OwnerInv, [Next]_vars PROVE OwnerInv'
  OBVIOUS
<1>1. ASSUME NEW t \in Threads, Step(t) PROVE OwnerInv'
  BY <1>1, ThreadKinds, RunWhenLoadedOwner, CompleteLoadingOwner,
      RaiseErrorFlagOwner, InternalWaitOwner, CallLoadersOwner,
      WorkerStartsOwner DEF Step
<1>2. ASSUME NEW l \in SyncLoaders, WaitSpuriousWakeup(l) PROVE OwnerInv'
  BY <1>2, WaitSpuriousWakeupOwner
<1>3. CASE UNCHANGED vars
  BY <1>3 DEF vars, object, loading, delivery, TypeOK, LocationInv, OwnerInv, Final,
      WaitPCs
<1> QED BY <1>1, <1>2, <1>3 DEF Next


\* run_when_loaded preserves HandlerInv.
LEMMA RunWhenLoadedHandler ==
  ASSUME IInv, NEW r \in Registrants, RunWhenLoaded(r)
  PROVE  HandlerInv'
<1> USE ThreadKinds DEF IInv, TypeOK, MutexInv, LocationInv, OwnerInv, HandlerInv,
        LockedPCs, Final, WaitPCs, Resolving,
        Goto, Lock, Unlock, Free, object, loading, delivery
<1>1. CASE RunWhenLoadedCheck(r)  BY <1>1 DEF RunWhenLoadedCheck
<1>2. CASE RunWhenLoadedLockedFinal(r)  BY <1>2 DEF RunWhenLoadedLockedFinal
<1>3. CASE RunWhenLoadedLockedPending(r)  BY <1>3 DEF RunWhenLoadedLockedPending
<1>4. CASE RunWhenLoadedAppend(r)  BY <1>4 DEF RunWhenLoadedAppend
<1>5. ASSUME NEW outcome \in Final, RunWhenLoadedCall(r, outcome) PROVE HandlerInv'
  BY <1>5 DEF RunWhenLoadedCall
<1> QED BY <1>1, <1>2, <1>3, <1>4, <1>5 DEF RunWhenLoaded

\* complete_loading preserves HandlerInv.
LEMMA CompleteLoadingHandler ==
  ASSUME IInv, NEW t \in Loaders \cup {Worker}, CompleteLoading(t)
  PROVE  HandlerInv'
<1> USE ThreadKinds DEF IInv, TypeOK, MutexInv, LocationInv, OwnerInv, HandlerInv,
        LockedPCs, Final, WaitPCs, Resolving,
        Goto, Lock, Unlock, Free, object, loading, delivery
<1>1. CASE CompleteLoadingLock(t)  BY <1>1 DEF CompleteLoadingLock
<1>2. CASE CompleteLoadingSet(t)  BY <1>2 DEF CompleteLoadingSet
<1>3. CASE CompleteLoadingUnlock(t)  BY <1>3 DEF CompleteLoadingUnlock
<1>4. CASE CompleteLoadingNotify(t)
  <2>1. \A u \in Threads : u # t => pc[u] \notin {"cl_run", "re_run"}
    BY <1>4, OneCompleter DEF CompleteLoadingNotify, CompletePCs
  <2> QED BY <1>4, <2>1 DEF CompleteLoadingNotify
<1>5. CASE CompleteLoadingRun(t)
  <2>1. \A u \in Threads : u # t => pc[u] \notin {"cl_run", "re_run"}
    BY <1>5, OneCompleter DEF CompleteLoadingRun, CompletePCs
  <2>2. PICK r \in todo[t] : /\ calls' = [calls EXCEPT ![r]["ready"] = @ + 1]
                            /\ todo' = [todo EXCEPT ![t] = @ \ {r}]
    BY <1>5 DEF CompleteLoadingRun
  <2> QED BY <1>5, <2>1, <2>2 DEF CompleteLoadingRun
<1>6. CASE CompleteLoadingClear(t)
  <2>1. \A u \in Threads : u # t => pc[u] \notin {"cl_run", "re_run"}
    BY <1>6, OneCompleter DEF CompleteLoadingClear, CompletePCs
  <2> QED BY <1>6, <2>1 DEF CompleteLoadingClear
<1> QED BY <1>1, <1>2, <1>3, <1>4, <1>5, <1>6 DEF CompleteLoading

\* raise_error_flag preserves HandlerInv.
LEMMA RaiseErrorFlagHandler ==
  ASSUME IInv, NEW t \in Loaders \cup {Worker}, RaiseErrorFlag(t)
  PROVE  HandlerInv'
<1> USE ThreadKinds DEF IInv, TypeOK, MutexInv, LocationInv, OwnerInv, HandlerInv,
        LockedPCs, Final, WaitPCs, Resolving,
        Goto, Lock, Unlock, Free, object, loading, delivery
<1>1. CASE RaiseErrorSet(t)  BY <1>1 DEF RaiseErrorSet
<1>2. CASE RaiseErrorNotify(t)  BY <1>2 DEF RaiseErrorNotify
<1>3. CASE RaiseErrorLock(t)  BY <1>3 DEF RaiseErrorLock
<1>4. CASE RaiseErrorRun(t)  BY <1>4 DEF RaiseErrorRun
<1>5. CASE RaiseErrorClear(t)  BY <1>5 DEF RaiseErrorClear
<1> QED BY <1>1, <1>2, <1>3, <1>4, <1>5 DEF RaiseErrorFlag

\* internal_wait_for_complete preserves HandlerInv.
LEMMA InternalWaitHandler ==
  ASSUME IInv, NEW l \in SyncLoaders, InternalWait(l)
  PROVE  HandlerInv'
<1> USE ThreadKinds DEF IInv, TypeOK, MutexInv, LocationInv, OwnerInv, HandlerInv,
        LockedPCs, Final, WaitPCs, Resolving,
        Goto, Lock, Unlock, Free, object, loading, delivery
<1>1. CASE WaitCheck(l)  BY <1>1 DEF WaitCheck
<1>2. CASE WaitLock(l)  BY <1>2 DEF WaitLock
<1>3. CASE WaitPredicateTrue(l)  BY <1>3 DEF WaitPredicateTrue
<1>4. CASE WaitPredicateFalse(l)  BY <1>4 DEF WaitPredicateFalse
<1>5. CASE WaitBlock(l)  BY <1>5 DEF WaitBlock
<1>6. CASE WaitNotified(l)  BY <1>6 DEF WaitNotified
<1> QED BY <1>1, <1>2, <1>3, <1>4, <1>5, <1>6 DEF InternalWait

\* call_loaders_sync and the load task preserve HandlerInv.
LEMMA CallLoadersHandler ==
  ASSUME IInv, NEW l \in Loaders, CallLoaders(l)
  PROVE  HandlerInv'
<1> USE ThreadKinds DEF IInv, TypeOK, MutexInv, LocationInv, OwnerInv, HandlerInv,
        LockedPCs, Final, WaitPCs, Resolving,
        Goto, Lock, Unlock, Free, object, loading, delivery
<1>1. CASE ObtainOwnership(l)  BY <1>1 DEF ObtainOwnership
<1>2. CASE LoseOwnership(l)  BY <1>2 DEF LoseOwnership
<1>3. CASE LoaderFinishes(l)  BY <1>3 DEF LoaderFinishes
<1>4. CASE LoaderFails(l)  BY <1>4 DEF LoaderFails
<1>5. CASE LoaderDelegates(l)  BY <1>5 DEF LoaderDelegates
<1>6. CASE OwnerReraises(l)  BY <1>6 DEF OwnerReraises
<1>7. CASE WaiterThrows(l)  BY <1>7 DEF WaiterThrows
<1> QED BY <1>1, <1>2, <1>3, <1>4, <1>5, <1>6, <1>7 DEF CallLoaders

\* The handler Worker runs preserves HandlerInv.
LEMMA WorkerStartsHandler ==
  ASSUME IInv, NEW outcome \in Final, WorkerStarts(outcome)
  PROVE  HandlerInv'
<1> USE ThreadKinds DEF IInv, TypeOK, MutexInv, LocationInv, OwnerInv, HandlerInv,
        LockedPCs, Final, WaitPCs, Resolving,
        Goto, Lock, Unlock, Free, object, loading, delivery
<1>1. CASE outcome = "ready"  BY <1>1 DEF WorkerStarts
<1>2. CASE outcome = "error"  BY <1>2 DEF WorkerStarts
<1> QED BY <1>1, <1>2

\* A spurious wakeup preserves HandlerInv.
LEMMA WaitSpuriousWakeupHandler ==
  ASSUME IInv, NEW l \in SyncLoaders, WaitSpuriousWakeup(l)
  PROVE  HandlerInv'
BY ThreadKinds DEF IInv, TypeOK, MutexInv, LocationInv, OwnerInv, HandlerInv,
    LockedPCs, Final, WaitPCs, Resolving,
        Goto, Lock, Unlock, Free, object, loading, delivery, WaitSpuriousWakeup

\* Every step preserves HandlerInv.
LEMMA NextHandler == IInv /\ [Next]_vars => HandlerInv'
<1> SUFFICES ASSUME IInv, [Next]_vars PROVE HandlerInv'
  OBVIOUS
<1>1. ASSUME NEW t \in Threads, Step(t) PROVE HandlerInv'
  BY <1>1, ThreadKinds, RunWhenLoadedHandler, CompleteLoadingHandler,
      RaiseErrorFlagHandler, InternalWaitHandler, CallLoadersHandler,
      WorkerStartsHandler DEF Step
<1>2. ASSUME NEW l \in SyncLoaders, WaitSpuriousWakeup(l) PROVE HandlerInv'
  BY <1>2, WaitSpuriousWakeupHandler
<1>3. CASE UNCHANGED vars
  BY <1>3 DEF vars, object, loading, delivery, IInv, TypeOK, MutexInv, LocationInv,
      OwnerInv, HandlerInv, LockedPCs, Final, WaitPCs, Resolving
<1> QED BY <1>1, <1>2, <1>3 DEF Next

-----------------------------------------------------------------------------
(* The invariant and the theorems                                          *)

\* The initial state satisfies the inductive invariant.
LEMMA InitIInv == Init => IInv
<1> SUFFICES ASSUME Init PROVE IInv
  OBVIOUS
<1>1. TypeOK
  BY InitType
<1>2. /\ \A l \in Loaders : pc[l] = "try_own"
      /\ \A r \in Registrants : pc[r] = "rwl_check"
      /\ pc[Worker] = "idle"
  BY ThreadKinds DEF Init, InitialPC
<1>3. MutexInv
  BY <1>2, ThreadKinds DEF Init, MutexInv, LockedPCs
<1>4. LocationInv /\ OwnerInv
  BY <1>2, ThreadKinds DEF Init, LocationInv, OwnerInv
<1>5. HandlerInv
  BY <1>2, ThreadKinds DEF Init, HandlerInv, Final
<1> QED BY <1>1, <1>3, <1>4, <1>5 DEF IInv

\* The inductive invariant holds in every reachable state.
THEOREM Invariance == Spec => []IInv
<1>1. IInv /\ [Next]_vars => IInv'
  BY NextType, NextMutex, NextLocation, NextOwner, NextHandler DEF IInv
<1> QED BY InitIInv, <1>1, PTL DEF Spec

\* Every variable keeps its type and every thread stays in its own code.
THEOREM TypeCorrect == Spec => []TypeOK
BY Invariance, PTL DEF IInv

\* run_when_loaded answers a client at most once, and truthfully.
THEOREM AtMostOnce == Spec => []HandlerRunsAtMostOnce
<1>1. IInv => HandlerRunsAtMostOnce
  <2> SUFFICES ASSUME IInv, NEW r \in Registrants
               PROVE  /\ calls[r]["ready"] + calls[r]["error"] <= 1
                      /\ calls[r]["ready"] = 1 => current_state = "ready" /\ data
                      /\ calls[r]["error"] = 1 => current_state = "error"
    BY DEF HandlerRunsAtMostOnce
  <2>1. /\ calls[r]["ready"] \in Nat /\ calls[r]["error"] \in Nat
        /\ calls[r]["ready"] <= 1 /\ calls[r]["error"] <= 1
        /\ calls[r]["ready"] > 0 => current_state = "ready"
        /\ calls[r]["error"] > 0 => current_state = "error"
    BY DEF IInv, TypeOK, HandlerInv, Final
  <2>2. current_state = "ready" => data
    BY DEF IInv, LocationInv
  <2> QED BY <2>1, <2>2
<1> QED BY Invariance, <1>1, PTL

\* complete_loading's loop may read the handler list without the mutex.
THEOREM UnlockedLoopSafe == Spec => []UnlockedHandlersUnshared
<1>1. IInv => UnlockedHandlersUnshared
  <2> SUFFICES ASSUME IInv, NEW t \in Threads, NEW u \in Threads, t # u,
                      pc[t] \in {"cl_notify", "cl_run"}
               PROVE  pc[u] \notin {"rwl_append", "cl_notify", "cl_run", "re_run"}
    BY DEF UnlockedHandlersUnshared
  <2>1. t \in Loaders \cup {Worker}
    BY ThreadKinds DEF IInv, TypeOK, RegistrantPCs
  <2>2. pc[u] \notin CompletePCs
    BY <2>1, OneCompleter DEF IInv, CompletePCs
  <2>3. current_state = "ready"
    BY DEF IInv, LocationInv
  <2>4. pc[u] # "re_run"
    BY <2>3 DEF IInv, LocationInv
  <2>5. pc[u] # "rwl_append"
    BY <2>3, ThreadKinds DEF IInv, TypeOK, LocationInv, HandlerInv, Final,
         LoaderPCs, WorkerPCs, CompletePCs, RaisePCs, WaitPCs
  <2> QED BY <2>2, <2>4, <2>5 DEF CompletePCs
<1> QED BY Invariance, <1>1, PTL

\* No handler pair stays registered once the asset is settled and resolved.
THEOREM NothingStranded == Spec => []NoHandlerStranded
<1>1. IInv => NoHandlerStranded
  BY DEF IInv, HandlerInv, NoHandlerStranded, Resolving, CompletePCs, RaisePCs
<1> QED BY Invariance, <1>1, PTL

\* Whoever finds the asset ready, without the mutex, finds its data assigned.
THEOREM ReadyMeansData == Spec => []ReadyImpliesData
<1>1. IInv => ReadyImpliesData
  BY DEF IInv, LocationInv, ReadyImpliesData
<1> QED BY Invariance, <1>1, PTL

-----------------------------------------------------------------------------
(* Steps and the abstract promise                                          *)

\* What a step does to the atomic state: only the two setters reach a final one.
LEMMA StateSteps ==
  ASSUME IInv, Next
  PROVE  \/ current_state' = current_state
         \/ current_state \notin Final
<1> USE DEF Goto, object, loading, delivery, Final
<1>1. ASSUME NEW t \in Registrants, RunWhenLoaded(t)
      PROVE  current_state' = current_state
  BY <1>1 DEF RunWhenLoaded, RunWhenLoadedCheck, RunWhenLoadedLockedFinal,
       RunWhenLoadedLockedPending, RunWhenLoadedAppend, RunWhenLoadedCall
<1>2. ASSUME NEW t \in Loaders \cup {Worker}, CompleteLoading(t)
      PROVE  current_state' = current_state \/ current_state \notin Final
  BY <1>2, ThreadKinds DEF CompleteLoading, CompleteLoadingLock, CompleteLoadingSet,
       CompleteLoadingUnlock, CompleteLoadingNotify, CompleteLoadingRun,
       CompleteLoadingClear, IInv, LocationInv
<1>3. ASSUME NEW t \in Loaders \cup {Worker}, RaiseErrorFlag(t)
      PROVE  current_state' = current_state \/ current_state \notin Final
  BY <1>3, ThreadKinds DEF RaiseErrorFlag, RaiseErrorSet, RaiseErrorNotify,
       RaiseErrorLock, RaiseErrorRun, RaiseErrorClear, IInv, LocationInv
<1>4. ASSUME NEW l \in SyncLoaders, InternalWait(l) \/ WaitSpuriousWakeup(l)
      PROVE  current_state' = current_state
  BY <1>4 DEF InternalWait, WaitCheck, WaitLock, WaitPredicateTrue,
       WaitPredicateFalse, WaitBlock, WaitNotified, WaitSpuriousWakeup
<1>5. ASSUME NEW l \in Loaders, CallLoaders(l)
      PROVE  current_state' = current_state \/ current_state \notin Final
  BY <1>5 DEF CallLoaders, ObtainOwnership, LoseOwnership, LoaderFinishes,
       LoaderFails, LoaderDelegates, OwnerReraises, WaiterThrows
<1>6. ASSUME NEW outcome \in Final, WorkerStarts(outcome)
      PROVE  current_state' = current_state
  BY <1>6 DEF WorkerStarts
<1> QED BY <1>1, <1>2, <1>3, <1>4, <1>5, <1>6 DEF Next, Step

\* Whatever completes late or raises the error twice, a final state is kept.
THEOREM FinalForever == Spec => FinalStateKept
<1>1. IInv /\ [Next]_vars
        => [(current_state \in Final) => current_state' = current_state]_vars
  BY StateSteps DEF vars, object
<1> QED BY Invariance, <1>1, PTL DEF Spec, FinalStateKept

\* The answers a step adds: none, or one for a client that had none yet, with
\* the outcome the asset settled on.
LEMMA AnswerSteps ==
  ASSUME IInv, Next
  PROVE  \/ calls' = calls
         \/ \E r \in Registrants :
              /\ current_state \in Final /\ current_state' = current_state
              /\ \A outcome \in Final : calls[r][outcome] = 0
              /\ calls' = [calls EXCEPT ![r][current_state] = @ + 1]
<1> USE DEF Goto, object, loading, delivery, Final
<1>1. ASSUME NEW t \in Registrants, RunWhenLoaded(t)
      PROVE  \/ calls' = calls
             \/ /\ current_state \in Final /\ current_state' = current_state
                /\ \A outcome \in Final : calls[t][outcome] = 0
                /\ calls' = [calls EXCEPT ![t][current_state] = @ + 1]
  <2>1. ASSUME NEW outcome \in Final, RunWhenLoadedCall(t, outcome)
        PROVE  /\ current_state = outcome /\ current_state' = current_state
               /\ \A o \in Final : calls[t][o] = 0
               /\ calls' = [calls EXCEPT ![t][outcome] = @ + 1]
    BY <2>1, ThreadKinds DEF RunWhenLoadedCall, IInv, LocationInv, HandlerInv
  <2> QED BY <1>1, <2>1 DEF RunWhenLoaded, RunWhenLoadedCheck,
            RunWhenLoadedLockedFinal, RunWhenLoadedLockedPending, RunWhenLoadedAppend
<1>2. ASSUME NEW t \in Loaders \cup {Worker}, CompleteLoadingRun(t)
      PROVE  \E r \in Registrants :
               /\ current_state \in Final /\ current_state' = current_state
               /\ \A outcome \in Final : calls[r][outcome] = 0
               /\ calls' = [calls EXCEPT ![r][current_state] = @ + 1]
  <2>1. PICK r \in todo[t] : calls' = [calls EXCEPT ![r]["ready"] = @ + 1]
    BY <1>2 DEF CompleteLoadingRun
  <2>2. r \in Registrants /\ t \in Threads
    BY ThreadKinds DEF IInv, TypeOK
  <2>3. current_state = "ready" /\ current_state' = current_state
    BY <1>2, <2>2 DEF CompleteLoadingRun, IInv, LocationInv
  <2>4. \A outcome \in Final : calls[r][outcome] = 0
    BY <2>2 DEF IInv, HandlerInv
  <2> QED BY <2>1, <2>2, <2>3, <2>4
<1>3. ASSUME NEW t \in Loaders \cup {Worker}, RaiseErrorRun(t)
      PROVE  \E r \in Registrants :
               /\ current_state \in Final /\ current_state' = current_state
               /\ \A outcome \in Final : calls[r][outcome] = 0
               /\ calls' = [calls EXCEPT ![r][current_state] = @ + 1]
  <2>1. PICK r \in todo[t] : calls' = [calls EXCEPT ![r]["error"] = @ + 1]
    BY <1>3 DEF RaiseErrorRun
  <2>2. r \in Registrants /\ t \in Threads
    BY ThreadKinds DEF IInv, TypeOK
  <2>3. current_state = "error" /\ current_state' = current_state
    BY <1>3, <2>2 DEF RaiseErrorRun, IInv, LocationInv
  <2>4. \A outcome \in Final : calls[r][outcome] = 0
    BY <2>2 DEF IInv, HandlerInv
  <2> QED BY <2>1, <2>2, <2>3, <2>4
<1>4. ASSUME NEW t \in Loaders \cup {Worker}, CompleteLoading(t),
             ~CompleteLoadingRun(t)
      PROVE  calls' = calls
  BY <1>4 DEF CompleteLoading, CompleteLoadingLock, CompleteLoadingSet,
       CompleteLoadingUnlock, CompleteLoadingNotify, CompleteLoadingClear
<1>5. ASSUME NEW t \in Loaders \cup {Worker}, RaiseErrorFlag(t), ~RaiseErrorRun(t)
      PROVE  calls' = calls
  BY <1>5 DEF RaiseErrorFlag, RaiseErrorSet, RaiseErrorNotify, RaiseErrorLock,
       RaiseErrorClear
<1>6. ASSUME NEW l \in SyncLoaders, InternalWait(l) \/ WaitSpuriousWakeup(l)
      PROVE  calls' = calls
  BY <1>6 DEF InternalWait, WaitCheck, WaitLock, WaitPredicateTrue,
       WaitPredicateFalse, WaitBlock, WaitNotified, WaitSpuriousWakeup
<1>7. ASSUME NEW l \in Loaders, CallLoaders(l) PROVE calls' = calls
  BY <1>7 DEF CallLoaders, ObtainOwnership, LoseOwnership, LoaderFinishes,
       LoaderFails, LoaderDelegates, OwnerReraises, WaiterThrows
<1>8. ASSUME NEW outcome \in Final, WorkerStarts(outcome) PROVE calls' = calls
  BY <1>8 DEF WorkerStarts
<1> QED BY <1>1, <1>2, <1>3, <1>4, <1>5, <1>6, <1>7, <1>8 DEF Next, Step

\* The asset implements the promise made to its clients.
THEOREM Refinement == Spec => ImplementsPromise
<1>1. Init => Promise!Init
  BY DEF Init, Promise!Init, PromiseStatus, PromiseAnswered, Final
<1>2. ASSUME IInv, IInv', [Next]_vars PROVE [Promise!Next]_(Promise!vars)
  <2>1. CASE UNCHANGED vars
    BY <2>1 DEF vars, object, delivery, Promise!vars, PromiseStatus, PromiseAnswered
  <2>2. CASE Next /\ calls' = calls
    <3>1. PromiseAnswered' = PromiseAnswered
      BY <2>2 DEF PromiseAnswered
    <3>2. PromiseStatus' = PromiseStatus \/ Promise!Settle
      BY <1>2, <2>2, <3>1, StateSteps DEF PromiseStatus, Promise!Settle, Final,
          IInv, TypeOK
    <3> QED BY <3>1, <3>2 DEF Promise!vars, Promise!Next
  <2>3. ASSUME Next, NEW r \in Registrants,
               current_state \in Final, current_state' = current_state,
               \A outcome \in Final : calls[r][outcome] = 0,
               calls' = [calls EXCEPT ![r][current_state] = @ + 1]
        PROVE  Promise!Answer(r)
    <3>1. PromiseStatus = current_state /\ PromiseStatus' = PromiseStatus
      BY <2>3 DEF PromiseStatus
    <3>2. PromiseAnswered[r] = "nothing"
      BY <2>3 DEF PromiseAnswered, Final
    <3>3. /\ \A outcome \in Final :
               calls'[r][outcome] = IF outcome = current_state THEN 1 ELSE 0
          /\ \A s \in Registrants : s # r => calls'[s] = calls[s]
      BY <1>2, <2>3 DEF IInv, TypeOK
    <3>4. PromiseAnswered' = [PromiseAnswered EXCEPT ![r] = current_state]
      <4>1. \A s \in Registrants : s # r => PromiseAnswered'[s] = PromiseAnswered[s]
        BY <3>3 DEF PromiseAnswered
      <4>2. calls'[r][current_state] = 1
            /\ (current_state = "error" => calls'[r]["ready"] = 0)
        BY <2>3, <3>3 DEF Final
      <4>3. PromiseAnswered'[r] = current_state
        BY <2>3, <4>2 DEF PromiseAnswered, Final
      <4>4. /\ PromiseAnswered = [s \in Registrants |-> PromiseAnswered[s]]
            /\ PromiseAnswered' = [s \in Registrants |-> PromiseAnswered'[s]]
        BY DEF PromiseAnswered
      <4> HIDE DEF PromiseAnswered
      <4> QED BY <4>1, <4>3, <4>4
    <3> QED BY <2>3, <3>1, <3>2, <3>4 DEF Promise!Answer, Final
  <2> QED BY <1>2, <2>1, <2>2, <2>3, AnswerSteps DEF Promise!Next
<1> QED BY Invariance, <1>1, <1>2, PTL DEF Spec, ImplementsPromise, Promise!Spec

=============================================================================
