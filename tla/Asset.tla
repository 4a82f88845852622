------------------------------- MODULE Asset -------------------------------
(***************************************************************************)
(* One asset object of the asset system (mce::asset::asset) and the code   *)
(* that drives it: clients that register a handler pair, the threads that  *)
(* race for the load ownership, the condition variable the synchronous     *)
(* loaders wait on, and the pool worker an asset_loader may hand the       *)
(* completion to.  One action is one step between two synchronisation      *)
(* points of the code; the atomic current_state_ is read and written       *)
(* outside the mutex exactly where the code does so.                       *)
(***************************************************************************)
EXTENDS Naturals, FiniteSets

CONSTANTS
  Registrants,   \* threads calling run_when_loaded, each with one handler pair
  SyncLoaders,   \* threads in asset_manager::call_loaders_sync
  AsyncLoaders,  \* pool threads in the task posted by load_asset_async
  Worker,        \* the pool thread that completes an asset for a loader
  Outcomes,      \* how loading may end: a subset of {"ready", "error"}
  NoThread,      \* the value of a free mutex
  MaxSpurious    \* bound: how often a wait may wake up without a reason

Loaders == SyncLoaders \cup AsyncLoaders
Threads == Registrants \cup Loaders \cup {Worker}

ASSUME ThreadsAssumption ==
  /\ Registrants \cap Loaders = {}
  /\ SyncLoaders \cap AsyncLoaders = {}
  /\ Worker \notin Registrants \cup Loaders
  /\ NoThread \notin Threads
  /\ MaxSpurious \in Nat

ASSUME OutcomesAssumption ==
  /\ Outcomes \subseteq {"ready", "error"}
  /\ Outcomes # {}

VARIABLES
  current_state,       \* the atomic state
  modification_mutex,  \* its holder, or NoThread
  data,                \* TRUE once data_ and size_ are assigned
  handlers,            \* registrants in completion_handlers / error_handlers
  completed_cv,        \* threads blocked on the condition variable
  owner,               \* who won try_obtain_load_ownership, or NoThread
  delegated,           \* the owner's loader left the completion to Worker
  todo,                \* handlers the resolving thread has still to run
  spurious,            \* spurious wakeups so far
  calls,               \* history: outcomes delivered to each registrant
  ret,                 \* how call_loaders_sync ended for each loader
  pc                   \* where each thread is

object   == <<current_state, modification_mutex, data, handlers, completed_cv>>
loading  == <<owner, delegated, ret, spurious>>
delivery == <<todo, calls>>
vars     == <<object, loading, delivery, pc>>

Final == {"ready", "error"}

Goto(t, from, to) == /\ pc[t] = from
                     /\ pc' = [pc EXCEPT ![t] = to]

Free == modification_mutex = NoThread

Lock(t)   == Free /\ modification_mutex' = t
Unlock    == modification_mutex' = NoThread

InitialPC(t) == IF t \in Registrants THEN "rwl_check"
                ELSE IF t \in Loaders THEN "try_own" ELSE "idle"

Init ==
  /\ current_state = "initial"
  /\ modification_mutex = NoThread
  /\ data = FALSE
  /\ handlers = {}
  /\ completed_cv = {}
  /\ owner = NoThread
  /\ delegated = FALSE
  /\ spurious = 0
  /\ todo = [t \in Threads |-> {}]
  /\ calls = [r \in Registrants |-> [outcome \in Final |-> 0]]
  /\ ret = [l \in Loaders |-> "none"]
  /\ pc = [t \in Threads |-> InitialPC(t)]

-----------------------------------------------------------------------------
(* run_when_loaded                                                         *)

\* The unlocked check of current_state_.
RunWhenLoadedCheck(r) ==
  /\ Goto(r, "rwl_check", IF current_state = "ready" THEN "call_ready"
                          ELSE IF current_state = "error" THEN "call_error"
                          ELSE "rwl_lock")
  /\ UNCHANGED <<object, delivery, loading>>

\* The second check under the mutex found a final state: unlock, call directly.
RunWhenLoadedLockedFinal(r) ==
  /\ Free
  /\ current_state \in Final
  /\ Goto(r, "rwl_lock", IF current_state = "ready" THEN "call_ready"
                         ELSE "call_error")
  /\ UNCHANGED <<object, delivery, loading>>

\* Mutant: the state is not checked again under the mutex.
MutantNoSecondCheck(r) ==
  /\ Lock(r)
  /\ Goto(r, "rwl_lock", "rwl_append")
  /\ UNCHANGED <<current_state, data, handlers, completed_cv, delivery,
                 loading>>

\* The second check found the asset still pending: keep the mutex to append.
RunWhenLoadedLockedPending(r) ==
  /\ current_state \notin Final
  /\ Lock(r)
  /\ Goto(r, "rwl_lock", "rwl_append")
  /\ UNCHANGED <<current_state, data, handlers, completed_cv, delivery,
                 loading>>

\* Append the handler pair and leave the critical section.
RunWhenLoadedAppend(r) ==
  /\ Goto(r, "rwl_append", "done")
  /\ handlers' = handlers \cup {r}
  /\ Unlock
  /\ UNCHANGED <<current_state, data, completed_cv, delivery, loading>>

\* The direct call of one of the two handlers.
RunWhenLoadedCall(r, outcome) ==
  /\ Goto(r, IF outcome = "ready" THEN "call_ready" ELSE "call_error", "done")
  /\ calls' = [calls EXCEPT ![r][outcome] = @ + 1]
  /\ UNCHANGED <<object, todo, loading>>

-----------------------------------------------------------------------------
(* complete_loading                                                        *)

\* Take the mutex and assign data_ and size_.
CompleteLoadingLock(t) ==
  /\ Lock(t)
  /\ Goto(t, "cl_lock", "cl_set")
  /\ data' = TRUE
  /\ UNCHANGED <<current_state, handlers, completed_cv, delivery, loading>>

\* current_state_ = ready.
CompleteLoadingSet(t) ==
  /\ Goto(t, "cl_set", "cl_unlock")
  /\ current_state' = "ready"
  /\ UNCHANGED <<modification_mutex, data, handlers, completed_cv, delivery,
                 loading>>

CompleteLoadingUnlock(t) ==
  /\ Goto(t, "cl_unlock", "cl_notify")
  /\ Unlock
  /\ UNCHANGED <<current_state, data, handlers, completed_cv, delivery,
                 loading>>

\* Mutant: completed_cv is not notified.
MutantNoNotify(t) ==
  /\ Goto(t, "cl_notify", "cl_run")
  /\ todo' = [todo EXCEPT ![t] = handlers]
  /\ UNCHANGED <<object, calls, loading>>

\* notify_all; the loop over completion_handlers starts, without the mutex.
CompleteLoadingNotify(t) ==
  /\ Goto(t, "cl_notify", "cl_run")
  /\ completed_cv' = {}
  /\ todo' = [todo EXCEPT ![t] = handlers]
  /\ UNCHANGED <<current_state, modification_mutex, data, handlers, calls,
                 loading>>

CompleteLoadingRun(t) ==
  /\ pc[t] = "cl_run"
  /\ \E r \in todo[t] :
       /\ calls' = [calls EXCEPT ![r]["ready"] = @ + 1]
       /\ todo' = [todo EXCEPT ![t] = @ \ {r}]
  /\ UNCHANGED <<object, loading, pc>>

\* Both handler lists are cleared and the function returns to its caller.
CompleteLoadingClear(t) ==
  /\ todo[t] = {}
  /\ Goto(t, "cl_run", IF t \in SyncLoaders THEN "wait_check" ELSE "done")
  /\ handlers' = {}
  /\ UNCHANGED <<current_state, modification_mutex, data, completed_cv,
                 delivery, loading>>

-----------------------------------------------------------------------------
(* raise_error_flag                                                        *)

\* current_state_ = error, before the mutex is taken.
RaiseErrorSet(t) ==
  /\ Goto(t, "re_set", "re_notify")
  /\ current_state' = "error"
  /\ UNCHANGED <<modification_mutex, data, handlers, completed_cv, delivery,
                 loading>>

\* notify_all, still without the mutex.
RaiseErrorNotify(t) ==
  /\ Goto(t, "re_notify", "re_lock")
  /\ completed_cv' = {}
  /\ UNCHANGED <<current_state, modification_mutex, data, handlers, delivery,
                 loading>>

\* Mutant: the lists are cleared before the loop instead of after it.
MutantClearFirst(t) ==
  /\ Lock(t)
  /\ Goto(t, "re_lock", "re_run")
  /\ handlers' = {}
  /\ UNCHANGED <<current_state, data, completed_cv, delivery, loading>>

RaiseErrorLock(t) ==
  /\ Lock(t)
  /\ Goto(t, "re_lock", "re_run")
  /\ todo' = [todo EXCEPT ![t] = handlers]
  /\ UNCHANGED <<current_state, data, handlers, completed_cv, calls, loading>>

RaiseErrorRun(t) ==
  /\ pc[t] = "re_run"
  /\ \E r \in todo[t] :
       /\ calls' = [calls EXCEPT ![r]["error"] = @ + 1]
       /\ todo' = [todo EXCEPT ![t] = @ \ {r}]
  /\ UNCHANGED <<object, loading, pc>>

\* Clear both lists and unlock; call_loaders_sync then throws to its caller.
RaiseErrorClear(t) ==
  /\ todo[t] = {}
  /\ Goto(t, "re_run", "done")
  /\ handlers' = {}
  /\ Unlock
  /\ ret' = IF t \in SyncLoaders THEN [ret EXCEPT ![t] = "threw"] ELSE ret
  /\ UNCHANGED <<current_state, data, completed_cv, delivery, owner, delegated,
                 spurious>>

-----------------------------------------------------------------------------
(* internal_wait_for_complete                                              *)

\* The unlocked fast paths: return at ready, throw at error.
WaitCheck(l) ==
  /\ Goto(l, "wait_check", IF current_state = "ready" THEN "done"
                           ELSE IF current_state = "error" THEN "wait_threw"
                           ELSE "wait_lock")
  /\ ret' = IF current_state = "ready" THEN [ret EXCEPT ![l] = "asset"] ELSE ret
  /\ UNCHANGED <<object, delivery, owner, delegated, spurious>>

\* Take the mutex, at first or when waking up, to evaluate the predicate.
WaitLock(l) ==
  /\ Lock(l)
  /\ Goto(l, "wait_lock", "wait_pred")
  /\ UNCHANGED <<current_state, data, handlers, completed_cv, delivery,
                 loading>>

\* The predicate holds: unlock, then return or throw by check_error_flag.
WaitPredicateTrue(l) ==
  /\ current_state \in Final
  /\ Goto(l, "wait_pred", IF current_state = "ready" THEN "done" ELSE "wait_threw")
  /\ Unlock
  /\ ret' = IF current_state = "ready" THEN [ret EXCEPT ![l] = "asset"] ELSE ret
  /\ UNCHANGED <<current_state, data, handlers, completed_cv, delivery, owner,
                 delegated, spurious>>

\* The predicate is false: the thread is now committed to block.
WaitPredicateFalse(l) ==
  /\ current_state \notin Final
  /\ Goto(l, "wait_pred", "wait_block")
  /\ UNCHANGED <<object, delivery, loading>>

\* Release the mutex and start waiting for a notification, atomically.
WaitBlock(l) ==
  /\ Goto(l, "wait_block", "wait_blocked")
  /\ completed_cv' = completed_cv \cup {l}
  /\ Unlock
  /\ UNCHANGED <<current_state, data, handlers, delivery, loading>>

\* A notification removed the thread from the wait set.
WaitNotified(l) ==
  /\ l \notin completed_cv
  /\ Goto(l, "wait_blocked", "wait_lock")
  /\ UNCHANGED <<object, delivery, loading>>

\* The standard lets a condition variable wake a thread without a reason.
WaitSpuriousWakeup(l) ==
  /\ spurious < MaxSpurious
  /\ l \in completed_cv
  /\ Goto(l, "wait_blocked", "wait_lock")
  /\ completed_cv' = completed_cv \ {l}
  /\ spurious' = spurious + 1
  /\ UNCHANGED <<current_state, modification_mutex, data, handlers, delivery,
                 owner, delegated, ret>>

-----------------------------------------------------------------------------
(* call_loaders_sync and the task of load_asset_async                      *)

\* Mutant: a plain store in place of the compare-and-exchange.
MutantPlainStore(l) ==
  /\ Goto(l, "try_own", "own")
  /\ current_state' = "loading"
  /\ owner' = l
  /\ UNCHANGED <<modification_mutex, data, handlers, completed_cv, delivery,
                 delegated, ret, spurious>>

\* try_obtain_load_ownership succeeds for one thread.
ObtainOwnership(l) ==
  /\ current_state = "initial"
  /\ Goto(l, "try_own", "own")
  /\ current_state' = "loading"
  /\ owner' = l
  /\ UNCHANGED <<modification_mutex, data, handlers, completed_cv, delivery,
                 delegated, ret, spurious>>

\* It fails for the others: a synchronous call waits, a posted task is over.
LoseOwnership(l) ==
  /\ current_state # "initial"
  /\ Goto(l, "try_own", IF l \in SyncLoaders THEN "wait_check" ELSE "done")
  /\ UNCHANGED <<object, delivery, loading>>

\* A loader finds the content and calls finish_loading in start_load_asset.
LoaderFinishes(l) ==
  /\ "ready" \in Outcomes
  /\ Goto(l, "own", "cl_lock")
  /\ UNCHANGED <<object, delivery, loading>>

\* No loader knows the asset, or one of them throws.
LoaderFails(l) ==
  /\ "error" \in Outcomes
  /\ Goto(l, "own", "re_set")
  /\ UNCHANGED <<object, delivery, loading>>

\* start_load_asset returns true, the asset will be completed by Worker.
LoaderDelegates(l) ==
  /\ Goto(l, "own", IF l \in SyncLoaders THEN "wait_check" ELSE "done")
  /\ delegated' = TRUE
  /\ UNCHANGED <<object, delivery, owner, ret, spurious>>

\* Worker runs the handler that finishes the asset, or the one that fails it.
WorkerStarts(outcome) ==
  /\ delegated
  /\ outcome \in Outcomes
  /\ Goto(Worker, "idle", IF outcome = "ready" THEN "cl_lock" ELSE "re_set")
  /\ delegated' = FALSE
  /\ UNCHANGED <<object, delivery, owner, ret, spurious>>

\* The exception of the wait: in the owner it reaches the catch block, which
\* raises the error again; in the other threads it leaves call_loaders_sync.
OwnerReraises(l) ==
  /\ owner = l
  /\ Goto(l, "wait_threw", "re_set")
  /\ UNCHANGED <<object, delivery, loading>>

WaiterThrows(l) ==
  /\ owner # l
  /\ Goto(l, "wait_threw", "done")
  /\ ret' = [ret EXCEPT ![l] = "threw"]
  /\ UNCHANGED <<object, delivery, owner, delegated, spurious>>

-----------------------------------------------------------------------------
RunWhenLoaded(r) ==
  \/ RunWhenLoadedCheck(r)
  \/ RunWhenLoadedLockedFinal(r)
  \/ RunWhenLoadedLockedPending(r)
  \/ RunWhenLoadedAppend(r)
  \/ \E outcome \in Final : RunWhenLoadedCall(r, outcome)

CompleteLoading(t) ==
  \/ CompleteLoadingLock(t)
  \/ CompleteLoadingSet(t)
  \/ CompleteLoadingUnlock(t)
  \/ CompleteLoadingNotify(t)
  \/ CompleteLoadingRun(t)
  \/ CompleteLoadingClear(t)

RaiseErrorFlag(t) ==
  \/ RaiseErrorSet(t)
  \/ RaiseErrorNotify(t)
  \/ RaiseErrorLock(t)
  \/ RaiseErrorRun(t)
  \/ RaiseErrorClear(t)

InternalWait(l) ==
  \/ WaitCheck(l)
  \/ WaitLock(l)
  \/ WaitPredicateTrue(l)
  \/ WaitPredicateFalse(l)
  \/ WaitBlock(l)
  \/ WaitNotified(l)

CallLoaders(l) ==
  \/ ObtainOwnership(l)
  \/ LoseOwnership(l)
  \/ LoaderFinishes(l)
  \/ LoaderFails(l)
  \/ LoaderDelegates(l)
  \/ OwnerReraises(l)
  \/ WaiterThrows(l)

\* What a thread does of its own accord; a spurious wakeup is not among it.
Step(t) ==
  \/ t \in Registrants /\ RunWhenLoaded(t)
  \/ t \in Loaders /\ CallLoaders(t)
  \/ t \in SyncLoaders /\ InternalWait(t)
  \/ t = Worker /\ \E outcome \in Final : WorkerStarts(outcome)
  \/ t \in Loaders \cup {Worker} /\ (CompleteLoading(t) \/ RaiseErrorFlag(t))

Next ==
  \/ \E t \in Threads : Step(t)
  \/ \E l \in SyncLoaders : WaitSpuriousWakeup(l)

Spec == Init /\ [][Next]_vars

\* The operating system schedules every thread that can run.
FairSpec == Spec /\ \A t \in Threads : WF_vars(Step(t))

-----------------------------------------------------------------------------
(* Properties                                                              *)

RegistrantPCs == {"rwl_check", "rwl_lock", "rwl_append", "call_ready",
                  "call_error", "done"}
CompletePCs   == {"cl_lock", "cl_set", "cl_unlock", "cl_notify", "cl_run"}
RaisePCs      == {"re_set", "re_notify", "re_lock", "re_run"}
WaitPCs       == {"wait_check", "wait_lock", "wait_pred", "wait_block",
                  "wait_blocked", "wait_threw"}
LoaderPCs     == {"try_own", "own", "done"} \cup CompletePCs \cup RaisePCs
                   \cup WaitPCs
WorkerPCs     == {"idle", "done"} \cup CompletePCs \cup RaisePCs

\* Every variable stays in its range and every thread at a location of its code.
TypeOK ==
  /\ current_state \in {"initial", "loading", "ready", "error"}
  /\ modification_mutex \in Threads \cup {NoThread}
  /\ data \in BOOLEAN
  /\ handlers \subseteq Registrants
  /\ completed_cv \subseteq SyncLoaders
  /\ owner \in Loaders \cup {NoThread}
  /\ delegated \in BOOLEAN
  /\ spurious \in 0..MaxSpurious
  /\ todo \in [Threads -> SUBSET Registrants]
  /\ calls \in [Registrants -> [Final -> Nat]]
  /\ ret \in [Loaders -> {"none", "asset", "threw"}]
  /\ pc \in [Threads -> RegistrantPCs \cup LoaderPCs \cup WorkerPCs]
  /\ \A r \in Registrants : pc[r] \in RegistrantPCs
  /\ \A l \in Loaders : pc[l] \in LoaderPCs
  /\ pc[Worker] \in WorkerPCs

\* run_when_loaded's promise: of the pair a client passes, one handler runs, at
\* most once, and only the one of the state the asset really ended in.
HandlerRunsAtMostOnce ==
  \A r \in Registrants :
    /\ calls[r]["ready"] + calls[r]["error"] <= 1
    /\ calls[r]["ready"] = 1 => current_state = "ready" /\ data
    /\ calls[r]["error"] = 1 => current_state = "error"

\* "From here on the asset object is immutable and can therefore be read without
\* holding a lock" (complete_loading): while its loop reads the handler list
\* without the mutex, no other thread is where the code changes the lists.
UnlockedHandlersUnshared ==
  \A t, u \in Threads :
    t # u /\ pc[t] \in {"cl_notify", "cl_run"}
      => pc[u] \notin {"rwl_append", "cl_notify", "cl_run", "re_run"}

\* No handler is left behind: once the state is final and no thread is still
\* between setting it and clearing the lists, no handler pair is registered.
NoHandlerStranded ==
  (/\ current_state \in Final
   /\ \A t \in Threads : pc[t] \notin CompletePCs \cup RaisePCs)
    => handlers = {} /\ \A r \in Registrants : pc[r] # "rwl_append"

\* A thread that saw the asset ready, by the unlocked check or the wait, can
\* use its data without the mutex.
ReadyImpliesData ==
  (current_state = "ready" \/ \E l \in Loaders : ret[l] = "asset") => data

\* ready and error are final: nothing a late or repeated completion does, the
\* second raise_error_flag of the owner included, changes the state again.
FinalStateKept ==
  [][(current_state \in Final) => current_state' = current_state]_vars

\* A registered handler pair is eventually resolved: one of the two runs once
\* somebody owns the loading.
HandlerEventuallyRuns ==
  \A r \in Registrants :
    (owner # NoThread)
      ~> (pc[r] = "done" /\ calls[r]["ready"] + calls[r]["error"] = 1)

\* The abstract promise: what clients see of the asset is a state that settles
\* once and an answer that each of them gets once.
PromiseStatus == IF current_state \in Final THEN current_state ELSE "pending"

PromiseAnswered ==
  [r \in Registrants |-> IF calls[r]["ready"] > 0 THEN "ready"
                         ELSE IF calls[r]["error"] > 0 THEN "error" ELSE "nothing"]

Promise == INSTANCE AssetPromise WITH status <- PromiseStatus,
                                      answered <- PromiseAnswered

ImplementsPromise == Promise!Spec

\* "Load the given asset and block the calling thread until the asset is
\* loaded": every call_loaders_sync ends, with the asset or with an exception.
SyncLoadReturns == \A l \in SyncLoaders : <>(ret[l] # "none")

\* It is so unless the loading fails: complete_loading sets the state under the
\* mutex before it notifies, so a waiter cannot miss both.
SyncLoadReturnsOrFails ==
  \A l \in SyncLoaders : <>(ret[l] # "none" \/ current_state = "error")

-----------------------------------------------------------------------------
(* The inductive invariant                                                 *)

LockedPCs == {"rwl_append", "cl_set", "cl_unlock", "re_run", "wait_pred",
              "wait_block"}

\* The mutex is held by the one thread inside a critical section.
MutexInv == \A t \in Threads : pc[t] \in LockedPCs <=> modification_mutex = t

\* What a thread's location says of the state it read or wrote to get there.
LocationInv ==
  /\ \A t \in Threads :
       /\ pc[t] \in {"cl_lock", "cl_set"} => current_state = "loading"
       /\ pc[t] \in {"cl_unlock", "cl_notify", "cl_run", "call_ready"}
            => current_state = "ready"
       /\ pc[t] \in {"re_notify", "re_lock", "re_run", "call_error", "wait_threw"}
            => current_state = "error"
       /\ pc[t] \in {"own", "re_set"} => current_state \in {"loading", "error"}
       /\ pc[t] \in {"cl_set"} => data
  /\ current_state = "ready" => data
  /\ \A l \in Loaders : ret[l] = "asset" => current_state = "ready"

\* Who owns the loading, and how the completion passes to Worker.
OwnerInv ==
  /\ current_state = "initial" <=> owner = NoThread
  /\ owner = NoThread => /\ \A l \in Loaders : pc[l] = "try_own"
                         /\ pc[Worker] = "idle" /\ ~delegated
  /\ owner # NoThread => pc[owner] # "try_own"
  /\ \A l \in Loaders : l # owner => pc[l] \in {"try_own", "done"} \cup WaitPCs
  /\ delegated => current_state = "loading" /\ pc[Worker] = "idle"
  /\ pc[Worker] = "re_set" => current_state = "loading"
  /\ pc[Worker] # "idle" \/ delegated =>
       /\ owner # NoThread
       /\ pc[owner] \in {"done", "re_set"} \cup WaitPCs
                          \cup {"re_notify", "re_lock", "re_run"}
       /\ pc[owner] = "re_set" => current_state = "error"
  /\ owner # NoThread /\ pc[owner] = "own" => current_state = "loading"

\* Who still has to deal with the registered handlers of a settled asset.
Resolving == {t \in Threads : pc[t] \in {"cl_unlock", "cl_notify", "cl_run",
                                         "re_notify", "re_lock", "re_run"}}

\* A handler is called only from the lists or by its own thread, once.
HandlerInv ==
  /\ \A r \in Registrants :
       /\ pc[r] # "done" => /\ r \notin handlers
                            /\ \A outcome \in Final : calls[r][outcome] = 0
       /\ r \in handlers /\ (\A t \in Threads : pc[t] \notin {"cl_run", "re_run"})
            => \A outcome \in Final : calls[r][outcome] = 0
       /\ \A outcome \in Final :
            /\ calls[r][outcome] <= 1
            /\ calls[r][outcome] > 0 => current_state = outcome
  /\ \A t \in Threads :
       /\ pc[t] \notin {"cl_run", "re_run"} => todo[t] = {}
       /\ \A r \in todo[t] : /\ r \in handlers
                             /\ \A outcome \in Final : calls[r][outcome] = 0
  /\ current_state \in Final /\ handlers # {} => Resolving # {}
  /\ \A r \in Registrants : current_state \in Final /\ pc[r] = "rwl_append"
       => \E t \in Threads : pc[t] \in {"re_notify", "re_lock"}

\* The inductive invariant: no two threads settle or resolve the asset at once.
IInv == TypeOK /\ MutexInv /\ LocationInv /\ OwnerInv /\ HandlerInv

=============================================================================
