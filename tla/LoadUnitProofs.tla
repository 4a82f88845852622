--------------------------- MODULE LoadUnitProofs ---------------------------
(* Proofs about LoadUnit, for any assets, pinning clients and outcomes. *)
EXTENDS LoadUnit, TLAPS

\* What kinds of threads there are.
LEMMA Kinds ==
  /\ \A a \in AssetThreads : a \in Threads /\ a \in Clients /\ a \notin PinClients /\ a \notin Tasks
  /\ \A a \in SyncAssets : a \in AssetThreads /\ a \notin AsyncAssets
  /\ \A a \in AsyncAssets : a \in AssetThreads /\ a \notin SyncAssets
  /\ \A c \in PinClients : c \in Threads /\ c \in Clients /\ c \notin AssetThreads /\ c \notin Tasks
  /\ \A c \in Clients : c \in Threads /\ c \notin Tasks /\ (c \in AssetThreads \/ c \in PinClients)
  /\ \A a \in AssetThreads : a \in SyncAssets \/ a \in AsyncAssets
  /\ \A t \in Tasks : t \in Threads /\ t \notin Clients
  /\ \A t \in Threads : t \in Clients \/ t = PinTask \/ t = PayloadTask
  /\ PinTask \in Tasks /\ PayloadTask \in Tasks /\ PinTask # PayloadTask /\ NoThread \notin Threads
BY ThreadsAssumption DEF Threads, Tasks, Clients, AssetThreads

\* Obtaining the meta data preserves the invariant.
LEMMA ObtainMetaOwnershipSafe ==
  ASSUME UnitInv, NEW t \in AssetThreads \cup {PinTask}, ObtainMetaOwnership(t)
  PROVE  UnitInv'
<1> USE Kinds DEF UnitInv, Goto, Final, object, loading, delivery, Lock, Free, Unlock, Local,
   MetaReady
<1>1. TypeOK'
  BY DEF ObtainMetaOwnership, TypeOK, AssetPCs, MetaPCs, RaisePCs, PayloadPCs, WaitPCs,
     RegistrationPCs
<1>2. MutexInv'
  BY DEF ObtainMetaOwnership, TypeOK, MutexInv, LockedPCs, AssetPCs, MetaPCs, RaisePCs,
     PayloadPCs, WaitPCs, RegistrationPCs
<1>3. MetaInv'
  BY DEF ObtainMetaOwnership, TypeOK, MutexInv, LockedPCs, MetaInv, DataInv, AssetPCs, MetaPCs,
     RaisePCs, PayloadPCs, WaitPCs, RegistrationPCs
<1>4. DataInv'
  BY DEF ObtainMetaOwnership, TypeOK, MutexInv, LockedPCs, MetaInv, DataInv, AssetPCs, MetaPCs,
     RaisePCs, PayloadPCs, WaitPCs, RegistrationPCs
<1>5. HandlerInv'
  BY DEF ObtainMetaOwnership, TypeOK, MutexInv, LockedPCs, MetaInv, DataInv, HandlerInv,
     Registered, Told, AssetPCs, MetaPCs, RaisePCs, PayloadPCs, WaitPCs, RegistrationPCs
<1>6. ResolverInv'
  BY DEF ObtainMetaOwnership, TypeOK, MutexInv, LockedPCs, MetaInv, DataInv, HandlerInv,
     ResolverInv, AssetPCs, MetaPCs, RaisePCs, PayloadPCs, WaitPCs, RegistrationPCs
<1> QED BY <1>1, <1>2, <1>3, <1>4, <1>5, <1>6

\* Leaving the meta data to another thread preserves the invariant.
LEMMA LoseMetaOwnershipSafe ==
  ASSUME UnitInv, NEW t \in AssetThreads \cup {PinTask}, LoseMetaOwnership(t)
  PROVE  UnitInv'
<1> USE Kinds DEF UnitInv, Goto, Final, object, loading, delivery, Lock, Free, Unlock, Local,
   MetaReady
<1>1. TypeOK'
  BY DEF LoseMetaOwnership, TypeOK, AssetPCs, MetaPCs, RaisePCs, PayloadPCs, WaitPCs,
     RegistrationPCs
<1>2. MutexInv'
  BY DEF LoseMetaOwnership, TypeOK, MutexInv, LockedPCs, AssetPCs, MetaPCs, RaisePCs, PayloadPCs,
     WaitPCs, RegistrationPCs
<1>3. MetaInv'
  BY DEF LoseMetaOwnership, TypeOK, MutexInv, LockedPCs, MetaInv, DataInv, AssetPCs, MetaPCs,
     RaisePCs, PayloadPCs, WaitPCs, RegistrationPCs
<1>4. DataInv'
  BY DEF LoseMetaOwnership, TypeOK, MutexInv, LockedPCs, MetaInv, DataInv, AssetPCs, MetaPCs,
     RaisePCs, PayloadPCs, WaitPCs, RegistrationPCs
<1>5. HandlerInv'
  BY DEF LoseMetaOwnership, TypeOK, MutexInv, LockedPCs, MetaInv, DataInv, HandlerInv, Registered,
     Told, AssetPCs, MetaPCs, RaisePCs, PayloadPCs, WaitPCs, RegistrationPCs
<1>6. ResolverInv'
  BY DEF LoseMetaOwnership, TypeOK, MutexInv, LockedPCs, MetaInv, DataInv, HandlerInv,
     ResolverInv, AssetPCs, MetaPCs, RaisePCs, PayloadPCs, WaitPCs, RegistrationPCs
<1> QED BY <1>1, <1>2, <1>3, <1>4, <1>5, <1>6

\* Reading the file of the meta data preserves the invariant.
LEMMA ReadMetaFileSafe ==
  ASSUME UnitInv, NEW t \in AssetThreads \cup {PinTask}, ReadMetaFile(t)
  PROVE  UnitInv'
<1> USE Kinds DEF UnitInv, Goto, Final, object, loading, delivery, Lock, Free, Unlock, Local,
   MetaReady
<1>1. TypeOK'
  BY DEF ReadMetaFile, TypeOK, AssetPCs, MetaPCs, RaisePCs, PayloadPCs, WaitPCs, RegistrationPCs
<1>2. MutexInv'
  BY DEF ReadMetaFile, TypeOK, MutexInv, LockedPCs, AssetPCs, MetaPCs, RaisePCs, PayloadPCs,
     WaitPCs, RegistrationPCs
<1>3. MetaInv'
  BY DEF ReadMetaFile, TypeOK, MutexInv, LockedPCs, MetaInv, DataInv, AssetPCs, MetaPCs, RaisePCs,
     PayloadPCs, WaitPCs, RegistrationPCs
<1>4. DataInv'
  BY DEF ReadMetaFile, TypeOK, MutexInv, LockedPCs, MetaInv, DataInv, AssetPCs, MetaPCs, RaisePCs,
     PayloadPCs, WaitPCs, RegistrationPCs
<1>5. HandlerInv'
  BY DEF ReadMetaFile, TypeOK, MutexInv, LockedPCs, MetaInv, DataInv, HandlerInv, Registered,
     Told, AssetPCs, MetaPCs, RaisePCs, PayloadPCs, WaitPCs, RegistrationPCs
<1>6. ResolverInv'
  BY DEF ReadMetaFile, TypeOK, MutexInv, LockedPCs, MetaInv, DataInv, HandlerInv, ResolverInv,
     AssetPCs, MetaPCs, RaisePCs, PayloadPCs, WaitPCs, RegistrationPCs
<1> QED BY <1>1, <1>2, <1>3, <1>4, <1>5, <1>6

\* Reading the meta data under the mutex preserves the invariant.
LEMMA LoadMetaDataLockSafe ==
  ASSUME UnitInv, NEW t \in AssetThreads \cup {PinTask}, LoadMetaDataLock(t)
  PROVE  UnitInv'
<1> USE Kinds DEF UnitInv, Goto, Final, object, loading, delivery, Lock, Free, Unlock, Local,
   MetaReady
<1>1. TypeOK'
  <2>1. /\ pc' = [pc EXCEPT ![t] = pc'[t]] /\ pc'[t] \in {"lm_set", "lm_raise"}
        /\ modification_mutex' = t /\ meta_data' \in {"partial", "complete"}
    BY DEF LoadMetaDataLock, TypeOK
  <2> QED BY <2>1 DEF LoadMetaDataLock, TypeOK, AssetPCs, MetaPCs, RaisePCs, PayloadPCs, WaitPCs,
     RegistrationPCs
<1>2. MutexInv'
  BY DEF LoadMetaDataLock, TypeOK, MutexInv, LockedPCs, AssetPCs, MetaPCs, RaisePCs, PayloadPCs,
     WaitPCs, RegistrationPCs
<1>3. MetaInv'
  BY DEF LoadMetaDataLock, TypeOK, MutexInv, LockedPCs, MetaInv, DataInv, AssetPCs, MetaPCs,
     RaisePCs, PayloadPCs, WaitPCs, RegistrationPCs
<1>4. DataInv'
  BY DEF LoadMetaDataLock, TypeOK, MutexInv, LockedPCs, MetaInv, DataInv, AssetPCs, MetaPCs,
     RaisePCs, PayloadPCs, WaitPCs, RegistrationPCs
<1>5. HandlerInv'
  BY DEF LoadMetaDataLock, TypeOK, MutexInv, LockedPCs, MetaInv, DataInv, HandlerInv, Registered,
     Told, AssetPCs, MetaPCs, RaisePCs, PayloadPCs, WaitPCs, RegistrationPCs
<1>6. ResolverInv'
  BY DEF LoadMetaDataLock, TypeOK, MutexInv, LockedPCs, MetaInv, DataInv, HandlerInv, ResolverInv,
     AssetPCs, MetaPCs, RaisePCs, PayloadPCs, WaitPCs, RegistrationPCs
<1> QED BY <1>1, <1>2, <1>3, <1>4, <1>5, <1>6

\* The end of load_meta_data preserves the invariant.
LEMMA LoadMetaDataSetSafe ==
  ASSUME UnitInv, NEW t \in AssetThreads \cup {PinTask}, LoadMetaDataSet(t)
  PROVE  UnitInv'
<1> USE Kinds DEF UnitInv, Goto, Final, object, loading, delivery, Lock, Free, Unlock, Local,
   MetaReady
<1>1. TypeOK'
  BY DEF LoadMetaDataSet, TypeOK, AssetPCs, MetaPCs, RaisePCs, PayloadPCs, WaitPCs, RegistrationPCs
<1>2. MutexInv'
  BY DEF LoadMetaDataSet, TypeOK, MutexInv, LockedPCs, AssetPCs, MetaPCs, RaisePCs, PayloadPCs,
     WaitPCs, RegistrationPCs
<1>3. MetaInv'
  BY DEF LoadMetaDataSet, TypeOK, MutexInv, LockedPCs, MetaInv, DataInv, AssetPCs, MetaPCs,
     RaisePCs, PayloadPCs, WaitPCs, RegistrationPCs
<1>4. DataInv'
  BY DEF LoadMetaDataSet, TypeOK, MutexInv, LockedPCs, MetaInv, DataInv, AssetPCs, MetaPCs,
     RaisePCs, PayloadPCs, WaitPCs, RegistrationPCs
<1>5. HandlerInv'
  BY DEF LoadMetaDataSet, TypeOK, MutexInv, LockedPCs, MetaInv, DataInv, HandlerInv, Registered,
     Told, AssetPCs, MetaPCs, RaisePCs, PayloadPCs, WaitPCs, RegistrationPCs
<1>6. ResolverInv'
  BY DEF LoadMetaDataSet, TypeOK, MutexInv, LockedPCs, MetaInv, DataInv, HandlerInv, ResolverInv,
     AssetPCs, MetaPCs, RaisePCs, PayloadPCs, WaitPCs, RegistrationPCs
<1> QED BY <1>1, <1>2, <1>3, <1>4, <1>5, <1>6

\* Notifying those who wait for the meta data preserves the invariant.
LEMMA LoadMetaDataNotifySafe ==
  ASSUME UnitInv, NEW t \in AssetThreads \cup {PinTask}, LoadMetaDataNotify(t)
  PROVE  UnitInv'
<1> USE Kinds DEF UnitInv, Goto, Final, object, loading, delivery, Lock, Free, Unlock, Local,
   MetaReady
<1>1. TypeOK'
  BY DEF LoadMetaDataNotify, TypeOK, AssetPCs, MetaPCs, RaisePCs, PayloadPCs, WaitPCs,
     RegistrationPCs
<1>2. MutexInv'
  BY DEF LoadMetaDataNotify, TypeOK, MutexInv, LockedPCs, AssetPCs, MetaPCs, RaisePCs, PayloadPCs,
     WaitPCs, RegistrationPCs
<1>3. MetaInv'
  BY DEF LoadMetaDataNotify, TypeOK, MutexInv, LockedPCs, MetaInv, DataInv, AssetPCs, MetaPCs,
     RaisePCs, PayloadPCs, WaitPCs, RegistrationPCs
<1>4. DataInv'
  BY DEF LoadMetaDataNotify, TypeOK, MutexInv, LockedPCs, MetaInv, DataInv, AssetPCs, MetaPCs,
     RaisePCs, PayloadPCs, WaitPCs, RegistrationPCs
<1>5. HandlerInv'
  BY DEF LoadMetaDataNotify, TypeOK, MutexInv, LockedPCs, MetaInv, DataInv, HandlerInv,
     Registered, Told, AssetPCs, MetaPCs, RaisePCs, PayloadPCs, WaitPCs, RegistrationPCs
<1>6. ResolverInv'
  BY DEF LoadMetaDataNotify, TypeOK, MutexInv, LockedPCs, MetaInv, DataInv, HandlerInv,
     ResolverInv, AssetPCs, MetaPCs, RaisePCs, PayloadPCs, WaitPCs, RegistrationPCs
<1> QED BY <1>1, <1>2, <1>3, <1>4, <1>5, <1>6

\* Raising the error of a corrupt file preserves the invariant.
LEMMA LoadMetaDataRaiseSafe ==
  ASSUME UnitInv, NEW t \in AssetThreads \cup {PinTask}, LoadMetaDataRaise(t)
  PROVE  UnitInv'
<1> USE Kinds DEF UnitInv, Goto, Final, object, loading, delivery, Lock, Free, Unlock, Local,
   MetaReady
<1>1. TypeOK'
  BY DEF LoadMetaDataRaise, TypeOK, AssetPCs, MetaPCs, RaisePCs, PayloadPCs, WaitPCs,
     RegistrationPCs
<1>2. MutexInv'
  BY DEF LoadMetaDataRaise, TypeOK, MutexInv, LockedPCs, AssetPCs, MetaPCs, RaisePCs, PayloadPCs,
     WaitPCs, RegistrationPCs
<1>3. MetaInv'
  BY DEF LoadMetaDataRaise, TypeOK, MutexInv, LockedPCs, MetaInv, DataInv, AssetPCs, MetaPCs,
     RaisePCs, PayloadPCs, WaitPCs, RegistrationPCs
<1>4. DataInv'
  BY DEF LoadMetaDataRaise, TypeOK, MutexInv, LockedPCs, MetaInv, DataInv, AssetPCs, MetaPCs,
     RaisePCs, PayloadPCs, WaitPCs, RegistrationPCs
<1>5. HandlerInv'
  BY DEF LoadMetaDataRaise, TypeOK, MutexInv, LockedPCs, MetaInv, DataInv, HandlerInv, Registered,
     Told, AssetPCs, MetaPCs, RaisePCs, PayloadPCs, WaitPCs, RegistrationPCs
<1>6. ResolverInv'
  BY DEF LoadMetaDataRaise, TypeOK, MutexInv, LockedPCs, MetaInv, DataInv, HandlerInv,
     ResolverInv, AssetPCs, MetaPCs, RaisePCs, PayloadPCs, WaitPCs, RegistrationPCs
<1> QED BY <1>1, <1>2, <1>3, <1>4, <1>5, <1>6

\* Locking the mutex twice preserves the invariant.
LEMMA LoadMetaDataRelockSafe ==
  ASSUME UnitInv, NEW t \in AssetThreads \cup {PinTask}, LoadMetaDataRelock(t)
  PROVE  UnitInv'
<1> USE Kinds DEF UnitInv, Goto, Final, object, loading, delivery, Lock, Free, Unlock, Local,
   MetaReady
<1>1. TypeOK'
  BY DEF LoadMetaDataRelock, TypeOK, AssetPCs, MetaPCs, RaisePCs, PayloadPCs, WaitPCs,
     RegistrationPCs
<1>2. MutexInv'
  BY DEF LoadMetaDataRelock, TypeOK, MutexInv, LockedPCs, AssetPCs, MetaPCs, RaisePCs, PayloadPCs,
     WaitPCs, RegistrationPCs
<1>3. MetaInv'
  BY DEF LoadMetaDataRelock, TypeOK, MutexInv, LockedPCs, MetaInv, DataInv, AssetPCs, MetaPCs,
     RaisePCs, PayloadPCs, WaitPCs, RegistrationPCs
<1>4. DataInv'
  BY DEF LoadMetaDataRelock, TypeOK, MutexInv, LockedPCs, MetaInv, DataInv, AssetPCs, MetaPCs,
     RaisePCs, PayloadPCs, WaitPCs, RegistrationPCs
<1>5. HandlerInv'
  BY DEF LoadMetaDataRelock, TypeOK, MutexInv, LockedPCs, MetaInv, DataInv, HandlerInv,
     Registered, Told, AssetPCs, MetaPCs, RaisePCs, PayloadPCs, WaitPCs, RegistrationPCs
<1>6. ResolverInv'
  BY DEF LoadMetaDataRelock, TypeOK, MutexInv, LockedPCs, MetaInv, DataInv, HandlerInv,
     ResolverInv, AssetPCs, MetaPCs, RaisePCs, PayloadPCs, WaitPCs, RegistrationPCs
<1> QED BY <1>1, <1>2, <1>3, <1>4, <1>5, <1>6

\* Posting the payload task preserves the invariant.
LEMMA StartPayloadLoadingSafe ==
  ASSUME UnitInv, NEW t \in AssetThreads \cup {PinTask}, StartPayloadLoading(t)
  PROVE  UnitInv'
<1> USE Kinds DEF UnitInv, Goto, Final, object, loading, delivery, Lock, Free, Unlock, Local,
   MetaReady
<1>1. TypeOK'
  BY DEF StartPayloadLoading, TypeOK, AssetPCs, MetaPCs, RaisePCs, PayloadPCs, WaitPCs,
     RegistrationPCs
<1>2. MutexInv'
  BY DEF StartPayloadLoading, TypeOK, MutexInv, LockedPCs, AssetPCs, MetaPCs, RaisePCs,
     PayloadPCs, WaitPCs, RegistrationPCs
<1>3. MetaInv'
  BY DEF StartPayloadLoading, TypeOK, MutexInv, LockedPCs, MetaInv, DataInv, AssetPCs, MetaPCs,
     RaisePCs, PayloadPCs, WaitPCs, RegistrationPCs
<1>4. DataInv'
  BY DEF StartPayloadLoading, TypeOK, MutexInv, LockedPCs, MetaInv, DataInv, AssetPCs, MetaPCs,
     RaisePCs, PayloadPCs, WaitPCs, RegistrationPCs
<1>5. HandlerInv'
  BY DEF StartPayloadLoading, TypeOK, MutexInv, LockedPCs, MetaInv, DataInv, HandlerInv,
     Registered, Told, AssetPCs, MetaPCs, RaisePCs, PayloadPCs, WaitPCs, RegistrationPCs
<1>6. ResolverInv'
  BY DEF StartPayloadLoading, TypeOK, MutexInv, LockedPCs, MetaInv, DataInv, HandlerInv,
     ResolverInv, AssetPCs, MetaPCs, RaisePCs, PayloadPCs, WaitPCs, RegistrationPCs
<1> QED BY <1>1, <1>2, <1>3, <1>4, <1>5, <1>6

\* The unlocked check of a waiter preserves the invariant.
LEMMA WaitCheckSafe ==
  ASSUME UnitInv, NEW a \in AssetThreads, WaitCheck(a)
  PROVE  UnitInv'
<1> USE Kinds DEF UnitInv, Goto, Final, object, loading, delivery, Lock, Free, Unlock, Local,
   MetaReady
<1>1. TypeOK'
  BY DEF WaitCheck, TypeOK, AssetPCs, MetaPCs, RaisePCs, PayloadPCs, WaitPCs, RegistrationPCs
<1>2. MutexInv'
  BY DEF WaitCheck, TypeOK, MutexInv, LockedPCs, AssetPCs, MetaPCs, RaisePCs, PayloadPCs, WaitPCs,
     RegistrationPCs
<1>3. MetaInv'
  BY DEF WaitCheck, TypeOK, MutexInv, LockedPCs, MetaInv, DataInv, AssetPCs, MetaPCs, RaisePCs,
     PayloadPCs, WaitPCs, RegistrationPCs
<1>4. DataInv'
  BY DEF WaitCheck, TypeOK, MutexInv, LockedPCs, MetaInv, DataInv, AssetPCs, MetaPCs, RaisePCs,
     PayloadPCs, WaitPCs, RegistrationPCs
<1>5. HandlerInv'
  BY DEF WaitCheck, TypeOK, MutexInv, LockedPCs, MetaInv, DataInv, HandlerInv, Registered, Told,
     AssetPCs, MetaPCs, RaisePCs, PayloadPCs, WaitPCs, RegistrationPCs
<1>6. ResolverInv'
  BY DEF WaitCheck, TypeOK, MutexInv, LockedPCs, MetaInv, DataInv, HandlerInv, ResolverInv,
     AssetPCs, MetaPCs, RaisePCs, PayloadPCs, WaitPCs, RegistrationPCs
<1> QED BY <1>1, <1>2, <1>3, <1>4, <1>5, <1>6

\* Locking the mutex to wait preserves the invariant.
LEMMA WaitLockSafe ==
  ASSUME UnitInv, NEW a \in AssetThreads, WaitLock(a)
  PROVE  UnitInv'
<1> USE Kinds DEF UnitInv, Goto, Final, object, loading, delivery, Lock, Free, Unlock, Local,
   MetaReady
<1>1. TypeOK'
  BY DEF WaitLock, TypeOK, AssetPCs, MetaPCs, RaisePCs, PayloadPCs, WaitPCs, RegistrationPCs
<1>2. MutexInv'
  BY DEF WaitLock, TypeOK, MutexInv, LockedPCs, AssetPCs, MetaPCs, RaisePCs, PayloadPCs, WaitPCs,
     RegistrationPCs
<1>3. MetaInv'
  BY DEF WaitLock, TypeOK, MutexInv, LockedPCs, MetaInv, DataInv, AssetPCs, MetaPCs, RaisePCs,
     PayloadPCs, WaitPCs, RegistrationPCs
<1>4. DataInv'
  BY DEF WaitLock, TypeOK, MutexInv, LockedPCs, MetaInv, DataInv, AssetPCs, MetaPCs, RaisePCs,
     PayloadPCs, WaitPCs, RegistrationPCs
<1>5. HandlerInv'
  BY DEF WaitLock, TypeOK, MutexInv, LockedPCs, MetaInv, DataInv, HandlerInv, Registered, Told,
     AssetPCs, MetaPCs, RaisePCs, PayloadPCs, WaitPCs, RegistrationPCs
<1>6. ResolverInv'
  BY DEF WaitLock, TypeOK, MutexInv, LockedPCs, MetaInv, DataInv, HandlerInv, ResolverInv,
     AssetPCs, MetaPCs, RaisePCs, PayloadPCs, WaitPCs, RegistrationPCs
<1> QED BY <1>1, <1>2, <1>3, <1>4, <1>5, <1>6

\* The end of a wait preserves the invariant.
LEMMA WaitPredicateTrueSafe ==
  ASSUME UnitInv, NEW a \in AssetThreads, WaitPredicateTrue(a)
  PROVE  UnitInv'
<1> USE Kinds DEF UnitInv, Goto, Final, object, loading, delivery, Lock, Free, Unlock, Local,
   MetaReady
<1>1. TypeOK'
  BY DEF WaitPredicateTrue, TypeOK, AssetPCs, MetaPCs, RaisePCs, PayloadPCs, WaitPCs,
     RegistrationPCs
<1>2. MutexInv'
  BY DEF WaitPredicateTrue, TypeOK, MutexInv, LockedPCs, AssetPCs, MetaPCs, RaisePCs, PayloadPCs,
     WaitPCs, RegistrationPCs
<1>3. MetaInv'
  BY DEF WaitPredicateTrue, TypeOK, MutexInv, LockedPCs, MetaInv, DataInv, AssetPCs, MetaPCs,
     RaisePCs, PayloadPCs, WaitPCs, RegistrationPCs
<1>4. DataInv'
  BY DEF WaitPredicateTrue, TypeOK, MutexInv, LockedPCs, MetaInv, DataInv, AssetPCs, MetaPCs,
     RaisePCs, PayloadPCs, WaitPCs, RegistrationPCs
<1>5. HandlerInv'
  BY DEF WaitPredicateTrue, TypeOK, MutexInv, LockedPCs, MetaInv, DataInv, HandlerInv, Registered,
     Told, AssetPCs, MetaPCs, RaisePCs, PayloadPCs, WaitPCs, RegistrationPCs
<1>6. ResolverInv'
  BY DEF WaitPredicateTrue, TypeOK, MutexInv, LockedPCs, MetaInv, DataInv, HandlerInv,
     ResolverInv, AssetPCs, MetaPCs, RaisePCs, PayloadPCs, WaitPCs, RegistrationPCs
<1> QED BY <1>1, <1>2, <1>3, <1>4, <1>5, <1>6

\* Going on to wait preserves the invariant.
LEMMA WaitPredicateFalseSafe ==
  ASSUME UnitInv, NEW a \in AssetThreads, WaitPredicateFalse(a)
  PROVE  UnitInv'
<1> USE Kinds DEF UnitInv, Goto, Final, object, loading, delivery, Lock, Free, Unlock, Local,
   MetaReady
<1>1. TypeOK'
  BY DEF WaitPredicateFalse, TypeOK, AssetPCs, MetaPCs, RaisePCs, PayloadPCs, WaitPCs,
     RegistrationPCs
<1>2. MutexInv'
  BY DEF WaitPredicateFalse, TypeOK, MutexInv, LockedPCs, AssetPCs, MetaPCs, RaisePCs, PayloadPCs,
     WaitPCs, RegistrationPCs
<1>3. MetaInv'
  BY DEF WaitPredicateFalse, TypeOK, MutexInv, LockedPCs, MetaInv, DataInv, AssetPCs, MetaPCs,
     RaisePCs, PayloadPCs, WaitPCs, RegistrationPCs
<1>4. DataInv'
  BY DEF WaitPredicateFalse, TypeOK, MutexInv, LockedPCs, MetaInv, DataInv, AssetPCs, MetaPCs,
     RaisePCs, PayloadPCs, WaitPCs, RegistrationPCs
<1>5. HandlerInv'
  BY DEF WaitPredicateFalse, TypeOK, MutexInv, LockedPCs, MetaInv, DataInv, HandlerInv,
     Registered, Told, AssetPCs, MetaPCs, RaisePCs, PayloadPCs, WaitPCs, RegistrationPCs
<1>6. ResolverInv'
  BY DEF WaitPredicateFalse, TypeOK, MutexInv, LockedPCs, MetaInv, DataInv, HandlerInv,
     ResolverInv, AssetPCs, MetaPCs, RaisePCs, PayloadPCs, WaitPCs, RegistrationPCs
<1> QED BY <1>1, <1>2, <1>3, <1>4, <1>5, <1>6

\* Blocking on the condition variable preserves the invariant.
LEMMA WaitBlockSafe ==
  ASSUME UnitInv, NEW a \in AssetThreads, WaitBlock(a)
  PROVE  UnitInv'
<1> USE Kinds DEF UnitInv, Goto, Final, object, loading, delivery, Lock, Free, Unlock, Local,
   MetaReady
<1>1. TypeOK'
  BY DEF WaitBlock, TypeOK, AssetPCs, MetaPCs, RaisePCs, PayloadPCs, WaitPCs, RegistrationPCs
<1>2. MutexInv'
  BY DEF WaitBlock, TypeOK, MutexInv, LockedPCs, AssetPCs, MetaPCs, RaisePCs, PayloadPCs, WaitPCs,
     RegistrationPCs
<1>3. MetaInv'
  BY DEF WaitBlock, TypeOK, MutexInv, LockedPCs, MetaInv, DataInv, AssetPCs, MetaPCs, RaisePCs,
     PayloadPCs, WaitPCs, RegistrationPCs
<1>4. DataInv'
  BY DEF WaitBlock, TypeOK, MutexInv, LockedPCs, MetaInv, DataInv, AssetPCs, MetaPCs, RaisePCs,
     PayloadPCs, WaitPCs, RegistrationPCs
<1>5. HandlerInv'
  BY DEF WaitBlock, TypeOK, MutexInv, LockedPCs, MetaInv, DataInv, HandlerInv, Registered, Told,
     AssetPCs, MetaPCs, RaisePCs, PayloadPCs, WaitPCs, RegistrationPCs
<1>6. ResolverInv'
  BY DEF WaitBlock, TypeOK, MutexInv, LockedPCs, MetaInv, DataInv, HandlerInv, ResolverInv,
     AssetPCs, MetaPCs, RaisePCs, PayloadPCs, WaitPCs, RegistrationPCs
<1> QED BY <1>1, <1>2, <1>3, <1>4, <1>5, <1>6

\* Waking up preserves the invariant.
LEMMA WaitNotifiedSafe ==
  ASSUME UnitInv, NEW a \in AssetThreads, WaitNotified(a)
  PROVE  UnitInv'
<1> USE Kinds DEF UnitInv, Goto, Final, object, loading, delivery, Lock, Free, Unlock, Local,
   MetaReady
<1>1. TypeOK'
  BY DEF WaitNotified, TypeOK, AssetPCs, MetaPCs, RaisePCs, PayloadPCs, WaitPCs, RegistrationPCs
<1>2. MutexInv'
  BY DEF WaitNotified, TypeOK, MutexInv, LockedPCs, AssetPCs, MetaPCs, RaisePCs, PayloadPCs,
     WaitPCs, RegistrationPCs
<1>3. MetaInv'
  BY DEF WaitNotified, TypeOK, MutexInv, LockedPCs, MetaInv, DataInv, AssetPCs, MetaPCs, RaisePCs,
     PayloadPCs, WaitPCs, RegistrationPCs
<1>4. DataInv'
  BY DEF WaitNotified, TypeOK, MutexInv, LockedPCs, MetaInv, DataInv, AssetPCs, MetaPCs, RaisePCs,
     PayloadPCs, WaitPCs, RegistrationPCs
<1>5. HandlerInv'
  BY DEF WaitNotified, TypeOK, MutexInv, LockedPCs, MetaInv, DataInv, HandlerInv, Registered,
     Told, AssetPCs, MetaPCs, RaisePCs, PayloadPCs, WaitPCs, RegistrationPCs
<1>6. ResolverInv'
  BY DEF WaitNotified, TypeOK, MutexInv, LockedPCs, MetaInv, DataInv, HandlerInv, ResolverInv,
     AssetPCs, MetaPCs, RaisePCs, PayloadPCs, WaitPCs, RegistrationPCs
<1> QED BY <1>1, <1>2, <1>3, <1>4, <1>5, <1>6

\* Finding out about the meta data preserves the invariant.
LEMMA PrepareCheckSafe ==
  ASSUME UnitInv, NEW a \in AssetThreads, PrepareCheck(a)
  PROVE  UnitInv'
<1> USE Kinds DEF UnitInv, Goto, Final, object, loading, delivery, Lock, Free, Unlock, Local,
   MetaReady
<1>1. TypeOK'
  BY DEF PrepareCheck, TypeOK, AssetPCs, MetaPCs, RaisePCs, PayloadPCs, WaitPCs, RegistrationPCs
<1>2. MutexInv'
  BY DEF PrepareCheck, TypeOK, MutexInv, LockedPCs, AssetPCs, MetaPCs, RaisePCs, PayloadPCs,
     WaitPCs, RegistrationPCs
<1>3. MetaInv'
  BY DEF PrepareCheck, TypeOK, MutexInv, LockedPCs, MetaInv, DataInv, AssetPCs, MetaPCs, RaisePCs,
     PayloadPCs, WaitPCs, RegistrationPCs
<1>4. DataInv'
  BY DEF PrepareCheck, TypeOK, MutexInv, LockedPCs, MetaInv, DataInv, AssetPCs, MetaPCs, RaisePCs,
     PayloadPCs, WaitPCs, RegistrationPCs
<1>5. HandlerInv'
  BY DEF PrepareCheck, TypeOK, MutexInv, LockedPCs, MetaInv, DataInv, HandlerInv, Registered,
     Told, AssetPCs, MetaPCs, RaisePCs, PayloadPCs, WaitPCs, RegistrationPCs
<1>6. ResolverInv'
  BY DEF PrepareCheck, TypeOK, MutexInv, LockedPCs, MetaInv, DataInv, HandlerInv, ResolverInv,
     AssetPCs, MetaPCs, RaisePCs, PayloadPCs, WaitPCs, RegistrationPCs
<1> QED BY <1>1, <1>2, <1>3, <1>4, <1>5, <1>6

\* The check after loading the meta data preserves the invariant.
LEMMA CheckMetaErrorSafe ==
  ASSUME UnitInv, NEW a \in AssetThreads, CheckMetaError(a)
  PROVE  UnitInv'
<1> USE Kinds DEF UnitInv, Goto, Final, object, loading, delivery, Lock, Free, Unlock, Local,
   MetaReady
<1>1. TypeOK'
  BY DEF CheckMetaError, TypeOK, AssetPCs, MetaPCs, RaisePCs, PayloadPCs, WaitPCs, RegistrationPCs
<1>2. MutexInv'
  BY DEF CheckMetaError, TypeOK, MutexInv, LockedPCs, AssetPCs, MetaPCs, RaisePCs, PayloadPCs,
     WaitPCs, RegistrationPCs
<1>3. MetaInv'
  BY DEF CheckMetaError, TypeOK, MutexInv, LockedPCs, MetaInv, DataInv, AssetPCs, MetaPCs,
     RaisePCs, PayloadPCs, WaitPCs, RegistrationPCs
<1>4. DataInv'
  BY DEF CheckMetaError, TypeOK, MutexInv, LockedPCs, MetaInv, DataInv, AssetPCs, MetaPCs,
     RaisePCs, PayloadPCs, WaitPCs, RegistrationPCs
<1>5. HandlerInv'
  BY DEF CheckMetaError, TypeOK, MutexInv, LockedPCs, MetaInv, DataInv, HandlerInv, Registered,
     Told, AssetPCs, MetaPCs, RaisePCs, PayloadPCs, WaitPCs, RegistrationPCs
<1>6. ResolverInv'
  BY DEF CheckMetaError, TypeOK, MutexInv, LockedPCs, MetaInv, DataInv, HandlerInv, ResolverInv,
     AssetPCs, MetaPCs, RaisePCs, PayloadPCs, WaitPCs, RegistrationPCs
<1> QED BY <1>1, <1>2, <1>3, <1>4, <1>5, <1>6

\* The check before the search preserves the invariant.
LEMMA ResolveCheckSafe ==
  ASSUME UnitInv, NEW a \in AssetThreads, ResolveCheck(a)
  PROVE  UnitInv'
<1> USE Kinds DEF UnitInv, Goto, Final, object, loading, delivery, Lock, Free, Unlock, Local,
   MetaReady
<1>1. TypeOK'
  BY DEF ResolveCheck, TypeOK, AssetPCs, MetaPCs, RaisePCs, PayloadPCs, WaitPCs, RegistrationPCs
<1>2. MutexInv'
  BY DEF ResolveCheck, TypeOK, MutexInv, LockedPCs, AssetPCs, MetaPCs, RaisePCs, PayloadPCs,
     WaitPCs, RegistrationPCs
<1>3. MetaInv'
  BY DEF ResolveCheck, TypeOK, MutexInv, LockedPCs, MetaInv, DataInv, AssetPCs, MetaPCs, RaisePCs,
     PayloadPCs, WaitPCs, RegistrationPCs
<1>4. DataInv'
  BY DEF ResolveCheck, TypeOK, MutexInv, LockedPCs, MetaInv, DataInv, AssetPCs, MetaPCs, RaisePCs,
     PayloadPCs, WaitPCs, RegistrationPCs
<1>5. HandlerInv'
  BY DEF ResolveCheck, TypeOK, MutexInv, LockedPCs, MetaInv, DataInv, HandlerInv, Registered,
     Told, AssetPCs, MetaPCs, RaisePCs, PayloadPCs, WaitPCs, RegistrationPCs
<1>6. ResolverInv'
  BY DEF ResolveCheck, TypeOK, MutexInv, LockedPCs, MetaInv, DataInv, HandlerInv, ResolverInv,
     AssetPCs, MetaPCs, RaisePCs, PayloadPCs, WaitPCs, RegistrationPCs
<1> QED BY <1>1, <1>2, <1>3, <1>4, <1>5, <1>6

\* The search preserves the invariant.
LEMMA ResolveSearchSafe ==
  ASSUME UnitInv, NEW a \in AssetThreads, ResolveSearch(a)
  PROVE  UnitInv'
<1> USE Kinds DEF UnitInv, Goto, Final, object, loading, delivery, Lock, Free, Unlock, Local,
   MetaReady
<1>1. TypeOK'
  BY DEF ResolveSearch, TypeOK, AssetPCs, MetaPCs, RaisePCs, PayloadPCs, WaitPCs, RegistrationPCs
<1>2. MutexInv'
  BY DEF ResolveSearch, TypeOK, MutexInv, LockedPCs, AssetPCs, MetaPCs, RaisePCs, PayloadPCs,
     WaitPCs, RegistrationPCs
<1>3. MetaInv'
  BY DEF ResolveSearch, TypeOK, MutexInv, LockedPCs, MetaInv, DataInv, AssetPCs, MetaPCs,
     RaisePCs, PayloadPCs, WaitPCs, RegistrationPCs
<1>4. DataInv'
  BY DEF ResolveSearch, TypeOK, MutexInv, LockedPCs, MetaInv, DataInv, AssetPCs, MetaPCs,
     RaisePCs, PayloadPCs, WaitPCs, RegistrationPCs
<1>5. HandlerInv'
  BY DEF ResolveSearch, TypeOK, MutexInv, LockedPCs, MetaInv, DataInv, HandlerInv, Registered,
     Told, AssetPCs, MetaPCs, RaisePCs, PayloadPCs, WaitPCs, RegistrationPCs
<1>6. ResolverInv'
  BY DEF ResolveSearch, TypeOK, MutexInv, LockedPCs, MetaInv, DataInv, HandlerInv, ResolverInv,
     AssetPCs, MetaPCs, RaisePCs, PayloadPCs, WaitPCs, RegistrationPCs
<1> QED BY <1>1, <1>2, <1>3, <1>4, <1>5, <1>6

\* Leaving the unit preserves the invariant.
LEMMA SkipUnitSafe ==
  ASSUME UnitInv, NEW a \in AssetThreads, SkipUnit(a)
  PROVE  UnitInv'
<1> USE Kinds DEF UnitInv, Goto, Final, object, loading, delivery, Lock, Free, Unlock, Local,
   MetaReady
<1>1. TypeOK'
  BY DEF SkipUnit, TypeOK, AssetPCs, MetaPCs, RaisePCs, PayloadPCs, WaitPCs, RegistrationPCs
<1>2. MutexInv'
  BY DEF SkipUnit, TypeOK, MutexInv, LockedPCs, AssetPCs, MetaPCs, RaisePCs, PayloadPCs, WaitPCs,
     RegistrationPCs
<1>3. MetaInv'
  BY DEF SkipUnit, TypeOK, MutexInv, LockedPCs, MetaInv, DataInv, AssetPCs, MetaPCs, RaisePCs,
     PayloadPCs, WaitPCs, RegistrationPCs
<1>4. DataInv'
  BY DEF SkipUnit, TypeOK, MutexInv, LockedPCs, MetaInv, DataInv, AssetPCs, MetaPCs, RaisePCs,
     PayloadPCs, WaitPCs, RegistrationPCs
<1>5. HandlerInv'
  BY DEF SkipUnit, TypeOK, MutexInv, LockedPCs, MetaInv, DataInv, HandlerInv, Registered, Told,
     AssetPCs, MetaPCs, RaisePCs, PayloadPCs, WaitPCs, RegistrationPCs
<1>6. ResolverInv'
  BY DEF SkipUnit, TypeOK, MutexInv, LockedPCs, MetaInv, DataInv, HandlerInv, ResolverInv,
     AssetPCs, MetaPCs, RaisePCs, PayloadPCs, WaitPCs, RegistrationPCs
<1> QED BY <1>1, <1>2, <1>3, <1>4, <1>5, <1>6

\* Returning true preserves the invariant.
LEMMA ReturnTrueSafe ==
  ASSUME UnitInv, NEW a \in AssetThreads, ReturnTrue(a)
  PROVE  UnitInv'
<1> USE Kinds DEF UnitInv, Goto, Final, object, loading, delivery, Lock, Free, Unlock, Local,
   MetaReady
<1>1. TypeOK'
  BY DEF ReturnTrue, TypeOK, AssetPCs, MetaPCs, RaisePCs, PayloadPCs, WaitPCs, RegistrationPCs
<1>2. MutexInv'
  BY DEF ReturnTrue, TypeOK, MutexInv, LockedPCs, AssetPCs, MetaPCs, RaisePCs, PayloadPCs,
     WaitPCs, RegistrationPCs
<1>3. MetaInv'
  BY DEF ReturnTrue, TypeOK, MutexInv, LockedPCs, MetaInv, DataInv, AssetPCs, MetaPCs, RaisePCs,
     PayloadPCs, WaitPCs, RegistrationPCs
<1>4. DataInv'
  BY DEF ReturnTrue, TypeOK, MutexInv, LockedPCs, MetaInv, DataInv, AssetPCs, MetaPCs, RaisePCs,
     PayloadPCs, WaitPCs, RegistrationPCs
<1>5. HandlerInv'
  BY DEF ReturnTrue, TypeOK, MutexInv, LockedPCs, MetaInv, DataInv, HandlerInv, Registered, Told,
     AssetPCs, MetaPCs, RaisePCs, PayloadPCs, WaitPCs, RegistrationPCs
<1>6. ResolverInv'
  BY DEF ReturnTrue, TypeOK, MutexInv, LockedPCs, MetaInv, DataInv, HandlerInv, ResolverInv,
     AssetPCs, MetaPCs, RaisePCs, PayloadPCs, WaitPCs, RegistrationPCs
<1> QED BY <1>1, <1>2, <1>3, <1>4, <1>5, <1>6

\* The unlocked check of run_when_loaded preserves the invariant.
LEMMA RunWhenLoadedCheckSafe ==
  ASSUME UnitInv, NEW c \in Clients, RunWhenLoadedCheck(c)
  PROVE  UnitInv'
<1> USE Kinds DEF UnitInv, Goto, Final, object, loading, delivery, Lock, Free, Unlock, Local,
   MetaReady
<1>1. TypeOK'
  BY DEF RunWhenLoadedCheck, TypeOK, AssetPCs, MetaPCs, RaisePCs, PayloadPCs, WaitPCs,
     RegistrationPCs
<1>2. MutexInv'
  BY DEF RunWhenLoadedCheck, TypeOK, MutexInv, LockedPCs, AssetPCs, MetaPCs, RaisePCs, PayloadPCs,
     WaitPCs, RegistrationPCs
<1>3. MetaInv'
  BY DEF RunWhenLoadedCheck, TypeOK, MutexInv, LockedPCs, MetaInv, DataInv, AssetPCs, MetaPCs,
     RaisePCs, PayloadPCs, WaitPCs, RegistrationPCs
<1>4. DataInv'
  BY DEF RunWhenLoadedCheck, TypeOK, MutexInv, LockedPCs, MetaInv, DataInv, AssetPCs, MetaPCs,
     RaisePCs, PayloadPCs, WaitPCs, RegistrationPCs
<1>5. HandlerInv'
  BY DEF RunWhenLoadedCheck, TypeOK, MutexInv, LockedPCs, MetaInv, DataInv, HandlerInv,
     Registered, Told, AssetPCs, MetaPCs, RaisePCs, PayloadPCs, WaitPCs, RegistrationPCs
<1>6. ResolverInv'
  BY DEF RunWhenLoadedCheck, TypeOK, MutexInv, LockedPCs, MetaInv, DataInv, HandlerInv,
     ResolverInv, AssetPCs, MetaPCs, RaisePCs, PayloadPCs, WaitPCs, RegistrationPCs
<1> QED BY <1>1, <1>2, <1>3, <1>4, <1>5, <1>6

\* Finding the unit complete under the mutex preserves the invariant.
LEMMA RunWhenLoadedLockedReadySafe ==
  ASSUME UnitInv, NEW c \in Clients, RunWhenLoadedLockedReady(c)
  PROVE  UnitInv'
<1> USE Kinds DEF UnitInv, Goto, Final, object, loading, delivery, Lock, Free, Unlock, Local,
   MetaReady
<1>1. TypeOK'
  BY DEF RunWhenLoadedLockedReady, TypeOK, AssetPCs, MetaPCs, RaisePCs, PayloadPCs, WaitPCs,
     RegistrationPCs
<1>2. MutexInv'
  BY DEF RunWhenLoadedLockedReady, TypeOK, MutexInv, LockedPCs, AssetPCs, MetaPCs, RaisePCs,
     PayloadPCs, WaitPCs, RegistrationPCs
<1>3. MetaInv'
  BY DEF RunWhenLoadedLockedReady, TypeOK, MutexInv, LockedPCs, MetaInv, DataInv, AssetPCs,
     MetaPCs, RaisePCs, PayloadPCs, WaitPCs, RegistrationPCs
<1>4. DataInv'
  BY DEF RunWhenLoadedLockedReady, TypeOK, MutexInv, LockedPCs, MetaInv, DataInv, AssetPCs,
     MetaPCs, RaisePCs, PayloadPCs, WaitPCs, RegistrationPCs
<1>5. HandlerInv'
  BY DEF RunWhenLoadedLockedReady, TypeOK, MutexInv, LockedPCs, MetaInv, DataInv, HandlerInv,
     Registered, Told, AssetPCs, MetaPCs, RaisePCs, PayloadPCs, WaitPCs, RegistrationPCs
<1>6. ResolverInv'
  BY DEF RunWhenLoadedLockedReady, TypeOK, MutexInv, LockedPCs, MetaInv, DataInv, HandlerInv,
     ResolverInv, AssetPCs, MetaPCs, RaisePCs, PayloadPCs, WaitPCs, RegistrationPCs
<1> QED BY <1>1, <1>2, <1>3, <1>4, <1>5, <1>6

\* Finding it incomplete or failed under the mutex preserves the invariant.
LEMMA RunWhenLoadedLockedSafe ==
  ASSUME UnitInv, NEW c \in Clients, RunWhenLoadedLocked(c)
  PROVE  UnitInv'
<1> USE Kinds DEF UnitInv, Goto, Final, object, loading, delivery, Lock, Free, Unlock, Local,
   MetaReady
<1>1. TypeOK'
  BY DEF RunWhenLoadedLocked, TypeOK, AssetPCs, MetaPCs, RaisePCs, PayloadPCs, WaitPCs,
     RegistrationPCs
<1>2. MutexInv'
  BY DEF RunWhenLoadedLocked, TypeOK, MutexInv, LockedPCs, AssetPCs, MetaPCs, RaisePCs,
     PayloadPCs, WaitPCs, RegistrationPCs
<1>3. MetaInv'
  BY DEF RunWhenLoadedLocked, TypeOK, MutexInv, LockedPCs, MetaInv, DataInv, AssetPCs, MetaPCs,
     RaisePCs, PayloadPCs, WaitPCs, RegistrationPCs
<1>4. DataInv'
  BY DEF RunWhenLoadedLocked, TypeOK, MutexInv, LockedPCs, MetaInv, DataInv, AssetPCs, MetaPCs,
     RaisePCs, PayloadPCs, WaitPCs, RegistrationPCs
<1>5. HandlerInv'
  BY DEF RunWhenLoadedLocked, TypeOK, MutexInv, LockedPCs, MetaInv, DataInv, HandlerInv,
     Registered, Told, AssetPCs, MetaPCs, RaisePCs, PayloadPCs, WaitPCs, RegistrationPCs
<1>6. ResolverInv'
  BY DEF RunWhenLoadedLocked, TypeOK, MutexInv, LockedPCs, MetaInv, DataInv, HandlerInv,
     ResolverInv, AssetPCs, MetaPCs, RaisePCs, PayloadPCs, WaitPCs, RegistrationPCs
<1> QED BY <1>1, <1>2, <1>3, <1>4, <1>5, <1>6

\* Registering handlers preserves the invariant.
LEMMA RunWhenLoadedAppendSafe ==
  ASSUME UnitInv, NEW c \in Clients, RunWhenLoadedAppend(c)
  PROVE  UnitInv'
<1> USE Kinds DEF UnitInv, Goto, Final, object, loading, delivery, Lock, Free, Unlock, Local,
   MetaReady
<1>1. TypeOK'
  BY DEF RunWhenLoadedAppend, AfterRegistration, TypeOK, AssetPCs, MetaPCs, RaisePCs, PayloadPCs,
     WaitPCs, RegistrationPCs
<1>2. MutexInv'
  BY DEF RunWhenLoadedAppend, AfterRegistration, TypeOK, MutexInv, LockedPCs, AssetPCs, MetaPCs,
     RaisePCs, PayloadPCs, WaitPCs, RegistrationPCs
<1>3. MetaInv'
  BY DEF RunWhenLoadedAppend, AfterRegistration, TypeOK, MutexInv, LockedPCs, MetaInv, DataInv,
     AssetPCs, MetaPCs, RaisePCs, PayloadPCs, WaitPCs, RegistrationPCs
<1>4. DataInv'
  BY DEF RunWhenLoadedAppend, AfterRegistration, TypeOK, MutexInv, LockedPCs, MetaInv, DataInv,
     AssetPCs, MetaPCs, RaisePCs, PayloadPCs, WaitPCs, RegistrationPCs
<1>5. HandlerInv'
  <2>1. ~Registered(c) /\ ~Told(c) /\ c \notin handlers
    BY DEF RunWhenLoadedAppend, AfterRegistration, HandlerInv, Registered, MutexInv, LockedPCs,
       DataInv, AssetPCs, MetaPCs, RaisePCs, PayloadPCs, WaitPCs, RegistrationPCs
  <2>2. Registered(c)' /\ \A d \in Clients : d # c => (Registered(d)' <=> Registered(d))
    BY DEF RunWhenLoadedAppend, AfterRegistration, Registered, TypeOK, MutexInv, LockedPCs,
       AssetPCs, MetaPCs, RaisePCs, PayloadPCs, WaitPCs, RegistrationPCs
  <2>3. \A d \in Clients : Told(d)' <=> Told(d)
    BY DEF RunWhenLoadedAppend, AfterRegistration, Told
  <2>4. \A t \in Threads : pc[t] \notin {"re_run", "cl_run"} /\ pc'[t] \notin {"re_run", "cl_run"}
    BY DEF RunWhenLoadedAppend, AfterRegistration, TypeOK, MutexInv, LockedPCs, DataInv,
       ResolverInv, AssetPCs, MetaPCs, RaisePCs, PayloadPCs, WaitPCs, RegistrationPCs
  <2> QED BY <2>1, <2>2, <2>3, <2>4 DEF RunWhenLoadedAppend, AfterRegistration, TypeOK,
     HandlerInv, AssetPCs, MetaPCs, RaisePCs, PayloadPCs, WaitPCs, RegistrationPCs
<1>6. ResolverInv'
  BY DEF RunWhenLoadedAppend, AfterRegistration, TypeOK, MutexInv, LockedPCs, MetaInv, DataInv,
     HandlerInv, ResolverInv, AssetPCs, MetaPCs, RaisePCs, PayloadPCs, WaitPCs, RegistrationPCs
<1> QED BY <1>1, <1>2, <1>3, <1>4, <1>5, <1>6

\* A direct call of a handler preserves the invariant.
LEMMA RunWhenLoadedCallSafe ==
  ASSUME UnitInv, NEW c \in Clients, NEW outcome \in Final, RunWhenLoadedCall(c, outcome)
  PROVE  UnitInv'
<1> USE Kinds DEF UnitInv, Goto, Final, object, loading, delivery, Lock, Free, Unlock, Local,
   MetaReady
<1>1. TypeOK'
  BY DEF RunWhenLoadedCall, AfterRegistration, TypeOK, AssetPCs, MetaPCs, RaisePCs, PayloadPCs,
     WaitPCs, RegistrationPCs
<1>2. MutexInv'
  BY DEF RunWhenLoadedCall, AfterRegistration, TypeOK, MutexInv, LockedPCs, AssetPCs, MetaPCs,
     RaisePCs, PayloadPCs, WaitPCs, RegistrationPCs
<1>3. MetaInv'
  BY DEF RunWhenLoadedCall, AfterRegistration, TypeOK, MutexInv, LockedPCs, MetaInv, DataInv,
     AssetPCs, MetaPCs, RaisePCs, PayloadPCs, WaitPCs, RegistrationPCs
<1>4. DataInv'
  BY DEF RunWhenLoadedCall, AfterRegistration, TypeOK, MutexInv, LockedPCs, MetaInv, DataInv,
     AssetPCs, MetaPCs, RaisePCs, PayloadPCs, WaitPCs, RegistrationPCs
<1>5. HandlerInv'
  <2>1. /\ calls'[c][outcome] = calls[c][outcome] + 1
        /\ \A p \in Final : p # outcome => calls'[c][p] = calls[c][p]
        /\ \A d \in Clients : d # c => calls'[d] = calls[d]
    BY DEF RunWhenLoadedCall, AfterRegistration, TypeOK
  <2>2. c \in Clients /\ ~Told(c) /\ current_state = outcome
    BY DEF RunWhenLoadedCall, AfterRegistration, HandlerInv, Registered, DataInv, MutexInv,
       LockedPCs, TypeOK, AssetPCs, MetaPCs, RaisePCs, PayloadPCs, WaitPCs, RegistrationPCs
  <2>3. ASSUME NEW p \in Final PROVE calls[c][p] = 0
    <3>1. calls[c][p] \in Nat
      BY <2>2 DEF TypeOK
    <3>2. calls[c][p] <= 1 /\ calls[c][p] # 1
      BY <2>2 DEF HandlerInv, Told
    <3> QED BY <3>1, <3>2
  <2>4. Told(c)' /\ \A d \in Clients : d # c => (Told(d)' <=> Told(d))
    BY <2>1, <2>2, <2>3 DEF Told
  <2>5. \A d \in Clients, p \in Final : calls'[d][p] <= 1 /\ (calls'[d][p] = 1 => current_state' = p)
    BY <2>1, <2>2, <2>3 DEF RunWhenLoadedCall, AfterRegistration, HandlerInv, TypeOK
  <2> QED BY <2>2, <2>4, <2>5 DEF RunWhenLoadedCall, AfterRegistration, TypeOK, MutexInv,
     LockedPCs, DataInv, HandlerInv, Registered, AssetPCs, MetaPCs, RaisePCs, PayloadPCs, WaitPCs,
     RegistrationPCs
<1>6. ResolverInv'
  BY DEF RunWhenLoadedCall, AfterRegistration, TypeOK, MutexInv, LockedPCs, MetaInv, DataInv,
     HandlerInv, ResolverInv, AssetPCs, MetaPCs, RaisePCs, PayloadPCs, WaitPCs, RegistrationPCs
<1> QED BY <1>1, <1>2, <1>3, <1>4, <1>5, <1>6

\* A direct call under the mutex preserves the invariant.
LEMMA RunWhenLoadedCallLockedSafe ==
  ASSUME UnitInv, NEW c \in Clients, RunWhenLoadedCallLocked(c)
  PROVE  UnitInv'
<1> USE Kinds DEF UnitInv, Goto, Final, object, loading, delivery, Lock, Free, Unlock, Local,
   MetaReady
<1>1. TypeOK'
  BY DEF RunWhenLoadedCallLocked, AfterRegistration, TypeOK, AssetPCs, MetaPCs, RaisePCs,
     PayloadPCs, WaitPCs, RegistrationPCs
<1>2. MutexInv'
  BY DEF RunWhenLoadedCallLocked, AfterRegistration, TypeOK, MutexInv, LockedPCs, AssetPCs,
     MetaPCs, RaisePCs, PayloadPCs, WaitPCs, RegistrationPCs
<1>3. MetaInv'
  BY DEF RunWhenLoadedCallLocked, AfterRegistration, TypeOK, MutexInv, LockedPCs, MetaInv,
     DataInv, AssetPCs, MetaPCs, RaisePCs, PayloadPCs, WaitPCs, RegistrationPCs
<1>4. DataInv'
  BY DEF RunWhenLoadedCallLocked, AfterRegistration, TypeOK, MutexInv, LockedPCs, MetaInv,
     DataInv, AssetPCs, MetaPCs, RaisePCs, PayloadPCs, WaitPCs, RegistrationPCs
<1>5. HandlerInv'
  <2>1. /\ calls'[c]["error"] = calls[c]["error"] + 1
        /\ \A p \in Final : p # "error" => calls'[c][p] = calls[c][p]
        /\ \A d \in Clients : d # c => calls'[d] = calls[d]
    BY DEF RunWhenLoadedCallLocked, AfterRegistration, TypeOK
  <2>2. c \in Clients /\ ~Told(c) /\ current_state = "error"
    BY DEF RunWhenLoadedCallLocked, AfterRegistration, HandlerInv, Registered, DataInv, MutexInv,
       LockedPCs, TypeOK, AssetPCs, MetaPCs, RaisePCs, PayloadPCs, WaitPCs, RegistrationPCs
  <2>3. ASSUME NEW p \in Final PROVE calls[c][p] = 0
    <3>1. calls[c][p] \in Nat
      BY <2>2 DEF TypeOK
    <3>2. calls[c][p] <= 1 /\ calls[c][p] # 1
      BY <2>2 DEF HandlerInv, Told
    <3> QED BY <3>1, <3>2
  <2>4. Told(c)' /\ \A d \in Clients : d # c => (Told(d)' <=> Told(d))
    BY <2>1, <2>2, <2>3 DEF Told
  <2>5. \A d \in Clients, p \in Final : calls'[d][p] <= 1 /\ (calls'[d][p] = 1 => current_state' = p)
    BY <2>1, <2>2, <2>3 DEF RunWhenLoadedCallLocked, AfterRegistration, HandlerInv, TypeOK
  <2> QED BY <2>2, <2>4, <2>5 DEF RunWhenLoadedCallLocked, AfterRegistration, TypeOK, MutexInv,
     LockedPCs, DataInv, HandlerInv, Registered, AssetPCs, MetaPCs, RaisePCs, PayloadPCs, WaitPCs,
     RegistrationPCs
<1>6. ResolverInv'
  BY DEF RunWhenLoadedCallLocked, AfterRegistration, TypeOK, MutexInv, LockedPCs, MetaInv,
     DataInv, HandlerInv, ResolverInv, AssetPCs, MetaPCs, RaisePCs, PayloadPCs, WaitPCs,
     RegistrationPCs
<1> QED BY <1>1, <1>2, <1>3, <1>4, <1>5, <1>6

\* The synchronous hint preserves the invariant.
LEMMA SyncHintCheckSafe ==
  ASSUME UnitInv, NEW a \in SyncAssets, SyncHintCheck(a)
  PROVE  UnitInv'
<1> USE Kinds DEF UnitInv, Goto, Final, object, loading, delivery, Lock, Free, Unlock, Local,
   MetaReady
<1>1. TypeOK'
  BY DEF SyncHintCheck, TypeOK, AssetPCs, MetaPCs, RaisePCs, PayloadPCs, WaitPCs, RegistrationPCs
<1>2. MutexInv'
  BY DEF SyncHintCheck, TypeOK, MutexInv, LockedPCs, AssetPCs, MetaPCs, RaisePCs, PayloadPCs,
     WaitPCs, RegistrationPCs
<1>3. MetaInv'
  BY DEF SyncHintCheck, TypeOK, MutexInv, LockedPCs, MetaInv, DataInv, AssetPCs, MetaPCs,
     RaisePCs, PayloadPCs, WaitPCs, RegistrationPCs
<1>4. DataInv'
  BY DEF SyncHintCheck, TypeOK, MutexInv, LockedPCs, MetaInv, DataInv, AssetPCs, MetaPCs,
     RaisePCs, PayloadPCs, WaitPCs, RegistrationPCs
<1>5. HandlerInv'
  BY DEF SyncHintCheck, TypeOK, MutexInv, LockedPCs, MetaInv, DataInv, HandlerInv, Registered,
     Told, AssetPCs, MetaPCs, RaisePCs, PayloadPCs, WaitPCs, RegistrationPCs
<1>6. ResolverInv'
  BY DEF SyncHintCheck, TypeOK, MutexInv, LockedPCs, MetaInv, DataInv, HandlerInv, ResolverInv,
     AssetPCs, MetaPCs, RaisePCs, PayloadPCs, WaitPCs, RegistrationPCs
<1> QED BY <1>1, <1>2, <1>3, <1>4, <1>5, <1>6

\* Obtaining the payload preserves the invariant.
LEMMA ObtainDataOwnershipSafe ==
  ASSUME UnitInv, NEW t \in SyncAssets \cup {PayloadTask}, ObtainDataOwnership(t)
  PROVE  UnitInv'
<1> USE Kinds DEF UnitInv, Goto, Final, object, loading, delivery, Lock, Free, Unlock, Local,
   MetaReady
<1>1. TypeOK'
  BY DEF ObtainDataOwnership, TypeOK, AssetPCs, MetaPCs, RaisePCs, PayloadPCs, WaitPCs,
     RegistrationPCs
<1>2. MutexInv'
  BY DEF ObtainDataOwnership, TypeOK, MutexInv, LockedPCs, AssetPCs, MetaPCs, RaisePCs,
     PayloadPCs, WaitPCs, RegistrationPCs
<1>3. MetaInv'
  BY DEF ObtainDataOwnership, TypeOK, MutexInv, LockedPCs, MetaInv, DataInv, AssetPCs, MetaPCs,
     RaisePCs, PayloadPCs, WaitPCs, RegistrationPCs
<1>4. DataInv'
  BY DEF ObtainDataOwnership, TypeOK, MutexInv, LockedPCs, MetaInv, DataInv, AssetPCs, MetaPCs,
     RaisePCs, PayloadPCs, WaitPCs, RegistrationPCs
<1>5. HandlerInv'
  BY DEF ObtainDataOwnership, TypeOK, MutexInv, LockedPCs, MetaInv, DataInv, HandlerInv,
     Registered, Told, AssetPCs, MetaPCs, RaisePCs, PayloadPCs, WaitPCs, RegistrationPCs
<1>6. ResolverInv'
  BY DEF ObtainDataOwnership, TypeOK, MutexInv, LockedPCs, MetaInv, DataInv, HandlerInv,
     ResolverInv, AssetPCs, MetaPCs, RaisePCs, PayloadPCs, WaitPCs, RegistrationPCs
<1> QED BY <1>1, <1>2, <1>3, <1>4, <1>5, <1>6

\* Leaving the payload to another thread preserves the invariant.
LEMMA LoseDataOwnershipSafe ==
  ASSUME UnitInv, NEW t \in SyncAssets \cup {PayloadTask}, LoseDataOwnership(t)
  PROVE  UnitInv'
<1> USE Kinds DEF UnitInv, Goto, Final, object, loading, delivery, Lock, Free, Unlock, Local,
   MetaReady
<1>1. TypeOK'
  BY DEF LoseDataOwnership, TypeOK, AssetPCs, MetaPCs, RaisePCs, PayloadPCs, WaitPCs,
     RegistrationPCs
<1>2. MutexInv'
  BY DEF LoseDataOwnership, TypeOK, MutexInv, LockedPCs, AssetPCs, MetaPCs, RaisePCs, PayloadPCs,
     WaitPCs, RegistrationPCs
<1>3. MetaInv'
  BY DEF LoseDataOwnership, TypeOK, MutexInv, LockedPCs, MetaInv, DataInv, AssetPCs, MetaPCs,
     RaisePCs, PayloadPCs, WaitPCs, RegistrationPCs
<1>4. DataInv'
  BY DEF LoseDataOwnership, TypeOK, MutexInv, LockedPCs, MetaInv, DataInv, AssetPCs, MetaPCs,
     RaisePCs, PayloadPCs, WaitPCs, RegistrationPCs
<1>5. HandlerInv'
  BY DEF LoseDataOwnership, TypeOK, MutexInv, LockedPCs, MetaInv, DataInv, HandlerInv, Registered,
     Told, AssetPCs, MetaPCs, RaisePCs, PayloadPCs, WaitPCs, RegistrationPCs
<1>6. ResolverInv'
  BY DEF LoseDataOwnership, TypeOK, MutexInv, LockedPCs, MetaInv, DataInv, HandlerInv,
     ResolverInv, AssetPCs, MetaPCs, RaisePCs, PayloadPCs, WaitPCs, RegistrationPCs
<1> QED BY <1>1, <1>2, <1>3, <1>4, <1>5, <1>6

\* Reading the file of the payload preserves the invariant.
LEMMA ReadPayloadFileSafe ==
  ASSUME UnitInv, NEW t \in SyncAssets \cup {PayloadTask}, ReadPayloadFile(t)
  PROVE  UnitInv'
<1> USE Kinds DEF UnitInv, Goto, Final, object, loading, delivery, Lock, Free, Unlock, Local,
   MetaReady
<1>1. TypeOK'
  BY DEF ReadPayloadFile, TypeOK, AssetPCs, MetaPCs, RaisePCs, PayloadPCs, WaitPCs, RegistrationPCs
<1>2. MutexInv'
  BY DEF ReadPayloadFile, TypeOK, MutexInv, LockedPCs, AssetPCs, MetaPCs, RaisePCs, PayloadPCs,
     WaitPCs, RegistrationPCs
<1>3. MetaInv'
  BY DEF ReadPayloadFile, TypeOK, MutexInv, LockedPCs, MetaInv, DataInv, AssetPCs, MetaPCs,
     RaisePCs, PayloadPCs, WaitPCs, RegistrationPCs
<1>4. DataInv'
  BY DEF ReadPayloadFile, TypeOK, MutexInv, LockedPCs, MetaInv, DataInv, AssetPCs, MetaPCs,
     RaisePCs, PayloadPCs, WaitPCs, RegistrationPCs
<1>5. HandlerInv'
  BY DEF ReadPayloadFile, TypeOK, MutexInv, LockedPCs, MetaInv, DataInv, HandlerInv, Registered,
     Told, AssetPCs, MetaPCs, RaisePCs, PayloadPCs, WaitPCs, RegistrationPCs
<1>6. ResolverInv'
  BY DEF ReadPayloadFile, TypeOK, MutexInv, LockedPCs, MetaInv, DataInv, HandlerInv, ResolverInv,
     AssetPCs, MetaPCs, RaisePCs, PayloadPCs, WaitPCs, RegistrationPCs
<1> QED BY <1>1, <1>2, <1>3, <1>4, <1>5, <1>6

\* Assigning the payload under the mutex preserves the invariant.
LEMMA CompleteLoadingLockSafe ==
  ASSUME UnitInv, NEW t \in SyncAssets \cup {PayloadTask}, CompleteLoadingLock(t)
  PROVE  UnitInv'
<1> USE Kinds DEF UnitInv, Goto, Final, object, loading, delivery, Lock, Free, Unlock, Local,
   MetaReady
<1>1. TypeOK'
  BY DEF CompleteLoadingLock, TypeOK, AssetPCs, MetaPCs, RaisePCs, PayloadPCs, WaitPCs,
     RegistrationPCs
<1>2. MutexInv'
  BY DEF CompleteLoadingLock, TypeOK, MutexInv, LockedPCs, AssetPCs, MetaPCs, RaisePCs,
     PayloadPCs, WaitPCs, RegistrationPCs
<1>3. MetaInv'
  BY DEF CompleteLoadingLock, TypeOK, MutexInv, LockedPCs, MetaInv, DataInv, AssetPCs, MetaPCs,
     RaisePCs, PayloadPCs, WaitPCs, RegistrationPCs
<1>4. DataInv'
  BY DEF CompleteLoadingLock, TypeOK, MutexInv, LockedPCs, MetaInv, DataInv, AssetPCs, MetaPCs,
     RaisePCs, PayloadPCs, WaitPCs, RegistrationPCs
<1>5. HandlerInv'
  BY DEF CompleteLoadingLock, TypeOK, MutexInv, LockedPCs, MetaInv, DataInv, HandlerInv,
     Registered, Told, AssetPCs, MetaPCs, RaisePCs, PayloadPCs, WaitPCs, RegistrationPCs
<1>6. ResolverInv'
  BY DEF CompleteLoadingLock, TypeOK, MutexInv, LockedPCs, MetaInv, DataInv, HandlerInv,
     ResolverInv, AssetPCs, MetaPCs, RaisePCs, PayloadPCs, WaitPCs, RegistrationPCs
<1> QED BY <1>1, <1>2, <1>3, <1>4, <1>5, <1>6

\* Setting the unit ready preserves the invariant.
LEMMA CompleteLoadingSetSafe ==
  ASSUME UnitInv, NEW t \in SyncAssets \cup {PayloadTask}, CompleteLoadingSet(t)
  PROVE  UnitInv'
<1> USE Kinds DEF UnitInv, Goto, Final, object, loading, delivery, Lock, Free, Unlock, Local,
   MetaReady
<1>1. TypeOK'
  BY DEF CompleteLoadingSet, TypeOK, AssetPCs, MetaPCs, RaisePCs, PayloadPCs, WaitPCs,
     RegistrationPCs
<1>2. MutexInv'
  BY DEF CompleteLoadingSet, TypeOK, MutexInv, LockedPCs, AssetPCs, MetaPCs, RaisePCs, PayloadPCs,
     WaitPCs, RegistrationPCs
<1>3. MetaInv'
  BY DEF CompleteLoadingSet, TypeOK, MutexInv, LockedPCs, MetaInv, DataInv, AssetPCs, MetaPCs,
     RaisePCs, PayloadPCs, WaitPCs, RegistrationPCs
<1>4. DataInv'
  BY DEF CompleteLoadingSet, TypeOK, MutexInv, LockedPCs, MetaInv, DataInv, AssetPCs, MetaPCs,
     RaisePCs, PayloadPCs, WaitPCs, RegistrationPCs
<1>5. HandlerInv'
  BY DEF CompleteLoadingSet, TypeOK, MutexInv, LockedPCs, MetaInv, DataInv, HandlerInv,
     Registered, Told, AssetPCs, MetaPCs, RaisePCs, PayloadPCs, WaitPCs, RegistrationPCs
<1>6. ResolverInv'
  BY DEF CompleteLoadingSet, TypeOK, MutexInv, LockedPCs, MetaInv, DataInv, HandlerInv,
     ResolverInv, AssetPCs, MetaPCs, RaisePCs, PayloadPCs, WaitPCs, RegistrationPCs
<1> QED BY <1>1, <1>2, <1>3, <1>4, <1>5, <1>6

\* Notifying of the payload preserves the invariant.
LEMMA CompleteLoadingNotifySafe ==
  ASSUME UnitInv, NEW t \in SyncAssets \cup {PayloadTask}, CompleteLoadingNotify(t)
  PROVE  UnitInv'
<1> USE Kinds DEF UnitInv, Goto, Final, object, loading, delivery, Lock, Free, Unlock, Local,
   MetaReady
<1>1. TypeOK'
  BY DEF CompleteLoadingNotify, TypeOK, AssetPCs, MetaPCs, RaisePCs, PayloadPCs, WaitPCs,
     RegistrationPCs
<1>2. MutexInv'
  BY DEF CompleteLoadingNotify, TypeOK, MutexInv, LockedPCs, AssetPCs, MetaPCs, RaisePCs,
     PayloadPCs, WaitPCs, RegistrationPCs
<1>3. MetaInv'
  BY DEF CompleteLoadingNotify, TypeOK, MutexInv, LockedPCs, MetaInv, DataInv, AssetPCs, MetaPCs,
     RaisePCs, PayloadPCs, WaitPCs, RegistrationPCs
<1>4. DataInv'
  BY DEF CompleteLoadingNotify, TypeOK, MutexInv, LockedPCs, MetaInv, DataInv, AssetPCs, MetaPCs,
     RaisePCs, PayloadPCs, WaitPCs, RegistrationPCs
<1>5. HandlerInv'
  BY DEF CompleteLoadingNotify, TypeOK, MutexInv, LockedPCs, MetaInv, DataInv, HandlerInv,
     Registered, Told, AssetPCs, MetaPCs, RaisePCs, PayloadPCs, WaitPCs, RegistrationPCs
<1>6. ResolverInv'
  BY DEF CompleteLoadingNotify, TypeOK, MutexInv, LockedPCs, MetaInv, DataInv, HandlerInv,
     ResolverInv, AssetPCs, MetaPCs, RaisePCs, PayloadPCs, WaitPCs, RegistrationPCs
<1> QED BY <1>1, <1>2, <1>3, <1>4, <1>5, <1>6

\* Calling a completion handler preserves the invariant.
LEMMA CompleteLoadingRunSafe ==
  ASSUME UnitInv, NEW t \in SyncAssets \cup {PayloadTask}, CompleteLoadingRun(t)
  PROVE  UnitInv'
<1> USE Kinds DEF UnitInv, Goto, Final, object, loading, delivery, Lock, Free, Unlock, Local,
   MetaReady
<1>1. TypeOK'
  BY DEF CompleteLoadingRun, TypeOK, AssetPCs, MetaPCs, RaisePCs, PayloadPCs, WaitPCs,
     RegistrationPCs
<1>2. MutexInv'
  BY DEF CompleteLoadingRun, TypeOK, MutexInv, LockedPCs, AssetPCs, MetaPCs, RaisePCs, PayloadPCs,
     WaitPCs, RegistrationPCs
<1>3. MetaInv'
  BY DEF CompleteLoadingRun, TypeOK, MutexInv, LockedPCs, MetaInv, DataInv, AssetPCs, MetaPCs,
     RaisePCs, PayloadPCs, WaitPCs, RegistrationPCs
<1>4. DataInv'
  BY DEF CompleteLoadingRun, TypeOK, MutexInv, LockedPCs, MetaInv, DataInv, AssetPCs, MetaPCs,
     RaisePCs, PayloadPCs, WaitPCs, RegistrationPCs
<1>5. HandlerInv'
  <2>0. PICK c \in todo[t] : calls' = [calls EXCEPT ![c]["data_ready"] = @ + 1] /\ todo' = [todo EXCEPT ![t] = @ \ {c}]
    BY DEF CompleteLoadingRun
  <2>1. /\ calls'[c]["data_ready"] = calls[c]["data_ready"] + 1
        /\ \A p \in Final : p # "data_ready" => calls'[c][p] = calls[c][p]
        /\ \A d \in Clients : d # c => calls'[d] = calls[d]
    BY <2>0 DEF CompleteLoadingRun, TypeOK
  <2>2. c \in Clients /\ ~Told(c) /\ current_state = "data_ready"
    BY <2>0 DEF CompleteLoadingRun, HandlerInv, Registered, DataInv, MutexInv, LockedPCs, TypeOK,
       AssetPCs, MetaPCs, RaisePCs, PayloadPCs, WaitPCs, RegistrationPCs
  <2>3. ASSUME NEW p \in Final PROVE calls[c][p] = 0
    <3>1. calls[c][p] \in Nat
      BY <2>2 DEF TypeOK
    <3>2. calls[c][p] <= 1 /\ calls[c][p] # 1
      BY <2>2 DEF HandlerInv, Told
    <3> QED BY <3>1, <3>2
  <2>4. Told(c)' /\ \A d \in Clients : d # c => (Told(d)' <=> Told(d))
    BY <2>1, <2>2, <2>3 DEF Told
  <2>5. \A d \in Clients, p \in Final : calls'[d][p] <= 1 /\ (calls'[d][p] = 1 => current_state' = p)
    BY <2>1, <2>2, <2>3 DEF CompleteLoadingRun, HandlerInv, TypeOK
  <2>6. Registered(c) /\ \A d \in Clients : Registered(d)' = Registered(d)
    BY <2>0, <2>2 DEF CompleteLoadingRun, Registered, HandlerInv
  <2> QED BY <2>0, <2>2, <2>4, <2>5, <2>6 DEF CompleteLoadingRun, TypeOK, MutexInv, LockedPCs,
     MetaInv, DataInv, HandlerInv, AssetPCs, MetaPCs, RaisePCs, PayloadPCs, WaitPCs,
     RegistrationPCs
<1>6. ResolverInv'
  BY DEF CompleteLoadingRun, TypeOK, MutexInv, LockedPCs, MetaInv, DataInv, HandlerInv,
     ResolverInv, AssetPCs, MetaPCs, RaisePCs, PayloadPCs, WaitPCs, RegistrationPCs
<1> QED BY <1>1, <1>2, <1>3, <1>4, <1>5, <1>6

\* Clearing the lists preserves the invariant.
LEMMA CompleteLoadingClearSafe ==
  ASSUME UnitInv, NEW t \in SyncAssets \cup {PayloadTask}, CompleteLoadingClear(t)
  PROVE  UnitInv'
<1> USE Kinds DEF UnitInv, Goto, Final, object, loading, delivery, Lock, Free, Unlock, Local,
   MetaReady
<1>1. TypeOK'
  BY DEF CompleteLoadingClear, TypeOK, AssetPCs, MetaPCs, RaisePCs, PayloadPCs, WaitPCs,
     RegistrationPCs
<1>2. MutexInv'
  BY DEF CompleteLoadingClear, TypeOK, MutexInv, LockedPCs, AssetPCs, MetaPCs, RaisePCs,
     PayloadPCs, WaitPCs, RegistrationPCs
<1>3. MetaInv'
  BY DEF CompleteLoadingClear, TypeOK, MutexInv, LockedPCs, MetaInv, DataInv, AssetPCs, MetaPCs,
     RaisePCs, PayloadPCs, WaitPCs, RegistrationPCs
<1>4. DataInv'
  BY DEF CompleteLoadingClear, TypeOK, MutexInv, LockedPCs, MetaInv, DataInv, AssetPCs, MetaPCs,
     RaisePCs, PayloadPCs, WaitPCs, RegistrationPCs
<1>5. HandlerInv'
  BY DEF CompleteLoadingClear, TypeOK, MutexInv, LockedPCs, MetaInv, DataInv, HandlerInv,
     Registered, Told, AssetPCs, MetaPCs, RaisePCs, PayloadPCs, WaitPCs, RegistrationPCs
<1>6. ResolverInv'
  BY DEF CompleteLoadingClear, TypeOK, MutexInv, LockedPCs, MetaInv, DataInv, HandlerInv,
     ResolverInv, AssetPCs, MetaPCs, RaisePCs, PayloadPCs, WaitPCs, RegistrationPCs
<1> QED BY <1>1, <1>2, <1>3, <1>4, <1>5, <1>6

\* Setting the error preserves the invariant.
LEMMA RaiseErrorSetSafe ==
  ASSUME UnitInv, NEW t \in AssetThreads \cup Tasks, RaiseErrorSet(t)
  PROVE  UnitInv'
<1> USE Kinds DEF UnitInv, Goto, Final, object, loading, delivery, Lock, Free, Unlock, Local,
   MetaReady
<1>1. TypeOK'
  BY DEF RaiseErrorSet, TypeOK, AssetPCs, MetaPCs, RaisePCs, PayloadPCs, WaitPCs, RegistrationPCs
<1>2. MutexInv'
  BY DEF RaiseErrorSet, TypeOK, MutexInv, LockedPCs, AssetPCs, MetaPCs, RaisePCs, PayloadPCs,
     WaitPCs, RegistrationPCs
<1>3. MetaInv'
  BY DEF RaiseErrorSet, TypeOK, MutexInv, LockedPCs, MetaInv, DataInv, AssetPCs, MetaPCs,
     RaisePCs, PayloadPCs, WaitPCs, RegistrationPCs
<1>4. DataInv'
  BY DEF RaiseErrorSet, TypeOK, MutexInv, LockedPCs, MetaInv, DataInv, AssetPCs, MetaPCs,
     RaisePCs, PayloadPCs, WaitPCs, RegistrationPCs
<1>5. HandlerInv'
  BY DEF RaiseErrorSet, TypeOK, MutexInv, LockedPCs, MetaInv, DataInv, HandlerInv, Registered,
     Told, AssetPCs, MetaPCs, RaisePCs, PayloadPCs, WaitPCs, RegistrationPCs
<1>6. ResolverInv'
  BY DEF RaiseErrorSet, TypeOK, MutexInv, LockedPCs, MetaInv, DataInv, HandlerInv, ResolverInv,
     AssetPCs, MetaPCs, RaisePCs, PayloadPCs, WaitPCs, RegistrationPCs
<1> QED BY <1>1, <1>2, <1>3, <1>4, <1>5, <1>6

\* Notifying of the error preserves the invariant.
LEMMA RaiseErrorNotifySafe ==
  ASSUME UnitInv, NEW t \in AssetThreads \cup Tasks, RaiseErrorNotify(t)
  PROVE  UnitInv'
<1> USE Kinds DEF UnitInv, Goto, Final, object, loading, delivery, Lock, Free, Unlock, Local,
   MetaReady
<1>1. TypeOK'
  BY DEF RaiseErrorNotify, TypeOK, AssetPCs, MetaPCs, RaisePCs, PayloadPCs, WaitPCs, RegistrationPCs
<1>2. MutexInv'
  BY DEF RaiseErrorNotify, TypeOK, MutexInv, LockedPCs, AssetPCs, MetaPCs, RaisePCs, PayloadPCs,
     WaitPCs, RegistrationPCs
<1>3. MetaInv'
  BY DEF RaiseErrorNotify, TypeOK, MutexInv, LockedPCs, MetaInv, DataInv, AssetPCs, MetaPCs,
     RaisePCs, PayloadPCs, WaitPCs, RegistrationPCs
<1>4. DataInv'
  BY DEF RaiseErrorNotify, TypeOK, MutexInv, LockedPCs, MetaInv, DataInv, AssetPCs, MetaPCs,
     RaisePCs, PayloadPCs, WaitPCs, RegistrationPCs
<1>5. HandlerInv'
  BY DEF RaiseErrorNotify, TypeOK, MutexInv, LockedPCs, MetaInv, DataInv, HandlerInv, Registered,
     Told, AssetPCs, MetaPCs, RaisePCs, PayloadPCs, WaitPCs, RegistrationPCs
<1>6. ResolverInv'
  BY DEF RaiseErrorNotify, TypeOK, MutexInv, LockedPCs, MetaInv, DataInv, HandlerInv, ResolverInv,
     AssetPCs, MetaPCs, RaisePCs, PayloadPCs, WaitPCs, RegistrationPCs
<1> QED BY <1>1, <1>2, <1>3, <1>4, <1>5, <1>6

\* Locking the mutex for the error handlers preserves the invariant.
LEMMA RaiseErrorLockSafe ==
  ASSUME UnitInv, NEW t \in AssetThreads \cup Tasks, RaiseErrorLock(t)
  PROVE  UnitInv'
<1> USE Kinds DEF UnitInv, Goto, Final, object, loading, delivery, Lock, Free, Unlock, Local,
   MetaReady
<1>1. TypeOK'
  BY DEF RaiseErrorLock, TypeOK, AssetPCs, MetaPCs, RaisePCs, PayloadPCs, WaitPCs, RegistrationPCs
<1>2. MutexInv'
  BY DEF RaiseErrorLock, TypeOK, MutexInv, LockedPCs, AssetPCs, MetaPCs, RaisePCs, PayloadPCs,
     WaitPCs, RegistrationPCs
<1>3. MetaInv'
  BY DEF RaiseErrorLock, TypeOK, MutexInv, LockedPCs, MetaInv, DataInv, AssetPCs, MetaPCs,
     RaisePCs, PayloadPCs, WaitPCs, RegistrationPCs
<1>4. DataInv'
  BY DEF RaiseErrorLock, TypeOK, MutexInv, LockedPCs, MetaInv, DataInv, AssetPCs, MetaPCs,
     RaisePCs, PayloadPCs, WaitPCs, RegistrationPCs
<1>5. HandlerInv'
  BY DEF RaiseErrorLock, TypeOK, MutexInv, LockedPCs, MetaInv, DataInv, HandlerInv, Registered,
     Told, AssetPCs, MetaPCs, RaisePCs, PayloadPCs, WaitPCs, RegistrationPCs
<1>6. ResolverInv'
  BY DEF RaiseErrorLock, TypeOK, MutexInv, LockedPCs, MetaInv, DataInv, HandlerInv, ResolverInv,
     AssetPCs, MetaPCs, RaisePCs, PayloadPCs, WaitPCs, RegistrationPCs
<1> QED BY <1>1, <1>2, <1>3, <1>4, <1>5, <1>6

\* Calling an error handler preserves the invariant.
LEMMA RaiseErrorRunSafe ==
  ASSUME UnitInv, NEW t \in AssetThreads \cup Tasks, RaiseErrorRun(t)
  PROVE  UnitInv'
<1> USE Kinds DEF UnitInv, Goto, Final, object, loading, delivery, Lock, Free, Unlock, Local,
   MetaReady
<1>1. TypeOK'
  BY DEF RaiseErrorRun, TypeOK, AssetPCs, MetaPCs, RaisePCs, PayloadPCs, WaitPCs, RegistrationPCs
<1>2. MutexInv'
  BY DEF RaiseErrorRun, TypeOK, MutexInv, LockedPCs, AssetPCs, MetaPCs, RaisePCs, PayloadPCs,
     WaitPCs, RegistrationPCs
<1>3. MetaInv'
  BY DEF RaiseErrorRun, TypeOK, MutexInv, LockedPCs, MetaInv, DataInv, AssetPCs, MetaPCs,
     RaisePCs, PayloadPCs, WaitPCs, RegistrationPCs
<1>4. DataInv'
  BY DEF RaiseErrorRun, TypeOK, MutexInv, LockedPCs, MetaInv, DataInv, AssetPCs, MetaPCs,
     RaisePCs, PayloadPCs, WaitPCs, RegistrationPCs
<1>5. HandlerInv'
  <2>0. PICK c \in todo[t] : calls' = [calls EXCEPT ![c]["error"] = @ + 1] /\ todo' = [todo EXCEPT ![t] = @ \ {c}]
    BY DEF RaiseErrorRun
  <2>1. /\ calls'[c]["error"] = calls[c]["error"] + 1
        /\ \A p \in Final : p # "error" => calls'[c][p] = calls[c][p]
        /\ \A d \in Clients : d # c => calls'[d] = calls[d]
    BY <2>0 DEF RaiseErrorRun, TypeOK
  <2>2. c \in Clients /\ ~Told(c) /\ current_state = "error"
    BY <2>0 DEF RaiseErrorRun, HandlerInv, Registered, DataInv, MutexInv, LockedPCs, TypeOK,
       AssetPCs, MetaPCs, RaisePCs, PayloadPCs, WaitPCs, RegistrationPCs
  <2>3. ASSUME NEW p \in Final PROVE calls[c][p] = 0
    <3>1. calls[c][p] \in Nat
      BY <2>2 DEF TypeOK
    <3>2. calls[c][p] <= 1 /\ calls[c][p] # 1
      BY <2>2 DEF HandlerInv, Told
    <3> QED BY <3>1, <3>2
  <2>4. Told(c)' /\ \A d \in Clients : d # c => (Told(d)' <=> Told(d))
    BY <2>1, <2>2, <2>3 DEF Told
  <2>5. \A d \in Clients, p \in Final : calls'[d][p] <= 1 /\ (calls'[d][p] = 1 => current_state' = p)
    BY <2>1, <2>2, <2>3 DEF RaiseErrorRun, HandlerInv, TypeOK
  <2>6. Registered(c) /\ \A d \in Clients : Registered(d)' = Registered(d)
    BY <2>0, <2>2 DEF RaiseErrorRun, Registered, HandlerInv
  <2> QED BY <2>0, <2>2, <2>4, <2>5, <2>6 DEF RaiseErrorRun, TypeOK, MutexInv, LockedPCs, MetaInv,
     DataInv, HandlerInv, AssetPCs, MetaPCs, RaisePCs, PayloadPCs, WaitPCs, RegistrationPCs
<1>6. ResolverInv'
  BY DEF RaiseErrorRun, TypeOK, MutexInv, LockedPCs, MetaInv, DataInv, HandlerInv, ResolverInv,
     AssetPCs, MetaPCs, RaisePCs, PayloadPCs, WaitPCs, RegistrationPCs
<1> QED BY <1>1, <1>2, <1>3, <1>4, <1>5, <1>6

\* Clearing the lists after an error preserves the invariant.
LEMMA RaiseErrorClearSafe ==
  ASSUME UnitInv, NEW t \in AssetThreads \cup Tasks, RaiseErrorClear(t)
  PROVE  UnitInv'
<1> USE Kinds DEF UnitInv, Goto, Final, object, loading, delivery, Lock, Free, Unlock, Local,
   MetaReady
<1>1. TypeOK'
  BY DEF RaiseErrorClear, TypeOK, AssetPCs, MetaPCs, RaisePCs, PayloadPCs, WaitPCs, RegistrationPCs
<1>2. MutexInv'
  BY DEF RaiseErrorClear, TypeOK, MutexInv, LockedPCs, AssetPCs, MetaPCs, RaisePCs, PayloadPCs,
     WaitPCs, RegistrationPCs
<1>3. MetaInv'
  BY DEF RaiseErrorClear, TypeOK, MutexInv, LockedPCs, MetaInv, DataInv, AssetPCs, MetaPCs,
     RaisePCs, PayloadPCs, WaitPCs, RegistrationPCs
<1>4. DataInv'
  BY DEF RaiseErrorClear, TypeOK, MutexInv, LockedPCs, MetaInv, DataInv, AssetPCs, MetaPCs,
     RaisePCs, PayloadPCs, WaitPCs, RegistrationPCs
<1>5. HandlerInv'
  BY DEF RaiseErrorClear, TypeOK, MutexInv, LockedPCs, MetaInv, DataInv, HandlerInv, Registered,
     Told, AssetPCs, MetaPCs, RaisePCs, PayloadPCs, WaitPCs, RegistrationPCs
<1>6. ResolverInv'
  BY DEF RaiseErrorClear, TypeOK, MutexInv, LockedPCs, MetaInv, DataInv, HandlerInv, ResolverInv,
     AssetPCs, MetaPCs, RaisePCs, PayloadPCs, WaitPCs, RegistrationPCs
<1> QED BY <1>1, <1>2, <1>3, <1>4, <1>5, <1>6

\* The start of the pin task preserves the invariant.
LEMMA PinTaskRunsSafe ==
  ASSUME UnitInv, PinTaskRuns
  PROVE  UnitInv'
<1> USE Kinds DEF UnitInv, Goto, Final, object, loading, delivery, Lock, Free, Unlock, Local,
   MetaReady
<1>1. TypeOK'
  BY DEF PinTaskRuns, TypeOK, AssetPCs, MetaPCs, RaisePCs, PayloadPCs, WaitPCs, RegistrationPCs
<1>2. MutexInv'
  BY DEF PinTaskRuns, TypeOK, MutexInv, LockedPCs, AssetPCs, MetaPCs, RaisePCs, PayloadPCs,
     WaitPCs, RegistrationPCs
<1>3. MetaInv'
  <2>1. pc[PinTask] = "posted" /\ pc' = [pc EXCEPT ![PinTask] = "meta_own"]
    BY DEF PinTaskRuns
  <2>2. PinTask # meta_owner /\ PinTask # data_owner
    BY <2>1 DEF TypeOK, MetaInv
  <2> QED BY <2>1, <2>2 DEF PinTaskRuns, TypeOK, MetaInv
<1>4. DataInv'
  BY DEF PinTaskRuns, TypeOK, MutexInv, LockedPCs, MetaInv, DataInv, AssetPCs, MetaPCs, RaisePCs,
     PayloadPCs, WaitPCs, RegistrationPCs
<1>5. HandlerInv'
  BY DEF PinTaskRuns, TypeOK, MutexInv, LockedPCs, MetaInv, DataInv, HandlerInv, Registered, Told,
     AssetPCs, MetaPCs, RaisePCs, PayloadPCs, WaitPCs, RegistrationPCs
<1>6. ResolverInv'
  BY DEF PinTaskRuns, TypeOK, MutexInv, LockedPCs, MetaInv, DataInv, HandlerInv, ResolverInv,
     AssetPCs, MetaPCs, RaisePCs, PayloadPCs, WaitPCs, RegistrationPCs
<1> QED BY <1>1, <1>2, <1>3, <1>4, <1>5, <1>6

\* The start of the payload task preserves the invariant.
LEMMA PayloadTaskRunsSafe ==
  ASSUME UnitInv, PayloadTaskRuns
  PROVE  UnitInv'
<1> USE Kinds DEF UnitInv, Goto, Final, object, loading, delivery, Lock, Free, Unlock, Local,
   MetaReady
<1>1. TypeOK'
  <2>1. /\ pc' = [pc EXCEPT ![PayloadTask] = "data_own"] /\ payload_posted' = FALSE
        /\ UNCHANGED <<object, meta_owner, data_owner, delivery, returned>>
    BY DEF PayloadTaskRuns
  <2>2. pc' \in [Threads -> AssetPCs \cup {"posted"}]
    BY <2>1 DEF TypeOK, AssetPCs, PayloadPCs
  <2>3. pc'[PayloadTask] = "data_own" /\ \A t \in Threads : t # PayloadTask => pc'[t] = pc[t]
    BY <2>1 DEF TypeOK
  <2> QED BY <2>1, <2>2, <2>3 DEF TypeOK, PayloadPCs
<1>2. MutexInv'
  BY DEF PayloadTaskRuns, TypeOK, MutexInv, LockedPCs, AssetPCs, MetaPCs, RaisePCs, PayloadPCs,
     WaitPCs, RegistrationPCs
<1>3. MetaInv'
  BY DEF PayloadTaskRuns, TypeOK, MutexInv, LockedPCs, MetaInv, DataInv, AssetPCs, MetaPCs,
     RaisePCs, PayloadPCs, WaitPCs, RegistrationPCs
<1>4. DataInv'
  BY DEF PayloadTaskRuns, TypeOK, MutexInv, LockedPCs, MetaInv, DataInv, AssetPCs, MetaPCs,
     RaisePCs, PayloadPCs, WaitPCs, RegistrationPCs
<1>5. HandlerInv'
  BY DEF PayloadTaskRuns, TypeOK, MutexInv, LockedPCs, MetaInv, DataInv, HandlerInv, Registered,
     Told, AssetPCs, MetaPCs, RaisePCs, PayloadPCs, WaitPCs, RegistrationPCs
<1>6. ResolverInv'
  BY DEF PayloadTaskRuns, TypeOK, MutexInv, LockedPCs, MetaInv, DataInv, HandlerInv, ResolverInv,
     AssetPCs, MetaPCs, RaisePCs, PayloadPCs, WaitPCs, RegistrationPCs
<1> QED BY <1>1, <1>2, <1>3, <1>4, <1>5, <1>6

\* Stuttering preserves the invariant.
LEMMA StutterSafe ==
  ASSUME UnitInv, UNCHANGED vars
  PROVE  UnitInv'
<1> USE DEF UnitInv, vars, object, loading, delivery, Final, MetaReady
<1>1. TypeOK' /\ MutexInv'
  BY DEF TypeOK, MutexInv
<1>2. MetaInv' /\ DataInv'
  BY DEF MetaInv, DataInv
<1>3. HandlerInv' /\ ResolverInv'
  BY DEF HandlerInv, ResolverInv, Registered, Told
<1> QED BY <1>1, <1>2, <1>3

\* The invariant holds before any thread has run.
LEMMA InitSafe == Init => UnitInv
<1> SUFFICES ASSUME Init PROVE UnitInv
  OBVIOUS
<1> USE Kinds DEF Init, InitialPC, Final, MetaReady, AssetPCs, MetaPCs, RaisePCs, PayloadPCs,
   WaitPCs, RegistrationPCs
<1>1. TypeOK
  BY DEF TypeOK
<1>2. MutexInv
  BY DEF MutexInv, LockedPCs
<1>3. MetaInv /\ DataInv
  BY DEF MetaInv, DataInv
<1>4. HandlerInv
  BY DEF HandlerInv, Registered, Told
<1>5. ResolverInv
  BY DEF ResolverInv
<1> QED BY <1>1, <1>2, <1>3, <1>4, <1>5 DEF UnitInv

\* Every step of every thread preserves the invariant.
LEMMA NextSafe == UnitInv /\ [Next]_vars => UnitInv'
<1> SUFFICES ASSUME UnitInv, [Next]_vars PROVE UnitInv'
  OBVIOUS
<1>1. ASSUME NEW t \in AssetThreads \cup {PinTask}, LoadMetaData(t) PROVE UnitInv'
  BY <1>1, ObtainMetaOwnershipSafe, LoseMetaOwnershipSafe, ReadMetaFileSafe, LoadMetaDataLockSafe,
     LoadMetaDataSetSafe, LoadMetaDataNotifySafe, LoadMetaDataRaiseSafe, LoadMetaDataRelockSafe,
     StartPayloadLoadingSafe DEF LoadMetaData
<1>2. ASSUME NEW a \in AssetThreads, WaitForMeta(a) \/ StartLoadAsset(a) PROVE UnitInv'
  BY <1>2, WaitCheckSafe, WaitLockSafe, WaitPredicateTrueSafe, WaitPredicateFalseSafe,
     WaitBlockSafe, WaitNotifiedSafe, PrepareCheckSafe, CheckMetaErrorSafe, ResolveCheckSafe,
     ResolveSearchSafe, SkipUnitSafe, ReturnTrueSafe DEF WaitForMeta, StartLoadAsset
<1>3. ASSUME NEW c \in Clients, RunWhenLoaded(c) PROVE UnitInv'
  BY <1>3, RunWhenLoadedCheckSafe, RunWhenLoadedLockedReadySafe, RunWhenLoadedLockedSafe,
     RunWhenLoadedAppendSafe, RunWhenLoadedCallSafe, RunWhenLoadedCallLockedSafe DEF RunWhenLoaded
<1>4. ASSUME NEW t \in SyncAssets \cup {PayloadTask}, LoadPayload(t) PROVE UnitInv'
  BY <1>4, ObtainDataOwnershipSafe, LoseDataOwnershipSafe, ReadPayloadFileSafe,
     CompleteLoadingLockSafe, CompleteLoadingSetSafe, CompleteLoadingNotifySafe,
     CompleteLoadingRunSafe, CompleteLoadingClearSafe DEF LoadPayload
<1>5. ASSUME NEW t \in AssetThreads \cup Tasks, RaiseErrorFlag(t) PROVE UnitInv'
  BY <1>5, RaiseErrorSetSafe, RaiseErrorNotifySafe, RaiseErrorLockSafe, RaiseErrorRunSafe,
     RaiseErrorClearSafe DEF RaiseErrorFlag
<1> QED BY <1>1, <1>2, <1>3, <1>4, <1>5, SyncHintCheckSafe, PinTaskRunsSafe, PayloadTaskRunsSafe,
   StutterSafe DEF Next, Step

\* For any assets, pinning clients and outcomes: meta data and payload have one reader each, the mutex
\* one holder, and every registered pair of handlers somebody who will call it.
THEOREM UnitInvariance == Spec => []UnitInv
<1> QED BY InitSafe, NextSafe, PTL DEF Spec

\* Of a pair of handlers one is called, once, with the outcome of the unit.
LEMMA AtMostOnce == UnitInv => HandlerRunsAtMostOnce
<1> SUFFICES ASSUME UnitInv, NEW c \in Clients
             PROVE  /\ calls[c]["data_ready"] + calls[c]["error"] <= 1
                    /\ calls[c]["data_ready"] = 1
                         => current_state = "data_ready" /\ payload_data /\ meta_data = "complete"
                    /\ calls[c]["error"] = 1 => current_state = "error"
  BY DEF HandlerRunsAtMostOnce
<1>1. \A p \in Final : calls[c][p] \in Nat /\ calls[c][p] <= 1 /\ (calls[c][p] = 1 => current_state = p)
  BY DEF UnitInv, TypeOK, HandlerInv
<1>2. calls[c]["data_ready"] \in {0, 1} /\ calls[c]["error"] \in {0, 1}
  BY <1>1 DEF Final
<1> QED BY <1>1, <1>2 DEF Final, UnitInv, MetaInv, DataInv, MetaReady

\* The list of assets is searched while nobody can write it.
LEMMA Undisturbed == UnitInv => SearchUndisturbed
BY Kinds DEF UnitInv, MetaInv, SearchUndisturbed

\* Who was told that the unit answers is registered or was called, who was not is neither.
LEMMA Answers == UnitInv => OneUnitAnswers
<1> SUFFICES ASSUME UnitInv, NEW a \in AssetThreads
             PROVE  /\ returned[a] = "true" => a \in handlers \/ \E o \in Final : calls[a][o] = 1
                    /\ returned[a] = "skipped" => a \notin handlers /\ \A o \in Final : calls[a][o] = 0
  BY DEF OneUnitAnswers
<1> USE Kinds DEF UnitInv
<1>1. returned[a] = "true" => Registered(a)
  BY DEF TypeOK, HandlerInv, Registered
<1>2. returned[a] = "skipped" => ~Registered(a)
  BY DEF TypeOK, HandlerInv, Registered, PayloadPCs, RaisePCs
<1>3. ~Told(a) => \A o \in Final : calls[a][o] = 0
  <2> SUFFICES ASSUME ~Told(a), NEW o \in Final PROVE calls[a][o] = 0
    OBVIOUS
  <2>1. calls[a][o] \in Nat /\ calls[a][o] <= 1 /\ calls[a][o] # 1
    BY DEF TypeOK, HandlerInv, Told
  <2> QED BY <2>1
<1> QED BY <1>1, <1>2, <1>3 DEF HandlerInv, Told

\* The lists are empty once whoever settled the unit is through with them.
LEMMA NothingStranded == UnitInv => NoHandlerStranded
BY DEF UnitInv, ResolverInv, NoHandlerStranded

\* What threads share without the mutex is not written, and each client is answered once.
THEOREM UnitCorrect == Spec => []UnitSafe
<1>1. UnitInv => UnitSafe
  BY AtMostOnce, Undisturbed, Answers, NothingStranded DEF UnitSafe
<1> QED BY <1>1, UnitInvariance, PTL

\* A settled unit stays as it is.
LEMMA StateSteps ==
  ASSUME UnitInv, Next
  PROVE  current_state' = current_state \/ current_state \notin Final
<1> USE DEF UnitInv, Goto, object, loading, delivery, Local, Final
<1>1. ASSUME NEW t \in AssetThreads \cup {PinTask}, LoadMetaData(t)
      PROVE  current_state' = current_state \/ current_state \notin Final
  BY <1>1, Kinds DEF LoadMetaData, ObtainMetaOwnership, LoseMetaOwnership, ReadMetaFile,
     LoadMetaDataLock, LoadMetaDataSet, LoadMetaDataNotify, LoadMetaDataRaise, LoadMetaDataRelock,
     StartPayloadLoading, MetaInv
<1>2. ASSUME NEW a \in AssetThreads, WaitForMeta(a) \/ StartLoadAsset(a)
      PROVE  current_state' = current_state
  BY <1>2 DEF WaitForMeta, StartLoadAsset, WaitCheck, WaitLock, WaitPredicateTrue,
     WaitPredicateFalse, WaitBlock, WaitNotified, PrepareCheck, CheckMetaError, ResolveCheck,
     ResolveSearch, SkipUnit, ReturnTrue
<1>3. ASSUME NEW c \in Clients, RunWhenLoaded(c)
      PROVE  current_state' = current_state
  BY <1>3 DEF RunWhenLoaded, RunWhenLoadedCheck, RunWhenLoadedLockedReady, RunWhenLoadedLocked,
     RunWhenLoadedAppend, RunWhenLoadedCall, RunWhenLoadedCallLocked
<1>4. ASSUME NEW t \in SyncAssets \cup {PayloadTask}, LoadPayload(t)
      PROVE  current_state' = current_state \/ current_state \notin Final
  BY <1>4, Kinds DEF LoadPayload, ObtainDataOwnership, LoseDataOwnership, ReadPayloadFile,
     CompleteLoadingLock, CompleteLoadingSet, CompleteLoadingNotify, CompleteLoadingRun,
     CompleteLoadingClear, DataInv
<1>5. ASSUME NEW t \in AssetThreads \cup Tasks, RaiseErrorFlag(t)
      PROVE  current_state' = current_state \/ current_state \notin Final
  BY <1>5, Kinds DEF RaiseErrorFlag, RaiseErrorSet, RaiseErrorNotify, RaiseErrorLock,
     RaiseErrorRun, RaiseErrorClear, DataInv
<1> QED BY <1>1, <1>2, <1>3, <1>4, <1>5 DEF Next, Step, SyncHintCheck, PinTaskRuns, PayloadTaskRuns

\* The answers a step adds: none, or one for a client that had none yet, with the outcome of the unit.
Answered(c) ==
  /\ current_state \in Final /\ current_state' = current_state
  /\ \A outcome \in Final : calls[c][outcome] = 0
  /\ calls' = [calls EXCEPT ![c][current_state] = @ + 1]

\* What such an answer keeps and changes in the terms of the promise.
LEMMA AnswerSteps ==
  ASSUME UnitInv, Next
  PROVE  calls' = calls \/ \E c \in Clients : Answered(c)
<1> USE DEF UnitInv, Goto, object, loading, delivery, Local, Final
<1>1. ASSUME NEW c \in Clients, ~Told(c) PROVE \A outcome \in Final : calls[c][outcome] = 0
  <2> SUFFICES ASSUME NEW outcome \in Final PROVE calls[c][outcome] = 0
    OBVIOUS
  <2>1. calls[c][outcome] \in Nat /\ calls[c][outcome] <= 1 /\ calls[c][outcome] # 1
    BY <1>1 DEF TypeOK, HandlerInv, Told
  <2> QED BY <2>1
<1>2. ASSUME NEW c \in Clients, RunWhenLoaded(c) PROVE calls' = calls \/ Answered(c)
  <2>1. ASSUME NEW outcome \in Final, RunWhenLoadedCall(c, outcome) PROVE Answered(c)
    <3>1. current_state = outcome /\ ~Registered(c)
      BY <2>1, Kinds DEF RunWhenLoadedCall, DataInv, Registered, PayloadPCs, RaisePCs
    <3> QED BY <1>1, <2>1, <3>1 DEF RunWhenLoadedCall, HandlerInv, Answered
  <2>2. ASSUME RunWhenLoadedCallLocked(c) PROVE Answered(c)
    <3>1. current_state = "error" /\ ~Registered(c)
      BY <2>2, Kinds DEF RunWhenLoadedCallLocked, DataInv, Registered, PayloadPCs, RaisePCs
    <3> QED BY <1>1, <2>2, <3>1 DEF RunWhenLoadedCallLocked, HandlerInv, Answered
  <2> QED BY <1>2, <2>1, <2>2 DEF RunWhenLoaded, RunWhenLoadedCheck, RunWhenLoadedLockedReady,
     RunWhenLoadedLocked, RunWhenLoadedAppend
<1>3. ASSUME NEW t \in Threads, CompleteLoadingRun(t) PROVE \E c \in Clients : Answered(c)
  <2>1. PICK c \in todo[t] : calls' = [calls EXCEPT ![c]["data_ready"] = @ + 1]
    BY <1>3 DEF CompleteLoadingRun
  <2>2. c \in Clients /\ ~Told(c) /\ current_state = "data_ready" /\ current_state' = current_state
    BY <1>3, <2>1 DEF CompleteLoadingRun, TypeOK, HandlerInv, DataInv
  <2> QED BY <1>1, <2>1, <2>2 DEF Answered
<1>4. ASSUME NEW t \in Threads, RaiseErrorRun(t) PROVE \E c \in Clients : Answered(c)
  <2>1. PICK c \in todo[t] : calls' = [calls EXCEPT ![c]["error"] = @ + 1]
    BY <1>4 DEF RaiseErrorRun
  <2>2. c \in Clients /\ ~Told(c) /\ current_state = "error" /\ current_state' = current_state
    BY <1>4, <2>1 DEF RaiseErrorRun, TypeOK, HandlerInv, DataInv
  <2> QED BY <1>1, <2>1, <2>2 DEF Answered
<1>5. ASSUME NEW t \in Threads, LoadMetaData(t) \/ WaitForMeta(t) \/ StartLoadAsset(t) PROVE calls' = calls
  BY <1>5 DEF LoadMetaData, ObtainMetaOwnership, LoseMetaOwnership, ReadMetaFile,
     LoadMetaDataLock, LoadMetaDataSet, LoadMetaDataNotify, LoadMetaDataRaise, LoadMetaDataRelock,
     StartPayloadLoading, WaitForMeta, StartLoadAsset, WaitCheck, WaitLock, WaitPredicateTrue,
     WaitPredicateFalse, WaitBlock, WaitNotified, PrepareCheck, CheckMetaError, ResolveCheck,
     ResolveSearch, SkipUnit, ReturnTrue
<1>6. ASSUME NEW t \in Threads, LoadPayload(t) \/ RaiseErrorFlag(t) PROVE calls' = calls \/ \E c \in Clients : Answered(c)
  BY <1>3, <1>4, <1>6 DEF LoadPayload, ObtainDataOwnership, LoseDataOwnership, ReadPayloadFile,
     CompleteLoadingLock, CompleteLoadingSet, CompleteLoadingNotify, CompleteLoadingClear,
     RaiseErrorFlag, RaiseErrorSet, RaiseErrorNotify, RaiseErrorLock, RaiseErrorClear
<1> QED BY <1>2, <1>5, <1>6 DEF Next, Step, SyncHintCheck, PinTaskRuns, PayloadTaskRuns

\* The unit, with two owners, a mutex and unlocked loops, keeps the promise of an asset.
THEOREM UnitRefinement == Spec => ImplementsPromise
<1>1. Init => Promise!Init
  BY DEF Init, Promise!Init, UnitStatus, UnitAnswered, Final
<1>2. ASSUME UnitInv, UnitInv', [Next]_vars PROVE [Promise!Next]_(Promise!vars)
  <2>1. CASE UNCHANGED vars
    BY <2>1 DEF vars, object, delivery, Promise!vars, UnitStatus, UnitAnswered
  <2>2. CASE Next /\ calls' = calls
    <3>1. UnitAnswered' = UnitAnswered
      BY <2>2 DEF UnitAnswered
    <3>2. UnitStatus' = UnitStatus \/ Promise!Settle
      BY <1>2, <2>2, <3>1, StateSteps DEF UnitStatus, Promise!Settle, Final
    <3> QED BY <3>1, <3>2 DEF Promise!vars, Promise!Next
  <2>3. ASSUME Next, NEW c \in Clients, Answered(c) PROVE Promise!Answer(c)
    <3>1. UnitStatus' = UnitStatus /\ UnitStatus = IF current_state = "data_ready" THEN "ready" ELSE "error"
      BY <2>3 DEF UnitStatus, Answered, Final
    <3>2. UnitAnswered[c] = "nothing"
      BY <2>3 DEF UnitAnswered, Answered, Final
    <3>3. /\ \A outcome \in Final : calls'[c][outcome] = IF outcome = current_state THEN 1 ELSE 0
          /\ \A d \in Clients : d # c => calls'[d] = calls[d]
      BY <1>2, <2>3 DEF UnitInv, TypeOK, Answered
    <3>4. UnitAnswered' = [UnitAnswered EXCEPT ![c] = UnitStatus]
      <4>1. \A d \in Clients : d # c => UnitAnswered'[d] = UnitAnswered[d]
        BY <3>3 DEF UnitAnswered
      <4>2. /\ current_state = "data_ready" => calls'[c]["data_ready"] = 1
            /\ current_state # "data_ready" => calls'[c]["data_ready"] = 0 /\ calls'[c]["error"] = 1
        BY <2>3, <3>3 DEF Final, Answered
      <4>3. UnitAnswered'[c] = UnitStatus
        BY <2>3, <3>1, <4>2 DEF UnitAnswered, Answered, Final
      <4>4. /\ UnitAnswered = [d \in Clients |-> UnitAnswered[d]]
            /\ UnitAnswered' = [d \in Clients |-> UnitAnswered'[d]]
        BY DEF UnitAnswered
      <4> HIDE DEF UnitAnswered
      <4> QED BY <4>1, <4>3, <4>4
    <3> QED BY <3>1, <3>2, <3>4 DEF Promise!Answer
  <2> QED BY <1>2, <2>1, <2>2, <2>3, AnswerSteps DEF Promise!Next
<1> QED BY UnitInvariance, <1>1, <1>2, PTL DEF Spec, ImplementsPromise, Promise!Spec

=============================================================================
