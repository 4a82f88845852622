--------------------------- MODULE ManagerProofs ---------------------------
(* Proofs about AssetManager, for any clients, workers, names and objects, and *)
(* about TransferManager, for any uploads, buffer and number of slots.         *)
EXTENDS AssetManager, TransferManager, TLAPS

(***************************************************************************)
(* The asset manager                                                       *)
(***************************************************************************)

\* The part of ManagerSafe that is inductive by itself.
ManagerInv ==
  TypeOK /\ LocalsFollowPlace /\ CacheMatches /\ UnitHasReader /\ UnsettledHasOwner /\ UnansweredIsSomewhere

Tasks == [kind : {"load", "future", "payload", "pin", "clean"}, object : Objects \cup {None}, client : Clients \cup {None}]

\* Clients and workers are different threads; None is neither a thread nor an object nor a name.
LEMMA Kinds ==
  /\ \A c \in Clients : c \in Threads /\ c \notin Workers /\ c # None
  /\ \A w \in Workers : w \in Threads /\ w \notin Clients /\ w # None
  /\ \A t \in Threads : t \in Clients \/ t \in Workers
  /\ None \notin Objects /\ None \notin Names
BY ThreadsAssumption DEF Threads

\* Tasks of different kinds, and load tasks for different objects, are different tasks.
LEMMA TaskKinds ==
  /\ \A o \in Objects : LoadTask(o) \in Tasks /\ LoadTask(o).kind = "load" /\ LoadTask(o).object = o /\ LoadTask(o).client = None
  /\ \A c \in Clients : FutureTask(c) \in Tasks /\ FutureTask(c).kind = "future" /\ FutureTask(c).object = None /\ FutureTask(c).client = c
  /\ \A k \in {"payload", "pin", "clean"} : SimpleTask(k) \in Tasks /\ SimpleTask(k).kind = k /\ SimpleTask(k).object = None /\ SimpleTask(k).client = None
BY DEF LoadTask, FutureTask, SimpleTask, Tasks

\* A task is what its three components are.
LEMMA SameTask ==
  ASSUME NEW task \in Tasks
  PROVE  /\ task.kind = "load" /\ task.client = None => task = LoadTask(task.object)
         /\ task.kind = "future" /\ task.object = None => task = FutureTask(task.client)
         /\ task.object = None /\ task.client = None => task = SimpleTask(task.kind)
         /\ task.kind \in {"load", "future", "payload", "pin", "clean"}
BY DEF LoadTask, FutureTask, SimpleTask, Tasks

\* What posting a task does to the queue.
LEMMA Posted ==
  ASSUME task_pool \in Seq(Tasks), NEW task \in Tasks, Post(task)
  PROVE  Queued' = Queued \cup {task} /\ task_pool' \in Seq(Tasks) /\ work' = work /\ task_pool' # <<>>
<1>1. task_pool' = Append(task_pool, task) /\ work' = work
  BY DEF Post
<1>2. /\ Len(task_pool') = Len(task_pool) + 1 /\ Len(task_pool) \in Nat
      /\ \A i \in 1 .. Len(task_pool) : task_pool'[i] = task_pool[i]
      /\ task_pool'[Len(task_pool) + 1] = task
      /\ DOMAIN task_pool = 1 .. Len(task_pool) /\ DOMAIN task_pool' = 1 .. (Len(task_pool) + 1)
      /\ task_pool' \in Seq(Tasks)
  BY <1>1
<1>3. Queued' = Queued \cup {task}
  BY <1>2 DEF Queued
<1>4. task_pool' # <<>>
  BY <1>2
<1> QED BY <1>1, <1>2, <1>3, <1>4

\* What taking the oldest task does to the queue.
LEMMA Taken ==
  ASSUME task_pool \in Seq(Tasks), task_pool # <<>>, task_pool' = Tail(task_pool)
  PROVE  /\ Queued = Queued' \cup {Head(task_pool)} /\ task_pool' \in Seq(Tasks) /\ Head(task_pool) \in Tasks
<1>1. /\ Len(task_pool) \in Nat /\ Len(task_pool) > 0 /\ Len(task_pool') = Len(task_pool) - 1
      /\ \A i \in 1 .. Len(task_pool') : task_pool'[i] = task_pool[i + 1]
      /\ Head(task_pool) = task_pool[1] /\ Head(task_pool) \in Tasks
      /\ DOMAIN task_pool = 1 .. Len(task_pool) /\ DOMAIN task_pool' = 1 .. (Len(task_pool) - 1)
      /\ task_pool' \in Seq(Tasks)
  OBVIOUS
<1>2. Queued \subseteq Queued' \cup {Head(task_pool)}
  <2>1. ASSUME NEW i \in DOMAIN task_pool, i # 1 PROVE i - 1 \in DOMAIN task_pool' /\ task_pool'[i - 1] = task_pool[i]
    BY <1>1, <2>1
  <2>2. ASSUME NEW i \in DOMAIN task_pool PROVE task_pool[i] \in Queued' \cup {Head(task_pool)}
    <3>1. CASE i = 1  BY <1>1, <3>1
    <3>2. CASE i # 1  BY <2>1, <3>2 DEF Queued
    <3> QED BY <3>1, <3>2
  <2> QED BY <2>2 DEF Queued
<1>3. Queued' \cup {Head(task_pool)} \subseteq Queued
  <2>1. ASSUME NEW i \in DOMAIN task_pool' PROVE i + 1 \in DOMAIN task_pool /\ task_pool'[i] = task_pool[i + 1]
    BY <1>1, <2>1
  <2> QED BY <1>1, <2>1 DEF Queued
<1> QED BY <1>1, <1>2, <1>3

\* What the locals of a thread are where it is.
PlaceOf(t) ==
  /\ held[t] \in Objects \cup {None} /\ Requester(t) \in Clients \cup {None}
  /\ pc[t] \in AssetWaits \cup MetaWaits \cup {"register", "own", "loaders", "next_unit", "unit_register"} => held[t] \in Objects
  /\ pc[t] \in LoadPCs /\ Requester(t) # None => asked[Requester(t)] \in Names
  /\ pc[t] \in AssetWaits \cup {"core"} => Requester(t) \in Clients
  /\ pc[t] \in {"insert", "register"} => asked[t] \in Names

LEMMA ThreadPlaces ==
  ASSUME TypeOK, LocalsFollowPlace, NEW t \in Threads
  PROVE  PlaceOf(t)
<1> USE Kinds DEF TypeOK, LocalsFollowPlace, ClientLocals, WorkerLocals, ThreadLocals, Requester, LoadPCs, AssetWaits, MetaWaits, PlaceOf
<1>1. CASE t \in Clients  BY <1>1
<1>2. CASE t \in Workers  BY <1>2
<1> QED BY <1>1, <1>2

\* Where the thread that loads an object is.
LoaderPlaces == MetaWaits \cup {"loaders", "meta_own", "meta_read", "locked_out", "next_unit", "unit_register"}

\* An object that is loaded goes on being loaded while its thread stays in such a place, and its closure at the unit.
LEMMA LoadersKept ==
  ASSUME LoadingHasOwner, unit_waiting \subseteq unit_waiting',
         \A o \in Objects : current_state'[o] = "loading" => current_state[o] = "loading",
         \A u \in Threads : pc[u] \in LoaderPlaces => held'[u] = held[u] /\ pc'[u] \in LoaderPlaces
  PROVE  LoadingHasOwner'
BY DEF LoadingHasOwner, LoaderPlaces

\* The lookup of an asynchronous request preserves the invariant.
LEMMA AsyncLookupSafe ==
  ASSUME ManagerInv, NEW c \in Clients, NEW n \in Names, AsyncLookup(c, n)
  PROVE  ManagerInv'
<1> USE Kinds DEF ManagerInv, LocalsFollowPlace, UnsettledHasOwner, UnansweredIsSomewhere,
                    Goto, Final, assets, loading, frames, results, LoadPCs, AssetWaits, MetaWaits, Requester
<1>0. PlaceOf(c)
  BY ThreadPlaces
<1>1. Queued' = Queued /\ task_pool' = task_pool /\ work' = work
  BY DEF AsyncLookup, Call, Ask, pool, Queued
<1>2. TypeOK'
  BY <1>0, <1>1 DEF AsyncLookup, Call, Ask, TypeOK, Tasks, PlaceOf
<1>3. LocalsFollowPlace'
  BY <1>0, <1>1, TaskKinds DEF AsyncLookup, Call, Ask, TypeOK, ClientLocals, WorkerLocals,
     ThreadLocals, TaskLocals, PlaceOf
<1>4. CacheMatches'
  BY <1>0, <1>1, TaskKinds DEF AsyncLookup, Call, Ask, TypeOK, CacheMatches, Referenced, PlaceOf
<1>5. UnitHasReader'
  BY <1>1, TaskKinds DEF AsyncLookup, Call, Ask, TypeOK, UnitHasReader
<1>6. InitialHasOwner'
  BY <1>0, <1>1, TaskKinds DEF AsyncLookup, Call, Ask, TypeOK, InitialHasOwner, PlaceOf
<1>7. LoadingHasOwner'
  <2>1. /\ unit_waiting \subseteq unit_waiting'
        /\ \A o \in Objects : current_state'[o] = "loading" => current_state[o] = "loading"
    BY <1>0 DEF AsyncLookup, Call, Ask, TypeOK, PlaceOf
  <2>2. \A u \in Threads : pc[u] \in LoaderPlaces => held'[u] = held[u] /\ pc'[u] \in LoaderPlaces
    BY <1>0 DEF AsyncLookup, Call, Ask, TypeOK, LoaderPlaces, PlaceOf
  <2> QED BY <2>1, <2>2, LoadersKept
<1>8. UnansweredIsSomewhere'
  BY <1>0, <1>1, TaskKinds DEF AsyncLookup, Call, Ask, TypeOK, HandlersWait, RequestsHeld,
     ClientLocals, PoolEnds, WorkerLocals, PlaceOf
<1> QED BY <1>2, <1>3, <1>4, <1>5, <1>6, <1>7, <1>8

\* The lookup of a blocking request preserves the invariant.
LEMMA SyncLookupSafe ==
  ASSUME ManagerInv, NEW c \in Clients, NEW n \in Names, SyncLookup(c, n)
  PROVE  ManagerInv'
<1> USE Kinds DEF ManagerInv, LocalsFollowPlace, UnsettledHasOwner, UnansweredIsSomewhere,
                    Goto, Final, assets, loading, frames, results, LoadPCs, AssetWaits, MetaWaits, Requester
<1>0. PlaceOf(c)
  BY ThreadPlaces
<1>1. Queued' = Queued /\ task_pool' = task_pool /\ work' = work
  BY DEF SyncLookup, Call, Ask, pool, Queued
<1>2. TypeOK'
  BY <1>0, <1>1 DEF SyncLookup, Call, Ask, TypeOK, Tasks, PlaceOf
<1>3. LocalsFollowPlace'
  BY <1>0, <1>1, TaskKinds DEF SyncLookup, Call, Ask, TypeOK, ClientLocals, WorkerLocals,
     ThreadLocals, TaskLocals, PlaceOf
<1>4. CacheMatches'
  BY <1>0, <1>1, TaskKinds DEF SyncLookup, Call, Ask, TypeOK, CacheMatches, Referenced, PlaceOf
<1>5. UnitHasReader'
  BY <1>1, TaskKinds DEF SyncLookup, Call, Ask, TypeOK, UnitHasReader
<1>6. InitialHasOwner'
  BY <1>0, <1>1, TaskKinds DEF SyncLookup, Call, Ask, TypeOK, InitialHasOwner, PlaceOf
<1>7. LoadingHasOwner'
  <2>1. /\ unit_waiting \subseteq unit_waiting'
        /\ \A o \in Objects : current_state'[o] = "loading" => current_state[o] = "loading"
    BY <1>0 DEF SyncLookup, Call, Ask, TypeOK, PlaceOf
  <2>2. \A u \in Threads : pc[u] \in LoaderPlaces => held'[u] = held[u] /\ pc'[u] \in LoaderPlaces
    BY <1>0 DEF SyncLookup, Call, Ask, TypeOK, LoaderPlaces, PlaceOf
  <2> QED BY <2>1, <2>2, LoadersKept
<1>8. UnansweredIsSomewhere'
  BY <1>0, <1>1, TaskKinds DEF SyncLookup, Call, Ask, TypeOK, HandlersWait, RequestsHeld,
     ClientLocals, PoolEnds, WorkerLocals, PlaceOf
<1> QED BY <1>2, <1>3, <1>4, <1>5, <1>6, <1>7, <1>8

\* A future of a settled asset preserves the invariant.
LEMMA FutureCachedSafe ==
  ASSUME ManagerInv, NEW c \in Clients, NEW n \in Names, FutureCached(c, n)
  PROVE  ManagerInv'
<1> USE Kinds DEF ManagerInv, LocalsFollowPlace, UnsettledHasOwner, UnansweredIsSomewhere,
                    Goto, Final, assets, loading, frames, results, LoadPCs, AssetWaits, MetaWaits, Requester
<1>0. PlaceOf(c)
  BY ThreadPlaces
<1>1. Queued' = Queued /\ task_pool' = task_pool /\ work' = work
  BY DEF FutureCached, Call, Ask, Return, pool, Queued
<1>2. TypeOK'
  BY <1>0, <1>1 DEF FutureCached, Call, Ask, Return, TypeOK, Tasks, PlaceOf
<1>3. LocalsFollowPlace'
  BY <1>0, <1>1, TaskKinds DEF FutureCached, Call, Ask, Return, TypeOK, ClientLocals,
     WorkerLocals, ThreadLocals, TaskLocals, PlaceOf
<1>4. CacheMatches'
  BY <1>0, <1>1, TaskKinds DEF FutureCached, Call, Ask, Return, TypeOK, CacheMatches, Referenced,
     PlaceOf
<1>5. UnitHasReader'
  BY <1>1, TaskKinds DEF FutureCached, Call, Ask, Return, TypeOK, UnitHasReader
<1>6. UnsettledHasOwner'
  <2> SUFFICES InitialHasOwner' /\ LoadingHasOwner'
    OBVIOUS
  <2>3. InitialHasOwner'
    BY <1>0, <1>1, TaskKinds DEF FutureCached, Call, Ask, Return, TypeOK, InitialHasOwner, PlaceOf
  <2>1. /\ unit_waiting \subseteq unit_waiting'
        /\ \A o \in Objects : current_state'[o] = "loading" => current_state[o] = "loading"
    BY <1>0 DEF FutureCached, Call, Ask, Return, TypeOK, PlaceOf
  <2>2. \A u \in Threads : pc[u] \in LoaderPlaces => held'[u] = held[u] /\ pc'[u] \in LoaderPlaces
    BY <1>0 DEF FutureCached, Call, Ask, Return, TypeOK, LoaderPlaces, PlaceOf
  <2> QED BY <2>3, <2>1, <2>2, LoadersKept
<1>7. UnansweredIsSomewhere'
  BY <1>0, <1>1, TaskKinds DEF FutureCached, Call, Ask, Return, TypeOK, HandlersWait,
     RequestsHeld, ClientLocals, PoolEnds, WorkerLocals, PlaceOf
<1> QED BY <1>2, <1>3, <1>4, <1>5, <1>6, <1>7

\* A future that a worker is to fulfil preserves the invariant.
LEMMA FuturePostSafe ==
  ASSUME ManagerInv, NEW c \in Clients, NEW n \in Names, FuturePost(c, n)
  PROVE  ManagerInv'
<1> USE Kinds DEF ManagerInv, LocalsFollowPlace, UnsettledHasOwner, UnansweredIsSomewhere,
                    Goto, Final, assets, loading, frames, results, LoadPCs, AssetWaits, MetaWaits, Requester
<1>0. PlaceOf(c)
  BY ThreadPlaces
<1>1. Queued' = Queued \cup {FutureTask(c)} /\ FutureTask(c) \in Tasks /\ task_pool' \in Seq(Tasks) /\ work' = work /\ task_pool' # <<>>
  BY Posted, TaskKinds DEF FuturePost, TypeOK, Tasks
<1>2. TypeOK'
  BY <1>0, <1>1, TaskKinds DEF FuturePost, Call, Ask, Return, TypeOK, Tasks, PlaceOf
<1>3. LocalsFollowPlace'
  BY <1>0, <1>1, TaskKinds DEF FuturePost, Call, Ask, Return, TypeOK, ClientLocals, WorkerLocals,
     ThreadLocals, TaskLocals, PlaceOf
<1>4. CacheMatches'
  BY <1>0, <1>1, TaskKinds DEF FuturePost, Call, Ask, Return, TypeOK, CacheMatches, Referenced,
     PlaceOf
<1>5. UnitHasReader'
  BY <1>1, TaskKinds DEF FuturePost, Call, Ask, Return, TypeOK, UnitHasReader
<1>6. InitialHasOwner'
  BY <1>0, <1>1, TaskKinds DEF FuturePost, Call, Ask, Return, TypeOK, InitialHasOwner, PlaceOf
<1>7. LoadingHasOwner'
  BY <1>0, <1>1, TaskKinds DEF FuturePost, Call, Ask, Return, TypeOK, LoadingHasOwner, PlaceOf
<1>8. HandlersWait'
  BY <1>0, <1>1, TaskKinds DEF FuturePost, Call, Ask, Return, TypeOK, HandlersWait, PlaceOf
<1>9. RequestsHeld'
  BY <1>0, <1>1, TaskKinds DEF FuturePost, Call, Ask, Return, TypeOK, RequestsHeld, HandlersWait,
     ClientLocals, PlaceOf
<1>10. PoolEnds'
  BY <1>1, TaskKinds DEF FuturePost, Call, Ask, Return, TypeOK, PoolEnds, ClientLocals, WorkerLocals
<1> QED BY <1>2, <1>3, <1>4, <1>5, <1>6, <1>7, <1>8, <1>9, <1>10

\* Finding the asset under the write lock preserves the invariant.
LEMMA AsyncFoundSafe ==
  ASSUME ManagerInv, NEW c \in Clients, AsyncFound(c)
  PROVE  ManagerInv'
<1> USE Kinds DEF ManagerInv, LocalsFollowPlace, UnsettledHasOwner, UnansweredIsSomewhere,
                    Goto, Final, assets, loading, frames, results, LoadPCs, AssetWaits, MetaWaits, Requester
<1>0. PlaceOf(c)
  BY ThreadPlaces
<1>1. Queued' = Queued /\ task_pool' = task_pool /\ work' = work
  BY DEF AsyncFound, pool, Queued
<1>2. TypeOK'
  BY <1>0, <1>1 DEF AsyncFound, TypeOK, Tasks, PlaceOf
<1>3. LocalsFollowPlace'
  BY <1>0, <1>1, TaskKinds DEF AsyncFound, TypeOK, ClientLocals, WorkerLocals, ThreadLocals,
     TaskLocals, PlaceOf
<1>4. CacheMatches'
  BY <1>0, <1>1, TaskKinds DEF AsyncFound, TypeOK, CacheMatches, Referenced, PlaceOf
<1>5. UnitHasReader'
  BY <1>1, TaskKinds DEF AsyncFound, TypeOK, UnitHasReader
<1>6. UnsettledHasOwner'
  BY <1>0, <1>1, TaskKinds DEF AsyncFound, TypeOK, InitialHasOwner, LoadingHasOwner, PlaceOf
<1>7. UnansweredIsSomewhere'
  BY <1>0, <1>1, TaskKinds DEF AsyncFound, TypeOK, HandlersWait, RequestsHeld, ClientLocals,
     PoolEnds, WorkerLocals, PlaceOf
<1> QED BY <1>2, <1>3, <1>4, <1>5, <1>6, <1>7

\* Inserting an asset with its handlers and its task preserves the invariant.
LEMMA AsyncInsertSafe ==
  ASSUME ManagerInv, NEW c \in Clients, NEW o \in Objects, AsyncInsert(c, o)
  PROVE  ManagerInv'
<1> USE Kinds DEF ManagerInv, LocalsFollowPlace, UnsettledHasOwner, UnansweredIsSomewhere,
                    Goto, Final, assets, loading, frames, results, LoadPCs, AssetWaits, MetaWaits, Requester
<1>0. PlaceOf(c)
  BY ThreadPlaces
<1>1. Queued' = Queued \cup {LoadTask(o)} /\ LoadTask(o) \in Tasks /\ task_pool' \in Seq(Tasks) /\ work' = work /\ task_pool' # <<>>
  BY Posted, TaskKinds DEF AsyncInsert, TypeOK, Tasks
<1>2. TypeOK'
  BY <1>0, <1>1, TaskKinds DEF AsyncInsert, Create, Return, TypeOK, Tasks, PlaceOf
<1>3. LocalsFollowPlace'
  BY <1>0, <1>1, TaskKinds DEF AsyncInsert, Create, Return, TypeOK, ClientLocals, WorkerLocals,
     ThreadLocals, TaskLocals, PlaceOf
<1>4. CacheMatches'
  BY <1>0, <1>1, TaskKinds DEF AsyncInsert, Create, Return, TypeOK, CacheMatches, Referenced,
     PlaceOf
<1>5. UnitHasReader'
  BY <1>1, TaskKinds DEF AsyncInsert, Create, Return, TypeOK, UnitHasReader
<1>6. InitialHasOwner'
  BY <1>0, <1>1, TaskKinds DEF AsyncInsert, Create, Return, TypeOK, InitialHasOwner, PlaceOf
<1>7. LoadingHasOwner'
  <2>1. \A p \in Objects : current_state'[p] = "loading" => current_state[p] = "loading"
    BY DEF AsyncInsert, Create, Return, TypeOK
  <2>2. \A u \in Threads : u # c => pc'[u] = pc[u] /\ held'[u] = held[u]
    BY DEF AsyncInsert, Create, Return, TypeOK
  <2>3. pc[c] = "insert" /\ unit_waiting' = unit_waiting
    BY DEF AsyncInsert, Create, Return
  <2> QED BY <2>1, <2>2, <2>3 DEF LoadingHasOwner
<1>8. HandlersWait'
  BY <1>0, <1>1, TaskKinds DEF AsyncInsert, Create, Return, TypeOK, HandlersWait, PlaceOf
<1>9. RequestsHeld'
  <2>1. c \in handlers'[o] /\ \A p \in Objects : handlers[p] \subseteq handlers'[p]
    BY DEF AsyncInsert, Create, Return, TypeOK, HandlersWait
  <2>2. /\ \A d \in Clients : d # c => pc'[d] = pc[d]
        /\ \A w \in Workers : serving'[w] = serving[w]
        /\ asked' = asked /\ answer' = answer
    BY DEF AsyncInsert, Create, Return, TypeOK
  <2> HIDE DEF LoadPCs, AssetWaits, MetaWaits
  <2> QED BY <1>1, <2>1, <2>2 DEF RequestsHeld
<1>10. PoolEnds'
  BY <1>1, TaskKinds DEF AsyncInsert, Create, Return, TypeOK, PoolEnds, ClientLocals, WorkerLocals
<1> QED BY <1>2, <1>3, <1>4, <1>5, <1>6, <1>7, <1>8, <1>9, <1>10

\* Registering at an asset that was found preserves the invariant.
LEMMA AsyncRegisterSafe ==
  ASSUME ManagerInv, NEW c \in Clients, AsyncRegister(c)
  PROVE  ManagerInv'
<1> USE Kinds DEF ManagerInv, LocalsFollowPlace, UnsettledHasOwner, UnansweredIsSomewhere,
                    Goto, Final, assets, loading, frames, results, LoadPCs, AssetWaits, MetaWaits, Requester
<1>0. PlaceOf(c)
  BY ThreadPlaces
<1>1. Queued' = Queued /\ task_pool' = task_pool /\ work' = work
  BY DEF AsyncRegister, Return, pool, Queued
<1>2. TypeOK'
  BY <1>0, <1>1 DEF AsyncRegister, Return, TypeOK, Tasks, PlaceOf
<1>3. LocalsFollowPlace'
  BY <1>0, <1>1, TaskKinds DEF AsyncRegister, Return, TypeOK, ClientLocals, WorkerLocals,
     ThreadLocals, TaskLocals, PlaceOf
<1>4. CacheMatches'
  BY <1>0, <1>1, TaskKinds DEF AsyncRegister, Return, TypeOK, CacheMatches, Referenced, PlaceOf
<1>5. UnitHasReader'
  BY <1>1, TaskKinds DEF AsyncRegister, Return, TypeOK, UnitHasReader
<1>6. UnsettledHasOwner'
  BY <1>0, <1>1, TaskKinds DEF AsyncRegister, Return, TypeOK, InitialHasOwner, LoadingHasOwner,
     PlaceOf
<1>7. HandlersWait'
  <2>1. current_state[held[c]] # "free"
    BY <1>0 DEF AsyncRegister, Return, TypeOK, CacheMatches, Referenced, PlaceOf
  <2> QED BY <2>1 DEF AsyncRegister, Return, TypeOK, HandlersWait
<1>8. RequestsHeld'
  <2>1. CASE current_state[held[c]] \in {"ready", "error"}
    BY <1>0, <1>1, <2>1 DEF AsyncRegister, Return, TypeOK, RequestsHeld, PlaceOf
  <2>2. CASE current_state[held[c]] \notin {"ready", "error"}
    <3>1. held[c] \in Objects /\ c \in handlers'[held[c]] /\ \A o \in Objects : handlers[o] \subseteq handlers'[o]
      BY <1>0, <2>2 DEF AsyncRegister, Return, TypeOK, PlaceOf
    <3> QED BY <1>1, <2>2, <3>1 DEF AsyncRegister, Return, TypeOK, RequestsHeld
  <2> QED BY <2>1, <2>2
<1>9. PoolEnds'
  BY <1>1 DEF AsyncRegister, Return, TypeOK, PoolEnds, ClientLocals, WorkerLocals
<1> QED BY <1>2, <1>3, <1>4, <1>5, <1>6, <1>7, <1>8, <1>9

\* Pinning the load unit preserves the invariant.
LEMMA StartPinLoadUnitSafe ==
  ASSUME ManagerInv, NEW c \in Clients, StartPinLoadUnit(c)
  PROVE  ManagerInv'
<1> USE Kinds DEF ManagerInv, LocalsFollowPlace, UnsettledHasOwner, UnansweredIsSomewhere,
                    Goto, Final, assets, loading, frames, results, LoadPCs, AssetWaits, MetaWaits, Requester
<1>0. PlaceOf(c)
  BY ThreadPlaces
<1>1. /\ task_pool' \in Seq(Tasks) /\ work' = work
      /\ \/ UNCHANGED pool /\ Queued' = Queued
         \/ Queued' = Queued \cup {SimpleTask("pin")} /\ SimpleTask("pin") \in Tasks /\ task_pool' # <<>>
  <2>1. CASE Post(SimpleTask("pin"))
    BY <2>1, Posted, TaskKinds DEF TypeOK, Tasks
  <2>2. CASE UNCHANGED pool
    BY <2>2 DEF TypeOK, Tasks, Queued, pool
  <2> QED BY <2>1, <2>2 DEF StartPinLoadUnit
<1>2. TypeOK'
  BY <1>0, <1>1, TaskKinds DEF StartPinLoadUnit, Call, Return, TypeOK, Tasks, PlaceOf, pool
<1>3. LocalsFollowPlace'
  BY <1>0, <1>1, TaskKinds DEF StartPinLoadUnit, Call, Return, TypeOK, ClientLocals, WorkerLocals,
     ThreadLocals, TaskLocals, PlaceOf, pool
<1>4. CacheMatches'
  BY <1>0, <1>1, TaskKinds DEF StartPinLoadUnit, Call, Return, TypeOK, CacheMatches, Referenced,
     PlaceOf, pool
<1>5. UnitHasReader'
  BY <1>1, TaskKinds DEF StartPinLoadUnit, Call, Return, TypeOK, UnitHasReader, pool
<1>6. InitialHasOwner'
  BY <1>0, <1>1, TaskKinds DEF StartPinLoadUnit, Call, Return, TypeOK, InitialHasOwner, PlaceOf,
     pool
<1>7. LoadingHasOwner'
  BY <1>0, <1>1, TaskKinds DEF StartPinLoadUnit, Call, Return, TypeOK, LoadingHasOwner, PlaceOf,
     pool
<1>8. UnansweredIsSomewhere'
  BY <1>0, <1>1, TaskKinds DEF StartPinLoadUnit, Call, Return, TypeOK, HandlersWait, RequestsHeld,
     ClientLocals, PoolEnds, WorkerLocals, PlaceOf, pool
<1> QED BY <1>2, <1>3, <1>4, <1>5, <1>6, <1>7, <1>8

\* Asking for the cache to be cleaned preserves the invariant.
LEMMA StartCleanSafe ==
  ASSUME ManagerInv, NEW c \in Clients, StartClean(c)
  PROVE  ManagerInv'
<1> USE Kinds DEF ManagerInv, LocalsFollowPlace, UnsettledHasOwner, UnansweredIsSomewhere,
                    Goto, Final, assets, loading, frames, results, LoadPCs, AssetWaits, MetaWaits, Requester
<1>0. PlaceOf(c)
  BY ThreadPlaces
<1>1. Queued' = Queued \cup {SimpleTask("clean")} /\ SimpleTask("clean") \in Tasks /\ task_pool' \in Seq(Tasks) /\ work' = work /\ task_pool' # <<>>
  BY Posted, TaskKinds DEF StartClean, TypeOK, Tasks
<1>2. TypeOK'
  BY <1>0, <1>1, TaskKinds DEF StartClean, Call, Return, TypeOK, Tasks, PlaceOf
<1>3. LocalsFollowPlace'
  BY <1>0, <1>1, TaskKinds DEF StartClean, Call, Return, TypeOK, ClientLocals, WorkerLocals,
     ThreadLocals, TaskLocals, PlaceOf
<1>4. CacheMatches'
  BY <1>0, <1>1, TaskKinds DEF StartClean, Call, Return, TypeOK, CacheMatches, Referenced, PlaceOf
<1>5. UnitHasReader'
  BY <1>1, TaskKinds DEF StartClean, Call, Return, TypeOK, UnitHasReader
<1>6. InitialHasOwner'
  BY <1>0, <1>1, TaskKinds DEF StartClean, Call, Return, TypeOK, InitialHasOwner, PlaceOf
<1>7. LoadingHasOwner'
  BY <1>0, <1>1, TaskKinds DEF StartClean, Call, Return, TypeOK, LoadingHasOwner, PlaceOf
<1>8. HandlersWait'
  BY <1>0, <1>1, TaskKinds DEF StartClean, Call, Return, TypeOK, HandlersWait, PlaceOf
<1>9. RequestsHeld'
  BY <1>0, <1>1, TaskKinds DEF StartClean, Call, Return, TypeOK, RequestsHeld, HandlersWait,
     ClientLocals, PlaceOf
<1>10. PoolEnds'
  BY <1>1, TaskKinds DEF StartClean, Call, Return, TypeOK, PoolEnds, ClientLocals, WorkerLocals
<1> QED BY <1>2, <1>3, <1>4, <1>5, <1>6, <1>7, <1>8, <1>9, <1>10

\* Finding the asset in load_asset_sync_core preserves the invariant.
LEMMA CoreFoundSafe ==
  ASSUME ManagerInv, NEW t \in Threads, CoreFound(t)
  PROVE  ManagerInv'
<1> USE Kinds DEF ManagerInv, LocalsFollowPlace, UnsettledHasOwner, UnansweredIsSomewhere,
                    Goto, Final, assets, loading, frames, results, LoadPCs, AssetWaits, MetaWaits, Requester
<1>0. PlaceOf(t)
  BY ThreadPlaces
<1>1. Queued' = Queued /\ task_pool' = task_pool /\ work' = work
  BY DEF CoreFound, pool, Queued
<1>2. TypeOK'
  BY <1>0, <1>1 DEF CoreFound, TypeOK, Tasks, PlaceOf
<1>3. LocalsFollowPlace'
  BY <1>0, <1>1, TaskKinds DEF CoreFound, TypeOK, ClientLocals, WorkerLocals, ThreadLocals,
     TaskLocals, PlaceOf
<1>4. CacheMatches'
  BY <1>0, <1>1, TaskKinds DEF CoreFound, TypeOK, CacheMatches, Referenced, PlaceOf
<1>5. UnitHasReader'
  BY <1>1, TaskKinds DEF CoreFound, TypeOK, UnitHasReader
<1>6. InitialHasOwner'
  BY <1>0, <1>1, TaskKinds DEF CoreFound, TypeOK, InitialHasOwner, PlaceOf
<1>7. LoadingHasOwner'
  BY <1>0, <1>1 DEF CoreFound, TypeOK, ThreadLocals, LoadingHasOwner, PlaceOf
<1>8. UnansweredIsSomewhere'
  BY <1>0, <1>1, TaskKinds DEF CoreFound, TypeOK, HandlersWait, RequestsHeld, ClientLocals,
     PoolEnds, WorkerLocals, PlaceOf
<1> QED BY <1>2, <1>3, <1>4, <1>5, <1>6, <1>7, <1>8

\* Inserting an asset in load_asset_sync_core preserves the invariant.
LEMMA CoreInsertSafe ==
  ASSUME ManagerInv, NEW t \in Threads, NEW o \in Objects, CoreInsert(t, o)
  PROVE  ManagerInv'
<1> USE Kinds DEF ManagerInv, LocalsFollowPlace, UnsettledHasOwner, UnansweredIsSomewhere,
                    Goto, Final, assets, loading, frames, results, LoadPCs, AssetWaits, MetaWaits, Requester
<1>0. PlaceOf(t)
  BY ThreadPlaces
<1>1. Queued' = Queued /\ task_pool' = task_pool /\ work' = work
  BY DEF CoreInsert, Create, pool, Queued
<1>2. TypeOK'
  BY <1>0, <1>1 DEF CoreInsert, Create, TypeOK, Tasks, PlaceOf
<1>3. LocalsFollowPlace'
  BY <1>0, <1>1, TaskKinds DEF CoreInsert, Create, TypeOK, ClientLocals, WorkerLocals,
     ThreadLocals, TaskLocals, PlaceOf
<1>4. CacheMatches'
  BY <1>0, <1>1, TaskKinds DEF CoreInsert, Create, TypeOK, CacheMatches, Referenced, PlaceOf
<1>5. UnitHasReader'
  BY <1>1, TaskKinds DEF CoreInsert, Create, TypeOK, UnitHasReader
<1>6. UnsettledHasOwner'
  <2> SUFFICES InitialHasOwner' /\ LoadingHasOwner'
    OBVIOUS
  <2>3. InitialHasOwner'
    BY <1>0, <1>1, TaskKinds DEF CoreInsert, Create, TypeOK, InitialHasOwner, PlaceOf
  <2>1. /\ unit_waiting \subseteq unit_waiting'
        /\ \A x \in Objects : current_state'[x] = "loading" => current_state[x] = "loading"
    BY <1>0 DEF CoreInsert, Create, TypeOK, PlaceOf
  <2>2. \A u \in Threads : pc[u] \in LoaderPlaces => held'[u] = held[u] /\ pc'[u] \in LoaderPlaces
    BY <1>0 DEF CoreInsert, Create, TypeOK, LoaderPlaces, PlaceOf
  <2> QED BY <2>3, <2>1, <2>2, LoadersKept
<1>7. HandlersWait'
  BY <1>0, <1>1 DEF CoreInsert, Create, TypeOK, HandlersWait, PlaceOf
<1>8. RequestsHeld'
  BY <1>0, <1>1, TaskKinds DEF CoreInsert, Create, TypeOK, RequestsHeld, HandlersWait,
     ClientLocals, PlaceOf
<1>9. PoolEnds'
  BY <1>1 DEF CoreInsert, Create, TypeOK, PoolEnds, ClientLocals, WorkerLocals
<1> QED BY <1>2, <1>3, <1>4, <1>5, <1>6, <1>7, <1>8, <1>9

\* Obtaining an asset to load preserves the invariant.
LEMMA ObtainOwnershipSafe ==
  ASSUME ManagerInv, NEW t \in Threads, ObtainOwnership(t)
  PROVE  ManagerInv'
<1> USE Kinds DEF ManagerInv, LocalsFollowPlace, UnsettledHasOwner, UnansweredIsSomewhere,
                    Goto, Final, assets, loading, frames, results, LoadPCs, AssetWaits, MetaWaits, Requester
<1>0. PlaceOf(t)
  BY ThreadPlaces
<1>1. Queued' = Queued /\ task_pool' = task_pool /\ work' = work
  BY DEF ObtainOwnership, pool, Queued
<1>2. TypeOK'
  BY <1>0, <1>1 DEF ObtainOwnership, TypeOK, Tasks, PlaceOf
<1>3. LocalsFollowPlace'
  BY <1>0, <1>1, TaskKinds DEF ObtainOwnership, TypeOK, ClientLocals, WorkerLocals, ThreadLocals,
     TaskLocals, PlaceOf
<1>4. CacheMatches'
  BY <1>0, <1>1, TaskKinds DEF ObtainOwnership, TypeOK, CacheMatches, Referenced, PlaceOf
<1>5. UnitHasReader'
  BY <1>1, TaskKinds DEF ObtainOwnership, TypeOK, UnitHasReader
<1>6. UnsettledHasOwner'
  BY <1>0, <1>1, TaskKinds DEF ObtainOwnership, TypeOK, InitialHasOwner, LoadingHasOwner, PlaceOf
<1>7. UnansweredIsSomewhere'
  BY <1>0, <1>1, TaskKinds DEF ObtainOwnership, TypeOK, HandlersWait, RequestsHeld, ClientLocals,
     PoolEnds, WorkerLocals, PlaceOf
<1> QED BY <1>2, <1>3, <1>4, <1>5, <1>6, <1>7

\* Leaving an asset to whoever loads it preserves the invariant.
LEMMA LoseOwnershipSafe ==
  ASSUME ManagerInv, NEW t \in Threads, LoseOwnership(t)
  PROVE  ManagerInv'
<1> USE Kinds DEF ManagerInv, LocalsFollowPlace, UnsettledHasOwner, UnansweredIsSomewhere,
                    Goto, Final, assets, loading, frames, results, LoadPCs, AssetWaits, MetaWaits, Requester
<1>0. PlaceOf(t)
  BY ThreadPlaces
<1>1. Queued' = Queued /\ task_pool' = task_pool /\ work' = work
  BY DEF LoseOwnership, Return, pool, Queued
<1>2. TypeOK'
  BY <1>0, <1>1 DEF LoseOwnership, Return, TypeOK, Tasks, PlaceOf
<1>3. LocalsFollowPlace'
  <2>1. CASE Requester(t) = None
    BY <1>0, <1>1, <2>1, TaskKinds DEF LoseOwnership, Return, TypeOK, ClientLocals, WorkerLocals,
       ThreadLocals, TaskLocals, PlaceOf
  <2>2. CASE Requester(t) # None
    BY <1>0, <1>1, <2>2, TaskKinds DEF LoseOwnership, TypeOK, ClientLocals, WorkerLocals,
       ThreadLocals, TaskLocals, PlaceOf
  <2> QED
    BY <2>1, <2>2
<1>4. CacheMatches'
  BY <1>0, <1>1, TaskKinds DEF LoseOwnership, Return, TypeOK, CacheMatches, Referenced, PlaceOf
<1>5. UnitHasReader'
  BY <1>1, TaskKinds DEF LoseOwnership, Return, TypeOK, UnitHasReader
<1>6. InitialHasOwner'
  BY <1>0, <1>1, TaskKinds DEF LoseOwnership, Return, TypeOK, InitialHasOwner, PlaceOf
<1>7. LoadingHasOwner'
  <2>1. /\ unit_waiting \subseteq unit_waiting'
        /\ \A o \in Objects : current_state'[o] = "loading" => current_state[o] = "loading"
    BY <1>0 DEF LoseOwnership, Return, TypeOK, PlaceOf
  <2>2. \A u \in Threads : pc[u] \in LoaderPlaces => held'[u] = held[u] /\ pc'[u] \in LoaderPlaces
    BY <1>0 DEF LoseOwnership, Return, TypeOK, LoaderPlaces, PlaceOf
  <2> QED BY <2>1, <2>2, LoadersKept
<1>8. UnansweredIsSomewhere'
  BY <1>0, <1>1, TaskKinds DEF LoseOwnership, Return, TypeOK, HandlersWait, RequestsHeld,
     ClientLocals, PoolEnds, WorkerLocals, PlaceOf
<1> QED BY <1>2, <1>3, <1>4, <1>5, <1>6, <1>7, <1>8

\* Reading the file of an asset preserves the invariant.
LEMMA LoadFileSafe ==
  ASSUME ManagerInv, NEW t \in Threads, LoadFile(t)
  PROVE  ManagerInv'
<1> USE Kinds DEF ManagerInv, LocalsFollowPlace, UnsettledHasOwner, UnansweredIsSomewhere,
                    Goto, Final, assets, loading, frames, results, LoadPCs, AssetWaits, MetaWaits, Requester
<1>0. PlaceOf(t)
  BY ThreadPlaces
<1>1. Queued' = Queued /\ task_pool' = task_pool /\ work' = work
  BY DEF LoadFile, Settle, LoaderReturned, Return, pool, Queued
<1>2. TypeOK'
  <2>1. CASE Requester(t) = None
    <3>1. pc' = [pc EXCEPT ![t] = "idle"] \/ pc' = [pc EXCEPT ![t] = "done"]
      BY <2>1 DEF LoadFile, Settle, LoaderReturned, Return
    <3>2. pc' \in [Threads -> LoadPCs \cup {"start", "insert", "register", "done", "idle", "clean", "exited"}]
      BY <3>1 DEF TypeOK
    <3>3. /\ UNCHANGED <<loaded_assets, name, unit, unit_waiting, asked, kept>>
          /\ current_state' \in [Objects -> {"free", "initial", "loading", "ready", "error"}]
          /\ handlers' \in [Objects -> SUBSET Clients] /\ answer' \in [Clients -> {"nothing"} \cup Final]
      BY DEF LoadFile, Settle, LoaderReturned, Return, TypeOK
    <3>4. held' \in [Threads -> Objects \cup {None}] /\ serving' \in [Threads -> Clients \cup {None}]
      BY <2>1 DEF LoadFile, Settle, LoaderReturned, Return, TypeOK
    <3> HIDE DEF LoadPCs
    <3> QED BY <1>1, <3>2, <3>3, <3>4 DEF TypeOK, Tasks
  <2>2. CASE Requester(t) # None
    BY <1>0, <1>1, <2>2 DEF LoadFile, Settle, LoaderReturned, Return, TypeOK, Tasks, PlaceOf
  <2> QED BY <2>1, <2>2
<1>3. LocalsFollowPlace'
  <2>1. ClientLocals'
    BY <1>1 DEF LoadFile, Settle, LoaderReturned, Return, TypeOK, ClientLocals, WorkerLocals
  <2>2. WorkerLocals'
    BY <1>1 DEF LoadFile, Settle, LoaderReturned, Return, TypeOK, ClientLocals, WorkerLocals
  <2>3. ThreadLocals'
    BY <1>0, <1>1 DEF LoadFile, Settle, LoaderReturned, Return, TypeOK, ClientLocals, WorkerLocals, ThreadLocals, PlaceOf
  <2>4. TaskLocals'
    BY <1>1, TaskKinds DEF LoadFile, Settle, LoaderReturned, Return, TypeOK, ClientLocals, WorkerLocals, TaskLocals
  <2> QED BY <2>1, <2>2, <2>3, <2>4
<1>4. CacheMatches'
  BY <1>0, <1>1, TaskKinds DEF LoadFile, Settle, LoaderReturned, Return, TypeOK, CacheMatches,
     Referenced, PlaceOf
<1>5. UnitHasReader'
  BY <1>1, TaskKinds DEF LoadFile, Settle, LoaderReturned, Return, TypeOK, UnitHasReader
<1>6. InitialHasOwner'
  BY <1>0, <1>1, TaskKinds DEF LoadFile, Settle, LoaderReturned, Return, TypeOK, InitialHasOwner,
     PlaceOf
<1>7. LoadingHasOwner'
  BY <1>0, <1>1 DEF LoadFile, Settle, LoaderReturned, Return, TypeOK, LoadingHasOwner, PlaceOf
<1>8. HandlersWait'
  BY <1>0, <1>1 DEF LoadFile, Settle, LoaderReturned, Return, TypeOK, HandlersWait, PlaceOf
<1>9. RequestsHeld'
  BY <1>0, <1>1, TaskKinds DEF LoadFile, Settle, LoaderReturned, Return, TypeOK, RequestsHeld,
     HandlersWait, ClientLocals, PlaceOf
<1>10. PoolEnds'
  BY <1>1 DEF LoadFile, Settle, LoaderReturned, Return, TypeOK, PoolEnds, ClientLocals, WorkerLocals
<1> QED BY <1>2, <1>3, <1>4, <1>5, <1>6, <1>7, <1>8, <1>9, <1>10

\* An asset no loader has preserves the invariant.
LEMMA NameNotFoundSafe ==
  ASSUME ManagerInv, NEW t \in Threads, NameNotFound(t)
  PROVE  ManagerInv'
<1> USE Kinds DEF ManagerInv, LocalsFollowPlace, UnsettledHasOwner, UnansweredIsSomewhere,
                    Goto, Final, assets, loading, frames, results, LoadPCs, AssetWaits, MetaWaits, Requester
<1>0. PlaceOf(t)
  BY ThreadPlaces
<1>1. Queued' = Queued /\ task_pool' = task_pool /\ work' = work
  BY DEF NameNotFound, Settle, LoaderReturned, Return, pool, Queued
<1>2. TypeOK'
  BY <1>0, <1>1 DEF NameNotFound, Settle, LoaderReturned, Return, TypeOK, Tasks, PlaceOf
<1>3. ClientLocals'
  BY <1>1 DEF NameNotFound, Settle, LoaderReturned, Return, TypeOK, ClientLocals, WorkerLocals
<1>4. WorkerLocals'
  BY <1>1 DEF NameNotFound, Settle, LoaderReturned, Return, TypeOK, ClientLocals, WorkerLocals
<1>5. ThreadLocals'
  BY <1>0, <1>1 DEF NameNotFound, Settle, LoaderReturned, Return, TypeOK, ClientLocals,
     WorkerLocals, ThreadLocals, PlaceOf
<1>6. TaskLocals'
  BY <1>1, TaskKinds DEF NameNotFound, Settle, LoaderReturned, Return, TypeOK, ClientLocals,
     WorkerLocals, TaskLocals
<1>7. CacheMatches'
  BY <1>0, <1>1, TaskKinds DEF NameNotFound, Settle, LoaderReturned, Return, TypeOK, CacheMatches,
     Referenced, PlaceOf
<1>8. UnitHasReader'
  BY <1>1, TaskKinds DEF NameNotFound, Settle, LoaderReturned, Return, TypeOK, UnitHasReader
<1>9. InitialHasOwner'
  BY <1>0, <1>1, TaskKinds DEF NameNotFound, Settle, LoaderReturned, Return, TypeOK,
     InitialHasOwner, PlaceOf
<1>10. LoadingHasOwner'
  BY <1>0, <1>1 DEF NameNotFound, Settle, LoaderReturned, Return, TypeOK, LoadingHasOwner, PlaceOf
<1>11. HandlersWait'
  BY <1>0, <1>1 DEF NameNotFound, Settle, LoaderReturned, Return, TypeOK, HandlersWait, PlaceOf
<1>12. RequestsHeld'
  BY <1>0, <1>1, TaskKinds DEF NameNotFound, Settle, LoaderReturned, Return, TypeOK, RequestsHeld,
     HandlersWait, ClientLocals, PlaceOf
<1>13. PoolEnds'
  BY <1>1 DEF NameNotFound, Settle, LoaderReturned, Return, TypeOK, PoolEnds, ClientLocals,
     WorkerLocals
<1> QED BY <1>2, <1>3, <1>4, <1>5, <1>6, <1>7, <1>8, <1>9, <1>10, <1>11, <1>12, <1>13

\* Turning to the load unit preserves the invariant.
LEMMA PrepareUnitSafe ==
  ASSUME ManagerInv, NEW t \in Threads, PrepareUnit(t)
  PROVE  ManagerInv'
<1> USE Kinds DEF ManagerInv, LocalsFollowPlace, UnsettledHasOwner, UnansweredIsSomewhere,
                    Goto, Final, assets, loading, frames, results, LoadPCs, AssetWaits, MetaWaits, Requester
<1>0. PlaceOf(t)
  BY ThreadPlaces
<1>1. Queued' = Queued /\ task_pool' = task_pool /\ work' = work
  BY DEF PrepareUnit, pool, Queued
<1>2. TypeOK'
  BY <1>0, <1>1 DEF PrepareUnit, TypeOK, Tasks, PlaceOf
<1>3. LocalsFollowPlace'
  BY <1>0, <1>1, TaskKinds DEF PrepareUnit, TypeOK, ClientLocals, WorkerLocals, ThreadLocals,
     TaskLocals, PlaceOf
<1>4. CacheMatches'
  BY <1>0, <1>1, TaskKinds DEF PrepareUnit, TypeOK, CacheMatches, Referenced, PlaceOf
<1>5. UnitHasReader'
  BY <1>1, TaskKinds DEF PrepareUnit, TypeOK, UnitHasReader
<1>6. UnsettledHasOwner'
  BY <1>0, <1>1, TaskKinds DEF PrepareUnit, TypeOK, InitialHasOwner, LoadingHasOwner, PlaceOf
<1>7. UnansweredIsSomewhere'
  BY <1>0, <1>1, TaskKinds DEF PrepareUnit, TypeOK, HandlersWait, RequestsHeld, ClientLocals,
     PoolEnds, WorkerLocals, PlaceOf
<1> QED BY <1>2, <1>3, <1>4, <1>5, <1>6, <1>7

\* The end of a wait for an asset preserves the invariant.
LEMMA WaitSafe ==
  ASSUME ManagerInv, NEW t \in Threads, Wait(t)
  PROVE  ManagerInv'
<1> USE Kinds DEF ManagerInv, LocalsFollowPlace, UnsettledHasOwner, UnansweredIsSomewhere,
                    Goto, Final, assets, loading, frames, results, LoadPCs, AssetWaits, MetaWaits, Requester
<1>0. PlaceOf(t)
  BY ThreadPlaces
<1>1. Queued' = Queued /\ task_pool' = task_pool /\ work' = work
  BY DEF Wait, Return, pool, Queued
<1>2. TypeOK'
  BY <1>0, <1>1 DEF Wait, Return, TypeOK, Tasks, PlaceOf
<1>3. LocalsFollowPlace'
  BY <1>0, <1>1, TaskKinds DEF Wait, Return, TypeOK, ClientLocals, WorkerLocals, ThreadLocals,
     TaskLocals, PlaceOf
<1>4. CacheMatches'
  BY <1>0, <1>1, TaskKinds DEF Wait, Return, TypeOK, CacheMatches, Referenced, PlaceOf
<1>5. UnitHasReader'
  BY <1>1, TaskKinds DEF Wait, Return, TypeOK, UnitHasReader
<1>6. UnsettledHasOwner'
  BY <1>0, <1>1, TaskKinds DEF Wait, Return, TypeOK, InitialHasOwner, LoadingHasOwner, PlaceOf
<1>7. UnansweredIsSomewhere'
  BY <1>0, <1>1, TaskKinds DEF Wait, Return, TypeOK, HandlersWait, RequestsHeld, ClientLocals,
     PoolEnds, WorkerLocals, PlaceOf
<1> QED BY <1>2, <1>3, <1>4, <1>5, <1>6, <1>7

\* A step from one place of a wait to another preserves the invariant.
LEMMA MoveSafe ==
  ASSUME ManagerInv, NEW t \in Threads, NEW to, Goto(t, to),
         UNCHANGED <<assets, pool, loading, held, serving, results>>,
         \/ pc[t] \in AssetWaits /\ to \in AssetWaits
         \/ pc[t] \in MetaWaits /\ to \in MetaWaits
  PROVE  ManagerInv'
<1> USE Kinds DEF ManagerInv, LocalsFollowPlace, UnsettledHasOwner, UnansweredIsSomewhere,
                    Goto, Final, assets, loading, frames, results, LoadPCs, AssetWaits, MetaWaits, Requester
<1>0. PlaceOf(t)
  BY ThreadPlaces
<1>1. Queued' = Queued /\ task_pool' = task_pool /\ work' = work
  BY DEF pool, Queued
<1>2. TypeOK'
  BY <1>0, <1>1 DEF TypeOK, Tasks, PlaceOf
<1>3. LocalsFollowPlace'
  BY <1>0, <1>1, TaskKinds DEF TypeOK, ClientLocals, WorkerLocals, ThreadLocals, TaskLocals, PlaceOf
<1>4. CacheMatches'
  BY <1>0, <1>1, TaskKinds DEF TypeOK, CacheMatches, Referenced, PlaceOf
<1>5. UnitHasReader'
  BY <1>1, TaskKinds DEF TypeOK, UnitHasReader
<1>6. UnsettledHasOwner'
  <2> SUFFICES InitialHasOwner' /\ LoadingHasOwner'
    OBVIOUS
  <2>3. InitialHasOwner'
    BY <1>0, <1>1, TaskKinds DEF TypeOK, InitialHasOwner, PlaceOf
  <2>1. /\ unit_waiting \subseteq unit_waiting'
        /\ \A o \in Objects : current_state'[o] = "loading" => current_state[o] = "loading"
    BY <1>0 DEF TypeOK, PlaceOf
  <2>2. \A u \in Threads : pc[u] \in LoaderPlaces => held'[u] = held[u] /\ pc'[u] \in LoaderPlaces
    BY <1>0 DEF TypeOK, LoaderPlaces, PlaceOf
  <2> QED BY <2>3, <2>1, <2>2, LoadersKept
<1>7. UnansweredIsSomewhere'
  BY <1>0, <1>1, TaskKinds DEF TypeOK, HandlersWait, RequestsHeld, ClientLocals, PoolEnds, WorkerLocals, PlaceOf
<1> QED BY <1>2, <1>3, <1>4, <1>5, <1>6, <1>7

\* Going to sleep in a wait and waking up in it preserve the invariant.
LEMMA WaitingSafe ==
  ASSUME ManagerInv, NEW t \in Threads,
         WaitBlock(t) \/ WaitSleep(t) \/ WakesAgain(t) \/ MetaBlock(t) \/ MetaSleep(t) \/ MetaShutOut(t)
  PROVE  ManagerInv'
<1>1. \E to : /\ Goto(t, to) /\ UNCHANGED <<assets, pool, loading, held, serving, results>>
              /\ \/ pc[t] \in AssetWaits /\ to \in AssetWaits
                 \/ pc[t] \in MetaWaits /\ to \in MetaWaits
  BY DEF WaitBlock, WaitSleep, WakesAgain, MetaBlock, MetaSleep, MetaShutOut, AssetWaits, MetaWaits
<1> QED BY <1>1, MoveSafe

\* Obtaining the meta data preserves the invariant.
LEMMA ObtainMetaSafe ==
  ASSUME ManagerInv, NEW t \in Threads, ObtainMeta(t)
  PROVE  ManagerInv'
<1> USE Kinds DEF ManagerInv, LocalsFollowPlace, UnsettledHasOwner, UnansweredIsSomewhere,
                    Goto, Final, assets, loading, frames, results, LoadPCs, AssetWaits, MetaWaits, Requester
<1>0. PlaceOf(t)
  BY ThreadPlaces
<1>1. Queued' = Queued /\ task_pool' = task_pool /\ work' = work
  BY DEF ObtainMeta, pool, Queued
<1>2. TypeOK'
  BY <1>0, <1>1 DEF ObtainMeta, TypeOK, Tasks, PlaceOf
<1>3. LocalsFollowPlace'
  BY <1>0, <1>1, TaskKinds DEF ObtainMeta, TypeOK, ClientLocals, WorkerLocals, ThreadLocals,
     TaskLocals, PlaceOf
<1>4. CacheMatches'
  BY <1>0, <1>1, TaskKinds DEF ObtainMeta, TypeOK, CacheMatches, Referenced, PlaceOf
<1>5. UnitHasReader'
  BY <1>1, TaskKinds DEF ObtainMeta, TypeOK, UnitHasReader
<1>6. UnsettledHasOwner'
  BY <1>0, <1>1, TaskKinds DEF ObtainMeta, TypeOK, InitialHasOwner, LoadingHasOwner, PlaceOf
<1>7. UnansweredIsSomewhere'
  BY <1>0, <1>1, TaskKinds DEF ObtainMeta, TypeOK, HandlersWait, RequestsHeld, ClientLocals,
     PoolEnds, WorkerLocals, PlaceOf
<1> QED BY <1>2, <1>3, <1>4, <1>5, <1>6, <1>7

\* Leaving the meta data to whoever reads it preserves the invariant.
LEMMA LoseMetaSafe ==
  ASSUME ManagerInv, NEW t \in Threads, LoseMeta(t)
  PROVE  ManagerInv'
<1> USE Kinds DEF ManagerInv, LocalsFollowPlace, UnsettledHasOwner, UnansweredIsSomewhere,
                    Goto, Final, assets, loading, frames, results, LoadPCs, AssetWaits, MetaWaits, Requester
<1>0. PlaceOf(t)
  BY ThreadPlaces
<1>1. Queued' = Queued /\ task_pool' = task_pool /\ work' = work
  BY DEF LoseMeta, Return, pool, Queued
<1>2. TypeOK'
  BY <1>0, <1>1 DEF LoseMeta, Return, TypeOK, Tasks, PlaceOf
<1>3. ClientLocals'
  BY <1>1 DEF LoseMeta, Return, TypeOK, ClientLocals, WorkerLocals
<1>4. WorkerLocals'
  BY <1>1 DEF LoseMeta, Return, TypeOK, ClientLocals, WorkerLocals
<1>5. ThreadLocals'
  BY <1>0, <1>1 DEF LoseMeta, Return, TypeOK, ClientLocals, WorkerLocals, ThreadLocals, PlaceOf
<1>6. TaskLocals'
  BY <1>1, TaskKinds DEF LoseMeta, Return, TypeOK, ClientLocals, WorkerLocals, TaskLocals
<1>7. CacheMatches'
  BY <1>0, <1>1, TaskKinds DEF LoseMeta, Return, TypeOK, CacheMatches, Referenced, PlaceOf
<1>8. UnitHasReader'
  BY <1>1, TaskKinds DEF LoseMeta, Return, TypeOK, UnitHasReader
<1>9. UnsettledHasOwner'
  BY <1>0, <1>1, TaskKinds DEF LoseMeta, Return, TypeOK, InitialHasOwner, LoadingHasOwner, PlaceOf
<1>10. HandlersWait'
  BY <1>0, <1>1 DEF LoseMeta, Return, TypeOK, HandlersWait, PlaceOf
<1>11. RequestsHeld'
  BY <1>0, <1>1, TaskKinds DEF LoseMeta, Return, TypeOK, RequestsHeld, HandlersWait, ClientLocals,
     ThreadLocals, PlaceOf
<1>12. PoolEnds'
  BY <1>1 DEF LoseMeta, Return, TypeOK, PoolEnds, ClientLocals, WorkerLocals
<1> QED BY <1>2, <1>3, <1>4, <1>5, <1>6, <1>7, <1>8, <1>9, <1>10, <1>11, <1>12

\* Reading the meta data preserves the invariant.
LEMMA MetaReadySafe ==
  ASSUME ManagerInv, NEW t \in Threads, MetaReady(t)
  PROVE  ManagerInv'
<1> USE Kinds DEF ManagerInv, LocalsFollowPlace, UnsettledHasOwner, UnansweredIsSomewhere,
                    Goto, Final, assets, loading, frames, results, LoadPCs, AssetWaits, MetaWaits, Requester
<1>0. PlaceOf(t)
  BY ThreadPlaces
<1>1. Queued' = Queued \cup {SimpleTask("payload")} /\ SimpleTask("payload") \in Tasks /\ task_pool' \in Seq(Tasks) /\ work' = work /\ task_pool' # <<>>
  BY Posted, TaskKinds DEF MetaReady, TypeOK, Tasks
<1>2. TypeOK'
  <2>1. CASE held[t] = None
    BY <1>1, <2>1 DEF MetaReady, Return, TypeOK, Tasks
  <2>2. CASE held[t] # None
    BY <1>1, <2>2 DEF MetaReady, Return, TypeOK, Tasks
  <2> QED BY <2>1, <2>2
<1>3. ClientLocals'
  BY <1>1, TaskKinds DEF MetaReady, Return, TypeOK, ClientLocals, WorkerLocals
<1>4. WorkerLocals'
  BY <1>1, TaskKinds DEF MetaReady, Return, TypeOK, ClientLocals, WorkerLocals
<1>5. ThreadLocals'
  BY <1>0, <1>1, TaskKinds DEF MetaReady, Return, TypeOK, ClientLocals, WorkerLocals,
     ThreadLocals, PlaceOf
<1>6. TaskLocals'
  BY <1>1, TaskKinds DEF MetaReady, Return, TypeOK, ClientLocals, WorkerLocals, TaskLocals
<1>7. CacheMatches'
  BY <1>0, <1>1, TaskKinds DEF MetaReady, Return, TypeOK, CacheMatches, Referenced, PlaceOf
<1>8. UnitHasReader'
  BY <1>1, TaskKinds DEF MetaReady, Return, TypeOK, UnitHasReader
<1>9. InitialHasOwner'
  BY <1>0, <1>1, TaskKinds DEF MetaReady, Return, TypeOK, InitialHasOwner, PlaceOf
<1>10. LoadingHasOwner'
  BY <1>0, <1>1, TaskKinds DEF MetaReady, Return, TypeOK, LoadingHasOwner, PlaceOf
<1>11. HandlersWait'
  BY <1>0, <1>1, TaskKinds DEF MetaReady, Return, TypeOK, HandlersWait, PlaceOf
<1>12. RequestsHeld'
  BY <1>0, <1>1, TaskKinds DEF MetaReady, Return, TypeOK, RequestsHeld, HandlersWait,
     ClientLocals, ThreadLocals, PlaceOf
<1>13. PoolEnds'
  BY <1>1, TaskKinds DEF MetaReady, Return, TypeOK, PoolEnds, ClientLocals, WorkerLocals
<1> QED BY <1>2, <1>3, <1>4, <1>5, <1>6, <1>7, <1>8, <1>9, <1>10, <1>11, <1>12, <1>13

\* Missing meta data preserves the invariant.
LEMMA MetaMissingSafe ==
  ASSUME ManagerInv, NEW t \in Threads, MetaMissing(t)
  PROVE  ManagerInv'
<1> USE Kinds DEF ManagerInv, LocalsFollowPlace, UnsettledHasOwner, UnansweredIsSomewhere,
                    Goto, Final, assets, loading, frames, results, LoadPCs, AssetWaits, MetaWaits, Requester
<1>0. PlaceOf(t)
  BY ThreadPlaces
<1>1. Queued' = Queued /\ task_pool' = task_pool /\ work' = work
  BY DEF MetaMissing, Return, pool, Queued
<1>2. TypeOK'
  <2>1. CASE held[t] = None
    BY <1>0, <1>1, <2>1 DEF MetaMissing, Return, TypeOK, Tasks, PlaceOf
  <2>2. CASE held[t] # None
    BY <1>0, <1>1, <2>2 DEF MetaMissing, Return, TypeOK, Tasks, PlaceOf
  <2> QED BY <2>1, <2>2
<1>3. ClientLocals'
  BY <1>1 DEF MetaMissing, Return, TypeOK, ClientLocals, WorkerLocals
<1>4. WorkerLocals'
  BY <1>1 DEF MetaMissing, Return, TypeOK, ClientLocals, WorkerLocals
<1>5. ThreadLocals'
  BY <1>0, <1>1 DEF MetaMissing, Return, TypeOK, ClientLocals, WorkerLocals, ThreadLocals, PlaceOf
<1>6. TaskLocals'
  BY <1>1, TaskKinds DEF MetaMissing, Return, TypeOK, ClientLocals, WorkerLocals, TaskLocals
<1>7. CacheMatches'
  BY <1>0, <1>1, TaskKinds DEF MetaMissing, Return, TypeOK, CacheMatches, Referenced, PlaceOf
<1>8. UnitHasReader'
  BY <1>1, TaskKinds DEF MetaMissing, Return, TypeOK, UnitHasReader
<1>9. UnsettledHasOwner'
  BY <1>0, <1>1, TaskKinds DEF MetaMissing, Return, TypeOK, InitialHasOwner, LoadingHasOwner,
     PlaceOf
<1>10. HandlersWait'
  BY <1>0, <1>1 DEF MetaMissing, Return, TypeOK, HandlersWait, PlaceOf
<1>11. RequestsHeld'
  BY <1>0, <1>1, TaskKinds DEF MetaMissing, Return, TypeOK, RequestsHeld, HandlersWait,
     ClientLocals, ThreadLocals, PlaceOf
<1>12. PoolEnds'
  BY <1>1 DEF MetaMissing, Return, TypeOK, PoolEnds, ClientLocals, WorkerLocals
<1> QED BY <1>2, <1>3, <1>4, <1>5, <1>6, <1>7, <1>8, <1>9, <1>10, <1>11, <1>12

\* Meta data that does not parse preserves the invariant: its reader stays where it is.
LEMMA MetaCorruptSafe ==
  ASSUME ManagerInv, NEW t \in Threads, MetaCorrupt(t)
  PROVE  ManagerInv'
<1> USE Kinds DEF ManagerInv, LocalsFollowPlace, UnsettledHasOwner, UnansweredIsSomewhere,
                    Goto, Final, assets, loading, frames, results, LoadPCs, AssetWaits, MetaWaits, Requester
<1>0. PlaceOf(t)
  BY ThreadPlaces
<1>1. Queued' = Queued /\ task_pool' = task_pool /\ work' = work
  BY DEF MetaCorrupt, pool, Queued
<1>2. TypeOK'
  BY <1>0, <1>1 DEF MetaCorrupt, TypeOK, Tasks, PlaceOf
<1>3. LocalsFollowPlace'
  BY <1>0, <1>1, TaskKinds DEF MetaCorrupt, TypeOK, ClientLocals, WorkerLocals, ThreadLocals,
     TaskLocals, PlaceOf
<1>4. CacheMatches'
  BY <1>0, <1>1, TaskKinds DEF MetaCorrupt, TypeOK, CacheMatches, Referenced, PlaceOf
<1>5. UnitHasReader'
  BY <1>1, TaskKinds DEF MetaCorrupt, TypeOK, UnitHasReader
<1>6. UnsettledHasOwner'
  BY <1>0, <1>1, TaskKinds DEF MetaCorrupt, TypeOK, InitialHasOwner, LoadingHasOwner, PlaceOf
<1>7. UnansweredIsSomewhere'
  BY <1>0, <1>1, TaskKinds DEF MetaCorrupt, TypeOK, HandlersWait, RequestsHeld, ClientLocals,
     PoolEnds, WorkerLocals, PlaceOf
<1> QED BY <1>2, <1>3, <1>4, <1>5, <1>6, <1>7

\* The end of a wait for the meta data preserves the invariant.
LEMMA MetaWaitSafe ==
  ASSUME ManagerInv, NEW t \in Threads, MetaWait(t)
  PROVE  ManagerInv'
<1> USE Kinds DEF ManagerInv, LocalsFollowPlace, UnsettledHasOwner, UnansweredIsSomewhere,
                    Goto, Final, assets, loading, frames, results, LoadPCs, AssetWaits, MetaWaits, Requester
<1>0. PlaceOf(t)
  BY ThreadPlaces
<1>1. Queued' = Queued /\ task_pool' = task_pool /\ work' = work
  BY DEF MetaWait, pool, Queued
<1>2. TypeOK'
  BY <1>0, <1>1 DEF MetaWait, TypeOK, Tasks, PlaceOf
<1>3. LocalsFollowPlace'
  BY <1>0, <1>1, TaskKinds DEF MetaWait, TypeOK, ClientLocals, WorkerLocals, ThreadLocals,
     TaskLocals, PlaceOf
<1>4. CacheMatches'
  BY <1>0, <1>1, TaskKinds DEF MetaWait, TypeOK, CacheMatches, Referenced, PlaceOf
<1>5. UnitHasReader'
  BY <1>1, TaskKinds DEF MetaWait, TypeOK, UnitHasReader
<1>6. UnsettledHasOwner'
  BY <1>0, <1>1, TaskKinds DEF MetaWait, TypeOK, InitialHasOwner, LoadingHasOwner, PlaceOf
<1>7. UnansweredIsSomewhere'
  BY <1>0, <1>1, TaskKinds DEF MetaWait, TypeOK, HandlersWait, RequestsHeld, ClientLocals,
     PoolEnds, WorkerLocals, PlaceOf
<1> QED BY <1>2, <1>3, <1>4, <1>5, <1>6, <1>7

\* Waiting at the unit preserves the invariant.
LEMMA RegisterAtUnitSafe ==
  ASSUME ManagerInv, NEW t \in Threads, RegisterAtUnit(t)
  PROVE  ManagerInv'
<1> USE Kinds DEF ManagerInv, LocalsFollowPlace, UnsettledHasOwner, UnansweredIsSomewhere,
                    Goto, Final, assets, loading, frames, results, LoadPCs, AssetWaits, MetaWaits, Requester
<1>0. PlaceOf(t)
  BY ThreadPlaces
<1>1. Queued' = Queued /\ task_pool' = task_pool /\ work' = work
  BY DEF RegisterAtUnit, AfterRegister, Return, pool, Queued
<1>2. TypeOK'
  BY <1>0, <1>1 DEF RegisterAtUnit, AfterRegister, Return, TypeOK, Tasks, PlaceOf
<1>3. LocalsFollowPlace'
  <2>1. ClientLocals'
    BY <1>1 DEF RegisterAtUnit, AfterRegister, Return, TypeOK, ClientLocals, WorkerLocals
  <2>2. WorkerLocals'
    BY <1>1 DEF RegisterAtUnit, AfterRegister, Return, TypeOK, ClientLocals, WorkerLocals
  <2>3. ThreadLocals'
    BY <1>0, <1>1 DEF RegisterAtUnit, AfterRegister, Return, TypeOK, ClientLocals, WorkerLocals, ThreadLocals, PlaceOf
  <2>4. TaskLocals'
    BY <1>1, TaskKinds DEF RegisterAtUnit, AfterRegister, Return, TypeOK, ClientLocals, WorkerLocals, TaskLocals
  <2> QED BY <2>1, <2>2, <2>3, <2>4
<1>4. CacheMatches'
  BY <1>0, <1>1, TaskKinds DEF RegisterAtUnit, AfterRegister, Return, TypeOK, CacheMatches,
     Referenced, PlaceOf
<1>5. UnitHasReader'
  BY <1>1, TaskKinds DEF RegisterAtUnit, AfterRegister, Return, TypeOK, UnitHasReader
<1>6. InitialHasOwner'
  BY <1>0, <1>1, TaskKinds DEF RegisterAtUnit, AfterRegister, Return, TypeOK, InitialHasOwner,
     PlaceOf
<1>7. LoadingHasOwner'
  BY <1>0, <1>1 DEF RegisterAtUnit, AfterRegister, Return, TypeOK, LoadingHasOwner, PlaceOf
<1>8. UnansweredIsSomewhere'
  BY <1>0, <1>1, TaskKinds DEF RegisterAtUnit, AfterRegister, Return, TypeOK, HandlersWait,
     RequestsHeld, ClientLocals, PoolEnds, WorkerLocals, PlaceOf
<1> QED BY <1>2, <1>3, <1>4, <1>5, <1>6, <1>7, <1>8

\* Finding the unit settled preserves the invariant.
LEMMA SettledAtUnitSafe ==
  ASSUME ManagerInv, NEW t \in Threads, SettledAtUnit(t)
  PROVE  ManagerInv'
<1> USE Kinds DEF ManagerInv, LocalsFollowPlace, UnsettledHasOwner, UnansweredIsSomewhere,
                    Goto, Final, assets, loading, frames, results, LoadPCs, AssetWaits, MetaWaits, Requester
<1>0. PlaceOf(t)
  BY ThreadPlaces
<1>1. Queued' = Queued /\ task_pool' = task_pool /\ work' = work
  BY DEF SettledAtUnit, Settle, AfterRegister, Return, pool, Queued
<1>2. TypeOK'
  BY <1>0, <1>1 DEF SettledAtUnit, Settle, AfterRegister, Return, TypeOK, Tasks, PlaceOf
<1>3. ClientLocals'
  BY <1>1 DEF SettledAtUnit, Settle, AfterRegister, Return, TypeOK, ClientLocals, WorkerLocals
<1>4. WorkerLocals'
  BY <1>1 DEF SettledAtUnit, Settle, AfterRegister, Return, TypeOK, ClientLocals, WorkerLocals
<1>5. ThreadLocals'
  BY <1>0, <1>1 DEF SettledAtUnit, Settle, AfterRegister, Return, TypeOK, ClientLocals,
     WorkerLocals, ThreadLocals, PlaceOf
<1>6. TaskLocals'
  BY <1>1, TaskKinds DEF SettledAtUnit, Settle, AfterRegister, Return, TypeOK, ClientLocals,
     WorkerLocals, TaskLocals
<1>7. CacheMatches'
  BY <1>0, <1>1, TaskKinds DEF SettledAtUnit, Settle, AfterRegister, Return, TypeOK, CacheMatches,
     Referenced, PlaceOf
<1>8. UnitHasReader'
  BY <1>1, TaskKinds DEF SettledAtUnit, Settle, AfterRegister, Return, TypeOK, UnitHasReader
<1>9. InitialHasOwner'
  BY <1>0, <1>1, TaskKinds DEF SettledAtUnit, Settle, AfterRegister, Return, TypeOK,
     InitialHasOwner, PlaceOf
<1>10. LoadingHasOwner'
  BY <1>0, <1>1 DEF SettledAtUnit, Settle, AfterRegister, Return, TypeOK, LoadingHasOwner, PlaceOf
<1>11. HandlersWait'
  BY <1>0, <1>1 DEF SettledAtUnit, Settle, AfterRegister, Return, TypeOK, HandlersWait, PlaceOf
<1>12. RequestsHeld'
  BY <1>0, <1>1, TaskKinds DEF SettledAtUnit, Settle, AfterRegister, Return, TypeOK, RequestsHeld,
     HandlersWait, ClientLocals, PlaceOf
<1>13. PoolEnds'
  BY <1>1 DEF SettledAtUnit, Settle, AfterRegister, Return, TypeOK, PoolEnds, ClientLocals,
     WorkerLocals
<1> QED BY <1>2, <1>3, <1>4, <1>5, <1>6, <1>7, <1>8, <1>9, <1>10, <1>11, <1>12, <1>13

\* Obtaining the payload preserves the invariant.
LEMMA ObtainDataSafe ==
  ASSUME ManagerInv, NEW t \in Threads, ObtainData(t)
  PROVE  ManagerInv'
<1> USE Kinds DEF ManagerInv, LocalsFollowPlace, UnsettledHasOwner, UnansweredIsSomewhere,
                    Goto, Final, assets, loading, frames, results, LoadPCs, AssetWaits, MetaWaits, Requester
<1>0. PlaceOf(t)
  BY ThreadPlaces
<1>1. Queued' = Queued /\ task_pool' = task_pool /\ work' = work
  BY DEF ObtainData, pool, Queued
<1>2. TypeOK'
  BY <1>0, <1>1 DEF ObtainData, TypeOK, Tasks, PlaceOf
<1>3. LocalsFollowPlace'
  BY <1>0, <1>1, TaskKinds DEF ObtainData, TypeOK, ClientLocals, WorkerLocals, ThreadLocals,
     TaskLocals, PlaceOf
<1>4. CacheMatches'
  BY <1>0, <1>1, TaskKinds DEF ObtainData, TypeOK, CacheMatches, Referenced, PlaceOf
<1>5. UnitHasReader'
  BY <1>1, TaskKinds DEF ObtainData, TypeOK, UnitHasReader
<1>6. UnsettledHasOwner'
  BY <1>0, <1>1, TaskKinds DEF ObtainData, TypeOK, InitialHasOwner, LoadingHasOwner, PlaceOf
<1>7. UnansweredIsSomewhere'
  BY <1>0, <1>1, TaskKinds DEF ObtainData, TypeOK, HandlersWait, RequestsHeld, ClientLocals,
     PoolEnds, WorkerLocals, PlaceOf
<1> QED BY <1>2, <1>3, <1>4, <1>5, <1>6, <1>7

\* Leaving the payload to whoever reads it preserves the invariant.
LEMMA LoseDataSafe ==
  ASSUME ManagerInv, NEW t \in Threads, LoseData(t)
  PROVE  ManagerInv'
<1> USE Kinds DEF ManagerInv, LocalsFollowPlace, UnsettledHasOwner, UnansweredIsSomewhere,
                    Goto, Final, assets, loading, frames, results, LoadPCs, AssetWaits, MetaWaits, Requester
<1>0. PlaceOf(t)
  BY ThreadPlaces
<1>1. Queued' = Queued /\ task_pool' = task_pool /\ work' = work
  BY DEF LoseData, LoaderReturned, Return, pool, Queued
<1>2. TypeOK'
  BY <1>0, <1>1 DEF LoseData, LoaderReturned, Return, TypeOK, Tasks, PlaceOf
<1>3. LocalsFollowPlace'
  BY <1>0, <1>1, TaskKinds DEF LoseData, LoaderReturned, Return, TypeOK, ClientLocals,
     WorkerLocals, ThreadLocals, TaskLocals, PlaceOf
<1>4. CacheMatches'
  BY <1>0, <1>1, TaskKinds DEF LoseData, LoaderReturned, Return, TypeOK, CacheMatches, Referenced,
     PlaceOf
<1>5. UnitHasReader'
  BY <1>1, TaskKinds DEF LoseData, LoaderReturned, Return, TypeOK, UnitHasReader
<1>6. InitialHasOwner'
  BY <1>0, <1>1, TaskKinds DEF LoseData, LoaderReturned, Return, TypeOK, InitialHasOwner, PlaceOf
<1>7. LoadingHasOwner'
  BY <1>0, <1>1 DEF LoseData, LoaderReturned, Return, TypeOK, LoadingHasOwner, PlaceOf
<1>8. UnansweredIsSomewhere'
  <2>1. HandlersWait'
    BY <1>1 DEF LoseData, LoaderReturned, Return, HandlersWait
  <2>2. RequestsHeld'
    BY <1>0, <1>1 DEF LoseData, LoaderReturned, Return, TypeOK, RequestsHeld, ClientLocals, PlaceOf
  <2>3. PoolEnds'
    BY <1>1 DEF LoseData, LoaderReturned, Return, TypeOK, PoolEnds, ClientLocals, WorkerLocals
  <2> QED BY <2>1, <2>2, <2>3
<1> QED BY <1>2, <1>3, <1>4, <1>5, <1>6, <1>7, <1>8

\* The end of the payload preserves the invariant.
LEMMA ReadDataSafe ==
  ASSUME ManagerInv, NEW t \in Threads, NEW outcome \in Final, ReadData(t, outcome)
  PROVE  ManagerInv'
<1> USE Kinds DEF ManagerInv, LocalsFollowPlace, UnsettledHasOwner, UnansweredIsSomewhere,
                    Goto, Final, assets, loading, frames, results, LoadPCs, AssetWaits, MetaWaits, Requester
<1>0. PlaceOf(t)
  BY ThreadPlaces
<1>1. Queued' = Queued /\ task_pool' = task_pool /\ work' = work
  BY DEF ReadData, Settle, LoaderReturned, Return, pool, Queued
<1>2. TypeOK'
  BY <1>0, <1>1 DEF ReadData, Settle, LoaderReturned, Return, TypeOK, Tasks, PlaceOf
<1>3. ClientLocals'
  <2>1. asked' = asked /\ \A c \in Clients : c # t => pc'[c] = pc[c] /\ serving'[c] = serving[c]
    BY DEF ReadData, Settle, LoaderReturned, Return, TypeOK
  <2>2. t \in Clients => pc[t] = "data_read" /\ pc'[t] \in {"wait", "done"} /\ serving'[t] = None
    BY DEF ReadData, Settle, LoaderReturned, Return, TypeOK, ClientLocals
  <2> QED BY <2>1, <2>2 DEF ClientLocals
<1>4. WorkerLocals'
  <2>1. asked' = asked /\ \A w \in Workers : w # t => pc'[w] = pc[w] /\ serving'[w] = serving[w]
    BY DEF ReadData, Settle, LoaderReturned, Return, TypeOK
  <2>2. t \in Workers => /\ pc[t] = "data_read"
                         /\ \/ pc'[t] = "wait" /\ serving'[t] = serving[t]
                            \/ pc'[t] = "idle" /\ serving'[t] = None
    BY DEF ReadData, Settle, LoaderReturned, Return, TypeOK
  <2> QED BY <2>1, <2>2 DEF WorkerLocals
<1>5. ThreadLocals'
  BY <1>0, <1>1 DEF ReadData, Settle, LoaderReturned, Return, TypeOK, ClientLocals, WorkerLocals,
     ThreadLocals, PlaceOf
<1>6. TaskLocals'
  BY <1>1, TaskKinds DEF ReadData, Settle, LoaderReturned, Return, TypeOK, ClientLocals,
     WorkerLocals, TaskLocals
<1>7. CacheMatches'
  BY <1>0, <1>1, TaskKinds DEF ReadData, Settle, LoaderReturned, Return, TypeOK, CacheMatches,
     Referenced, PlaceOf
<1>8. UnitHasReader'
  BY <1>1, TaskKinds DEF ReadData, Settle, LoaderReturned, Return, TypeOK, UnitHasReader
<1>9. InitialHasOwner'
  BY <1>0, <1>1, TaskKinds DEF ReadData, Settle, LoaderReturned, Return, TypeOK, InitialHasOwner,
     PlaceOf
<1>10. LoadingHasOwner'
  BY <1>0, <1>1 DEF ReadData, Settle, LoaderReturned, Return, TypeOK, LoadingHasOwner, PlaceOf
<1>11. HandlersWait'
  BY <1>0, <1>1 DEF ReadData, Settle, LoaderReturned, Return, TypeOK, HandlersWait, PlaceOf
<1>12. RequestsHeld'
  BY <1>0, <1>1, TaskKinds DEF ReadData, Settle, LoaderReturned, Return, TypeOK, RequestsHeld,
     HandlersWait, ClientLocals, PlaceOf
<1>13. PoolEnds'
  BY <1>1 DEF ReadData, Settle, LoaderReturned, Return, TypeOK, PoolEnds, ClientLocals, WorkerLocals
<1> QED BY <1>2, <1>3, <1>4, <1>5, <1>6, <1>7, <1>8, <1>9, <1>10, <1>11, <1>12, <1>13

\* Taking a task preserves the invariant.
LEMMA TakeTaskSafe ==
  ASSUME ManagerInv, NEW w \in Workers, TakeTask(w)
  PROVE  ManagerInv'
<1> USE Kinds DEF ManagerInv, LocalsFollowPlace, UnsettledHasOwner, UnansweredIsSomewhere,
                    Goto, Final, assets, loading, frames, results, LoadPCs, AssetWaits, MetaWaits, Requester
<1>0. PlaceOf(w)
  BY ThreadPlaces
<1>1. /\ Queued = Queued' \cup {Head(task_pool)} /\ Head(task_pool) \in Tasks /\ task_pool' \in Seq(Tasks)
      /\ Head(task_pool) \in Queued
  BY Taken DEF TakeTask, TypeOK, Tasks
<1>2. TypeOK'
  BY <1>0, <1>1, TaskKinds DEF TakeTask, FirstStep, TypeOK, Tasks, PlaceOf
<1>3. ClientLocals'
  BY <1>1, TaskKinds DEF TakeTask, FirstStep, TypeOK, ClientLocals, WorkerLocals
<1>4. WorkerLocals'
  BY <1>1 DEF TakeTask, FirstStep, TypeOK, Tasks, WorkerLocals, TaskLocals
<1>5. ThreadLocals'
  BY <1>0, <1>1 DEF TakeTask, FirstStep, TypeOK, Tasks, ClientLocals, WorkerLocals, ThreadLocals,
     TaskLocals, PlaceOf
<1>6. TaskLocals'
  BY <1>1, TaskKinds DEF TakeTask, FirstStep, TypeOK, ClientLocals, WorkerLocals, TaskLocals
<1>7. CacheMatches'
  <2>1. \A o \in Objects : Referenced(o)' => Referenced(o)
    BY <1>1, TaskKinds, SameTask DEF TakeTask, FirstStep, TypeOK, TaskLocals, Tasks, Referenced
  <2> QED BY <2>1 DEF TakeTask, FirstStep, CacheMatches
<1>8. UnitHasReader'
  <2>1. SimpleTask("payload") \in Queued => SimpleTask("payload") \in Queued' \/ pc'[w] = "data_own"
    BY <1>1, TaskKinds DEF TakeTask, FirstStep, TypeOK
  <2> QED BY <1>1, <2>1 DEF TakeTask, FirstStep, TypeOK, Tasks, UnitHasReader
<1>9. InitialHasOwner'
  BY <1>0, <1>1, TaskKinds DEF TakeTask, FirstStep, TypeOK, InitialHasOwner, PlaceOf
<1>10. LoadingHasOwner'
  BY <1>0, <1>1, TaskKinds DEF TakeTask, FirstStep, TypeOK, LoadingHasOwner, PlaceOf
<1>11. HandlersWait'
  BY <1>0, <1>1, TaskKinds DEF TakeTask, FirstStep, TypeOK, HandlersWait, PlaceOf
<1>12. RequestsHeld'
  <2>1. ASSUME NEW d \in Clients, FutureTask(d) \in Queued PROVE FutureTask(d) \in Queued' \/ serving'[w] = d
    BY <1>1, <2>1, TaskKinds DEF TakeTask, FirstStep, TypeOK
  <2>2. serving[w] = None
    BY DEF TakeTask, FirstStep, WorkerLocals
  <2>3. /\ \A d \in Clients : pc'[d] = pc[d]
        /\ \A v \in Workers : v # w => serving'[v] = serving[v]
        /\ asked' = asked /\ answer' = answer /\ handlers' = handlers
    BY DEF TakeTask, TypeOK
  <2> HIDE DEF LoadPCs, AssetWaits, MetaWaits
  <2> QED BY <1>1, <2>1, <2>2, <2>3 DEF RequestsHeld
<1>13. PoolEnds'
  <2>1. ~ \E v \in Workers : pc[v] = "exited"
    BY DEF TakeTask, FirstStep, PoolEnds
  <2> QED BY <1>1, <2>1 DEF TakeTask, FirstStep, TypeOK, Tasks, PoolEnds, ClientLocals
<1> QED BY <1>2, <1>3, <1>4, <1>5, <1>6, <1>7, <1>8, <1>9, <1>10, <1>11, <1>12, <1>13

\* Cleaning the cache preserves the invariant.
LEMMA CleanSafe ==
  ASSUME ManagerInv, NEW w \in Workers, Clean(w)
  PROVE  ManagerInv'
<1> USE Kinds DEF ManagerInv, LocalsFollowPlace, UnsettledHasOwner, UnansweredIsSomewhere,
                    Goto, Final, assets, loading, frames, results, LoadPCs, AssetWaits, MetaWaits, Requester
<1>0. PlaceOf(w)
  BY ThreadPlaces
<1>1. Queued' = Queued /\ task_pool' = task_pool /\ work' = work
  BY DEF Clean, Return, Unused, pool, Queued
<1>2. TypeOK'
  BY <1>0, <1>1 DEF Clean, Return, Unused, TypeOK, Tasks, PlaceOf
<1>3. LocalsFollowPlace'
  BY <1>0, <1>1, TaskKinds DEF Clean, Return, Unused, TypeOK, ClientLocals, WorkerLocals,
     ThreadLocals, TaskLocals, PlaceOf
<1>4. CacheMatches'
  BY <1>0, <1>1, TaskKinds DEF Clean, Return, Unused, TypeOK, CacheMatches, Referenced, PlaceOf
<1>5. UnitHasReader'
  BY <1>1, TaskKinds DEF Clean, Return, Unused, TypeOK, UnitHasReader
<1>6. UnsettledHasOwner'
  <2> SUFFICES InitialHasOwner' /\ LoadingHasOwner'
    OBVIOUS
  <2>3. InitialHasOwner'
    BY <1>0, <1>1, TaskKinds DEF Clean, Return, Unused, TypeOK, InitialHasOwner, PlaceOf
  <2>1. /\ unit_waiting \subseteq unit_waiting'
        /\ \A o \in Objects : current_state'[o] = "loading" => current_state[o] = "loading"
    BY <1>0 DEF Clean, Return, Unused, TypeOK, PlaceOf
  <2>2. \A u \in Threads : pc[u] \in LoaderPlaces => held'[u] = held[u] /\ pc'[u] \in LoaderPlaces
    BY <1>0 DEF Clean, Return, Unused, TypeOK, LoaderPlaces, PlaceOf
  <2> QED BY <2>3, <2>1, <2>2, LoadersKept
<1>7. HandlersWait'
  BY <1>0, <1>1 DEF Clean, Return, Unused, TypeOK, HandlersWait, PlaceOf
<1>8. RequestsHeld'
  <2>1. ASSUME NEW o \in Objects, handlers[o] # {} PROVE Referenced(o)
    BY <2>1 DEF HandlersWait, InitialHasOwner, LoadingHasOwner, Referenced
  <2>2. handlers' = handlers
    BY <2>1 DEF Clean, Return, Unused, TypeOK
  <2> QED BY <1>0, <1>1, <2>2 DEF Clean, Return, Unused, TypeOK, RequestsHeld, WorkerLocals
<1>9. PoolEnds'
  BY <1>1 DEF Clean, Return, Unused, TypeOK, PoolEnds, ClientLocals, WorkerLocals
<1> QED BY <1>2, <1>3, <1>4, <1>5, <1>6, <1>7, <1>8, <1>9

\* A worker's exit preserves the invariant.
LEMMA WorkerExitsSafe ==
  ASSUME ManagerInv, NEW w \in Workers, WorkerExits(w)
  PROVE  ManagerInv'
<1> USE Kinds DEF ManagerInv, LocalsFollowPlace, UnsettledHasOwner, UnansweredIsSomewhere,
                    Goto, Final, assets, loading, frames, results, LoadPCs, AssetWaits, MetaWaits, Requester
<1>0. PlaceOf(w)
  BY ThreadPlaces
<1>1. Queued' = Queued /\ task_pool' = task_pool /\ work' = work
  BY DEF WorkerExits, pool, Queued
<1>2. TypeOK'
  BY <1>0, <1>1 DEF WorkerExits, TypeOK, Tasks, PlaceOf
<1>3. LocalsFollowPlace'
  BY <1>0, <1>1, TaskKinds DEF WorkerExits, TypeOK, ClientLocals, WorkerLocals, ThreadLocals,
     TaskLocals, PlaceOf
<1>4. CacheMatches'
  BY <1>0, <1>1, TaskKinds DEF WorkerExits, TypeOK, CacheMatches, Referenced, PlaceOf
<1>5. UnitHasReader'
  BY <1>1, TaskKinds DEF WorkerExits, TypeOK, UnitHasReader
<1>6. UnsettledHasOwner'
  BY <1>0, <1>1, TaskKinds DEF WorkerExits, TypeOK, InitialHasOwner, LoadingHasOwner, PlaceOf
<1>7. UnansweredIsSomewhere'
  BY <1>0, <1>1, TaskKinds DEF WorkerExits, TypeOK, HandlersWait, RequestsHeld, ClientLocals,
     PoolEnds, WorkerLocals, PlaceOf
<1> QED BY <1>2, <1>3, <1>4, <1>5, <1>6, <1>7

\* A client's letting go of its asset preserves the invariant.
LEMMA DropSafe ==
  ASSUME ManagerInv, NEW c \in Clients, Drop(c)
  PROVE  ManagerInv'
<1> USE Kinds DEF ManagerInv, LocalsFollowPlace, UnsettledHasOwner, UnansweredIsSomewhere, assets, frames, loading
<1>1. Queued' = Queued /\ UNCHANGED <<task_pool, work, assets, frames, loading, asked, answer>>
  BY DEF Drop, pool, Queued
<1>2. TypeOK'
  BY <1>1 DEF Drop, TypeOK
<1>3. LocalsFollowPlace' /\ UnitHasReader'
  BY <1>1 DEF ClientLocals, WorkerLocals, ThreadLocals, TaskLocals, UnitHasReader, Requester
<1>4. CacheMatches'
  BY <1>1 DEF Drop, TypeOK, CacheMatches, Referenced
<1>5. UnsettledHasOwner' /\ UnansweredIsSomewhere'
  BY <1>1 DEF InitialHasOwner, LoadingHasOwner, HandlersWait, RequestsHeld, PoolEnds
<1> QED BY <1>2, <1>3, <1>4, <1>5

\* The beginning of the destruction preserves the invariant.
LEMMA StartDestroySafe ==
  ASSUME ManagerInv, StartDestroy
  PROVE  ManagerInv'
<1> USE Kinds DEF ManagerInv, LocalsFollowPlace, UnsettledHasOwner, UnansweredIsSomewhere, assets, frames, loading, results
<1>1. Queued' = Queued /\ UNCHANGED <<task_pool, assets, frames, loading, results>> /\ work' = FALSE
  BY DEF StartDestroy, Queued
<1>2. TypeOK'
  BY <1>1 DEF TypeOK
<1>3. LocalsFollowPlace' /\ UnitHasReader'
  BY <1>1 DEF ClientLocals, WorkerLocals, ThreadLocals, TaskLocals, UnitHasReader, Requester
<1>4. CacheMatches'
  BY <1>1 DEF CacheMatches, Referenced
<1>5. UnsettledHasOwner' /\ UnansweredIsSomewhere'
  BY <1>1 DEF StartDestroy, InitialHasOwner, LoadingHasOwner, HandlersWait, RequestsHeld, PoolEnds
<1> QED BY <1>2, <1>3, <1>4, <1>5

\* Stuttering preserves the invariant.
LEMMA StutterSafe ==
  ASSUME ManagerInv, UNCHANGED vars
  PROVE  ManagerInv'
<1> USE DEF ManagerInv, LocalsFollowPlace, UnsettledHasOwner, UnansweredIsSomewhere, vars, assets, pool, frames, loading, results
<1>1. Queued' = Queued
  BY DEF Queued
<1>2. TypeOK' /\ LocalsFollowPlace'
  BY <1>1 DEF TypeOK, ClientLocals, WorkerLocals, ThreadLocals, TaskLocals, Requester
<1>3. CacheMatches' /\ UnitHasReader'
  BY <1>1 DEF CacheMatches, Referenced, UnitHasReader
<1>4. UnsettledHasOwner' /\ UnansweredIsSomewhere'
  BY <1>1 DEF InitialHasOwner, LoadingHasOwner, HandlersWait, RequestsHeld, PoolEnds
<1> QED BY <1>2, <1>3, <1>4

\* The invariant holds before anybody calls the manager.
LEMMA InitSafe == Init => ManagerInv
<1> SUFFICES ASSUME Init PROVE ManagerInv
  OBVIOUS
<1> USE Kinds DEF Init
<1>1. Queued \subseteq {SimpleTask("pin")} /\ task_pool \in Seq(Tasks) /\ SimpleTask("pin") \in Tasks
  <2>1. CASE unit = "absent"  BY <2>1, TaskKinds DEF Queued
  <2>2. CASE unit = "initial"  BY <2>2, TaskKinds DEF Queued
  <2> QED BY <2>1, <2>2
<1>2. TypeOK
  BY <1>1, TaskKinds DEF TypeOK, Tasks, Final, LoadPCs, AssetWaits, MetaWaits
<1>3. LocalsFollowPlace
  BY <1>1, TaskKinds DEF LocalsFollowPlace, ClientLocals, WorkerLocals, ThreadLocals, TaskLocals, LoadPCs, AssetWaits, MetaWaits,
     Requester
<1>4. CacheMatches
  BY <1>1, TaskKinds DEF CacheMatches, Referenced
<1>5. UnitHasReader
  BY <1>1, TaskKinds DEF UnitHasReader
<1>6. UnsettledHasOwner /\ UnansweredIsSomewhere
  BY <1>1, TaskKinds DEF UnsettledHasOwner, InitialHasOwner, LoadingHasOwner, UnansweredIsSomewhere,
     HandlersWait, RequestsHeld, PoolEnds
<1> QED BY <1>2, <1>3, <1>4, <1>5, <1>6 DEF ManagerInv

\* Every step of a client or a worker, letting go, and the beginning of the destruction preserve it.
LEMMA NextSafe == ManagerInv /\ [Next]_vars => ManagerInv'
<1> SUFFICES ASSUME ManagerInv, [Next]_vars PROVE ManagerInv'
  OBVIOUS
<1>1. ASSUME NEW c \in Clients, ClientStep(c) PROVE ManagerInv'
  BY <1>1, AsyncLookupSafe, SyncLookupSafe, FutureCachedSafe, FuturePostSafe, AsyncFoundSafe,
     AsyncInsertSafe,
     AsyncRegisterSafe, StartPinLoadUnitSafe, StartCleanSafe DEF ClientStep
<1>2. ASSUME NEW w \in Workers, WorkerStep(w) PROVE ManagerInv'
  BY <1>2, TakeTaskSafe, CleanSafe, WorkerExitsSafe DEF WorkerStep
<1>3. ASSUME NEW t \in Threads, LoadStep(t) PROVE ManagerInv'
  BY <1>3, CoreFoundSafe, CoreInsertSafe, ObtainOwnershipSafe, LoseOwnershipSafe, LoadFileSafe,
     NameNotFoundSafe,
     PrepareUnitSafe, WaitSafe, WaitingSafe, ObtainMetaSafe, LoseMetaSafe, MetaReadySafe, MetaMissingSafe, MetaCorruptSafe, MetaWaitSafe,
     RegisterAtUnitSafe, SettledAtUnitSafe, ObtainDataSafe, LoseDataSafe, ReadDataSafe DEF LoadStep
<1> QED BY <1>1, <1>2, <1>3, WaitingSafe, DropSafe, StartDestroySafe, StutterSafe DEF Next, Step

\* Whatever clients, names, objects and workers there are, the invariant holds throughout: for every
\* request that is open there is somebody who will answer it, and nobody refers to a freed object.
THEOREM ManagerInvariance == Spec => []ManagerInv
<1> QED BY InitSafe, NextSafe, PTL DEF Spec

\* What is referred to is in the map under its name.
LEMMA OneObject == ManagerInv => OneObjectPerName
BY DEF ManagerInv, CacheMatches, OneObjectPerName

\* Whoever waits for an unsettled object finds somebody who settles it.
LEMMA NoOrphan == ManagerInv => NoRequestOrphaned
<1> SUFFICES ASSUME ManagerInv, NEW o \in Objects, current_state[o] \in {"initial", "loading"}
             PROVE  \/ LoadTask(o) \in Queued
                    \/ Busy(o)
                    \/ /\ o \in unit_waiting
                       /\ \/ SimpleTask("payload") \in Queued
                          \/ \E t \in Threads : pc[t] \in {"data_own", "data_read"}
  BY DEF NoRequestOrphaned
<1> USE DEF ManagerInv, UnsettledHasOwner, LoadPCs, AssetWaits, MetaWaits, Busy
<1>1. CASE current_state[o] = "initial"
  BY <1>1 DEF InitialHasOwner
<1>2. CASE current_state[o] = "loading"
  BY <1>2 DEF LoadingHasOwner, UnitHasReader
<1> QED BY <1>1, <1>2

\* When the workers have ended no request is with anybody who could still answer it.
LEMMA Joined == ManagerInv => JoinedImpliesAnswered
<1> SUFFICES ASSUME ManagerInv, \A w \in Workers : pc[w] = "exited", NEW c \in Clients, asked[c] # None, answer[c] = "nothing"
             PROVE  FALSE
  BY DEF JoinedImpliesAnswered
<1> USE Kinds, ThreadsAssumption DEF ManagerInv, LocalsFollowPlace, UnsettledHasOwner, UnansweredIsSomewhere
<1>1. Queued = {} /\ \A d \in Clients : pc[d] = "done"
  BY DEF PoolEnds, Queued
<1>2. \A t \in Threads : pc[t] \in {"done", "exited"}
  BY <1>1
<1> USE DEF MetaWaits
<1>3. \A o \in Objects : current_state[o] \notin {"initial", "loading"}
  BY <1>1, <1>2 DEF InitialHasOwner, LoadingHasOwner, UnitHasReader
<1> QED BY <1>1, <1>2, <1>3 DEF RequestsHeld, HandlersWait, WorkerLocals

\* The manager keeps one object per name and forgets no request, until it is gone.
THEOREM ManagerCorrect == Spec => []ManagerSafe
<1>1. ManagerInv => ManagerSafe
  BY OneObject, NoOrphan, Joined DEF ManagerInv, ManagerSafe
<1> QED BY <1>1, ManagerInvariance, PTL

(***************************************************************************)
(* The transfer manager                                                    *)
(***************************************************************************)

\* What a sequence holds.
LEMMA SeqFacts ==
  ASSUME NEW S, NEW s \in Seq(S)
  PROVE  Len(s) \in Nat /\ DOMAIN s = 1..Len(s) /\ \A i \in 1..Len(s) : s[i] \in S
OBVIOUS

\* A sequence with one element more.
LEMMA AppendFacts ==
  ASSUME NEW S, NEW s \in Seq(S), NEW e \in S
  PROVE  /\ Append(s, e) \in Seq(S) /\ Len(Append(s, e)) = Len(s) + 1
         /\ DOMAIN Append(s, e) = 1..Len(s) + 1
         /\ \A i \in 1..Len(s) : Append(s, e)[i] = s[i]
         /\ Append(s, e)[Len(s) + 1] = e
OBVIOUS

\* A sequence without its first element.
LEMMA TailFacts ==
  ASSUME NEW S, NEW s \in Seq(S), s # <<>>
  PROVE  /\ Tail(s) \in Seq(S) /\ Len(Tail(s)) = Len(s) - 1 /\ DOMAIN Tail(s) = 1..Len(s) - 1
         /\ \A i \in 1..Len(s) - 1 : Tail(s)[i] = s[i + 1] /\ i + 1 \in 1..Len(s)
         /\ Head(s) = s[1] /\ 1 \in 1..Len(s)
OBVIOUS

\* A slot is older than others, or they are older, as if the slots were numbers.
LEMMA OlderOrder ==
  ASSUME slot \in Slots
  PROVE  /\ \A s \in Slots : ~Older(s, s) /\ ~Older(slot, s)
         /\ \A s \in Slots \ {slot} : Older(s, slot)
         /\ \A s, t \in Slots : s = t \/ Older(s, t) \/ Older(t, s)
         /\ \A s, t \in Slots : ~(Older(s, t) /\ Older(t, s))
         /\ \A s, t, w \in Slots : Older(s, t) /\ Older(t, w) => Older(s, w)
BY UploadsAssumption DEF Older, Slots

\* The lists of running jobs.
LEMMA RunningFacts ==
  ASSUME TransfersInv
  PROVE  /\ slot \in Slots
         /\ \A s \in Slots : /\ running[s] \in Seq(Uploads) /\ Len(running[s]) \in Nat
                             /\ DOMAIN running[s] = 1..Len(running[s])
                             /\ \A i \in DOMAIN running[s] : running[s][i] \in Uploads
BY SeqFacts DEF TransfersInv, TransferTypeOK

\* Where the data of an upload lies.
LEMMA ChunkFacts ==
  ASSUME TransfersInv, NEW u \in Uploads
  PROVE  /\ chunk[u].first \in Nat /\ chunk[u].end \in Nat /\ chunk[u].buffer \in 0..generation
         /\ chunk \in [Uploads -> [first : Nat, end : Nat, buffer : 0..generation]]
         /\ generation \in Nat
BY DEF TransfersInv, TransferTypeOK

RingRecords == [in_pos : Nat, out_pos : Nat, wrap_size : Nat, size : 0 .. Word - 1]

\* What Record does: a chunk is placed, in the buffer unless something underflowed, and the job runs in
\* the current slot, behind the others.
Recorded(r, b, u) ==
  /\ \E first \in Nat :
       /\ underflowed' \/ Placed(r, ring', first, SizeOf[u])
       /\ chunk' = [chunk EXCEPT ![u] = [first |-> first, end |-> first + SizeOf[u], buffer |-> b]]
  /\ ring' \in RingRecords
  /\ underflowed' \in BOOLEAN /\ (underflowed => underflowed')
  /\ running' \in [Slots -> Seq(Uploads)]
  /\ \A s \in Slots \ {slot} : running'[s] = running[s]
  /\ DOMAIN running'[slot] = 1..Len(running[slot]) + 1
  /\ \A i \in DOMAIN running[slot] : running'[slot][i] = running[slot][i]
  /\ running'[slot][Len(running[slot]) + 1] = u

\* Record does that when the upload fits.
LEMMA RecordFacts ==
  ASSUME TransfersInv, NEW u \in Uploads, NEW r \in RingRecords, NEW b, underflowed \/ RingOK(r),
         can_fit(r, SizeOf[u], AlignmentOf[u]), Record(r, b, u)
  PROVE  Recorded(r, b, u)
<1> DEFINE first == find_pos(r, SizeOf[u], AlignmentOf[u]).target
           wrap  == find_pos(r, SizeOf[u], AlignmentOf[u]).wrap
<1>1. SizeOf[u] \in Nat \ {0} /\ AlignmentOf[u] \in Nat \ {0} /\ Word \in Nat
  BY UploadsAssumption
<1>2. /\ underflowed' = (underflowed \/ Underflows(r, SizeOf[u], AlignmentOf[u]))
      /\ underflowed \in BOOLEAN
  BY DEF Record, TransfersInv, TransferTypeOK
<1>3. underflowed' \/ Placed(r, ring', first, SizeOf[u])
  <2> SUFFICES ASSUME ~underflowed' PROVE Placed(r, ring', first, SizeOf[u])
    OBVIOUS
  <2>1. RingOK(r) /\ ~Underflows(r, SizeOf[u], AlignmentOf[u])
    BY <1>2
  <2> QED
    BY <1>1, <2>1, PlacedPositions DEF Record
<1>4. first \in Nat
  BY <1>1, FoundOffset DEF RingRecords
<1>5. ring' \in RingRecords
  <2>1. ring' = [r EXCEPT !.wrap_size = IF wrap THEN r.in_pos ELSE @, !.in_pos = first + SizeOf[u]]
    BY DEF Record, place_chunk
  <2> DEFINE behind == IF wrap THEN r.in_pos ELSE r.wrap_size
  <2>2. /\ r.in_pos \in Nat /\ r.out_pos \in Nat /\ r.wrap_size \in Nat /\ r.size \in 0 .. Word - 1
        /\ r = [in_pos |-> r.in_pos, out_pos |-> r.out_pos, wrap_size |-> r.wrap_size, size |-> r.size]
    BY DEF RingRecords
  <2>3. behind \in Nat /\ first + SizeOf[u] \in Nat
    BY <1>1, <1>4, <2>2
  <2>4. ring' = [r EXCEPT !.wrap_size = behind, !.in_pos = first + SizeOf[u]]
    BY <2>1
  <2> HIDE DEF first, wrap, behind
  <2> QED
    BY <2>2, <2>3, <2>4 DEF RingRecords
<1>6. chunk' = [chunk EXCEPT ![u] = [first |-> first, end |-> first + SizeOf[u], buffer |-> b]]
  BY DEF Record
<1>7. underflowed' \in BOOLEAN /\ (underflowed => underflowed')
  BY <1>2 DEF Underflows
<1> HIDE DEF first
<1>8. /\ running' = [running EXCEPT ![slot] = Append(@, u)]
      /\ running \in [Slots -> Seq(Uploads)] /\ slot \in Slots
  BY DEF Record, TransfersInv, TransferTypeOK
<1>9. /\ Append(running[slot], u) \in Seq(Uploads)
      /\ DOMAIN Append(running[slot], u) = 1..Len(running[slot]) + 1
      /\ \A i \in DOMAIN running[slot] : Append(running[slot], u)[i] = running[slot][i]
      /\ Append(running[slot], u)[Len(running[slot]) + 1] = u
  BY <1>8, RunningFacts, AppendFacts
<1>10. running'[slot] = Append(running[slot], u) /\ \A s \in Slots \ {slot} : running'[s] = running[s]
  BY <1>8
<1>11. running' \in [Slots -> Seq(Uploads)]
  BY <1>8, <1>9
<1> QED
  BY <1>3, <1>4, <1>5, <1>6, <1>7, <1>9, <1>10, <1>11 DEF Recorded

\* The lists, when an upload that is new, or waits, is recorded.
LEMMA RecordJobs ==
  ASSUME TransfersInv, NEW u \in Uploads, NEW r, NEW b, Recorded(r, b, u),
         u \notin requested \ waiting, waiting' = waiting \ {u}, requested' = requested \union {u},
         UNCHANGED <<callbacks, called>>
  PROVE  JobsInv'
<1> USE DEF TransfersInv, Recorded
<1>1. /\ \A s \in Slots : DOMAIN running[s] = 1..Len(running[s]) /\ Len(running[s]) \in Nat
      /\ slot \in Slots /\ requested \subseteq Uploads /\ called \subseteq requested /\ waiting \subseteq requested
      /\ waiting \intersect called = {}
  BY RunningFacts DEF TransferTypeOK, JobsInv
<1> DEFINE new == Len(running[slot]) + 1
<1>2. \A s \in Slots : \A i \in DOMAIN running'[s] :
        \/ i \in DOMAIN running[s] /\ running'[s][i] = running[s][i] /\ running'[s][i] # u
        \/ s = slot /\ i = new /\ running'[s][i] = u
  <2> SUFFICES ASSUME NEW s \in Slots, NEW i \in DOMAIN running'[s]
               PROVE  \/ i \in DOMAIN running[s] /\ running'[s][i] = running[s][i] /\ running'[s][i] # u
                      \/ s = slot /\ i = new /\ running'[s][i] = u
    OBVIOUS
  <2>1. \A j \in DOMAIN running[s] : running[s][j] # u
    BY DEF JobsInv
  <2>2. CASE s = slot
    <3>1. i \in DOMAIN running[slot] \/ i = new
      BY <1>1, <2>2
    <3> QED
      BY <2>1, <2>2, <3>1
  <2>3. CASE s # slot
    BY <2>1, <2>3
  <2> QED
    BY <2>2, <2>3
<1>3. \A k \in DOMAIN callbacks : callbacks[k] # u
  BY <1>1 DEF JobsInv
<1>4. u \notin called
  BY <1>1
<1>5. ASSUME NEW s \in Slots, NEW i \in DOMAIN running'[s]
      PROVE  /\ running'[s][i] \in requested' \ (waiting' \union called')
             /\ \A k \in DOMAIN callbacks' : callbacks'[k] # running'[s][i]
             /\ \A t \in Slots : \A j \in DOMAIN running'[t] :
                  running'[s][i] = running'[t][j] => s = t /\ i = j
  <2>1. running'[s][i] \in requested' \ (waiting' \union called')
    BY <1>2, <1>4, <1>5 DEF JobsInv
  <2>2. \A k \in DOMAIN callbacks' : callbacks'[k] # running'[s][i]
    BY <1>2, <1>3, <1>5 DEF JobsInv
  <2>3. ASSUME NEW t \in Slots, NEW j \in DOMAIN running'[t], running'[s][i] = running'[t][j]
        PROVE  s = t /\ i = j
    <3>1. CASE running'[s][i] = u
      BY <1>2, <1>5, <2>3, <3>1
    <3>2. CASE running'[s][i] # u
      <4>1. i \in DOMAIN running[s] /\ running[s][i] = running'[s][i]
        BY <1>2, <1>5, <3>2
      <4>2. j \in DOMAIN running[t] /\ running[t][j] = running[s][i]
        BY <1>2, <2>3, <3>2, <4>1
      <4> QED
        BY <4>1, <4>2 DEF JobsInv
    <3> QED
      BY <3>1, <3>2
  <2> QED
    BY <2>1, <2>2, <2>3
<1>6. \A k \in DOMAIN callbacks' :
        /\ callbacks'[k] \in requested' \ (waiting' \union called')
        /\ \A l \in DOMAIN callbacks' : callbacks'[k] = callbacks'[l] => k = l
  BY DEF JobsInv
<1>7. ASSUME NEW v \in requested'
      PROVE  \/ v \in waiting' \union called'
             \/ \E k \in DOMAIN callbacks' : callbacks'[k] = v
             \/ \E s \in Slots : \E i \in DOMAIN running'[s] : running'[s][i] = v
  <2>1. CASE v = u
    <3>1. new \in DOMAIN running'[slot] /\ running'[slot][new] = u
      BY <1>1
    <3> QED
      BY <1>1, <2>1, <3>1
  <2>2. CASE v # u
    <3>1. ASSUME NEW s \in Slots, NEW i \in DOMAIN running[s], running[s][i] = v
          PROVE  i \in DOMAIN running'[s] /\ running'[s][i] = v
      <4>1. CASE s = slot
        <5>1. i \in 1..Len(running[slot]) + 1
          BY <1>1, <3>1, <4>1
        <5> QED
          BY <3>1, <4>1, <5>1
      <4>2. CASE s # slot
        BY <3>1, <4>2
      <4> QED
        BY <4>1, <4>2
    <3> QED
      BY <1>7, <2>2, <3>1 DEF JobsInv
  <2> QED
    BY <2>1, <2>2
<1>8. waiting' \intersect called' = {}
  BY <1>1
<1> QED
  BY <1>5, <1>6, <1>7, <1>8 DEF JobsInv

\* What else is recorded keeps its place and its data.
LEMMA RecordKeeps ==
  ASSUME TransfersInv, NEW u \in Uploads, NEW r, NEW b, Recorded(r, b, u), u \notin requested \ waiting,
         NEW s \in Slots
  PROVE  /\ \A i \in DOMAIN running'[s] :
              \/ /\ i \in DOMAIN running[s] /\ running'[s][i] = running[s][i] /\ running[s][i] \in Uploads \ {u}
                 /\ chunk'[running[s][i]] = chunk[running[s][i]]
              \/ s = slot /\ i = Len(running[slot]) + 1 /\ running'[s][i] = u
         /\ \A i \in DOMAIN running[s] :
              /\ i \in DOMAIN running'[s] /\ running'[s][i] = running[s][i] /\ running[s][i] \in Uploads \ {u}
              /\ chunk'[running[s][i]] = chunk[running[s][i]]
         /\ Len(running[slot]) + 1 \in DOMAIN running'[slot]
         /\ running'[slot][Len(running[slot]) + 1] = u
<1> USE DEF Recorded
<1>1. /\ slot \in Slots /\ Len(running[slot]) \in Nat /\ DOMAIN running[slot] = 1..Len(running[slot])
      /\ \A i \in DOMAIN running[s] : running[s][i] \in Uploads
  BY RunningFacts
<1>2. chunk \in [Uploads -> [first : Nat, end : Nat, buffer : 0..generation]]
  BY DEF TransfersInv, TransferTypeOK
<1>3. \A v \in Uploads \ {u} : chunk'[v] = chunk[v]
  BY <1>2
<1>4. \A i \in DOMAIN running[s] : running[s][i] # u
  BY DEF TransfersInv, JobsInv
<1>5. CASE s = slot
  <2>1. DOMAIN running'[s] = DOMAIN running[s] \union {Len(running[slot]) + 1}
    BY <1>1, <1>5
  <2> QED
    BY <1>1, <1>3, <1>4, <1>5, <2>1
<1>6. CASE s # slot
  <2>1. Len(running[slot]) + 1 \in DOMAIN running'[slot]
    BY <1>1
  <2> QED
    BY <1>1, <1>3, <1>4, <1>6, <2>1
<1> QED
  BY <1>5, <1>6

\* Submissions and staging buffers, when an upload is recorded in the current buffer or in a new one.
LEMMA RecordBuffers ==
  ASSUME TransfersInv, NEW u \in Uploads, NEW r, Recorded(r, generation', u), u \notin requested \ waiting,
         stage # "between", generation' \in {generation, generation + 1},
         \A s \in Slots : \A c \in condemned'[s] :
           c \in condemned[s] \/ (s = slot /\ c = generation /\ generation' = generation + 1),
         UNCHANGED <<stage, slot, submitted, destroyed>>
  PROVE  SubmittedInv' /\ BuffersInv'
<1> USE DEF TransfersInv
<1>1. /\ slot \in Slots /\ generation \in Nat
      /\ submitted \in Seq([slot : Slots, jobs : Seq(Uploads)])
  BY DEF TransferTypeOK
<1>2. \A i \in DOMAIN submitted : /\ submitted[i].slot \in Slots \ {slot}
                                  /\ submitted[i].jobs = running[submitted[i].slot]
                                  /\ submitted[i].jobs = running'[submitted[i].slot]
  <2>1. \A i \in DOMAIN submitted : submitted[i] \in [slot : Slots, jobs : Seq(Uploads)]
    BY <1>1, SeqFacts
  <2> QED
    BY <2>1 DEF SubmittedInv, Recorded
<1>3. SubmittedInv'
  BY <1>2 DEF SubmittedInv
<1>4. \A s \in Slots : \A i \in DOMAIN running[s] :
        chunk'[running[s][i]] = chunk[running[s][i]] /\ chunk[running[s][i]].buffer \in 0..generation
  BY RecordKeeps, RunningFacts, ChunkFacts
<1>5. /\ \A s \in Slots : \A c \in condemned'[s] : c < generation'
      /\ \A c \in destroyed' : c < generation'
  <2>1. /\ \A s \in Slots : \A c \in condemned[s] : c \in Nat /\ c < generation
        /\ \A c \in destroyed : c \in Nat /\ c < generation
    BY <1>1 DEF BuffersInv, TransferTypeOK
  <2> QED
    BY <1>1, <2>1
<1>6. ASSUME NEW i \in DOMAIN submitted, NEW s \in Slots, NEW k \in DOMAIN submitted[i].jobs
      PROVE  /\ chunk'[submitted[i].jobs[k]].buffer \notin destroyed
             /\ chunk'[submitted[i].jobs[k]].buffer \in condemned'[s]
                  => \/ s = slot
                     \/ \E j \in DOMAIN submitted : j >= i /\ submitted[j].slot = s
  <2>1. chunk'[submitted[i].jobs[k]] = chunk[submitted[i].jobs[k]]
    BY <1>2, <1>4
  <2> QED
    BY <2>1 DEF BuffersInv
<1>7. ASSUME NEW k \in DOMAIN running'[slot], NEW s \in Slots
      PROVE  /\ chunk'[running'[slot][k]].buffer \notin destroyed
             /\ chunk'[running'[slot][k]].buffer \in condemned'[s] => s = slot
  <2>1. CASE /\ k \in DOMAIN running[slot] /\ running'[slot][k] = running[slot][k]
             /\ chunk'[running[slot][k]] = chunk[running[slot][k]]
    BY <2>1 DEF BuffersInv
  <2>2. CASE running'[slot][k] = u
    <3>1. chunk'[u].buffer = generation'
      <4>1. chunk \in [Uploads -> [first : Nat, end : Nat, buffer : 0..generation]]
        BY DEF TransferTypeOK
      <4> QED
        BY <4>1 DEF Recorded
    <3>2. generation' \in Nat /\ ~(generation' < generation')
      BY <1>1
    <3> QED
      BY <1>5, <2>2, <3>1, <3>2
  <2> QED
    BY <1>1, <2>1, <2>2, RecordKeeps
<1>8. BuffersInv'
  BY <1>5, <1>6, <1>7 DEF BuffersInv
<1> QED
  BY <1>3, <1>8

\* The types, when an upload is recorded.
LEMMA RecordTypes ==
  ASSUME TransfersInv, NEW u \in Uploads, NEW r, Recorded(r, generation', u), u \notin requested \ waiting,
         generation' \in {generation, generation + 1},
         ends' \in [Slots -> Nat \union {NoPosition}], condemned' \in [Slots -> SUBSET Nat],
         waiting' = waiting \ {u}, requested' = requested \union {u},
         UNCHANGED <<stage, slot, outOfTurn, submitted, destroyed, callbacks, called>>
  PROVE  TransferTypeOK' /\ RingInv'
<1>1. PICK first \in Nat :
        /\ underflowed' \/ Placed(r, ring', first, SizeOf[u])
        /\ chunk' = [chunk EXCEPT ![u] = [first |-> first, end |-> first + SizeOf[u], buffer |-> generation']]
  BY DEF Recorded
<1>2. RingInv'
  BY <1>1 DEF RingInv, Recorded, Placed
<1>3. /\ generation \in Nat /\ generation' \in Nat /\ 0..generation \subseteq 0..generation'
      /\ SizeOf[u] \in Nat /\ generation' \in 0..generation'
  BY UploadsAssumption, ChunkFacts
<1>4. chunk' \in [Uploads -> [first : Nat, end : Nat, buffer : 0..generation']]
  <2>1. chunk \in [Uploads -> [first : Nat, end : Nat, buffer : 0..generation']]
    BY <1>3, ChunkFacts DEF TransfersInv, TransferTypeOK
  <2>2. [first |-> first, end |-> first + SizeOf[u], buffer |-> generation']
          \in [first : Nat, end : Nat, buffer : 0..generation']
    BY <1>3
  <2> QED
    BY <1>1, <2>1, <2>2
<1>5. TransferTypeOK'
  BY <1>3, <1>4 DEF TransfersInv, TransferTypeOK, Recorded, RingRecords
<1> QED
  BY <1>2, <1>5

\* The data of staged jobs, with the terms of the invariant at one place.
LEMMA StagedFacts ==
  ASSUME TransfersInv, ~underflowed, StagedInv, NEW s \in Slots, NEW i \in Staged(s)
  PROVE  /\ i \in DOMAIN running[s] /\ running[s][i] \in Uploads
         /\ chunk[running[s][i]].first \in Nat /\ chunk[running[s][i]].end \in Nat
         /\ chunk[running[s][i]].first < chunk[running[s][i]].end
         /\ Used(ring, chunk[running[s][i]].first, chunk[running[s][i]].end)
BY RunningFacts, ChunkFacts DEF StagedInv, StagedInUsedSpace, Staged

\* What follows does not overlap.
LEMMA FollowsApart ==
  ASSUME NEW r, RingOK(r), NEW c \in Nat, NEW d \in Nat, c < d, Used(r, c, d),
         NEW e \in Nat, NEW f \in Nat, e < f, Used(r, e, f), Follows(r, d, e)
  PROVE  d <= e \/ f <= c
BY RingFields DEF Used, Wrapped, Follows

\* The chunks in the current buffer.
LEMMA StagedApart ==
  ASSUME TransfersInv, ~underflowed, StagedInv, NEW s \in Slots, NEW t \in Slots, NEW i \in Staged(s), NEW j \in Staged(t),
         s # t \/ i # j
  PROVE  \/ chunk[running[s][i]].end <= chunk[running[t][j]].first
         \/ chunk[running[t][j]].end <= chunk[running[s][i]].first
<1> DEFINE c == chunk[running[s][i]].first  d == chunk[running[s][i]].end
           e == chunk[running[t][j]].first  f == chunk[running[t][j]].end
<1>1. /\ c \in Nat /\ d \in Nat /\ c < d /\ Used(ring, c, d)
      /\ e \in Nat /\ f \in Nat /\ e < f /\ Used(ring, e, f) /\ RingOK(ring)
  BY StagedFacts DEF TransfersInv, RingInv
<1>2. Older(s, t) \/ Older(t, s) \/ (s = t /\ i < j) \/ (t = s /\ j < i)
  <2>1. i \in Nat /\ j \in Nat
    BY RunningFacts, StagedFacts
  <2> QED
    BY <2>1, RunningFacts, OlderOrder
<1>3. Follows(ring, d, e) \/ Follows(ring, f, c)
  BY <1>2 DEF StagedInv, StagedInOrder
<1> HIDE DEF c, d, e, f
<1>4. d <= e \/ f <= c
  BY <1>1, <1>3, FollowsApart
<1> QED
  BY <1>4 DEF c, d, e, f

\* The staged data, when an upload is recorded in the current buffer.
LEMMA RecordStaging ==
  ASSUME TransfersInv, StagedInv, NEW u \in Uploads, Recorded(ring, generation, u), ~underflowed',
         u \notin requested \ waiting, stage # "between", UNCHANGED <<generation, ends, stage, slot>>
  PROVE  StagedInv'
<1> USE DEF StagedInv
<1>1. PICK first \in Nat :
        /\ Placed(ring, ring', first, SizeOf[u])
        /\ chunk' = [chunk EXCEPT ![u] = [first |-> first, end |-> first + SizeOf[u], buffer |-> generation]]
  BY DEF Recorded
<1> ~underflowed
  BY DEF Recorded
<1> DEFINE new == Len(running[slot]) + 1
<1>2. /\ RingOK(ring) /\ SizeOf[u] \in Nat \ {0} /\ slot \in Slots /\ generation \in Nat
      /\ Wrapped(ring) => ring.out_pos <= ring.wrap_size
      /\ Len(running[slot]) \in Nat /\ DOMAIN running[slot] = 1..Len(running[slot])
      /\ ends \in [Slots -> Nat \union {NoPosition}]
  BY UploadsAssumption, RunningFacts DEF TransfersInv, TransferTypeOK, RingInv, StagedInUsedSpace
<1>3. chunk'[u].first = first /\ chunk'[u].end = first + SizeOf[u] /\ first < first + SizeOf[u]
  BY <1>1, <1>2, ChunkFacts
<1>4. ASSUME NEW p \in Nat, NEW q \in Nat, p <= q, Used(ring, p, q)
      PROVE  Used(ring', p, q)
  BY <1>4, <1>1, <1>2, UsedStays
<1>5. ASSUME NEW p1 \in Nat, NEW q1 \in Nat, Used(ring, p1, q1), NEW p \in p1 .. q1,
             NEW p2 \in Nat, NEW q2 \in Nat, Used(ring, p2, q2), NEW q \in p2 .. q2, Follows(ring, p, q)
      PROVE  Follows(ring', p, q)
  BY <1>5, <1>1, <1>2, FollowsStays
<1>6. ASSUME NEW p1 \in Nat, NEW q1 \in Nat, Used(ring, p1, q1), NEW p \in p1 .. q1
      PROVE  Follows(ring', p, first)
  BY <1>6, <1>1, <1>2, PlacedFollows
<1>7. Used(ring', first, first + SizeOf[u]) /\ (Wrapped(ring') => ring'.out_pos <= ring'.wrap_size)
  BY <1>1, <1>2, RingFields DEF Placed, Used, Wrapped
<1>8. ASSUME NEW s \in Slots, NEW i \in Staged(s)'
      PROVE  \/ /\ i \in Staged(s) /\ running'[s][i] = running[s][i]
                /\ chunk'[running[s][i]] = chunk[running[s][i]]
             \/ s = slot /\ i = new /\ running'[s][i] = u
  BY <1>8, RecordKeeps DEF Staged
<1>9. ASSUME NEW s \in Slots, NEW i \in Staged(s)
      PROVE  i \in DOMAIN running[s] /\ (s = slot => i < new)
  BY <1>2, <1>9 DEF Staged
<1>10. StagedInUsedSpace'
  <2> SUFFICES ASSUME NEW s \in Slots, NEW i \in Staged(s)'
               PROVE  /\ chunk'[running'[s][i]].first < chunk'[running'[s][i]].end
                      /\ Used(ring', chunk'[running'[s][i]].first, chunk'[running'[s][i]].end)
    BY <1>7 DEF StagedInUsedSpace
  <2>1. CASE /\ i \in Staged(s) /\ running'[s][i] = running[s][i]
             /\ chunk'[running[s][i]] = chunk[running[s][i]]
    BY <1>4, <2>1, StagedFacts
  <2>2. CASE running'[s][i] = u
    BY <1>3, <1>7, <2>2
  <2> QED
    BY <1>8, <2>1, <2>2
<1>11. StagedInOrder'
  <2> SUFFICES ASSUME NEW s \in Slots, NEW t \in Slots, NEW i \in Staged(s)', NEW j \in Staged(t)',
                      Older(s, t) \/ (s = t /\ i < j)
               PROVE  Follows(ring', chunk'[running'[s][i]].end, chunk'[running'[t][j]].first)
    BY DEF StagedInOrder, Older
  <2>1. /\ i \in Staged(s) /\ running'[s][i] = running[s][i]
        /\ chunk'[running[s][i]] = chunk[running[s][i]]
    <3>1. CASE s = slot /\ i = new
      <4>1. t = slot /\ i < j
        BY <1>2, <3>1, OlderOrder
      <4>2. j = new \/ j \in Staged(slot)
        BY <1>8, <4>1
      <4> QED
        BY <1>2, <1>9, <3>1, <4>1, <4>2
    <3> QED
      BY <1>8, <3>1
  <2>2. CASE /\ j \in Staged(t) /\ running'[t][j] = running[t][j]
             /\ chunk'[running[t][j]] = chunk[running[t][j]]
    <3>1. Follows(ring, chunk[running[s][i]].end, chunk[running[t][j]].first)
      BY <2>1, <2>2 DEF StagedInOrder
    <3> QED
      BY <1>5, <2>1, <2>2, <3>1, StagedFacts
  <2>3. CASE running'[t][j] = u
    BY <1>3, <1>6, <2>1, <2>3, StagedFacts
  <2> QED
    BY <1>8, <2>2, <2>3
<1>12. EndsInOrder'
  <2>1. ASSUME NEW s \in Slots
        PROVE  /\ Complete(s)' = Complete(s) /\ Ended(s)' = Ended(s) /\ ends'[s] = ends[s]
               /\ Passed(s) => Passed(s)'
               /\ Complete(s) <=> s # slot
               /\ \A t \in Slots : Older(s, t)' = Older(s, t)
    <3>1. ring.out_pos = 0 => ring'.wrap_size = ring.wrap_size /\ ring'.out_pos = 0
      BY <1>1, <1>2, RingFields DEF Placed
    <3> QED
      BY <3>1 DEF Complete, Ended, Passed, Older
  <2>2. ASSUME NEW s \in Slots, Complete(s), ends[s] = NoPosition
        PROVE  Staged(s)' = {}
    BY <1>8, <2>1, <2>2 DEF EndsInOrder
  <2>3. ASSUME NEW s \in Slots, Ended(s)
        PROVE  /\ ends[s] \in Nat /\ ends[s] <= ring'.size
               /\ Passed(s) \/ Used(ring, ends[s], ends[s])
               /\ Passed(s) \/ Used(ring', ends[s], ends[s])
    <3>1. /\ ends[s] \in Nat /\ ends[s] <= ring.size /\ ring'.size = ring.size
          /\ Passed(s) \/ Used(ring, ends[s], ends[s])
      BY <1>1, <1>2, <2>3 DEF EndsInOrder, Ended, Placed
    <3> QED
      BY <1>4, <3>1
  <2>4. ASSUME NEW s \in Slots, Ended(s), ~Passed(s), NEW t \in Slots, Older(s, t), NEW j \in Staged(t)'
        PROVE  Follows(ring', ends[s], chunk'[running'[t][j]].first)
    <3>1. ends[s] \in Nat /\ Used(ring, ends[s], ends[s])
      BY <2>3, <2>4
    <3>2. CASE /\ j \in Staged(t) /\ running'[t][j] = running[t][j]
               /\ chunk'[running[t][j]] = chunk[running[t][j]]
      <4>1. Follows(ring, ends[s], chunk[running[t][j]].first)
        BY <2>4, <3>2 DEF EndsInOrder
      <4> QED
        BY <1>5, <3>1, <3>2, <4>1, StagedFacts
    <3>3. CASE running'[t][j] = u
      BY <1>3, <1>6, <3>1, <3>3
    <3> QED
      BY <1>8, <3>2, <3>3
  <2>5. ASSUME NEW s \in Slots, Ended(s), ~Passed(s), NEW t \in Slots, Ended(t), Older(s, t)
        PROVE  Follows(ring', ends[s], ends[t])
    <3>1. ~Passed(t)
      BY <1>2, <2>5, OlderOrder DEF Passed
    <3>2. /\ ends[s] \in Nat /\ ends[t] \in Nat
          /\ Used(ring, ends[s], ends[s]) /\ Used(ring, ends[t], ends[t])
          /\ Follows(ring, ends[s], ends[t])
      BY <2>3, <2>5, <3>1 DEF EndsInOrder
    <3> QED
      BY <1>5, <3>2
  <2> QED
    BY <2>1, <2>2, <2>3, <2>4, <2>5 DEF EndsInOrder
<1>13. OlderBuffersIntact'
  <2>1. ASSUME NEW s \in Slots, NEW i \in DOMAIN running'[s], chunk'[running'[s][i]].buffer # generation
        PROVE  /\ i \in DOMAIN running[s] /\ running'[s][i] = running[s][i]
               /\ chunk'[running[s][i]] = chunk[running[s][i]]
    <3>1. chunk'[u].buffer = generation
      BY <1>1, ChunkFacts
    <3> QED
      BY <2>1, <3>1, RecordKeeps
  <2> QED
    BY <2>1 DEF OlderBuffersIntact
<1> QED
  BY <1>10, <1>11, <1>12, <1>13

\* The staged data in a new buffer: only that of the upload.
LEMMA ReallocateStaging ==
  ASSUME TransfersInv, StagedInv, NEW u \in Uploads, NEW r, RingOK(r), r.in_pos = 0, r.out_pos = 0,
         Recorded(r, generation + 1, u), ~underflowed', u \notin requested \ waiting,
         stage # "between", generation' = generation + 1, ends' = [s \in Slots |-> NoPosition],
         UNCHANGED <<stage, slot>>
  PROVE  StagedInv'
<1> ~underflowed
  BY DEF Recorded
<1>1. PICK first \in Nat :
        /\ Placed(r, ring', first, SizeOf[u])
        /\ chunk' = [chunk EXCEPT ![u] = [first |-> first, end |-> first + SizeOf[u], buffer |-> generation + 1]]
  BY DEF Recorded
<1>2. /\ SizeOf[u] \in Nat \ {0} /\ slot \in Slots /\ generation \in Nat
  BY UploadsAssumption DEF TransfersInv, TransferTypeOK
<1>3. chunk'[u].first = first /\ chunk'[u].end = first + SizeOf[u] /\ first < first + SizeOf[u]
  BY <1>1, <1>2, ChunkFacts
<1>4. Used(ring', first, first + SizeOf[u]) /\ ~Wrapped(ring')
  BY <1>1, <1>2, RingFields DEF Placed, Used, Wrapped
<1>5. ASSUME NEW s \in Slots, NEW i \in Staged(s)'
      PROVE  s = slot /\ i = Len(running[slot]) + 1 /\ running'[s][i] = u
  <2>1. \A k \in DOMAIN running[s] : chunk[running[s][k]].buffer # generation + 1
    BY <1>2, RunningFacts, ChunkFacts
  <2> QED
    BY <1>5, <2>1, RecordKeeps DEF Staged
<1>6. \A s \in Slots : ~Ended(s)' /\ ends'[s] = NoPosition
  BY DEF Ended
<1>7. StagedInUsedSpace'
  BY <1>3, <1>4, <1>5 DEF StagedInUsedSpace
<1>8. StagedInOrder'
  BY <1>2, <1>5, OlderOrder DEF StagedInOrder, Older
<1>9. EndsInOrder'
  <2>1. \A s \in Slots : Complete(s)' => Staged(s)' = {}
    BY <1>5 DEF Complete
  <2> QED
    BY <1>6, <2>1 DEF EndsInOrder
<1>10. OlderBuffersIntact'
  <2>1. ASSUME NEW s \in Slots, NEW i \in DOMAIN running'[s], chunk'[running'[s][i]].buffer # generation'
        PROVE  /\ i \in DOMAIN running[s] /\ running'[s][i] = running[s][i]
               /\ chunk'[running[s][i]] = chunk[running[s][i]]
    <3>1. chunk'[u].buffer = generation'
      BY <1>1, ChunkFacts
    <3> QED
      BY <2>1, <3>1, RecordKeeps
  <2>2. ASSUME NEW s \in Slots, NEW t \in Slots, NEW i \in DOMAIN running[s], NEW j \in DOMAIN running[t],
               s # t \/ i # j, chunk[running[s][i]].buffer = chunk[running[t][j]].buffer
        PROVE  \/ chunk[running[s][i]].end <= chunk[running[t][j]].first
               \/ chunk[running[t][j]].end <= chunk[running[s][i]].first
    <3>1. CASE chunk[running[s][i]].buffer = generation
      BY <2>2, <3>1, StagedApart DEF Staged
    <3>2. CASE chunk[running[s][i]].buffer # generation
      BY <2>2, <3>2 DEF StagedInv, OlderBuffersIntact
    <3> QED
      BY <3>1, <3>2
  <2> QED
    BY <2>1, <2>2 DEF OlderBuffersIntact
<1> QED
  BY <1>7, <1>8, <1>9, <1>10 DEF StagedInv

\* Uploading into the current staging buffer preserves both invariants.
LEMMA UploadRecordedSafe ==
  ASSUME TransfersInv, NEW u \in Uploads, UploadRecorded(u)
  PROVE  TransfersInv' /\ (StagingInv => StagingInv')
<1> USE DEF UploadRecorded, Requested, frame, staging
<1>1. /\ u \notin requested \ waiting /\ waiting' = waiting \ {u} /\ generation' = generation
      /\ stage # "between" /\ stage' = stage /\ slot' = slot
  BY DEF TransfersInv, TransferTypeOK
<1>2. /\ ring \in RingRecords /\ (underflowed \/ RingOK(ring))
      /\ can_fit(ring, SizeOf[u], AlignmentOf[u])
  BY DEF TransfersInv, TransferTypeOK, RingRecords, RingInv, FitsImmediately, can_fit_no_wrap, can_fit
<1>3. Recorded(ring, generation, u)
  BY <1>2, RecordFacts
<1>4. TransferTypeOK' /\ RingInv'
  <2>1. /\ ends' \in [Slots -> Nat \union {NoPosition}] /\ condemned' \in [Slots -> SUBSET Nat]
        /\ UNCHANGED <<stage, slot, outOfTurn, submitted, destroyed, callbacks, called>>
    BY DEF TransfersInv, TransferTypeOK
  <2> QED
    BY <1>1, <1>3, <2>1, RecordTypes
<1>5. JobsInv'
  BY <1>1, <1>3, RecordJobs
<1>6. SubmittedInv' /\ BuffersInv'
  BY <1>1, <1>3, RecordBuffers
<1>7. StagingInv => StagingInv'
  <2>1. /\ StagedInv /\ ~underflowed' => StagedInv'
        /\ underflowed => underflowed'
        /\ outOfTurn' = outOfTurn
    BY <1>1, <1>3, RecordStaging DEF Recorded
  <2> QED
    BY <2>1 DEF StagingInv
<1> QED
  BY <1>4, <1>5, <1>6, <1>7 DEF TransfersInv

\* So does uploading into a new staging buffer.
LEMMA UploadReallocatesSafe ==
  ASSUME TransfersInv, NEW u \in Uploads, UploadReallocates(u)
  PROVE  TransfersInv' /\ (StagingInv => StagingInv')
<1> USE DEF UploadReallocates, Requested, frame
<1> DEFINE size == IF 4 * SizeOf[u] > ring.size THEN 4 * SizeOf[u] ELSE ring.size
<1>1. /\ u \notin requested \ waiting /\ waiting' = waiting \ {u} /\ generation' = generation + 1
      /\ stage # "between" /\ stage' = stage /\ slot' = slot /\ slot \in Slots
      /\ generation \in Nat /\ condemned \in [Slots -> SUBSET Nat]
  BY DEF TransfersInv, TransferTypeOK
<1>2. /\ SizeOf[u] \in Nat \ {0} /\ AlignmentOf[u] \in Nat \ {0} /\ 4 * SizeOf[u] < Word /\ Word \in Nat
      /\ ring.size \in Nat /\ ring.size < Word
  BY UploadsAssumption DEF TransfersInv, TransferTypeOK
<1>3. size \in Nat /\ size < Word /\ SizeOf[u] <= size
  BY <1>2
<1>4. Record(NewRing(size), generation + 1, u)
  OBVIOUS
<1> HIDE DEF size
<1> DEFINE r == NewRing(size)
<1>5. RingOK(r) /\ r.in_pos = 0 /\ r.out_pos = 0 /\ r.size = size
  BY <1>3 DEF NewRing, RingOK, Rings
<1>6. r \in RingRecords
  BY <1>2, <1>3 DEF NewRing, RingRecords
<1>7. can_fit(r, SizeOf[u], AlignmentOf[u])
  <2>1. AlignUp(0, AlignmentOf[u]) = 0
    BY <1>2 DEF AlignUp
  <2>2. Fits(0, SizeOf[u], AlignmentOf[u], size - 0)
    BY <1>2, <1>3, <2>1 DEF Fits
  <2>3. r.in_pos + SizeOf[u] <= r.size /\ r.out_pos <= r.in_pos
    BY <1>2, <1>3, <1>5
  <2>4. Fits(r.in_pos, SizeOf[u], AlignmentOf[u], r.size - r.in_pos)
    BY <1>5, <2>2
  <2> HIDE DEF r
  <2>5. find_pos(r, SizeOf[u], AlignmentOf[u]) = FoundAt(AlignUp(r.in_pos, AlignmentOf[u]), FALSE)
    BY <2>3, <2>4 DEF find_pos
  <2> QED
    BY <2>5 DEF can_fit, FoundAt
<1> HIDE DEF r
<1>8. Recorded(r, generation + 1, u)
  BY <1>4, <1>5, <1>6, <1>7, RecordFacts DEF r
<1>9. /\ ends' = [s \in Slots |-> NoPosition]
      /\ condemned' = [condemned EXCEPT ![slot] = @ \union {generation}]
  OBVIOUS
<1>10. TransferTypeOK' /\ RingInv'
  <2>1. ends' \in [Slots -> Nat \union {NoPosition}] /\ condemned' \in [Slots -> SUBSET Nat]
    BY <1>1, <1>9
  <2> QED
    BY <1>1, <1>8, <2>1, RecordTypes
<1>11. JobsInv'
  BY <1>1, <1>8, RecordJobs
<1>12. SubmittedInv' /\ BuffersInv'
  <2>1. \A s \in Slots : \A c \in condemned'[s] : c \in condemned[s] \/ (s = slot /\ c = generation)
    BY <1>1, <1>9
  <2> QED
    BY <1>1, <1>8, <2>1, RecordBuffers
<1>13. StagingInv => StagingInv'
  <2>1. /\ StagedInv /\ ~underflowed' => StagedInv'
        /\ underflowed => underflowed'
        /\ outOfTurn' = outOfTurn
    BY <1>1, <1>5, <1>8, <1>9, ReallocateStaging DEF Recorded
  <2> QED
    BY <2>1 DEF StagingInv
<1> QED
  BY <1>10, <1>11, <1>12, <1>13 DEF TransfersInv

\* A job that has to wait.
LEMMA UploadQueuedSafe ==
  ASSUME TransfersInv, NEW u \in Uploads, UploadQueued(u)
  PROVE  TransfersInv' /\ (StagingInv => StagingInv')
<1> USE DEF UploadQueued, Requested, frame, staging
<1>1. TransferTypeOK' /\ RingInv'
  BY DEF TransfersInv, TransferTypeOK, RingInv
<1>2. JobsInv'
  <2>1. /\ u \notin requested /\ called \subseteq requested /\ waiting' = waiting \union {u}
        /\ requested' = requested \union {u} /\ UNCHANGED <<callbacks, called, running>>
    BY DEF TransfersInv, TransferTypeOK
  <2> QED
    BY <2>1 DEF TransfersInv, JobsInv
<1>3. SubmittedInv' /\ BuffersInv'
  BY DEF TransfersInv, SubmittedInv, BuffersInv
<1>4. StagingInv => StagingInv'
  <2>1. StagedInv => StagedInv'
    BY DEF StagedInv, StagedInUsedSpace, StagedInOrder, EndsInOrder, OlderBuffersIntact, Staged, Complete, Ended, Older, Passed
  <2>2. UNCHANGED <<underflowed, outOfTurn>>
    OBVIOUS
  <2> QED
    BY <2>1, <2>2 DEF StagingInv
<1> QED
  BY <1>1, <1>2, <1>3, <1>4 DEF TransfersInv

\* Recording a job that waited.
LEMMA PlaceWaitingSafe ==
  ASSUME TransfersInv, PlaceWaiting
  PROVE  TransfersInv' /\ (StagingInv => StagingInv')
<1> USE DEF PlaceWaiting, frame, device
<1>1. PICK u \in LastWaiting :
        /\ can_fit(ring, SizeOf[u], AlignmentOf[u])
        /\ Record(ring, generation, u)
        /\ waiting' = waiting \ {u}
  OBVIOUS
<1>2. /\ u \in Uploads /\ u \notin requested \ waiting /\ requested' = requested \union {u}
      /\ generation' = generation /\ stage # "between" /\ stage' = stage /\ slot' = slot
      /\ UNCHANGED <<callbacks, called, submitted, destroyed, condemned, ends>>
  BY DEF TransfersInv, TransferTypeOK, LastWaiting
<1>3. ring \in RingRecords /\ (underflowed \/ RingOK(ring))
  BY DEF TransfersInv, TransferTypeOK, RingRecords, RingInv
<1>4. Recorded(ring, generation, u)
  BY <1>1, <1>2, <1>3, RecordFacts
<1>5. TransferTypeOK' /\ RingInv'
  <2>1. /\ ends' \in [Slots -> Nat \union {NoPosition}] /\ condemned' \in [Slots -> SUBSET Nat]
        /\ UNCHANGED outOfTurn
    BY <1>2 DEF TransfersInv, TransferTypeOK
  <2> QED
    BY <1>1, <1>2, <1>4, <2>1, RecordTypes
<1>6. JobsInv'
  BY <1>1, <1>2, <1>4, RecordJobs
<1>7. SubmittedInv' /\ BuffersInv'
  BY <1>2, <1>4, RecordBuffers
<1>8. StagingInv => StagingInv'
  <2>1. /\ StagedInv /\ ~underflowed' => StagedInv'
        /\ underflowed => underflowed'
        /\ outOfTurn' = outOfTurn
    BY <1>2, <1>4, RecordStaging DEF Recorded
  <2> QED
    BY <2>1 DEF StagingInv
<1> QED
  BY <1>5, <1>6, <1>7, <1>8 DEF TransfersInv

\* Releasing the mutex, and taking it again to end the frame.
LEMMA FrameStepsSafe ==
  ASSUME TransfersInv, FrameStarted \/ EndFrame
  PROVE  TransfersInv' /\ (StagingInv => StagingInv')
<1> USE DEF FrameStarted, EndFrame, staging, jobs, device
<1>1. TransferTypeOK' /\ RingInv' /\ JobsInv'
  <2>1. stage' \in {"frame", "ending"} /\ (callbacks # <<>> => stage' = "frame")
    OBVIOUS
  <2>2. TransferTypeOK'
    BY <2>1 DEF TransfersInv, TransferTypeOK
  <2>3. RingInv' /\ JobsInv'
    BY DEF TransfersInv, RingInv, JobsInv
  <2> QED
    BY <2>2, <2>3
<1>2. SubmittedInv' /\ BuffersInv'
  BY DEF TransfersInv, SubmittedInv, BuffersInv
<1>3. StagingInv => StagingInv'
  <2>1. StagedInv => StagedInv'
    BY DEF StagedInv, StagedInUsedSpace, StagedInOrder, EndsInOrder, OlderBuffersIntact, Staged, Complete, Ended, Older, Passed
  <2>2. UNCHANGED <<underflowed, outOfTurn>>
    OBVIOUS
  <2> QED
    BY <2>1, <2>2 DEF StagingInv
<1> QED
  BY <1>1, <1>2, <1>3 DEF TransfersInv

\* Calling the callback of a completed job.
LEMMA RunCallbackSafe ==
  ASSUME TransfersInv, RunCallback
  PROVE  TransfersInv' /\ (StagingInv => StagingInv')
<1> USE DEF RunCallback, staging, frame, device
<1>1. /\ callbacks \in Seq(Uploads) /\ callbacks # <<>> /\ callbacks' = Tail(callbacks)
      /\ called' = called \union {Head(callbacks)}
  BY DEF TransfersInv, TransferTypeOK
<1>2. /\ callbacks' \in Seq(Uploads)
      /\ DOMAIN callbacks = 1..Len(callbacks) /\ Len(callbacks) \in Nat
      /\ DOMAIN callbacks' = 1..Len(callbacks) - 1
      /\ \A k \in DOMAIN callbacks' : callbacks'[k] = callbacks[k + 1] /\ k + 1 \in DOMAIN callbacks
      /\ 1 \in DOMAIN callbacks /\ called' = called \union {callbacks[1]}
  BY <1>1, SeqFacts, TailFacts
<1>3. TransferTypeOK' /\ RingInv'
  <2>1. callbacks[1] \in requested
    BY <1>2 DEF TransfersInv, JobsInv
  <2> QED
    BY <1>2, <2>1 DEF TransfersInv, TransferTypeOK, RingInv
<1>4. JobsInv'
  <2>1. \A s \in Slots : \A i \in DOMAIN running'[s] :
          /\ running'[s][i] \in requested' \ (waiting' \union called')
          /\ \A k \in DOMAIN callbacks' : callbacks'[k] # running'[s][i]
          /\ \A t \in Slots : \A j \in DOMAIN running'[t] :
               running'[s][i] = running'[t][j] => s = t /\ i = j
    BY <1>2 DEF TransfersInv, JobsInv
  <2>2. ASSUME NEW k \in DOMAIN callbacks'
        PROVE  /\ callbacks'[k] \in requested' \ (waiting' \union called')
               /\ \A l \in DOMAIN callbacks' : callbacks'[k] = callbacks'[l] => k = l
    <3>1. callbacks[k + 1] # callbacks[1]
      BY <1>2 DEF TransfersInv, JobsInv
    <3>2. callbacks[k + 1] \in requested \ (waiting \union called)
      BY <1>2 DEF TransfersInv, JobsInv
    <3>3. \A l \in DOMAIN callbacks' : callbacks[k + 1] = callbacks[l + 1] => k + 1 = l + 1
      BY <1>2 DEF TransfersInv, JobsInv
    <3> QED
      BY <1>2, <3>1, <3>2, <3>3
  <2>3. waiting' \intersect called' = {}
    BY <1>2 DEF TransfersInv, JobsInv
  <2>4. ASSUME NEW v \in requested'
        PROVE  \/ v \in waiting' \union called'
               \/ \E k \in DOMAIN callbacks' : callbacks'[k] = v
               \/ \E s \in Slots : \E i \in DOMAIN running'[s] : running'[s][i] = v
    <3>1. CASE \E k \in DOMAIN callbacks : callbacks[k] = v
      <4>1. PICK k \in DOMAIN callbacks : callbacks[k] = v
        BY <3>1
      <4>2. CASE k = 1
        BY <1>2, <4>1, <4>2
      <4>3. CASE k # 1
        <5>1. k - 1 \in DOMAIN callbacks' /\ callbacks'[k - 1] = v
          BY <1>2, <4>1, <4>3
        <5> QED
          BY <5>1
      <4> QED
        BY <4>2, <4>3
    <3>2. CASE ~\E k \in DOMAIN callbacks : callbacks[k] = v
      BY <1>2, <3>2 DEF TransfersInv, JobsInv
    <3> QED
      BY <3>1, <3>2
  <2> QED
    BY <2>1, <2>2, <2>3, <2>4 DEF JobsInv
<1>5. SubmittedInv' /\ BuffersInv'
  BY DEF TransfersInv, SubmittedInv, BuffersInv
<1>6. StagingInv => StagingInv'
  <2>1. StagedInv => StagedInv'
    BY DEF StagedInv, StagedInUsedSpace, StagedInOrder, EndsInOrder, OlderBuffersIntact, Staged, Complete, Ended, Older, Passed
  <2>2. UNCHANGED <<underflowed, outOfTurn>>
    OBVIOUS
  <2> QED
    BY <2>1, <2>2 DEF StagingInv
<1> QED
  BY <1>3, <1>4, <1>5, <1>6 DEF TransfersInv

\* What the device completed.
LEMMA DeviceCompletesSafe ==
  ASSUME TransfersInv, DeviceCompletes
  PROVE  TransfersInv' /\ (StagingInv => StagingInv')
<1> USE DEF DeviceCompletes, staging, frame, jobs
<1>1. submitted \in Seq([slot : Slots, jobs : Seq(Uploads)]) /\ submitted # <<>> /\ submitted' = Tail(submitted)
  BY DEF TransfersInv, TransferTypeOK
<1> DEFINE Submission == [slot : Slots, jobs : Seq(Uploads)]
<1> HIDE DEF Submission
<1>2. /\ submitted' \in Seq(Submission)
      /\ DOMAIN submitted = 1..Len(submitted) /\ Len(submitted) \in Nat
      /\ DOMAIN submitted' = 1..Len(submitted) - 1
      /\ \A i \in DOMAIN submitted' : submitted'[i] = submitted[i + 1] /\ i + 1 \in DOMAIN submitted
  <2>1. submitted \in Seq(Submission)
    BY <1>1 DEF Submission
  <2> QED
    BY <1>1, <2>1, SeqFacts, TailFacts
<1>3. TransferTypeOK' /\ RingInv' /\ JobsInv'
  <2>1. TransferTypeOK'
    BY <1>2 DEF TransfersInv, TransferTypeOK, Submission
  <2> QED
    BY <2>1 DEF TransfersInv, RingInv, JobsInv
<1>4. SubmittedInv'
  BY <1>2 DEF TransfersInv, SubmittedInv
<1>5. BuffersInv'
  <2>1. ASSUME NEW i \in DOMAIN submitted', NEW s \in Slots, NEW k \in DOMAIN submitted'[i].jobs
        PROVE  /\ chunk[submitted'[i].jobs[k]].buffer \notin destroyed
               /\ chunk[submitted'[i].jobs[k]].buffer \in condemned[s]
                    => \/ s = slot /\ stage # "between"
                       \/ \E j \in DOMAIN submitted' : j >= i /\ submitted'[j].slot = s
    <3>1. /\ submitted'[i] = submitted[i + 1] /\ i + 1 \in DOMAIN submitted
          /\ chunk[submitted[i + 1].jobs[k]].buffer \notin destroyed
          /\ chunk[submitted[i + 1].jobs[k]].buffer \in condemned[s]
               => \/ s = slot /\ stage # "between"
                  \/ \E j \in DOMAIN submitted : j >= i + 1 /\ submitted[j].slot = s
      BY <1>2, <2>1 DEF TransfersInv, BuffersInv
    <3>2. ASSUME NEW j \in DOMAIN submitted, j >= i + 1
          PROVE  j - 1 \in DOMAIN submitted' /\ j - 1 >= i /\ submitted'[j - 1] = submitted[j]
      BY <1>2, <3>2
    <3> QED
      BY <3>1, <3>2
  <2> QED
    BY <2>1 DEF TransfersInv, BuffersInv
<1>6. StagingInv => StagingInv'
  <2>1. StagedInv => StagedInv'
    BY DEF StagedInv, StagedInUsedSpace, StagedInOrder, EndsInOrder, OlderBuffersIntact, Staged, Complete, Ended, Older, Passed
  <2>2. UNCHANGED <<underflowed, outOfTurn>>
    OBVIOUS
  <2> QED
    BY <2>1, <2>2 DEF StagingInv
<1> QED
  BY <1>3, <1>4, <1>5, <1>6 DEF TransfersInv

\* The end of a frame: what was recorded is submitted, and where it ends is remembered.
LEMMA SubmitSafe ==
  ASSUME TransfersInv, Submit
  PROVE  TransfersInv' /\ (StagingInv => StagingInv')
<1> USE DEF Submit, jobs
<1> DEFINE Submission == [slot : Slots, jobs : Seq(Uploads)]
           new == [slot |-> slot, jobs |-> running[slot]]
<1>1. /\ submitted \in Seq(Submission) /\ slot \in Slots /\ running[slot] \in Seq(Uploads)
      /\ ends \in [Slots -> Nat \union {NoPosition}] /\ ring.in_pos \in Nat
  BY DEF TransfersInv, TransferTypeOK
<1>2. new \in Submission /\ new.slot = slot /\ new.jobs = running[slot]
  BY <1>1
<1>3. submitted' = Append(submitted, new)
  OBVIOUS
<1> HIDE DEF Submission, new
<1>4. /\ submitted' \in Seq(Submission)
      /\ DOMAIN submitted = 1..Len(submitted) /\ Len(submitted) \in Nat
      /\ DOMAIN submitted' = 1..Len(submitted) + 1
      /\ \A i \in DOMAIN submitted : submitted'[i] = submitted[i] /\ i \in DOMAIN submitted'
      /\ submitted'[Len(submitted) + 1] = new
      /\ \A i \in DOMAIN submitted' : i \in DOMAIN submitted \/ i = Len(submitted) + 1
  <2>1. /\ submitted' \in Seq(Submission)
        /\ DOMAIN submitted = 1..Len(submitted) /\ Len(submitted) \in Nat
        /\ DOMAIN submitted' = 1..Len(submitted) + 1
        /\ \A i \in 1..Len(submitted) : submitted'[i] = submitted[i]
        /\ submitted'[Len(submitted) + 1] = new
    BY <1>1, <1>2, <1>3, SeqFacts, AppendFacts
  <2> QED
    BY <2>1
<1>5. TransferTypeOK' /\ RingInv' /\ JobsInv'
  <2>1. ends' \in [Slots -> Nat \union {NoPosition}] /\ submitted' \in Seq([slot : Slots, jobs : Seq(Uploads)])
    BY <1>1, <1>4 DEF Submission
  <2>2. callbacks = <<>>
    BY DEF TransfersInv, TransferTypeOK
  <2>3. TransferTypeOK'
    BY <2>1, <2>2 DEF TransfersInv, TransferTypeOK
  <2> QED
    BY <2>3 DEF TransfersInv, RingInv, JobsInv
<1>6. SubmittedInv'
  <2> SUFFICES ASSUME NEW i \in DOMAIN submitted'
               PROVE  /\ submitted'[i].jobs = running[submitted'[i].slot]
                      /\ \A j \in DOMAIN submitted' : submitted'[i].slot = submitted'[j].slot => i = j
    BY DEF SubmittedInv
  <2>1. \A j \in DOMAIN submitted : submitted[j].slot # slot /\ submitted[j].jobs = running[submitted[j].slot]
    BY DEF TransfersInv, SubmittedInv
  <2>2. \A j, k \in DOMAIN submitted : submitted[j].slot = submitted[k].slot => j = k
    BY DEF TransfersInv, SubmittedInv
  <2> QED
    BY <1>2, <1>4, <2>1, <2>2
<1>7. BuffersInv'
  <2>1. ASSUME NEW i \in DOMAIN submitted', NEW s \in Slots, NEW k \in DOMAIN submitted'[i].jobs
        PROVE  /\ chunk[submitted'[i].jobs[k]].buffer \notin destroyed
               /\ chunk[submitted'[i].jobs[k]].buffer \in condemned[s]
                    => \E j \in DOMAIN submitted' : j >= i /\ submitted'[j].slot = s
    <3>1. /\ Len(submitted) + 1 \in DOMAIN submitted' /\ submitted'[Len(submitted) + 1].slot = slot
          /\ Len(submitted) + 1 >= i
      BY <1>2, <1>4
    <3>2. CASE i \in DOMAIN submitted
      <4>1. /\ submitted'[i] = submitted[i]
            /\ chunk[submitted[i].jobs[k]].buffer \notin destroyed
            /\ chunk[submitted[i].jobs[k]].buffer \in condemned[s]
                 => \/ s = slot
                    \/ \E j \in DOMAIN submitted : j >= i /\ submitted[j].slot = s
        BY <1>4, <2>1, <3>2 DEF TransfersInv, BuffersInv
      <4> QED
        BY <1>4, <3>1, <4>1
    <3>3. CASE i = Len(submitted) + 1
      <4>1. /\ chunk[running[slot][k]].buffer \notin destroyed
            /\ chunk[running[slot][k]].buffer \in condemned[s] => s = slot
        BY <1>2, <1>4, <2>1, <3>3 DEF TransfersInv, BuffersInv
      <4> QED
        BY <1>2, <1>4, <3>1, <3>3, <4>1
    <3> QED
      BY <1>4, <3>2, <3>3
  <2> QED
    BY <2>1 DEF TransfersInv, BuffersInv
<1>8. ASSUME StagingInv
      PROVE  StagingInv'
  <2> SUFFICES ASSUME ~underflowed, ~outOfTurn
               PROVE  StagedInv'
    BY DEF StagingInv
  <2> RingOK(ring) /\ ring.in_pos <= ring.size
    BY RingFields DEF TransfersInv, RingInv
  <2> StagedInv
    BY <1>8 DEF StagingInv
  <2> USE DEF StagedInv
  <2>1. ends'[slot] = ring.in_pos /\ \A s \in Slots \ {slot} : ends'[s] = ends[s]
    BY <1>1
  <2>2. /\ ring.in_pos # NoPosition /\ Used(ring, ring.in_pos, ring.in_pos)
        /\ \A p \in Nat : Used(ring, p, p) => Follows(ring, p, ring.in_pos)
    BY <1>1, RingFields, UploadsAssumption DEF Used, Wrapped, Follows
  <2>3. /\ \A s \in Slots : Complete(s)' /\ (Complete(s) <=> s # slot)
        /\ \A s \in Slots : Staged(s)' = Staged(s)
        /\ \A s, t \in Slots : Older(s, t)' <=> Older(s, t)
    BY DEF Complete, Staged, Older
  <2>4. Ended(slot)' /\ \A s \in Slots \ {slot} : Ended(s)' <=> Ended(s)
    <3>1. \A s \in Slots : Ended(s)' <=> ends'[s] # NoPosition
      BY <2>3 DEF Ended
    <3>2. \A s \in Slots \ {slot} : Ended(s) <=> ends[s] # NoPosition
      BY <2>3 DEF Ended
    <3> QED
      BY <1>1, <2>1, <2>2, <3>1, <3>2
  <2>5. \A s \in Slots \ {slot} : Passed(s)' <=> Passed(s)
    <3>1. \A s \in Slots \ {slot} : s # slot /\ ~Older(slot, s)
      BY <1>1, OlderOrder
    <3> QED
      BY <2>1, <2>3, <2>4, <3>1 DEF Passed
  <2>6. StagedInUsedSpace' /\ StagedInOrder' /\ OlderBuffersIntact'
    BY <2>3 DEF StagedInUsedSpace, StagedInOrder, OlderBuffersIntact
  <2>7. \A s \in Slots : ends'[s] = NoPosition => Staged(s)' = {}
    BY <2>1, <2>2, <2>3 DEF EndsInOrder
  <2>8. ASSUME NEW s \in Slots, Ended(s)'
        PROVE  /\ ends'[s] <= ring.size
               /\ \/ Passed(s)'
                  \/ /\ Used(ring, ends'[s], ends'[s])
                     /\ \A t \in Slots : Older(s, t) =>
                          \A j \in Staged(t) : Follows(ring, ends'[s], chunk[running[t][j]].first)
    <3>1. CASE s = slot
      BY <1>1, <2>1, <2>2, <3>1, OlderOrder
    <3>2. CASE s # slot
      BY <2>1, <2>4, <2>5, <2>8, <3>2 DEF EndsInOrder
    <3> QED
      BY <3>1, <3>2
  <2>9. ASSUME NEW s \in Slots, NEW t \in Slots, Ended(s)', Ended(t)', Older(s, t)
        PROVE  Passed(s)' \/ Follows(ring, ends'[s], ends'[t])
    <3>1. s # slot /\ Ended(s) /\ ends'[s] = ends[s] /\ ends[s] \in Nat /\ (Passed(s)' <=> Passed(s))
      <4>1. s # slot
        BY <1>1, <2>9, OlderOrder
      <4> QED
        BY <1>1, <2>1, <2>4, <2>5, <2>9, <4>1 DEF Ended
    <3>2. CASE t = slot
      BY <2>1, <2>2, <3>1, <3>2 DEF EndsInOrder
    <3>3. CASE t # slot
      BY <2>1, <2>4, <2>9, <3>1, <3>3 DEF EndsInOrder
    <3> QED
      BY <3>2, <3>3
  <2>10. EndsInOrder'
    BY <2>3, <2>7, <2>8, <2>9 DEF EndsInOrder
  <2> QED
    BY <2>6, <2>10
<1> QED
  BY <1>5, <1>6, <1>7, <1>8 DEF TransfersInv

\* The next slot, when they are used in turn, is the one that was used longest ago, and becomes the last.
LEMMA NextSlotOldest ==
  ASSUME slot \in Slots, NEW s \in Slots, s = (slot + 1) % RingSlots, slot' = s
  PROVE  /\ \A t \in Slots \ {s} : Older(s, t)
         /\ \A t \in Slots : ~Older(t, s) /\ ~Older(s, t)'
         /\ \A t, w \in Slots \ {s} : Older(t, w)' <=> Older(t, w)
<1>1. RingSlots \in Nat /\ RingSlots > 1 /\ slot \in 0 .. RingSlots - 1 /\ s \in 0 .. RingSlots - 1
  BY UploadsAssumption DEF Slots
<1>2. (slot + 1 < RingSlots /\ s = slot + 1) \/ (slot = RingSlots - 1 /\ s = 0)
  BY <1>1
<1> QED
  BY <1>1, <1>2 DEF Older, Slots

\* The start of a frame, lists and buffers: in any slot but the current one.
LEMMA StartFrameLists ==
  ASSUME TransfersInv, NEW s \in Slots, StartFrame(s)
  PROVE  TransfersInv'
<1> USE DEF StartFrame
<1>1. /\ callbacks = <<>> /\ running \in [Slots -> Seq(Uploads)] /\ running[s] \in Seq(Uploads)
      /\ running'[s] = <<>> /\ \A t \in Slots \ {s} : running'[t] = running[t]
      /\ running' \in [Slots -> Seq(Uploads)]
      /\ ends \in [Slots -> Nat \union {NoPosition}] /\ generation \in Nat
      /\ condemned \in [Slots -> SUBSET Nat]
  BY DEF TransfersInv, TransferTypeOK
<1>2. /\ condemned'[s] = {} /\ \A t \in Slots \ {s} : condemned'[t] = condemned[t]
      /\ condemned' \in [Slots -> SUBSET Nat]
      /\ \A b \in destroyed' : b \in destroyed \/ b \in condemned[s]
  BY <1>1
<1>3. \A i \in DOMAIN submitted : submitted[i].slot \in Slots \ {s} /\ submitted[i].slot # s
  <2>1. submitted \in Seq([slot : Slots, jobs : Seq(Uploads)])
    BY DEF TransfersInv, TransferTypeOK
  <2>2. \A i \in DOMAIN submitted : submitted[i] \in [slot : Slots, jobs : Seq(Uploads)]
    BY <2>1, SeqFacts
  <2> QED
    BY <2>2 DEF Signalled
<1>4. TransferTypeOK'
  <2>1. \A b \in condemned[s] : b \in Nat /\ b < generation
    BY <1>1 DEF TransfersInv, BuffersInv
  <2>2. destroyed \subseteq 0 .. generation
    BY DEF TransfersInv, TransferTypeOK
  <2>3. destroyed' \subseteq 0 .. generation
    <3>1. \A b \in condemned[s] : b \in 0 .. generation
      BY <1>1, <2>1
    <3> QED
      BY <1>2, <2>2, <3>1
  <2>4. ring' \in RingRecords
    <3>1. ring \in RingRecords /\ (ends[s] # NoPosition => ends[s] \in Nat)
      BY <1>1 DEF TransfersInv, TransferTypeOK, RingRecords
    <3> QED
      BY <3>1 DEF free_to, RingRecords
  <2>5. outOfTurn' \in BOOLEAN
    BY DEF InTurn, TransfersInv, TransferTypeOK
  <2> QED
    BY <1>1, <1>2, <2>3, <2>4, <2>5 DEF TransfersInv, TransferTypeOK, RingRecords
<1>5. RingInv'
  <2> SUFFICES ASSUME ~underflowed PROVE RingOK(ring')
    BY DEF RingInv
  <2> RingOK(ring)
    BY DEF TransfersInv, RingInv
  <2>1. CASE ring' = ring
    BY <2>1
  <2>2. CASE ends[s] # NoPosition /\ ~(ends[s] > ring.size)
    <3>1. ends[s] \in Nat /\ ends[s] <= ring.size /\ ring' = free_to(ring, ends[s])
      BY <1>1, <2>2, RingFields
    <3> QED
      BY <3>1, FreedPositions
  <2> QED
    BY <2>1, <2>2 DEF free_to
<1>6. JobsInv'
  <2>1. \A t \in Slots : \A i \in DOMAIN running'[t] : t # s /\ i \in DOMAIN running[t] /\ running'[t][i] = running[t][i]
    BY <1>1
  <2>2. UNCHANGED <<requested, waiting, called>> /\ callbacks' = running[s]
    OBVIOUS
  <2>3. \A t \in Slots : \A i \in DOMAIN running'[t] :
          /\ running'[t][i] \in requested' \ (waiting' \union called')
          /\ \A k \in DOMAIN callbacks' : callbacks'[k] # running'[t][i]
          /\ \A w \in Slots : \A j \in DOMAIN running'[w] :
               running'[t][i] = running'[w][j] => t = w /\ i = j
    BY <2>1, <2>2 DEF TransfersInv, JobsInv
  <2>4. \A k \in DOMAIN callbacks' :
          /\ callbacks'[k] \in requested' \ (waiting' \union called')
          /\ \A l \in DOMAIN callbacks' : callbacks'[k] = callbacks'[l] => k = l
    BY <2>2 DEF TransfersInv, JobsInv
  <2>5. ASSUME NEW v \in requested'
        PROVE  \/ v \in waiting' \union called'
               \/ \E k \in DOMAIN callbacks' : callbacks'[k] = v
               \/ \E t \in Slots : \E i \in DOMAIN running'[t] : running'[t][i] = v
    <3>1. \/ v \in waiting \union called
          \/ \E t \in Slots : \E i \in DOMAIN running[t] : running[t][i] = v
      BY <1>1, <2>2 DEF TransfersInv, JobsInv
    <3> QED
      BY <1>1, <2>2, <3>1
  <2>6. waiting' \intersect called' = {}
    BY <2>2 DEF TransfersInv, JobsInv
  <2> QED
    BY <2>3, <2>4, <2>5, <2>6 DEF JobsInv
<1>7. SubmittedInv'
  BY <1>1, <1>3 DEF TransfersInv, SubmittedInv
<1>8. BuffersInv'
  <2>1. /\ \A t \in Slots : \A b \in condemned'[t] : b < generation
        /\ \A b \in destroyed' : b < generation
    BY <1>2 DEF TransfersInv, BuffersInv
  <2>2. ASSUME NEW i \in DOMAIN submitted, NEW t \in Slots, NEW k \in DOMAIN submitted[i].jobs
        PROVE  /\ chunk[submitted[i].jobs[k]].buffer \notin destroyed'
               /\ chunk[submitted[i].jobs[k]].buffer \in condemned'[t]
                    => \E j \in DOMAIN submitted : j >= i /\ submitted[j].slot = t
    BY <1>2, <1>3 DEF TransfersInv, BuffersInv
  <2>3. \A k \in DOMAIN running'[slot'] : FALSE
    BY <1>1
  <2> QED
    BY <2>1, <2>2, <2>3 DEF BuffersInv
<1> QED
  BY <1>4, <1>5, <1>6, <1>7, <1>8 DEF TransfersInv

\* The start of a frame, staged data: in the slot used longest ago, what it frees is older than the rest.
LEMMA StartFrameStaging ==
  ASSUME TransfersInv, ~underflowed, StagedInv, NEW s \in Slots, StartFrame(s), InTurn(s)
  PROVE  StagedInv'
<1> USE DEF StartFrame, StagedInv
<1>1. /\ slot \in Slots /\ slot' = s /\ stage = "between" /\ stage' # "between" /\ s = (slot + 1) % RingSlots
      /\ ends \in [Slots -> Nat \union {NoPosition}] /\ RingOK(ring)
      /\ running' = [running EXCEPT ![s] = <<>>] /\ running \in [Slots -> Seq(Uploads)]
      /\ UNCHANGED <<generation, ends, chunk>>
      /\ Wrapped(ring) => ring.out_pos <= ring.wrap_size
  BY DEF InTurn, TransfersInv, TransferTypeOK, RingInv, StagedInUsedSpace
<1>2. /\ \A t \in Slots \ {s} : Older(s, t)
      /\ \A t \in Slots : ~Older(t, s) /\ ~Older(s, t)'
      /\ \A t, w \in Slots \ {s} : Older(t, w)' <=> Older(t, w)
  BY <1>1, NextSlotOldest
<1>3. /\ Staged(s)' = {}
      /\ \A t \in Slots \ {s} : Staged(t)' = Staged(t) /\ running'[t] = running[t]
  BY <1>1 DEF Staged
<1>4. \A t \in Slots : /\ Complete(t) /\ (Complete(t)' <=> t # s)
                       /\ Ended(t) <=> ends[t] # NoPosition
                       /\ Ended(t)' <=> t # s /\ Ended(t)
  BY <1>1 DEF Complete, Ended
<1>5. ASSUME ring' = ring
      PROVE  StagedInUsedSpace' /\ StagedInOrder' /\ EndsInOrder'
  <2>1. \A t \in Slots \ {s} : Passed(t) => Passed(t)'
    BY <1>1, <1>2, <1>4, <1>5 DEF Passed
  <2>2. StagedInUsedSpace'
    BY <1>1, <1>3, <1>5 DEF StagedInUsedSpace
  <2>3. StagedInOrder'
    BY <1>1, <1>2, <1>3, <1>5 DEF StagedInOrder
  <2>4. EndsInOrder'
    <3>1. \A t \in Slots : Complete(t)' /\ ends'[t] = NoPosition => Staged(t)' = {}
      BY <1>1, <1>3, <1>4 DEF EndsInOrder
    <3>2. ASSUME NEW t \in Slots, Ended(t)'
          PROVE  /\ ends[t] <= ring.size
                 /\ \/ Passed(t)'
                    \/ /\ Used(ring, ends[t], ends[t])
                       /\ \A w \in Slots : Older(t, w)' =>
                            \A j \in Staged(w)' : Follows(ring, ends[t], chunk[running'[w][j]].first)
      <4>1. t # s /\ Ended(t)
        BY <1>4, <3>2
      <4>2. \A w \in Slots : Older(t, w)' => \A j \in Staged(w)' : Older(t, w) /\ j \in Staged(w) /\ running'[w] = running[w]
        BY <1>2, <1>3, <4>1
      <4> QED
        BY <2>1, <4>1, <4>2 DEF EndsInOrder
    <3>3. ASSUME NEW t \in Slots, NEW w \in Slots, Ended(t)', Ended(w)', Older(t, w)'
          PROVE  Passed(t)' \/ Follows(ring, ends[t], ends[w])
      BY <1>2, <1>4, <2>1, <3>3 DEF EndsInOrder
    <3> QED
      BY <1>1, <1>5, <3>1, <3>2, <3>3 DEF EndsInOrder
  <2> QED
    BY <2>2, <2>3, <2>4
<1>6. ASSUME Ended(s), ~Passed(s)
      PROVE  StagedInUsedSpace' /\ StagedInOrder' /\ EndsInOrder'
  <2> DEFINE p == ends[s]
  <2>1. /\ p \in Nat /\ p <= ring.size /\ Used(ring, p, p) /\ ring' = free_to(ring, p)
        /\ \A t \in Slots \ {s} : \A j \in Staged(t) : Follows(ring, p, chunk[running[t][j]].first)
        /\ \A t \in Slots \ {s} : Ended(t) => Follows(ring, p, ends[t])
    BY <1>1, <1>2, <1>4, <1>6 DEF EndsInOrder
  <2> HIDE DEF p
  <2>2. /\ ring'.in_pos = ring.in_pos /\ ring'.wrap_size = ring.wrap_size /\ ring'.size = ring.size
        /\ ring'.out_pos = IF p = ring.wrap_size THEN 0 ELSE p
    BY <1>1, <2>1, FreedPositions
  <2>3. \A x, y : Follows(ring', x, y) <=> Follows(ring, x, y)
    BY <2>2 DEF Follows
  <2>4. ASSUME NEW c \in Nat, NEW e \in Nat, c <= e, Used(ring, c, e), Follows(ring, p, c)
        PROVE  /\ Wrapped(ring') => ring'.out_pos <= ring'.wrap_size
               /\ \/ Used(ring', c, e)
                  \/ c = e /\ c = ring.wrap_size /\ p = ring.wrap_size /\ ring'.out_pos = 0
    BY <1>1, <2>1, <2>4, FreedUsed
  <2>5. Wrapped(ring') => ring'.out_pos <= ring'.wrap_size
    <3>1. Follows(ring, p, p) /\ p <= p
      BY <2>1 DEF Follows
    <3> QED
      BY <2>1, <2>4, <3>1
  <2>6. ASSUME NEW t \in Slots \ {s}, Ended(t)
        PROVE  /\ ends[t] \in Nat /\ ~Passed(t) /\ ends[t] <= ring.size /\ Used(ring, ends[t], ends[t])
               /\ Follows(ring, p, ends[t])
               /\ \A w \in Slots \ {s} : Ended(w) /\ Older(t, w) => Follows(ring, ends[t], ends[w])
    <3>1. ~Passed(t)
      <4>1. Older(s, t)
        BY <1>2
      <4>2. Passed(t) => Passed(s)
        BY <1>2, <1>6, <4>1 DEF Passed
      <4> QED
        BY <1>6, <4>2
    <3> QED
      BY <1>1, <1>4, <2>1, <2>6, <3>1 DEF EndsInOrder
  <2>7. StagedInUsedSpace'
    <3> SUFFICES ASSUME NEW t \in Slots, NEW i \in Staged(t)'
                 PROVE  /\ chunk[running'[t][i]].first < chunk[running'[t][i]].end
                        /\ Used(ring', chunk[running'[t][i]].first, chunk[running'[t][i]].end)
      BY <1>1, <2>5 DEF StagedInUsedSpace
    <3>1. t # s /\ i \in Staged(t) /\ running'[t] = running[t]
      BY <1>3
    <3> DEFINE first == chunk[running[t][i]].first  end == chunk[running[t][i]].end
    <3>2. first \in Nat /\ end \in Nat /\ first < end /\ Used(ring, first, end)
      BY <3>1, StagedFacts
    <3>3. Follows(ring, p, first)
      BY <2>1, <3>1
    <3> HIDE DEF first, end
    <3>4. Used(ring', first, end)
      BY <2>4, <3>2, <3>3
    <3> QED
      BY <3>1, <3>2, <3>4 DEF first, end
  <2>8. StagedInOrder'
    BY <1>1, <1>2, <1>3, <2>3 DEF StagedInOrder
  <2>9. EndsInOrder'
    <3>1. \A t \in Slots : Complete(t)' /\ ends'[t] = NoPosition => Staged(t)' = {}
      BY <1>1, <1>3, <1>4 DEF EndsInOrder
    <3>2. ASSUME NEW t \in Slots, Ended(t)'
          PROVE  /\ ends[t] <= ring.size
                 /\ \/ Passed(t)'
                    \/ /\ Used(ring', ends[t], ends[t])
                       /\ \A w \in Slots : Older(t, w)' =>
                            \A j \in Staged(w)' : Follows(ring', ends[t], chunk[running'[w][j]].first)
      <4>1. t \in Slots \ {s} /\ Ended(t)
        BY <1>4, <3>2
      <4>2. \A w \in Slots : Older(t, w)' => \A j \in Staged(w)' : Older(t, w) /\ j \in Staged(w) /\ running'[w] = running[w]
        BY <1>2, <1>3, <4>1
      <4>3. \A w \in Slots : Older(t, w)' =>
              \A j \in Staged(w)' : Follows(ring', ends[t], chunk[running'[w][j]].first)
        BY <2>3, <2>6, <4>1, <4>2 DEF EndsInOrder
      <4>4. ASSUME ends[t] = ring.wrap_size, p = ring.wrap_size, ring'.out_pos = 0
            PROVE  Passed(t)'
        <5>1. ASSUME NEW w \in Slots, Ended(w)', w = t \/ Older(w, t)'
              PROVE  ends[w] = ring.wrap_size
          <6>1. w \in Slots \ {s} /\ Ended(w) /\ (w = t \/ Older(w, t))
            BY <1>2, <1>4, <4>1, <5>1
          <6>2. ends[w] \in Nat /\ Follows(ring, p, ends[w]) /\ (w = t \/ Follows(ring, ends[w], ends[t]))
            BY <2>6, <4>1, <6>1
          <6> QED
            BY <1>1, <2>1, <4>4, <6>2, RingFields DEF Follows
        <5> QED
          BY <1>1, <2>2, <4>4, <5>1 DEF Passed
      <4>5. Passed(t)' \/ Used(ring', ends[t], ends[t])
        <5>1. ends[t] \in Nat /\ ends[t] <= ends[t] /\ Used(ring, ends[t], ends[t]) /\ Follows(ring, p, ends[t])
          BY <2>6, <4>1
        <5> QED
          BY <2>4, <4>4, <5>1
      <4> QED
        BY <2>6, <4>1, <4>3, <4>5
    <3>3. ASSUME NEW t \in Slots, NEW w \in Slots, Ended(t)', Ended(w)', Older(t, w)'
          PROVE  Follows(ring', ends[t], ends[w])
      <4>1. t \in Slots \ {s} /\ w \in Slots \ {s} /\ Ended(t) /\ Ended(w) /\ Older(t, w)
        BY <1>2, <1>4, <3>3
      <4> QED
        BY <2>3, <2>6, <4>1
    <3> QED
      BY <1>1, <2>2, <3>1, <3>2, <3>3 DEF EndsInOrder
  <2> QED
    BY <2>7, <2>8, <2>9
<1>7. OlderBuffersIntact'
  <2>1. \A t \in Slots : \A i \in DOMAIN running'[t] : i \in DOMAIN running[t] /\ running'[t] = running[t]
    BY <1>1
  <2> QED
    BY <1>1, <2>1 DEF OlderBuffersIntact
<1>8. ring' = ring \/ (Ended(s) /\ ~Passed(s))
  <2>1. CASE Ended(s) /\ Passed(s)
    <3>1. ends[s] = ring.wrap_size /\ ring.out_pos = 0 /\ ends[s] # NoPosition
      BY <1>4, <2>1 DEF Passed
    <3>2. ring' = [ring EXCEPT !.out_pos = 0]
      BY <1>1, <3>1, RingFields DEF free_to
    <3> QED
      BY <1>1, <3>1, <3>2 DEF RingOK, Rings
  <2>2. CASE ~Ended(s)
    BY <1>4, <2>2
  <2> QED
    BY <2>1, <2>2
<1> QED
  BY <1>5, <1>6, <1>7, <1>8

\* Every step preserves the invariants.
LEMMA TransferStepSafe ==
  ASSUME TransfersInv, [TransferNext]_transferVars
  PROVE  TransfersInv' /\ (StagingInv => StagingInv')
<1>1. ASSUME NEW s \in Slots, StartFrame(s)
      PROVE  TransfersInv' /\ (StagingInv => StagingInv')
  <2>1. outOfTurn' = (outOfTurn \/ ~InTurn(s)) /\ underflowed' = underflowed
    BY <1>1 DEF StartFrame
  <2>2. ~underflowed /\ StagedInv /\ InTurn(s) => StagedInv'
    BY <1>1, StartFrameStaging
  <2> QED
    BY <1>1, <2>1, <2>2, StartFrameLists DEF StagingInv
<1>2. CASE TransferNext
  BY <1>1, <1>2, UploadRecordedSafe, UploadReallocatesSafe, UploadQueuedSafe, PlaceWaitingSafe, FrameStepsSafe,
     RunCallbackSafe, DeviceCompletesSafe, SubmitSafe
     DEF TransferNext, Upload, RenderLoop
<1>3. CASE UNCHANGED transferVars
  <2> USE <1>3 DEF transferVars, staging, frame, jobs, device
  <2>1. TransfersInv'
    BY DEF TransfersInv, TransferTypeOK, RingInv, JobsInv, SubmittedInv, BuffersInv
  <2>2. StagingInv => StagingInv'
    BY DEF StagingInv, StagedInv, StagedInUsedSpace, StagedInOrder, EndsInOrder, OlderBuffersIntact, Staged, Complete, Ended, Older, Passed
  <2> QED
    BY <2>1, <2>2
<1> QED
  BY <1>2, <1>3

\* They hold in a new manager.
LEMMA TransferInitSafe ==
  ASSUME TransferInit
  PROVE  TransfersInv /\ StagingInv
<1> USE DEF TransferInit
<1>1. /\ 0 \in Slots /\ InitialSize \in Nat \ {0} /\ InitialSize < Word /\ Word \in Nat
      /\ \A v \in Uploads : AlignmentOf[v] \in Nat \ {0}
  BY UploadsAssumption DEF Slots
<1>2. RingOK(ring) /\ ring.in_pos = 0 /\ ring.out_pos = 0
  BY <1>1 DEF NewRing, RingOK, Rings
<1>3. RingInv
  BY <1>1, <1>2 DEF RingInv
<1>4. TransferTypeOK
  <2>1. <<>> \in Seq(Uploads) /\ submitted \in Seq([slot : Slots, jobs : Seq(Uploads)])
    OBVIOUS
  <2>2. ring \in RingRecords
    BY <1>1 DEF NewRing, RingRecords
  <2>3. /\ ends \in [Slots -> Nat \union {NoPosition}] /\ running \in [Slots -> Seq(Uploads)]
        /\ chunk \in [Uploads -> [first : Nat, end : Nat, buffer : 0..generation]]
        /\ condemned \in [Slots -> SUBSET Nat] /\ callbacks \in Seq(Uploads) /\ slot \in Slots
    BY <1>1, <2>1
  <2> QED
    BY <2>1, <2>2, <2>3 DEF TransferTypeOK, RingRecords
<1>5. JobsInv /\ SubmittedInv /\ BuffersInv
  BY DEF JobsInv, SubmittedInv, BuffersInv
<1>6. StagingInv
  <2>1. /\ \A s \in Slots : Staged(s) = {} /\ ~Ended(s)
        /\ ~Wrapped(ring)
    BY <1>2 DEF Staged, Ended, Wrapped
  <2> QED
    BY <2>1 DEF StagingInv, StagedInv, StagedInUsedSpace, StagedInOrder, EndsInOrder, OlderBuffersIntact
<1> QED
  BY <1>3, <1>4, <1>5, <1>6 DEF TransfersInv

\* The invariants in every state, the first in whatever order the slots are used.
THEOREM TransfersInvariance == TransferSpec => []TransfersInv
<1>1. TransferInit => TransfersInv
  BY TransferInitSafe
<1>2. TransfersInv /\ [TransferNext]_transferVars => TransfersInv'
  BY TransferStepSafe
<1> QED
  BY <1>1, <1>2, PTL DEF TransferSpec

\* Where each staged chunk lies, until the placer underflows or a slot is used out of turn.
THEOREM StagingInvariance == TransferSpec => [](TransfersInv /\ StagingInv)
<1> DEFINE Inv == TransfersInv /\ StagingInv
<1>1. TransferInit => Inv
  BY TransferInitSafe
<1>2. Inv /\ [TransferNext]_transferVars => Inv'
  BY TransferStepSafe
<1> QED
  BY <1>1, <1>2, PTL DEF TransferSpec

\* A job in flight is a running one, in a slot whose fence is not signalled or in the current frame.
LEMMA InFlightRunning ==
  ASSUME TransfersInv, NEW u \in InFlight
  PROVE  \E s \in Slots : \E k \in DOMAIN running[s] :
           /\ running[s][k] = u
           /\ \/ s = slot /\ stage # "between"
              \/ \E i \in DOMAIN submitted : submitted[i].slot = s /\ submitted[i].jobs = running[s]
<1>1. /\ slot \in Slots
      /\ \A i \in DOMAIN submitted : submitted[i].slot \in Slots /\ submitted[i].jobs = running[submitted[i].slot]
  <2>1. submitted \in Seq([slot : Slots, jobs : Seq(Uploads)]) /\ slot \in Slots
    BY DEF TransfersInv, TransferTypeOK
  <2>2. \A i \in DOMAIN submitted : submitted[i] \in [slot : Slots, jobs : Seq(Uploads)]
    BY <2>1, SeqFacts
  <2> QED
    BY <2>1, <2>2 DEF TransfersInv, SubmittedInv
<1>2. CASE \E i \in DOMAIN submitted : u \in ToSet(submitted[i].jobs)
  <2>1. PICK i \in DOMAIN submitted : u \in ToSet(submitted[i].jobs)
    BY <1>2
  <2>2. PICK k \in DOMAIN submitted[i].jobs : submitted[i].jobs[k] = u
    BY <2>1 DEF ToSet
  <2> QED
    BY <1>1, <2>2
<1>3. CASE stage # "between" /\ u \in ToSet(running[slot])
  BY <1>1, <1>3 DEF ToSet
<1>4. \/ \E i \in DOMAIN submitted : u \in ToSet(submitted[i].jobs)
      \/ stage # "between" /\ u \in ToSet(running[slot])
  <2> DEFINE Submitted == UNION {ToSet(submitted[i].jobs) : i \in DOMAIN submitted}
             Recording == IF stage = "between" THEN {} ELSE ToSet(running[slot])
  <2>1. InFlight = Submitted \union Recording
    BY DEF InFlight
  <2>2. u \in Recording => stage # "between" /\ u \in ToSet(running[slot])
    OBVIOUS
  <2>3. u \in Submitted => \E i \in DOMAIN submitted : u \in ToSet(submitted[i].jobs)
    OBVIOUS
  <2> HIDE DEF Recording, Submitted
  <2> QED
    BY <2>1, <2>2, <2>3
<1> QED
  BY <1>2, <1>3, <1>4

\* No buffer that is read has been destroyed, and no callback was taken too early.
LEMMA BuffersAndCallbacks ==
  ASSUME TransfersInv
  PROVE  BuffersInUseExist /\ CallbackAfterTransfer
<1>1. ASSUME NEW u \in InFlight
      PROVE  chunk[u].buffer \notin destroyed /\ u \notin called /\ u \notin ToSet(callbacks)
  <2>1. PICK s \in Slots :
          \E k \in DOMAIN running[s] :
            /\ running[s][k] = u
            /\ \/ s = slot /\ stage # "between"
               \/ \E i \in DOMAIN submitted : submitted[i].slot = s /\ submitted[i].jobs = running[s]
    BY <1>1, InFlightRunning
  <2>2. u \notin called /\ u \notin ToSet(callbacks)
    BY <2>1 DEF TransfersInv, JobsInv, ToSet
  <2>3. chunk[u].buffer \notin destroyed
    BY <2>1 DEF TransfersInv, BuffersInv
  <2> QED
    BY <2>2, <2>3
<1> QED
  BY <1>1 DEF BuffersInUseExist, CallbackAfterTransfer

\* Each upload is in one list.
LEMMA OneList ==
  ASSUME TransfersInv
  PROVE  OneOwner
<1> SUFFICES ASSUME NEW u \in requested
             PROVE  \E p \in Places(u) : Places(u) = {p}
  BY DEF OneOwner
<1> DEFINE Runs(s) == \E i \in DOMAIN running[s] : running[s][i] = u
           Back    == \E k \in DOMAIN callbacks : callbacks[k] = u
<1>1. Places(u) = {<<"running", s>> : s \in {t \in Slots : Runs(t)}}
                    \union (IF u \in waiting THEN {<<"waiting", 0>>} ELSE {})
                    \union (IF Back THEN {<<"callbacks", 0>>} ELSE {})
                    \union (IF u \in called THEN {<<"called", 0>>} ELSE {})
  <2>1. \A s \in Slots : u \in ToSet(running[s]) <=> Runs(s)
    BY DEF ToSet
  <2>2. u \in ToSet(callbacks) <=> Back
    BY DEF ToSet
  <2>3. {t \in Slots : u \in ToSet(running[t])} = {t \in Slots : Runs(t)}
    BY <2>1
  <2> HIDE DEF Runs, Back
  <2> QED
    BY <2>2, <2>3 DEF Places
<1>2. /\ u \in waiting \/ u \in called \/ Back \/ \E s \in Slots : Runs(s)
      /\ ~(u \in waiting /\ u \in called)
      /\ Back => u \notin waiting /\ u \notin called
      /\ \A s \in Slots : Runs(s) => u \notin waiting /\ u \notin called /\ ~Back /\ \A t \in Slots : Runs(t) => s = t
  BY DEF TransfersInv, JobsInv
<1> HIDE DEF Runs, Back
<1>3. CASE \E s \in Slots : Runs(s)
  <2>1. PICK s \in Slots : Runs(s)
    BY <1>3
  <2>2. Places(u) = {<<"running", s>>}
    BY <1>1, <1>2, <2>1
  <2> QED
    BY <2>2
<1>4. CASE ~\E s \in Slots : Runs(s)
  <2>1. {<<"running", s>> : s \in {t \in Slots : Runs(t)}} = {}
    BY <1>4
  <2>2. CASE u \in waiting
    <3>1. Places(u) = {<<"waiting", 0>>}
      BY <1>1, <1>2, <2>1, <2>2
    <3> QED
      BY <3>1
  <2>3. CASE Back
    <3>1. Places(u) = {<<"callbacks", 0>>}
      BY <1>1, <1>2, <2>1, <2>3
    <3> QED
      BY <3>1
  <2>4. CASE u \in called
    <3>1. Places(u) = {<<"called", 0>>}
      BY <1>1, <1>2, <2>1, <2>4
    <3> QED
      BY <3>1
  <2> QED
    BY <1>2, <1>4, <2>2, <2>3, <2>4
<1> QED
  BY <1>3, <1>4

\* Chunks in flight do not overlap: in one buffer, one follows the other.
LEMMA ChunksApart ==
  ASSUME TransfersInv, ~underflowed, StagedInv
  PROVE  InFlightDataIntact
<1> SUFFICES ASSUME NEW u \in InFlight, NEW v \in InFlight, u # v, chunk[u].buffer = chunk[v].buffer
             PROVE  chunk[u].end <= chunk[v].first \/ chunk[v].end <= chunk[u].first
  BY DEF InFlightDataIntact
<1>1. PICK s \in Slots : \E i \in DOMAIN running[s] : running[s][i] = u
  BY InFlightRunning
<1>2. PICK t \in Slots : \E j \in DOMAIN running[t] : running[t][j] = v
  BY InFlightRunning
<1>3. PICK i \in DOMAIN running[s] : running[s][i] = u
  BY <1>1
<1>4. PICK j \in DOMAIN running[t] : running[t][j] = v
  BY <1>2
<1>5. CASE chunk[u].buffer = generation
  <2>1. i \in Staged(s) /\ j \in Staged(t)
    BY <1>3, <1>4, <1>5 DEF Staged
  <2> QED
    BY <1>3, <1>4, <2>1, StagedApart
<1>6. CASE chunk[u].buffer # generation
  BY <1>3, <1>4, <1>6 DEF StagedInv, OlderBuffersIntact
<1> QED
  BY <1>5, <1>6

\* In whatever order the slots are used: uploads are in one list each, their callbacks come after the
\* device has finished with them, and the staging buffers it reads have not been destroyed.
THEOREM TransfersTracked ==
  TransferSpec => [](TransferTypeOK /\ OneOwner /\ BuffersInUseExist /\ CallbackAfterTransfer)
<1>1. TransfersInv => TransferTypeOK /\ OneOwner /\ BuffersInUseExist /\ CallbackAfterTransfer
  BY OneList, BuffersAndCallbacks DEF TransfersInv
<1> QED
  BY <1>1, TransfersInvariance, PTL

\* And what was staged stays as it was until the device has read it, as long as the placer does not
\* underflow and the slots are used in turn.
THEOREM TransfersCorrect == TransferSpec => []TransfersSafe
<1>1. TransfersInv /\ StagingInv => TransfersSafe
  BY OneList, BuffersAndCallbacks, ChunksApart DEF TransfersSafe, StagingInv
<1> QED
  BY <1>1, StagingInvariance, PTL

=============================================================================
