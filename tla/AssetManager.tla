---------------------------- MODULE AssetManager ----------------------------
(***************************************************************************)
(* The asset manager with its cache, its pool of worker threads and its    *)
(* loaders: clients load assets by name (with handlers, blocking, or with  *)
(* a future), pin a load unit, drop what they hold and clean the cache.    *)
(* One action is one critical section of loaded_assets_rw_lock, one task   *)
(* taken from the pool, or one step on an asset or a load unit; what such  *)
(* a step looks like inside is the subject of Asset and LoadUnit.  A wait  *)
(* takes the steps between which a notification may be missed.             *)
(***************************************************************************)
EXTENDS Naturals, Sequences, FiniteSets

CONSTANTS
  Names,      \* asset names
  Objects,    \* identities for asset objects
  Clients,    \* threads outside the pool, each calls the manager once
  Workers,    \* the threads of the pool
  Operations, \* what each client may call
  LoaderOf,   \* the loader that knows each name
  None        \* a null pointer

Threads == Clients \cup Workers

\* The constructor starts at least two workers.
ASSUME ThreadsAssumption ==
  /\ Clients \cap Workers = {}
  /\ Workers # {}
  /\ None \notin Threads \cup Objects \cup Names

ASSUME RequestsAssumption ==
  /\ Operations \in [Clients -> SUBSET {"async", "sync", "future", "pin", "clean"}]
  /\ \A n \in Names : LoaderOf[n] \in {"file", "unit"}

VARIABLES
  loaded_assets,  \* the cache: an object or None for each name
  current_state,  \* the state of each object, "free" for one that is no more
  name,           \* the name each object was made for
  handlers,       \* clients whose handlers wait at each object
  task_pool,      \* the tasks posted to the io_service, oldest first
  work,           \* the io_service::work object that keeps the pool running
  unit,           \* the state of the load unit, "absent" until it is pinned
  unit_waiting,   \* objects whose closures wait at the load unit
  pc, held,       \* where each thread is, and the asset its locals refer to
  serving,        \* the client whose future a worker's task is to fulfil
  asked,          \* the asset each client asked for
  kept,           \* the shared_ptr each client got and has not dropped
  answer          \* what each client was told: "nothing", "ready" or "error"

assets  == <<loaded_assets, current_state, name, handlers>>
pool    == <<task_pool, work>>
loading == <<unit, unit_waiting>>
frames  == <<pc, held, serving>>
results == <<asked, kept, answer>>
vars    == <<assets, pool, loading, frames, results>>

Final == {"ready", "error"}

LoadTask(o)   == [kind |-> "load", object |-> o, client |-> None]
FutureTask(c) == [kind |-> "future", object |-> None, client |-> c]
SimpleTask(k) == [kind |-> k, object |-> None, client |-> None]
Post(task)    == task_pool' = Append(task_pool, task) /\ UNCHANGED work

Goto(t, to) == pc' = [pc EXCEPT ![t] = to]

\* The client a thread loads an asset for: itself, or that of a future.
Requester(t) == IF t \in Clients THEN t ELSE serving[t]

\* A thread's operation is over, its locals are destroyed.
Return(t) ==
  /\ Goto(t, IF t \in Clients THEN "done" ELSE "idle")
  /\ held' = [held EXCEPT ![t] = None]
  /\ serving' = [serving EXCEPT ![t] = None]

\* Somebody may have pinned the unit before the clients begin.
Init ==
  /\ loaded_assets = [n \in Names |-> None]
  /\ current_state = [o \in Objects |-> "free"]
  /\ name = [o \in Objects |-> None]
  /\ handlers = [o \in Objects |-> {}]
  /\ unit \in {"absent", "initial"}
  /\ task_pool = IF unit = "absent" THEN <<>> ELSE <<SimpleTask("pin")>>
  /\ work = TRUE
  /\ unit_waiting = {}
  /\ pc = [t \in Threads |-> IF t \in Clients THEN "start" ELSE "idle"]
  /\ held = [t \in Threads |-> None]
  /\ serving = [t \in Threads |-> None]
  /\ asked = [c \in Clients |-> None]
  /\ kept = [c \in Clients |-> None]
  /\ answer = [c \in Clients |-> "nothing"]

\* A thread that found an asset unsettled holds its mutex until it sleeps.
AssetMutexFree(o) == \A t \in Threads : held[t] = o => pc[t] # "wait_block"

\* complete_loading or raise_error_flag of the objects in S: all handlers run. An error is set and
\* notified before the mutex is taken.
Settle(S, outcome) ==
  /\ outcome = "ready" => \A o \in S : AssetMutexFree(o)
  /\ current_state' = [o \in Objects |-> IF o \in S THEN outcome
                                         ELSE current_state[o]]
  /\ handlers' = [o \in Objects |-> IF o \in S THEN {} ELSE handlers[o]]
  /\ answer' = [c \in Clients |-> IF \E o \in S : c \in handlers[o] THEN outcome
                                  ELSE answer[c]]
  /\ UNCHANGED <<loaded_assets, name, asked, kept>>

\* A client calls an operation of the manager, loading operations with a name.
Call(c, op) == pc[c] = "start" /\ op \in Operations[c]
Ask(c, n)   == asked' = [asked EXCEPT ![c] = n]

\* A new asset object for n in the cache, with the handlers of the clients C.
Create(o, n, C) ==
  /\ current_state[o] = "free"
  /\ current_state' = [current_state EXCEPT ![o] = "initial"]
  /\ name' = [name EXCEPT ![o] = n]
  /\ handlers' = [handlers EXCEPT ![o] = C]
  /\ loaded_assets' = [loaded_assets EXCEPT ![n] = o]

-----------------------------------------------------------------------------
(* load_asset_async                                                        *)

\* The lookup under the read lock.
AsyncLookup(c, n) ==
  /\ Call(c, "async") /\ Ask(c, n)
  /\ held' = [held EXCEPT ![c] = loaded_assets[n]]
  /\ Goto(c, IF held'[c] = None THEN "insert" ELSE "register")
  /\ UNCHANGED <<assets, pool, loading, serving, kept, answer>>

\* The write lock: another client inserted the asset meanwhile.
AsyncFound(c) ==
  /\ pc[c] = "insert"
  /\ loaded_assets[asked[c]] # None
  /\ held' = [held EXCEPT ![c] = loaded_assets[asked[c]]]
  /\ Goto(c, "register")
  /\ UNCHANGED <<assets, pool, loading, serving, results>>

\* Mutant: the map is not searched again under the write lock.
MutantNoDoubleCheck(c, o) ==
  /\ pc[c] = "insert"
  /\ Create(o, asked[c], {c})
  /\ Post(LoadTask(o))
  /\ kept' = [kept EXCEPT ![c] = o]
  /\ Return(c)
  /\ UNCHANGED <<loading, asked, answer>>

\* The write lock: insert a new object, register the handlers, post its task.
AsyncInsert(c, o) ==
  /\ pc[c] = "insert"
  /\ loaded_assets[asked[c]] = None
  /\ Create(o, asked[c], {c})
  /\ Post(LoadTask(o))
  /\ kept' = [kept EXCEPT ![c] = o]
  /\ Return(c)
  /\ UNCHANGED <<loading, asked, answer>>

\* run_when_loaded at the object that was found, without the cache's lock.
AsyncRegister(c) ==
  /\ pc[c] = "register"
  /\ LET o == held[c] IN
       /\ IF current_state[o] \in Final
            THEN /\ answer' = [answer EXCEPT ![c] = current_state[o]]
                 /\ UNCHANGED handlers
            ELSE /\ AssetMutexFree(o)
                 /\ handlers' = [handlers EXCEPT ![o] = @ \cup {c}]
                 /\ UNCHANGED answer
       /\ kept' = [kept EXCEPT ![c] = o]
  /\ Return(c)
  /\ UNCHANGED <<loaded_assets, current_state, name, pool, loading, asked>>

-----------------------------------------------------------------------------
(* load_asset_sync and load_asset_future                                   *)

\* The lookup under the read lock.
SyncLookup(c, n) ==
  /\ Call(c, "sync") /\ Ask(c, n)
  /\ held' = [held EXCEPT ![c] = loaded_assets[n]]
  /\ Goto(c, IF held'[c] = None THEN "core" ELSE "own")
  /\ UNCHANGED <<assets, pool, loading, serving, kept, answer>>

\* load_asset_sync_core, under the write lock: the asset is in the map.
CoreFound(t) ==
  /\ pc[t] = "core"
  /\ LET n == asked[Requester(t)] IN
       /\ loaded_assets[n] # None
       /\ held' = [held EXCEPT ![t] = loaded_assets[n]]
  /\ Goto(t, "own")
  /\ UNCHANGED <<assets, pool, loading, serving, results>>

\* load_asset_sync_core, under the write lock: insert a new object.
CoreInsert(t, o) ==
  /\ pc[t] = "core"
  /\ LET n == asked[Requester(t)] IN
       /\ loaded_assets[n] = None
       /\ Create(o, n, {})
  /\ held' = [held EXCEPT ![t] = o]
  /\ Goto(t, "own")
  /\ UNCHANGED <<pool, loading, serving, results>>

\* A settled asset in the cache makes a ready or an exceptional future.
FutureCached(c, n) ==
  /\ Call(c, "future") /\ Ask(c, n)
  /\ LET o == loaded_assets[n] IN
       /\ o # None
       /\ current_state[o] \in Final
       /\ answer' = [answer EXCEPT ![c] = current_state[o]]
       /\ kept' = [kept EXCEPT ![c] = IF current_state[o] = "ready" THEN o
                                       ELSE None]
  /\ Return(c)
  /\ UNCHANGED <<assets, pool, loading>>

\* Otherwise a task of the pool is to fulfil the future.
FuturePost(c, n) ==
  /\ Call(c, "future") /\ Ask(c, n)
  /\ loaded_assets[n] # None => current_state[loaded_assets[n]] \notin Final
  /\ Post(FutureTask(c))
  /\ Return(c)
  /\ UNCHANGED <<assets, loading, kept, answer>>

-----------------------------------------------------------------------------
(* start_pin_load_unit, start_clean and the clients' references            *)

\* The load_unit_asset_loader makes the unit known and posts the task for it,
\* unless it knows the unit.
StartPinLoadUnit(c) ==
  /\ Call(c, "pin")
  /\ IF unit = "absent" THEN unit' = "initial" /\ Post(SimpleTask("pin"))
                        ELSE UNCHANGED <<unit, pool>>
  /\ Return(c)
  /\ UNCHANGED <<assets, unit_waiting, results>>

StartClean(c) ==
  /\ Call(c, "clean")
  /\ Post(SimpleTask("clean"))
  /\ Return(c)
  /\ UNCHANGED <<assets, loading, results>>

\* A client drops the shared_ptr it got, answered or not.
Drop(c) ==
  /\ kept[c] # None
  /\ kept' = [kept EXCEPT ![c] = None]
  /\ UNCHANGED <<assets, pool, loading, frames, asked, answer>>

Queued == {task_pool[i] : i \in DOMAIN task_pool}

\* Somebody besides the map refers to the object: use_count() > 1.
Referenced(o) ==
  \/ \E t \in Threads : held[t] = o
  \/ \E c \in Clients : kept[c] = o
  \/ o \in unit_waiting
  \/ LoadTask(o) \in Queued

Unused == {o \in Objects : ~Referenced(o)}

\* The clean task, under the write lock: objects only the map refers to go.
Clean(w) ==
  /\ pc[w] = "clean"
  /\ loaded_assets' = [n \in Names |-> IF loaded_assets[n] \in Unused THEN None
                                       ELSE loaded_assets[n]]
  /\ current_state' = [o \in Objects |-> IF o \in Unused THEN "free"
                                         ELSE current_state[o]]
  /\ name' = [o \in Objects |-> IF o \in Unused THEN None ELSE name[o]]
  /\ handlers' = [o \in Objects |-> IF o \in Unused THEN {} ELSE handlers[o]]
  /\ Return(w)
  /\ UNCHANGED <<pool, loading, results>>

-----------------------------------------------------------------------------
(* The pool                                                                *)

FirstStep(kind) ==
  CASE kind = "load" -> "own"
    [] kind = "future" -> "core"
    [] kind = "payload" -> "data_own"
    [] kind = "pin" -> "meta_own"
    [] kind = "clean" -> "clean"

\* io_service::run: an idle worker takes the oldest task.
TakeTask(w) ==
  /\ pc[w] = "idle"
  /\ task_pool # <<>>
  /\ LET task == Head(task_pool) IN
       /\ Goto(w, FirstStep(task.kind))
       /\ held' = [held EXCEPT ![w] = task.object]
       /\ serving' = [serving EXCEPT ![w] = task.client]
  /\ task_pool' = Tail(task_pool)
  /\ UNCHANGED <<assets, work, loading, results>>

\* ~asset_manager, once no client is in a call, gives up the work object.
StartDestroy ==
  /\ work
  /\ \A c \in Clients : pc[c] = "done"
  /\ work' = FALSE
  /\ UNCHANGED <<assets, task_pool, loading, frames, results>>

\* run returns when there is neither a task queued nor one running.
WorkerExits(w) ==
  /\ ~work
  /\ task_pool = <<>>
  /\ pc[w] = "idle"
  /\ \A v \in Workers : pc[v] \in {"idle", "exited"}
  /\ Goto(w, "exited")
  /\ UNCHANGED <<assets, pool, loading, held, serving, results>>

-----------------------------------------------------------------------------
(* call_loaders_sync, and the task of load_asset_async                     *)

ObtainOwnership(t) ==
  /\ pc[t] = "own"
  /\ current_state[held[t]] = "initial"
  /\ current_state' = [current_state EXCEPT ![held[t]] = "loading"]
  /\ Goto(t, "loaders")
  /\ UNCHANGED <<loaded_assets, name, handlers, pool, loading, held, serving,
                 results>>

\* Somebody else loads the asset: a request waits for it, a posted task ends.
LoseOwnership(t) ==
  /\ pc[t] = "own"
  /\ current_state[held[t]] # "initial"
  /\ IF Requester(t) = None THEN Return(t)
     ELSE Goto(t, "wait") /\ UNCHANGED <<held, serving>>
  /\ UNCHANGED <<assets, pool, loading, results>>

\* Once start_load_asset returned true, a request waits and a posted task ends.
LoaderReturned(t) ==
  IF Requester(t) = None THEN Return(t)
  ELSE Goto(t, "wait") /\ UNCHANGED <<held, serving>>

\* The file_asset_loader reads the file and finishes the asset at once.
LoadFile(t) ==
  /\ pc[t] = "loaders"
  /\ LoaderOf[name[held[t]]] = "file"
  /\ Settle({held[t]}, "ready")
  /\ LoaderReturned(t)
  /\ UNCHANGED <<pool, loading>>

\* No loader has the asset: the file is missing, the unit absent or failed.
NameNotFound(t) ==
  /\ \/ pc[t] = "loaders" /\ LoaderOf[name[held[t]]] = "file"
     \/ pc[t] = "loaders" /\ LoaderOf[name[held[t]]] = "unit" /\ unit = "absent"
     \/ pc[t] = "next_unit"
  /\ Settle({held[t]}, "error")
  /\ LoaderReturned(t)
  /\ UNCHANGED <<pool, loading>>

\* The load_unit_asset_loader: prepare_load_unit_meta_data of its unit.
PrepareUnit(t) ==
  /\ pc[t] = "loaders"
  /\ LoaderOf[name[held[t]]] = "unit" /\ unit # "absent"
  /\ Goto(t, IF unit = "initial" THEN "meta_own"
             ELSE IF unit = "meta_loading" THEN "meta_wait"
             ELSE IF unit = "error" THEN "next_unit" ELSE "unit_register")
  /\ UNCHANGED <<assets, pool, loading, held, serving, results>>

\* internal_wait_for_complete, and the answer of the sync call or the future.
Wait(t) ==
  /\ pc[t] \in {"wait", "asleep"}
  /\ LET o == held[t]
         c == Requester(t) IN
       /\ current_state[o] \in Final
       /\ answer' = [answer EXCEPT ![c] = current_state[o]]
       /\ kept' = [kept EXCEPT ![c] = IF current_state[o] = "ready" THEN o
                                       ELSE None]
  /\ Return(t)
  /\ UNCHANGED <<assets, pool, loading, asked>>

\* The predicate is evaluated with the mutex held.
WaitBlock(t) ==
  /\ pc[t] = "wait"
  /\ current_state[held[t]] \notin Final /\ AssetMutexFree(held[t])
  /\ Goto(t, "wait_block")
  /\ UNCHANGED <<assets, pool, loading, held, serving, results>>

\* The mutex is given back. An error raised since then was notified before the thread slept.
WaitSleep(t) ==
  /\ pc[t] = "wait_block"
  /\ Goto(t, IF current_state[held[t]] = "error" THEN "overslept" ELSE "asleep")
  /\ UNCHANGED <<assets, pool, loading, held, serving, results>>

\* Nothing has to wake a thread that overslept; a spurious wakeup may, or the owner of the asset, whose
\* own wait throws and which then raises the error a second time.
WakesAgain(t) ==
  /\ \/ pc[t] = "overslept" /\ Goto(t, "wait")
     \/ pc[t] = "meta_overslept" /\ Goto(t, "meta_wait")
  /\ UNCHANGED <<assets, pool, loading, held, serving, results>>

-----------------------------------------------------------------------------
(* The load unit                                                           *)

UnitLockedOut == \E t \in Threads : pc[t] = "locked_out"

UnitMutexFree == ~UnitLockedOut /\ \A t \in Threads : pc[t] # "meta_block"

\* The pin task, or an asset's thread, obtains the meta data of the unit.
ObtainMeta(t) ==
  /\ pc[t] = "meta_own"
  /\ unit = "initial"
  /\ unit' = "meta_loading"
  /\ Goto(t, "meta_read")
  /\ UNCHANGED <<assets, pool, unit_waiting, held, serving, results>>

LoseMeta(t) ==
  /\ pc[t] = "meta_own"
  /\ unit # "initial"
  /\ IF held[t] = None THEN Return(t)
     ELSE Goto(t, "meta_wait") /\ UNCHANGED <<held, serving>>
  /\ UNCHANGED <<assets, pool, loading, results>>

\* The meta data is read with the mutex held, the payload task posted.
MetaReady(t) ==
  /\ pc[t] = "meta_read" /\ UnitMutexFree
  /\ unit' = "meta_ready"
  /\ Post(SimpleTask("payload"))
  /\ IF held[t] = None THEN Return(t)
     ELSE Goto(t, "unit_register") /\ UNCHANGED <<held, serving>>
  /\ UNCHANGED <<assets, unit_waiting, results>>

MetaMissing(t) ==
  /\ pc[t] = "meta_read"
  /\ unit' = "error"
  /\ IF held[t] = None THEN Return(t)
     ELSE Goto(t, "next_unit") /\ UNCHANGED <<held, serving>>
  /\ UNCHANGED <<assets, pool, unit_waiting, results>>

\* Meta data that does not parse: load_meta_data raises the error, whose handlers need the mutex that it
\* holds itself.
MetaCorrupt(t) ==
  /\ pc[t] = "meta_read" /\ UnitMutexFree
  /\ unit' = "error"
  /\ Goto(t, "locked_out")
  /\ UNCHANGED <<assets, pool, unit_waiting, held, serving, results>>

\* internal_wait_for_meta_complete: a thread that slept takes the mutex again.
MetaWait(t) ==
  /\ pc[t] = "meta_wait" \/ (pc[t] = "meta_asleep" /\ UnitMutexFree)
  /\ unit \notin {"initial", "meta_loading"}
  /\ Goto(t, IF unit = "error" THEN "next_unit" ELSE "unit_register")
  /\ UNCHANGED <<assets, pool, loading, held, serving, results>>

MetaBlock(t) ==
  /\ pc[t] = "meta_wait"
  /\ unit \in {"initial", "meta_loading"} /\ UnitMutexFree
  /\ Goto(t, "meta_block")
  /\ UNCHANGED <<assets, pool, loading, held, serving, results>>

MetaSleep(t) ==
  /\ pc[t] = "meta_block"
  /\ Goto(t, IF unit = "error" THEN "meta_overslept" ELSE "meta_asleep")
  /\ UNCHANGED <<assets, pool, loading, held, serving, results>>

\* The state was looked at before the error, the mutex comes after it.
MetaShutOut(t) ==
  /\ pc[t] = "meta_wait" /\ UnitLockedOut
  /\ Goto(t, "shut_out")
  /\ UNCHANGED <<assets, pool, loading, held, serving, results>>

\* What start_load_asset does next: the synchronous hint, or nothing more.
AfterRegister(t) == IF Requester(t) = None THEN Return(t)
                    ELSE Goto(t, "data_own") /\ UNCHANGED <<held, serving>>

\* run_when_loaded of the unit: its payload is still to come, or is settled.
RegisterAtUnit(t) ==
  /\ pc[t] = "unit_register"
  /\ unit \in {"meta_ready", "data_loading"}
  /\ unit_waiting' = unit_waiting \cup {held[t]}
  /\ AfterRegister(t)
  /\ UNCHANGED <<assets, pool, unit, results>>

SettledAtUnit(t) ==
  /\ pc[t] = "unit_register"
  /\ unit \in {"data_ready", "error"}
  /\ Settle({held[t]}, IF unit = "error" THEN "error" ELSE "ready")
  /\ AfterRegister(t)
  /\ UNCHANGED <<pool, loading>>

\* The payload task, or the synchronous hint, obtains the payload of the unit.
ObtainData(t) ==
  /\ pc[t] = "data_own"
  /\ unit = "meta_ready"
  /\ unit' = "data_loading"
  /\ Goto(t, "data_read")
  /\ UNCHANGED <<assets, pool, unit_waiting, held, serving, results>>

LoseData(t) ==
  /\ pc[t] = "data_own"
  /\ unit # "meta_ready"
  /\ LoaderReturned(t)
  /\ UNCHANGED <<assets, pool, loading, results>>

\* Mutant: the waiting closures are dropped when the payload is missing.
MutantForgetWaiting(t, outcome) ==
  /\ pc[t] = "data_read"
  /\ unit' = IF outcome = "ready" THEN "data_ready" ELSE "error"
  /\ unit_waiting' = {}
  /\ Settle(IF outcome = "ready" THEN unit_waiting ELSE {}, outcome)
  /\ LoaderReturned(t)
  /\ UNCHANGED pool

\* The payload is read or missing: every waiting closure settles its asset.
ReadData(t, outcome) ==
  /\ pc[t] = "data_read"
  /\ unit' = IF outcome = "ready" THEN "data_ready" ELSE "error"
  /\ unit_waiting' = {}
  /\ Settle(unit_waiting, outcome)
  /\ LoaderReturned(t)
  /\ UNCHANGED pool

-----------------------------------------------------------------------------
ClientStep(c) ==
  \/ \E n \in Names : \/ AsyncLookup(c, n)
                      \/ SyncLookup(c, n)
                      \/ FutureCached(c, n)
                      \/ FuturePost(c, n)
  \/ AsyncFound(c)
  \/ \E o \in Objects : AsyncInsert(c, o)
  \/ AsyncRegister(c)
  \/ StartPinLoadUnit(c)
  \/ StartClean(c)

\* What clients and workers have in common: loading an asset.
LoadStep(t) ==
  \/ CoreFound(t)
  \/ \E o \in Objects : CoreInsert(t, o)
  \/ ObtainOwnership(t)
  \/ LoseOwnership(t)
  \/ LoadFile(t)
  \/ NameNotFound(t)
  \/ PrepareUnit(t)
  \/ Wait(t) \/ WaitBlock(t) \/ WaitSleep(t)
  \/ ObtainMeta(t)
  \/ LoseMeta(t)
  \/ MetaReady(t)
  \/ MetaMissing(t)
  \/ MetaCorrupt(t)
  \/ MetaWait(t) \/ MetaBlock(t) \/ MetaSleep(t) \/ MetaShutOut(t)
  \/ RegisterAtUnit(t)
  \/ SettledAtUnit(t)
  \/ ObtainData(t)
  \/ LoseData(t)
  \/ \E outcome \in Final : ReadData(t, outcome)

WorkerStep(w) == TakeTask(w) \/ Clean(w) \/ WorkerExits(w)

Step(t) == \/ t \in Clients /\ ClientStep(t)
           \/ t \in Workers /\ WorkerStep(t)
           \/ LoadStep(t)

Next == \/ \E t \in Threads : Step(t) \/ WakesAgain(t)
        \/ \E c \in Clients : Drop(c)
        \/ StartDestroy

Spec == Init /\ [][Next]_vars

\* Threads that can run do run; nobody has to drop an asset, to end the manager, or to wake a thread
\* that overslept.
FairSpec == Spec /\ \A t \in Threads : WF_vars(Step(t))

-----------------------------------------------------------------------------
(* Properties                                                              *)

AssetWaits == {"wait", "wait_block", "asleep", "overslept"}
MetaWaits  == {"meta_wait", "meta_block", "meta_asleep", "meta_overslept", "shut_out"}
LoadPCs    == AssetWaits \cup MetaWaits \cup
              {"core", "own", "loaders", "meta_own", "meta_read", "locked_out",
               "next_unit", "unit_register", "data_own", "data_read"}

\* Every variable stays in its range.
TypeOK ==
  /\ loaded_assets \in [Names -> Objects \cup {None}]
  /\ current_state \in [Objects -> {"free", "initial", "loading", "ready", "error"}]
  /\ name \in [Objects -> Names \cup {None}]
  /\ handlers \in [Objects -> SUBSET Clients]
  /\ task_pool \in Seq([kind : {"load", "future", "payload", "pin", "clean"},
                        object : Objects \cup {None}, client : Clients \cup {None}])
  /\ work \in BOOLEAN
  /\ unit \in {"absent", "initial", "meta_loading", "meta_ready", "data_loading",
               "data_ready", "error"}
  /\ unit_waiting \subseteq Objects
  /\ pc \in [Threads -> LoadPCs \cup {"start", "insert", "register", "done", "idle",
                                      "clean", "exited"}]
  /\ held \in [Threads -> Objects \cup {None}]
  /\ serving \in [Threads -> Clients \cup {None}]
  /\ asked \in [Clients -> Names \cup {None}]
  /\ kept \in [Clients -> Objects \cup {None}]
  /\ answer \in [Clients -> {"nothing"} \cup Final]

\* The cache is one: whatever lookups, insertions and cleaning raced, an object
\* somebody refers to is the one the map has for its name, so no asset is in
\* memory twice and all who ask for a name share one object.
OneObjectPerName ==
  \A o \in Objects : Referenced(o) => /\ name[o] # None
                                      /\ loaded_assets[name[o]] = o

\* Threads on their way to load or settle the object, or stopped on it.
Busy(o) == \E t \in Threads : held[t] = o /\ pc[t] \in LoadPCs \ AssetWaits

\* No request is orphaned: while an object is unsettled and a handler or a
\* blocked thread waits for it, its load task is queued, a thread works on it
\* (and may have overslept the meta data of the unit, or be locked out of it),
\* or its closure waits at a unit whose payload somebody still has to read.
NoRequestOrphaned ==
  \A o \in Objects :
    /\ current_state[o] \in {"initial", "loading"}
    /\ handlers[o] # {} \/ \E t \in Threads : held[t] = o /\ pc[t] \in AssetWaits
    => \/ LoadTask(o) \in Queued
       \/ Busy(o)
       \/ /\ o \in unit_waiting
          /\ \/ SimpleTask("payload") \in Queued
             \/ \E t \in Threads : pc[t] \in {"data_own", "data_read"}

\* "Waits for all pending asynchronous tasks to complete and destroys the asset
\* manager": when the workers are joined every request has been answered.
JoinedImpliesAnswered ==
  (\A w \in Workers : pc[w] = "exited")
    => \A c \in Clients : asked[c] # None => answer[c] # "nothing"

\* Threads that nothing has to wake: they missed the notification of an error, or wait for the mutex
\* of the unit whose reader waits for it too.
StoppedAtUnit(t) ==
  \/ pc[t] \in {"meta_overslept", "shut_out", "locked_out"}
  \/ pc[t] = "meta_asleep" /\ UnitLockedOut

Stopped(t) == pc[t] = "overslept" \/ StoppedAtUnit(t)

\* The thread that is to answer the client has stopped, or the one that loads its asset.
AnswererStopped(c) ==
  \E t \in Threads :
    \/ Stopped(t) /\ Requester(t) = c
    \/ StoppedAtUnit(t) /\ held[t] # None /\ name[held[t]] = asked[c]

\* Every worker waits while there are tasks: those of futures wait for an asset whose payload is read
\* by a task that comes after theirs.
PoolStopped ==
  /\ task_pool # <<>>
  /\ \A w \in Workers : pc[w] \in AssetWaits \cup MetaWaits \cup {"locked_out"}

\* In the end every request is answered, by its handlers, by returning, or by its future; unless a thread slept
\* over the error it waited for (raise_error_flag notifies without the mutex), the reader of meta data
\* that does not parse has locked itself out, or waiting workers leave the pool without one.
RequestsAnswered ==
  <>[](PoolStopped \/ \A c \in Clients : asked[c] # None => answer[c] # "nothing" \/ AnswererStopped(c))

-----------------------------------------------------------------------------
(* What these follow from                                                  *)

\* Where a thread is determines what its locals are, and what its client asked for.
ClientLocals ==
  \A c \in Clients :
    /\ pc[c] \in LoadPCs \cup {"start", "insert", "register", "done"}
    /\ serving[c] = None
    /\ pc[c] = "start" => asked[c] = None
    /\ pc[c] \in LoadPCs \cup {"insert", "register"} => asked[c] \in Names

WorkerLocals ==
  \A w \in Workers :
    /\ pc[w] \in LoadPCs \cup {"idle", "clean", "exited"}
    /\ pc[w] \in {"idle", "clean", "exited"} => serving[w] = None
    /\ serving[w] # None => asked[serving[w]] \in Names

ThreadLocals ==
  \A t \in Threads :
    /\ pc[t] \in {"start", "insert", "core", "done", "idle", "clean", "exited"} => held[t] = None
    /\ pc[t] \in AssetWaits \cup MetaWaits \cup {"register", "own", "loaders", "next_unit", "unit_register"}
         => held[t] # None
    /\ pc[t] \in LoadPCs \ {"core"} /\ held[t] = None => Requester(t) = None
    /\ pc[t] \in AssetWaits \cup {"core"} => Requester(t) # None

TaskLocals ==
  \A task \in Queued :
    /\ task.kind = "load" <=> task.object # None
    /\ task.kind = "future" <=> task.client # None
    /\ task.kind = "future" => asked[task.client] \in Names

LocalsFollowPlace == ClientLocals /\ WorkerLocals /\ ThreadLocals /\ TaskLocals

\* An object is in the map under the name it was made for until it is freed, and nobody refers to one that is not.
CacheMatches ==
  /\ \A n \in Names : loaded_assets[n] # None => name[loaded_assets[n]] = n
  /\ \A o \in Objects : /\ current_state[o] = "free" <=> name[o] = None
                        /\ name[o] # None => loaded_assets[name[o]] = o
                        /\ Referenced(o) => name[o] # None

\* One thread reads the meta data, one the payload; a payload that somebody waits for has a task or a thread.
UnitHasReader ==
  /\ \A t, u \in Threads : pc[t] = pc[u] /\ pc[t] \in {"meta_read", "data_read"} => t = u
  /\ \A t \in Threads : /\ pc[t] = "meta_read" => unit = "meta_loading"
                        /\ pc[t] = "data_read" => unit = "data_loading"
  /\ unit = "meta_ready" => SimpleTask("payload") \in Queued \/ \E t \in Threads : pc[t] = "data_own"
  /\ unit = "data_loading" => \E t \in Threads : pc[t] = "data_read"
  /\ unit_waiting # {} => unit \in {"meta_ready", "data_loading"}

\* An object that is not settled has a task that has not begun, or a thread
\* that has not given it on, or waits at the unit.
InitialHasOwner ==
  \A o \in Objects : current_state[o] = "initial" =>
    \/ LoadTask(o) \in Queued
    \/ \E t \in Threads : held[t] = o /\ pc[t] = "own"

LoadingHasOwner ==
  \A o \in Objects : current_state[o] = "loading" =>
    \/ o \in unit_waiting
    \/ \E t \in Threads :
         /\ held[t] = o
         /\ pc[t] \in MetaWaits \cup {"loaders", "meta_own", "meta_read", "locked_out", "next_unit", "unit_register"}

UnsettledHasOwner == InitialHasOwner /\ LoadingHasOwner

\* A request that is not answered is with its client, in the queue, with a
\* worker, or among the handlers of an object that is not settled; the pool
\* only ends without any of these.
HandlersWait == \A o \in Objects : handlers[o] # {} => current_state[o] \in {"initial", "loading"}

RequestsHeld ==
  \A c \in Clients : asked[c] # None /\ answer[c] = "nothing" =>
    \/ pc[c] # "done"
    \/ FutureTask(c) \in Queued
    \/ \E w \in Workers : serving[w] = c
    \/ \E o \in Objects : c \in handlers[o]

PoolEnds ==
  /\ ~work => \A c \in Clients : pc[c] = "done"
  /\ (\E w \in Workers : pc[w] = "exited")
       => ~work /\ task_pool = <<>> /\ \A w \in Workers : pc[w] \in {"idle", "exited"}

UnansweredIsSomewhere == HandlersWait /\ RequestsHeld /\ PoolEnds

\* All of it holds at once: one object per name, and for every request somebody who will answer it,
\* also while the manager is destroyed.
ManagerSafe ==
  /\ TypeOK /\ LocalsFollowPlace /\ CacheMatches /\ UnitHasReader /\ UnsettledHasOwner /\ UnansweredIsSomewhere
  /\ OneObjectPerName /\ NoRequestOrphaned /\ JoinedImpliesAnswered
=============================================================================
