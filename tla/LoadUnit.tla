------------------------------ MODULE LoadUnit ------------------------------
(***************************************************************************)
(* One load_unit and the code of load_unit_asset_loader that drives it:    *)
(* the task that pins the unit, the task that loads its payload, the       *)
(* threads loading an asset out of the unit (start_load_asset, with or     *)
(* without the synchronous hint) and the clients that wait for the pinned  *)
(* unit (run_when_loaded_simple).  The two files of the unit are external: *)
(* reading one succeeds, finds nothing, or, for the meta data, yields      *)
(* content that does not parse.                                            *)
(***************************************************************************)
EXTENDS Naturals, FiniteSets

CONSTANTS
  SyncAssets,       \* threads in start_load_asset with sync_hint
  AsyncAssets,      \* threads in start_load_asset without it
  PinClients,       \* threads in run_when_loaded_simple
  PinTask,          \* the task posted by start_pin_load_unit_helper
  PayloadTask,      \* the task posted by start_payload_loading
  MetaOutcomes,     \* subset of {"good", "missing", "corrupt"}
  PayloadOutcomes,  \* subset of {"good", "missing"}
  RelockOutcomes,   \* what a thread locking its own std::mutex may meet
  NoThread

AssetThreads == SyncAssets \cup AsyncAssets
Clients      == AssetThreads \cup PinClients
Tasks        == {PinTask, PayloadTask}
Threads      == Clients \cup Tasks

ASSUME ThreadsAssumption ==
  /\ SyncAssets \cap AsyncAssets = {}
  /\ AssetThreads \cap PinClients = {}
  /\ PinTask # PayloadTask /\ Tasks \cap Clients = {}
  /\ NoThread \notin Threads

ASSUME OutcomesAssumption ==
  /\ MetaOutcomes \subseteq {"good", "missing", "corrupt"} /\ MetaOutcomes # {}
  /\ PayloadOutcomes \subseteq {"good", "missing"} /\ PayloadOutcomes # {}
  /\ RelockOutcomes \subseteq {"blocks", "throws"} /\ RelockOutcomes # {}

VARIABLES
  current_state,       \* the atomic state
  modification_mutex,  \* its holder, or NoThread
  meta_data,           \* "none", "partial" (a failed read) or "complete"
  payload_data,        \* TRUE once payload_data_ and size_ are assigned
  handlers,            \* clients in the handler lists
  completed_cv,        \* threads blocked on the condition variable
  payload_posted,      \* PayloadTask is in the task pool
  meta_owner,          \* who won try_obtain_meta_load_ownership
  data_owner,          \* who won try_obtain_data_load_ownership
  todo,                \* handlers the resolving thread has still to run
  calls,               \* history: outcomes delivered to each client
  returned,            \* how start_load_asset treated the unit, per thread
  pc

object   == <<current_state, modification_mutex, meta_data, payload_data,
              handlers, completed_cv>>
loading  == <<payload_posted, meta_owner, data_owner>>
delivery == <<todo, calls>>
vars     == <<object, loading, delivery, returned, pc>>

Final == {"data_ready", "error"}

\* meta_data_ready()
MetaReady == current_state \in {"meta_ready", "data_loading", "data_ready"}

Goto(t, from, to) == /\ pc[t] = from
                     /\ pc' = [pc EXCEPT ![t] = to]

Free    == modification_mutex = NoThread
Lock(t) == Free /\ modification_mutex' = t
Unlock  == modification_mutex' = NoThread

\* A local step: a decision on shared state that changes none of it.
Local == UNCHANGED <<object, loading, delivery, returned>>

InitialPC(t) == IF t \in PinClients THEN "rwl_check"
                ELSE IF t \in AssetThreads THEN "prepare" ELSE "posted"

Init ==
  /\ current_state = "initial"
  /\ modification_mutex = NoThread
  /\ meta_data = "none"
  /\ payload_data = FALSE
  /\ handlers = {}
  /\ completed_cv = {}
  /\ payload_posted = FALSE
  /\ meta_owner = NoThread
  /\ data_owner = NoThread
  /\ todo = [t \in Threads |-> {}]
  /\ calls = [c \in Clients |-> [outcome \in Final |-> 0]]
  /\ returned = [a \in AssetThreads |-> "none"]
  /\ pc = [t \in Threads |-> InitialPC(t)]

-----------------------------------------------------------------------------
(* Meta data: the pin task and prepare_load_unit_meta_data                 *)

\* Nothing to prepare when the meta data is there already.
PrepareCheck(a) ==
  /\ Goto(a, "prepare", IF MetaReady THEN "resolve" ELSE "meta_own")
  /\ Local

PinTaskRuns == Goto(PinTask, "posted", "meta_own") /\ Local

\* try_obtain_meta_load_ownership succeeds for one thread.
ObtainMetaOwnership(t) ==
  /\ current_state = "initial"
  /\ Goto(t, "meta_own", "meta_read")
  /\ current_state' = "meta_loading"
  /\ meta_owner' = t
  /\ UNCHANGED <<modification_mutex, meta_data, payload_data, handlers,
                 completed_cv, payload_posted, data_owner, delivery, returned>>

\* It fails for the others: the task is over, an asset waits for the meta data.
LoseMetaOwnership(t) ==
  /\ current_state # "initial"
  /\ Goto(t, "meta_own", IF t = PinTask THEN "done" ELSE "wait_check")
  /\ Local

\* Mutant: a missing file is not reported.
MutantMissingIgnored(t) ==
  /\ \/ /\ "missing" \in MetaOutcomes
        /\ Goto(t, "meta_read", IF t = PinTask THEN "done" ELSE "meta_checked")
     \/ MetaOutcomes \ {"missing"} # {} /\ Goto(t, "meta_read", "lm_lock")
  /\ Local

\* Read the .lum file: its content goes to load_meta_data, or it is missing.
ReadMetaFile(t) ==
  /\ \/ "missing" \in MetaOutcomes /\ Goto(t, "meta_read", "re_set")
     \/ MetaOutcomes \ {"missing"} # {} /\ Goto(t, "meta_read", "lm_lock")
  /\ Local

\* load_meta_data takes the mutex and reads the stream into meta_data_.
LoadMetaDataLock(t) ==
  /\ Lock(t)
  /\ \/ /\ "good" \in MetaOutcomes
        /\ Goto(t, "lm_lock", "lm_set")
        /\ meta_data' = "complete"
     \/ /\ "corrupt" \in MetaOutcomes
        /\ Goto(t, "lm_lock", "lm_raise")
        /\ meta_data' = "partial"
  /\ UNCHANGED <<current_state, payload_data, handlers, completed_cv, loading,
                 delivery, returned>>

\* current_state_ = meta_ready and unlock.
LoadMetaDataSet(t) ==
  /\ Goto(t, "lm_set", "lm_notify")
  /\ current_state' = "meta_ready"
  /\ Unlock
  /\ UNCHANGED <<meta_data, payload_data, handlers, completed_cv, loading,
                 delivery, returned>>

LoadMetaDataNotify(t) ==
  /\ Goto(t, "lm_notify", "post")
  /\ completed_cv' = {}
  /\ UNCHANGED <<current_state, modification_mutex, meta_data, payload_data,
                 handlers, loading, delivery, returned>>

\* The stream failed: raise_error_flag is called with the mutex still held.
LoadMetaDataRaise(t) ==
  /\ Goto(t, "lm_raise", "lm_relock")
  /\ current_state' = "error"
  /\ completed_cv' = {}
  /\ UNCHANGED <<modification_mutex, meta_data, payload_data, handlers, loading,
                 delivery, returned>>

\* Locking a std::mutex the thread holds is undefined: it blocks, or throws an
\* exception that releases the mutex and reaches the caller's catch block.
LoadMetaDataRelock(t) ==
  /\ \/ /\ "blocks" \in RelockOutcomes
        /\ Goto(t, "lm_relock", "stuck")
        /\ UNCHANGED modification_mutex
     \/ /\ "throws" \in RelockOutcomes
        /\ Goto(t, "lm_relock", "re_set")
        /\ Unlock
  /\ UNCHANGED <<current_state, meta_data, payload_data, handlers, completed_cv,
                 loading, delivery, returned>>

\* Mutant: the payload task is not posted.
MutantNoPayloadTask(t) ==
  /\ Goto(t, "post", IF t = PinTask THEN "done" ELSE "meta_checked")
  /\ Local

\* start_payload_loading posts the payload task.
StartPayloadLoading(t) ==
  /\ Goto(t, "post", IF t = PinTask THEN "done" ELSE "meta_checked")
  /\ payload_posted' = TRUE
  /\ UNCHANGED <<object, meta_owner, data_owner, delivery, returned>>

\* check_error_flag after the meta data was loaded here.
CheckMetaError(a) ==
  /\ Goto(a, "meta_checked", IF current_state = "error" THEN "skip" ELSE "resolve")
  /\ Local

-----------------------------------------------------------------------------
(* internal_wait_for_meta_complete                                         *)

WaitCheck(a) ==
  /\ Goto(a, "wait_check", IF MetaReady THEN "resolve"
                           ELSE IF current_state = "error" THEN "skip"
                           ELSE "wait_lock")
  /\ Local

WaitLock(a) ==
  /\ Lock(a)
  /\ Goto(a, "wait_lock", "wait_pred")
  /\ UNCHANGED <<current_state, meta_data, payload_data, handlers, completed_cv,
                 loading, delivery, returned>>

WaitPredicateTrue(a) ==
  /\ MetaReady \/ current_state = "error"
  /\ Goto(a, "wait_pred", IF current_state = "error" THEN "skip" ELSE "resolve")
  /\ Unlock
  /\ UNCHANGED <<current_state, meta_data, payload_data, handlers, completed_cv,
                 loading, delivery, returned>>

WaitPredicateFalse(a) ==
  /\ ~MetaReady /\ current_state # "error"
  /\ Goto(a, "wait_pred", "wait_block")
  /\ Local

WaitBlock(a) ==
  /\ Goto(a, "wait_block", "wait_blocked")
  /\ completed_cv' = completed_cv \cup {a}
  /\ Unlock
  /\ UNCHANGED <<current_state, meta_data, payload_data, handlers, loading,
                 delivery, returned>>

WaitNotified(a) ==
  /\ a \notin completed_cv
  /\ Goto(a, "wait_blocked", "wait_lock")
  /\ Local

-----------------------------------------------------------------------------
(* resolve_asset and run_when_loaded                                       *)

\* resolve_asset checks the state before it searches, without the mutex, the
\* list of assets.
ResolveCheck(a) ==
  /\ Goto(a, "resolve", IF MetaReady THEN "search" ELSE "skip")
  /\ Local

\* The asset is in this unit, or the loader goes on to its next unit.
ResolveSearch(a) ==
  /\ \/ Goto(a, "search", "rwl_check")
     \/ Goto(a, "search", "skip")
  /\ Local

\* The thread leaves the unit: not found, or an exception start_load_asset drops.
SkipUnit(a) ==
  /\ Goto(a, "skip", "done")
  /\ returned' = [returned EXCEPT ![a] = "skipped"]
  /\ UNCHANGED <<object, loading, delivery>>

\* What start_load_asset does once the handler pair is registered or called.
AfterRegistration(c) == IF c \in SyncAssets THEN "sync_check"
                        ELSE IF c \in AsyncAssets THEN "return" ELSE "done"

\* The unlocked check of run_when_loaded and run_when_loaded_simple.
RunWhenLoadedCheck(c) ==
  /\ Goto(c, "rwl_check", IF current_state = "data_ready" THEN "call_ready"
                          ELSE IF current_state = "error" THEN "call_error"
                          ELSE "rwl_lock")
  /\ Local

\* Under the mutex: at data_ready unlock first, at error keep it for the call,
\* else keep it to append.
RunWhenLoadedLockedReady(c) ==
  /\ Free
  /\ current_state = "data_ready"
  /\ Goto(c, "rwl_lock", "call_ready")
  /\ Local

RunWhenLoadedLocked(c) ==
  /\ current_state # "data_ready"
  /\ Lock(c)
  /\ Goto(c, "rwl_lock", IF current_state = "error" THEN "call_error_locked"
                         ELSE "rwl_append")
  /\ UNCHANGED <<current_state, meta_data, payload_data, handlers, completed_cv,
                 loading, delivery, returned>>

RunWhenLoadedAppend(c) ==
  /\ Goto(c, "rwl_append", AfterRegistration(c))
  /\ handlers' = handlers \cup {c}
  /\ Unlock
  /\ UNCHANGED <<current_state, meta_data, payload_data, completed_cv, loading,
                 delivery, returned>>

\* A direct call of one of the handlers, without the mutex.
RunWhenLoadedCall(c, outcome) ==
  /\ Goto(c, IF outcome = "error" THEN "call_error" ELSE "call_ready",
          AfterRegistration(c))
  /\ calls' = [calls EXCEPT ![c][outcome] = @ + 1]
  /\ UNCHANGED <<object, loading, todo, returned>>

\* The error handler called while the mutex is held; the scope then unlocks.
RunWhenLoadedCallLocked(c) ==
  /\ Goto(c, "call_error_locked", AfterRegistration(c))
  /\ calls' = [calls EXCEPT ![c]["error"] = @ + 1]
  /\ Unlock
  /\ UNCHANGED <<current_state, meta_data, payload_data, handlers, completed_cv,
                 loading, todo, returned>>

-----------------------------------------------------------------------------
(* Payload data: the task and the synchronous hint                         *)

PayloadTaskRuns ==
  /\ payload_posted
  /\ Goto(PayloadTask, "posted", "data_own")
  /\ payload_posted' = FALSE
  /\ UNCHANGED <<object, meta_owner, data_owner, delivery, returned>>

\* With sync_hint the thread tries to load the payload itself.
SyncHintCheck(a) ==
  /\ Goto(a, "sync_check", IF current_state = "data_ready" THEN "return"
                           ELSE "data_own")
  /\ Local

\* Mutant: a plain store in place of the compare-and-exchange.
MutantPlainDataOwnership(t) ==
  /\ Goto(t, "data_own", "data_read")
  /\ current_state' = "data_loading"
  /\ data_owner' = t
  /\ UNCHANGED <<modification_mutex, meta_data, payload_data, handlers,
                 completed_cv, payload_posted, meta_owner, delivery, returned>>

\* try_obtain_data_load_ownership succeeds for one thread, after the meta data.
ObtainDataOwnership(t) ==
  /\ current_state = "meta_ready"
  /\ Goto(t, "data_own", "data_read")
  /\ current_state' = "data_loading"
  /\ data_owner' = t
  /\ UNCHANGED <<modification_mutex, meta_data, payload_data, handlers,
                 completed_cv, payload_posted, meta_owner, delivery, returned>>

LoseDataOwnership(t) ==
  /\ current_state # "meta_ready"
  /\ Goto(t, "data_own", IF t = PayloadTask THEN "done" ELSE "return")
  /\ Local

\* Read the .lup file: its content goes to complete_loading, or it is missing.
ReadPayloadFile(t) ==
  /\ \/ "good" \in PayloadOutcomes /\ Goto(t, "data_read", "cl_lock")
     \/ "missing" \in PayloadOutcomes /\ Goto(t, "data_read", "re_set")
  /\ Local

\* start_load_asset returns true: this unit will answer for the asset.
ReturnTrue(a) ==
  /\ Goto(a, "return", "done")
  /\ returned' = [returned EXCEPT ![a] = "true"]
  /\ UNCHANGED <<object, loading, delivery>>

-----------------------------------------------------------------------------
(* complete_loading and raise_error_flag                                   *)

CompleteLoadingLock(t) ==
  /\ Lock(t)
  /\ Goto(t, "cl_lock", "cl_set")
  /\ payload_data' = TRUE
  /\ UNCHANGED <<current_state, meta_data, handlers, completed_cv, loading,
                 delivery, returned>>

\* current_state_ = data_ready and unlock.
CompleteLoadingSet(t) ==
  /\ Goto(t, "cl_set", "cl_notify")
  /\ current_state' = "data_ready"
  /\ Unlock
  /\ UNCHANGED <<meta_data, payload_data, handlers, completed_cv, loading,
                 delivery, returned>>

\* notify_all; the loops over both completion lists start without the mutex.
CompleteLoadingNotify(t) ==
  /\ Goto(t, "cl_notify", "cl_run")
  /\ completed_cv' = {}
  /\ todo' = [todo EXCEPT ![t] = handlers]
  /\ UNCHANGED <<current_state, modification_mutex, meta_data, payload_data,
                 handlers, loading, calls, returned>>

CompleteLoadingRun(t) ==
  /\ pc[t] = "cl_run"
  /\ \E c \in todo[t] :
       /\ calls' = [calls EXCEPT ![c]["data_ready"] = @ + 1]
       /\ todo' = [todo EXCEPT ![t] = @ \ {c}]
  /\ UNCHANGED <<object, loading, returned, pc>>

CompleteLoadingClear(t) ==
  /\ todo[t] = {}
  /\ Goto(t, "cl_run", IF t = PayloadTask THEN "done" ELSE "return")
  /\ handlers' = {}
  /\ UNCHANGED <<current_state, modification_mutex, meta_data, payload_data,
                 completed_cv, loading, delivery, returned>>

\* current_state_ = error, before the mutex is taken.
RaiseErrorSet(t) ==
  /\ Goto(t, "re_set", "re_notify")
  /\ current_state' = "error"
  /\ UNCHANGED <<modification_mutex, meta_data, payload_data, handlers,
                 completed_cv, loading, delivery, returned>>

RaiseErrorNotify(t) ==
  /\ Goto(t, "re_notify", "re_lock")
  /\ completed_cv' = {}
  /\ UNCHANGED <<current_state, modification_mutex, meta_data, payload_data,
                 handlers, loading, delivery, returned>>

RaiseErrorLock(t) ==
  /\ Lock(t)
  /\ Goto(t, "re_lock", "re_run")
  /\ todo' = [todo EXCEPT ![t] = handlers]
  /\ UNCHANGED <<current_state, meta_data, payload_data, handlers, completed_cv,
                 loading, calls, returned>>

RaiseErrorRun(t) ==
  /\ pc[t] = "re_run"
  /\ \E c \in todo[t] :
       /\ calls' = [calls EXCEPT ![c]["error"] = @ + 1]
       /\ todo' = [todo EXCEPT ![t] = @ \ {c}]
  /\ UNCHANGED <<object, loading, returned, pc>>

\* Mutant: a missing payload makes the asset thread go on to the next unit.
MutantPayloadErrorSkips(t) ==
  /\ todo[t] = {}
  /\ Goto(t, "re_run", IF t \in Tasks THEN "done" ELSE "skip")
  /\ handlers' = {}
  /\ Unlock
  /\ UNCHANGED <<current_state, meta_data, payload_data, completed_cv, loading,
                 delivery, returned>>

\* Clear and unlock.  A failed payload still answers for the asset, failed meta
\* data makes prepare_load_unit_meta_data throw.
RaiseErrorClear(t) ==
  /\ todo[t] = {}
  /\ Goto(t, "re_run", IF t \in Tasks THEN "done"
                       ELSE IF t = data_owner THEN "return" ELSE "skip")
  /\ handlers' = {}
  /\ Unlock
  /\ UNCHANGED <<current_state, meta_data, payload_data, completed_cv, loading,
                 delivery, returned>>

-----------------------------------------------------------------------------
LoadMetaData(t) ==
  \/ ObtainMetaOwnership(t)
  \/ LoseMetaOwnership(t)
  \/ ReadMetaFile(t)
  \/ LoadMetaDataLock(t)
  \/ LoadMetaDataSet(t)
  \/ LoadMetaDataNotify(t)
  \/ LoadMetaDataRaise(t)
  \/ LoadMetaDataRelock(t)
  \/ StartPayloadLoading(t)

WaitForMeta(a) ==
  \/ WaitCheck(a)
  \/ WaitLock(a)
  \/ WaitPredicateTrue(a)
  \/ WaitPredicateFalse(a)
  \/ WaitBlock(a)
  \/ WaitNotified(a)

StartLoadAsset(a) ==
  \/ PrepareCheck(a)
  \/ CheckMetaError(a)
  \/ ResolveCheck(a)
  \/ ResolveSearch(a)
  \/ SkipUnit(a)
  \/ ReturnTrue(a)

RunWhenLoaded(c) ==
  \/ RunWhenLoadedCheck(c)
  \/ RunWhenLoadedLockedReady(c)
  \/ RunWhenLoadedLocked(c)
  \/ RunWhenLoadedAppend(c)
  \/ \E outcome \in Final : RunWhenLoadedCall(c, outcome)
  \/ RunWhenLoadedCallLocked(c)

LoadPayload(t) ==
  \/ ObtainDataOwnership(t)
  \/ LoseDataOwnership(t)
  \/ ReadPayloadFile(t)
  \/ CompleteLoadingLock(t)
  \/ CompleteLoadingSet(t)
  \/ CompleteLoadingNotify(t)
  \/ CompleteLoadingRun(t)
  \/ CompleteLoadingClear(t)

RaiseErrorFlag(t) ==
  \/ RaiseErrorSet(t)
  \/ RaiseErrorNotify(t)
  \/ RaiseErrorLock(t)
  \/ RaiseErrorRun(t)
  \/ RaiseErrorClear(t)

Step(t) ==
  \/ t \in AssetThreads \cup {PinTask} /\ LoadMetaData(t)
  \/ t \in AssetThreads /\ (WaitForMeta(t) \/ StartLoadAsset(t))
  \/ t \in Clients /\ RunWhenLoaded(t)
  \/ t \in SyncAssets /\ SyncHintCheck(t)
  \/ t \in SyncAssets \cup {PayloadTask} /\ LoadPayload(t)
  \/ t \in AssetThreads \cup Tasks /\ RaiseErrorFlag(t)
  \/ t = PinTask /\ PinTaskRuns
  \/ t = PayloadTask /\ PayloadTaskRuns

Next == \E t \in Threads : Step(t)

Spec == Init /\ [][Next]_vars

\* Pool workers and callers are scheduled as long as they can run.
FairSpec == Spec /\ \A t \in Threads : WF_vars(Step(t))

-----------------------------------------------------------------------------
(* Properties                                                              *)

MetaPCs == {"meta_own", "meta_read", "lm_lock", "lm_set", "lm_notify",
            "lm_raise", "lm_relock", "stuck", "post"}
RaisePCs == {"re_set", "re_notify", "re_lock", "re_run"}
PayloadPCs == {"data_own", "data_read", "cl_lock", "cl_set", "cl_notify", "cl_run"}
WaitPCs == {"wait_check", "wait_lock", "wait_pred", "wait_block", "wait_blocked"}
RegistrationPCs == {"rwl_check", "rwl_lock", "rwl_append", "call_ready",
                    "call_error", "call_error_locked"}
AssetPCs == MetaPCs \cup RaisePCs \cup PayloadPCs \cup WaitPCs
              \cup RegistrationPCs
              \cup {"prepare", "meta_checked", "resolve", "search", "skip",
                    "sync_check", "return", "done"}

\* Every variable stays in its range and every thread at a location of its code.
TypeOK ==
  /\ current_state \in {"initial", "meta_loading", "meta_ready", "data_loading",
                        "data_ready", "error"}
  /\ modification_mutex \in Threads \cup {NoThread}
  /\ meta_data \in {"none", "partial", "complete"}
  /\ payload_data \in BOOLEAN
  /\ handlers \subseteq Clients
  /\ completed_cv \subseteq AssetThreads
  /\ payload_posted \in BOOLEAN
  /\ meta_owner \in AssetThreads \cup {PinTask, NoThread}
  /\ data_owner \in SyncAssets \cup {PayloadTask, NoThread}
  /\ todo \in [Threads -> SUBSET Clients]
  /\ calls \in [Clients -> [Final -> Nat]]
  /\ returned \in [AssetThreads -> {"none", "true", "skipped"}]
  /\ pc \in [Threads -> AssetPCs \cup {"posted"}]
  /\ \A a \in AssetThreads : pc[a] \in AssetPCs
  /\ \A c \in PinClients : pc[c] \in RegistrationPCs \cup {"done"}
  /\ pc[PinTask] \in {"posted", "done"} \cup MetaPCs \cup RaisePCs
  /\ pc[PayloadTask] \in {"posted", "done"} \cup PayloadPCs \cup RaisePCs

\* A client's pair of handlers: at most one of them runs, at most once, and a
\* completion handler finds meta data and payload in place for get_asset_content.
HandlerRunsAtMostOnce ==
  \A c \in Clients :
    /\ calls[c]["data_ready"] + calls[c]["error"] <= 1
    /\ calls[c]["data_ready"] = 1
         => current_state = "data_ready" /\ payload_data /\ meta_data = "complete"
    /\ calls[c]["error"] = 1 => current_state = "error"

\* resolve_asset searches meta_data_ without the mutex: what it searches is
\* complete and no other thread is where the code may still write it.
SearchUndisturbed ==
  (\E a \in AssetThreads : pc[a] = "search")
    => /\ meta_data = "complete"
       /\ \A t \in Threads : pc[t] \notin {"meta_read", "lm_lock"}

\* An asset has exactly one unit that answers for it: after start_load_asset
\* returned true the unit holds its handlers or has called one, after it went on
\* to the next unit this one never answers.
OneUnitAnswers ==
  \A a \in AssetThreads :
    /\ returned[a] = "true" => a \in handlers \/ \E o \in Final : calls[a][o] = 1
    /\ returned[a] = "skipped" => a \notin handlers /\ \A o \in Final : calls[a][o] = 0

\* No client is left in the lists of a unit that is settled and resolved.
NoHandlerStranded ==
  (/\ current_state \in Final
   /\ \A t \in Threads : pc[t] \notin RaisePCs \cup {"cl_set", "cl_notify", "cl_run",
                                               "lm_raise", "lm_relock", "stuck"})
    => handlers = {}

\* What clients see of the unit is the promise an asset makes as well.
UnitStatus == IF current_state = "data_ready" THEN "ready"
              ELSE IF current_state = "error" THEN "error" ELSE "pending"

UnitAnswered ==
  [c \in Clients |-> IF calls[c]["data_ready"] > 0 THEN "ready"
                     ELSE IF calls[c]["error"] > 0 THEN "error" ELSE "nothing"]

Promise == INSTANCE AssetPromise WITH Registrants <- Clients,
                                      status <- UnitStatus,
                                      answered <- UnitAnswered

ImplementsPromise == Promise!Spec

\* Every pinning client is told once how the unit ended, whatever fails but the parsing of the meta
\* data: load_meta_data then raises the error while it holds the mutex that raise_error_flag takes.
PinAnsweredUnlessCorrupt ==
  \A c \in PinClients :
    <>(meta_data = "partial" \/ calls[c]["data_ready"] + calls[c]["error"] = 1)

\* A thread that read the predicate before the state was error and slept after
\* the notification: raise_error_flag sets the state and notifies before it takes
\* the mutex, so nothing wakes this thread again.
Overslept(a) ==
  /\ a \in completed_cv
  /\ current_state = "error" /\ meta_data = "none"
  /\ \A t \in Threads : pc[t] # "re_notify"

\* Every start_load_asset ends: it answers for the asset or leaves the unit, in
\* particular when it waits for meta data another thread loads, and also when the
\* payload then fails.  Two things keep it: the file of the meta data is missing and
\* its wait overslept the notification, or the meta data does not parse and the
\* thread that found out locked itself out, with the mutex the wait needs.
MetaWaitersReturn ==
  \A a \in AssetThreads :
    <>(returned[a] # "none" \/ Overslept(a) \/ \E t \in Threads : pc[t] = "stuck")

-----------------------------------------------------------------------------
(* What these follow from                                                  *)

\* The mutex is held by the one thread inside a critical section; a thread that
\* locked it twice keeps it.
LockedPCs == {"lm_set", "lm_raise", "lm_relock", "stuck", "wait_pred", "wait_block",
              "rwl_append", "call_error_locked", "cl_set", "re_run"}

MutexInv == \A t \in Threads : pc[t] \in LockedPCs <=> modification_mutex = t

\* The meta data belongs to one thread from the obtaining of it until the state
\* says how the reading ended.
MetaInv ==
  /\ meta_owner = NoThread <=> current_state = "initial"
  /\ current_state = "initial" => data_owner = NoThread
  /\ current_state \in {"initial", "meta_loading"} => data_owner = NoThread /\ ~payload_data
  /\ current_state = "initial" => meta_data = "none"
  /\ MetaReady => meta_data = "complete"
  /\ \A t \in Threads :
       /\ pc[t] \in MetaPCs \ {"meta_own"} => t = meta_owner
       /\ pc[t] \in {"meta_read", "lm_lock"} => current_state = "meta_loading" /\ meta_data = "none"
       /\ pc[t] = "lm_set" => current_state = "meta_loading" /\ meta_data = "complete"
       /\ pc[t] = "lm_raise" => current_state = "meta_loading" /\ meta_data = "partial"
       /\ pc[t] \in {"lm_relock", "stuck"} => current_state = "error" /\ meta_data = "partial"
       /\ pc[t] \in {"lm_notify", "post", "meta_checked", "search"} => meta_data = "complete"
       /\ pc[t] \in {"posted", "meta_own", "prepare"} => t # meta_owner /\ t # data_owner

\* The payload belongs to one thread; whoever raises the error owns what failed.
DataInv ==
  /\ data_owner # NoThread <=> \/ current_state \in {"data_loading", "data_ready"}
                               \/ current_state = "error" /\ meta_data = "complete"
  /\ current_state = "data_ready" => payload_data
  /\ \A t \in Threads :
       /\ pc[t] \in PayloadPCs \ {"data_own"} => t = data_owner
       /\ pc[t] \in {"data_read", "cl_lock", "cl_set"} => current_state = "data_loading"
       /\ pc[t] = "cl_set" => payload_data
       /\ pc[t] \in {"cl_notify", "cl_run", "call_ready"} => current_state = "data_ready"
       /\ pc[t] \in RaisePCs => t = data_owner \/ (t = meta_owner /\ meta_data # "complete")
       /\ pc[t] = "re_set" => \/ current_state \in {"meta_loading", "data_loading"}
                              \/ current_state = "error" /\ meta_data = "partial"
       /\ pc[t] = "re_set" /\ current_state = "meta_loading" => meta_data = "none"
       /\ pc[t] \in {"re_notify", "re_lock", "re_run", "call_error", "call_error_locked"}
            => current_state = "error"
       /\ t = data_owner => pc[t] \in (PayloadPCs \ {"data_own"}) \cup RaisePCs \cup {"return", "done"}

\* A client whose handler pair the unit has taken over.
Registered(c) ==
  \/ c \in PinClients /\ pc[c] = "done"
  \/ c \in AssetThreads /\ \/ pc[c] \in PayloadPCs \cup {"sync_check", "return"}
                           \/ pc[c] \in RaisePCs /\ c = data_owner
                           \/ pc[c] = "done" /\ returned[c] = "true"

Told(c) == \E outcome \in Final : calls[c][outcome] = 1

\* A handler pair is registered once, and called from the lists or by its own
\* thread once.
HandlerInv ==
  /\ \A a \in AssetThreads : returned[a] = "none" <=> pc[a] # "done"
  /\ \A c \in Clients :
       /\ ~Registered(c) => c \notin handlers /\ ~Told(c)
       /\ Registered(c) => c \in handlers \/ Told(c)
       /\ c \in handlers /\ Told(c) => \E t \in Threads : pc[t] \in {"cl_run", "re_run"} /\ c \notin todo[t]
       /\ \A outcome \in Final : /\ calls[c][outcome] <= 1
                                 /\ calls[c][outcome] = 1 => current_state = outcome
  /\ \A t \in Threads :
       /\ pc[t] \notin {"cl_run", "re_run"} => todo[t] = {}
       /\ \A c \in todo[t] : c \in handlers /\ ~Told(c)
       /\ pc[t] \in {"cl_run", "re_run"} => \A c \in handlers : c \in todo[t] \/ Told(c)

\* Whoever is still registered when the unit is settled has a thread that will
\* call its handlers, unless that thread locked itself out.
ResolverInv ==
  /\ current_state \in Final /\ handlers # {}
       => \E t \in Threads : pc[t] \in RaisePCs \cup {"cl_notify", "cl_run", "lm_relock", "stuck"}
  /\ \A c \in Clients : pc[c] = "rwl_append"
       => \/ current_state \notin Final
          \/ current_state = "error" /\ \E t \in Threads : pc[t] \in {"re_notify", "re_lock"}

\* The inductive invariant: meta data and payload are loaded by one thread each,
\* and no two threads settle or resolve the unit at once.
UnitInv == TypeOK /\ MutexInv /\ MetaInv /\ DataInv /\ HandlerInv /\ ResolverInv

\* All of it holds at once: the lists and the meta data, which threads use without the mutex, are
\* not shared, and every client belongs to one unit and gets one answer.
UnitSafe ==
  UnitInv /\ HandlerRunsAtMostOnce /\ SearchUndisturbed /\ OneUnitAnswers /\ NoHandlerStranded
=============================================================================
