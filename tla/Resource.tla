------------------------------ MODULE Resource ------------------------------
(***************************************************************************)
(* A named resource that is loaded once and shared: polygon_model,         *)
(* collision_model, material_library, texture and static_model, with the   *)
(* managers that hand them out. The five classes are written alike; kind   *)
(* says which of them the resource is. Loading begins when the first       *)
(* client asks for the name, its asset arrives on an asset thread, and a   *)
(* texture or static_model then waits in the staging state until the       *)
(* transfer manager calls back on the frame thread. A client registers two *)
(* handlers, one for each way it may end. An action is one step between    *)
(* synchronisation points; the state is an atomic read outside the mutex.  *)
(***************************************************************************)
EXTENDS Naturals, FiniteSets

CONSTANTS Clients, AssetThread, FrameThread, NoThread, Kinds

ResourceThreads == Clients \cup {AssetThread, FrameThread}

ASSUME ResourceAssumption ==
  /\ AssetThread # FrameThread /\ {AssetThread, FrameThread} \cap Clients = {}
  /\ NoThread \notin ResourceThreads
  /\ Kinds \subseteq {"polygon", "collision", "library", "texture", "model"}

\* Kinds that are uploaded, and kinds whose complete_loading still holds the mutex in its error paths.
Staged == {"texture", "model"}
FailsLocked == {"polygon", "collision", "texture"}

VARIABLES
  kind,
  resState,      \* "absent" until it is in the manager's map
  resMutex,      \* modification_mutex: its holder, or NoThread
  resHandlers,   \* clients in the two handler lists
  resTodo,       \* handlers the completing thread has still to run
  resLoads,      \* how often its asset was requested
  resTold,       \* what each client was told
  resPc

resVars == <<kind, resState, resMutex, resHandlers, resTodo, resLoads, resTold, resPc>>

Ended == {"ready", "error"}

At(t, from, to) == resPc[t] = from /\ resPc' = [resPc EXCEPT ![t] = to]

MutexFree == resMutex = NoThread

ResourceInit ==
  /\ kind \in Kinds
  /\ resState = "absent" /\ resMutex = NoThread
  /\ resHandlers = {} /\ resTodo = {} /\ resLoads = 0
  /\ resTold = [c \in Clients |-> "nothing"]
  /\ resPc = [t \in ResourceThreads |-> IF t \in Clients THEN "find" ELSE "idle"]

(***************************************************************************)
(* The manager: internal_load_...                                          *)
(***************************************************************************)

\* Under the shared lock of the map.
Find(c) ==
  /\ At(c, "find", IF resState = "absent" THEN "insert" ELSE "check")
  /\ UNCHANGED <<kind, resState, resMutex, resHandlers, resTodo, resLoads, resTold>>

MutantInsert(c) ==
  /\ At(c, "insert", "request")
  /\ resState' = IF resState = "absent" THEN "loading" ELSE resState
  /\ UNCHANGED <<kind, resMutex, resHandlers, resTodo, resLoads, resTold>>

\* Under the exclusive lock, where the map is searched again.
Insert(c) ==
  /\ At(c, "insert", IF resState = "absent" THEN "request" ELSE "check")
  /\ resState' = IF resState = "absent" THEN "loading" ELSE resState
  /\ UNCHANGED <<kind, resMutex, resHandlers, resTodo, resLoads, resTold>>

\* load_asset_async, after the map is unlocked.
RequestAsset(c) ==
  /\ resPc[c] = "request"
  /\ resPc' = [resPc EXCEPT ![c] = "check",
                            ![AssetThread] = IF resPc[AssetThread] = "idle" THEN "asset" ELSE @]
  /\ resLoads' = resLoads + 1
  /\ UNCHANGED <<kind, resState, resMutex, resHandlers, resTodo, resTold>>

(***************************************************************************)
(* run_when_ready                                                          *)
(***************************************************************************)

Check(c) ==
  /\ At(c, "check", IF resState \in Ended THEN resState ELSE "lock")
  /\ UNCHANGED <<kind, resState, resMutex, resHandlers, resTodo, resLoads, resTold>>

MutantRecheck(c) ==
  /\ MutexFree
  /\ At(c, "lock", "append")
  /\ resMutex' = c
  /\ UNCHANGED <<kind, resState, resHandlers, resTodo, resLoads, resTold>>

\* The state is read again with the mutex taken; if it is final the mutex is given back at once.
Recheck(c) ==
  /\ MutexFree
  /\ At(c, "lock", IF resState \in Ended THEN resState ELSE "append")
  /\ resMutex' = IF resState \in Ended THEN NoThread ELSE c
  /\ UNCHANGED <<kind, resState, resHandlers, resTodo, resLoads, resTold>>

AppendHandlers(c) ==
  /\ At(c, "append", "done")
  /\ resHandlers' = resHandlers \cup {c}
  /\ resMutex' = NoThread
  /\ UNCHANGED <<kind, resState, resTodo, resLoads, resTold>>

\* The client's thread calls one of its handlers itself.
CallAtOnce(c) ==
  /\ \E outcome \in Ended :
       /\ At(c, outcome, "done")
       /\ resTold' = [resTold EXCEPT ![c] = outcome]
  /\ UNCHANGED <<kind, resState, resMutex, resHandlers, resTodo, resLoads>>

(***************************************************************************)
(* The asset arrives: complete_loading or raise_error_flag                 *)
(***************************************************************************)

AssetFailed ==
  /\ At(AssetThread, "asset", "raise")
  /\ UNCHANGED <<kind, resState, resMutex, resHandlers, resTodo, resLoads, resTold>>

CompleteLoading ==
  /\ MutexFree
  /\ At(AssetThread, "asset", "decode")
  /\ resMutex' = AssetThread
  /\ UNCHANGED <<kind, resState, resHandlers, resTodo, resLoads, resTold>>

\* The data is invalid or a device object cannot be created.
DecodeFails ==
  /\ At(AssetThread, "decode", "raise")
  /\ resMutex' = IF kind \in FailsLocked THEN AssetThread ELSE NoThread
  /\ UNCHANGED <<kind, resState, resHandlers, resTodo, resLoads, resTold>>

MutantDecoded ==
  /\ At(AssetThread, "decode", IF kind \in Staged THEN "upload" ELSE "run")
  /\ resState' = IF kind \in Staged THEN "staging" ELSE "loading"
  /\ resTodo' = IF kind \in Staged THEN {} ELSE resHandlers
  /\ resMutex' = NoThread
  /\ UNCHANGED <<kind, resHandlers, resLoads, resTold>>

Decoded ==
  /\ At(AssetThread, "decode", IF kind \in Staged THEN "upload" ELSE "run")
  /\ resState' = IF kind \in Staged THEN "staging" ELSE "ready"
  /\ resTodo' = IF kind \in Staged THEN {} ELSE resHandlers
  /\ resMutex' = NoThread
  /\ UNCHANGED <<kind, resHandlers, resLoads, resTold>>

\* The transfer manager takes the data and the callback that keeps the resource alive.
UploadData ==
  /\ resPc[AssetThread] = "upload"
  /\ resPc' = [resPc EXCEPT ![AssetThread] = "done", ![FrameThread] = "transferred"]
  /\ UNCHANGED <<kind, resState, resMutex, resHandlers, resTodo, resLoads, resTold>>

\* The manager is gone, or the transfer manager throws.
UploadFails ==
  /\ At(AssetThread, "upload", "raise")
  /\ UNCHANGED <<kind, resState, resMutex, resHandlers, resTodo, resLoads, resTold>>

\* raise_error_flag sets the state before it waits for the mutex.
RaiseError ==
  /\ At(AssetThread, "raise", "raise_lock")
  /\ resState' = "error"
  /\ UNCHANGED <<kind, resMutex, resHandlers, resTodo, resLoads, resTold>>

RaiseErrorLock ==
  /\ MutexFree
  /\ At(AssetThread, "raise_lock", "run_error")
  /\ resMutex' = AssetThread
  /\ resTodo' = resHandlers
  /\ UNCHANGED <<kind, resState, resHandlers, resLoads, resTold>>

CompleteStaging ==
  /\ MutexFree
  /\ At(FrameThread, "transferred", "run")
  /\ resState' = "ready"
  /\ resTodo' = resHandlers
  /\ UNCHANGED <<kind, resMutex, resHandlers, resLoads, resTold>>

\* The handlers run one by one, with the mutex held in the case of an error.
RunHandler(t, c) ==
  /\ resPc[t] \in {"run", "run_error"} /\ c \in resTodo
  /\ resTodo' = resTodo \ {c}
  /\ resTold' = [resTold EXCEPT ![c] = IF resPc[t] = "run" THEN "ready" ELSE "error"]
  /\ UNCHANGED <<kind, resState, resMutex, resHandlers, resLoads, resPc>>

ClearHandlers(t) ==
  /\ resTodo = {}
  /\ \/ At(t, "run", "done") /\ UNCHANGED resMutex
     \/ At(t, "run_error", "done") /\ resMutex' = NoThread
  /\ resHandlers' = {}
  /\ UNCHANGED <<kind, resState, resTodo, resLoads, resTold>>

ClientStep(c) ==
  \/ Find(c) \/ Insert(c) \/ RequestAsset(c)
  \/ Check(c) \/ Recheck(c) \/ AppendHandlers(c) \/ CallAtOnce(c)

CompletionStep(t) == (\E c \in Clients : RunHandler(t, c)) \/ ClearHandlers(t)

AssetStep ==
  \/ AssetFailed \/ CompleteLoading \/ DecodeFails \/ Decoded
  \/ UploadData \/ UploadFails \/ RaiseError \/ RaiseErrorLock
  \/ CompletionStep(AssetThread)

FrameStep == CompleteStaging \/ CompletionStep(FrameThread)

ResourceNext == (\E c \in Clients : ClientStep(c)) \/ AssetStep \/ FrameStep

ResourceSpec == ResourceInit /\ [][ResourceNext]_resVars

(***************************************************************************)
(* Properties                                                              *)
(***************************************************************************)

ClientPCs == {"find", "insert", "request", "check", "lock", "append", "done"} \cup Ended
AssetPCs  == {"idle", "asset", "decode", "upload", "raise", "raise_lock", "run", "run_error", "done"}
FramePCs  == {"idle", "transferred", "run", "done"}

ResourceTypeOK ==
  /\ kind \in Kinds
  /\ resState \in {"absent", "loading", "staging"} \cup Ended
  /\ resMutex \in ResourceThreads \cup {NoThread}
  /\ resTodo \subseteq resHandlers /\ resHandlers \subseteq Clients
  /\ resTold \in [Clients -> {"nothing"} \cup Ended]
  /\ resPc \in [ResourceThreads -> ClientPCs \cup AssetPCs \cup FramePCs]
  /\ \A c \in Clients : resPc[c] \in ClientPCs
  /\ resPc[AssetThread] \in AssetPCs /\ resPc[FrameThread] \in FramePCs

\* Clients that ask for one name at the same time share one resource, whose asset is loaded once, by the one client
\* that inserted it into the map.
LoadedOnce ==
  /\ resLoads = IF resPc[AssetThread] = "idle" THEN 0 ELSE 1
  /\ \A c \in Clients : resPc[c] = "request" =>
       /\ resLoads = 0 /\ resState # "absent"
       /\ \A d \in Clients : resPc[d] = "request" => d = c

\* Where the threads that complete the resource are determines its state, which ends once; who was sent to call a
\* handler at once knows how.
StateFollowsCompletion ==
  /\ resPc[AssetThread] = "idle" => resState \in {"absent", "loading"}
  /\ resPc[AssetThread] \in {"asset", "decode"} => resState = "loading"
  /\ resPc[AssetThread] = "upload" => resState = "staging"
  /\ resPc[AssetThread] = "raise" => resState \in {"loading", "staging"}
  /\ resPc[AssetThread] \in {"raise_lock", "run_error"} => resState = "error"
  /\ resPc[AssetThread] = "run" => resState = "ready"
  /\ resPc[AssetThread] = "done" => IF resPc[FrameThread] = "transferred" THEN resState = "staging" ELSE resState \in Ended
  /\ resPc[FrameThread] # "idle" => resPc[AssetThread] = "done"
  /\ resPc[FrameThread] \in {"run", "done"} => resState = "ready"
  /\ \A c \in Clients : resPc[c] \in Ended => resState = resPc[c]

\* Who changes the handler lists has the mutex, and so has the asset thread while it decodes and runs error handlers.
MutexHeld ==
  /\ \A c \in Clients : resPc[c] = "append" => resMutex = c
  /\ resPc[AssetThread] \in {"decode", "run_error"} => resMutex = AssetThread

\* The handlers in the lists are still to be collected by the thread that completes the resource.
Uncollected ==
  \/ resPc[AssetThread] \in AssetPCs \ {"run", "run_error", "done"}
  \/ resPc[FrameThread] = "transferred"

\* No registration falls between the change of the state, which needs no mutex, and the emptying of the lists: a
\* client only appends while the handlers are still to be collected, each that was collected is run, and nobody is
\* told twice or something else than how the resource ended.
NobodyForgotten ==
  /\ \A c \in Clients : resPc[c] = "append" => Uncollected
  /\ \A c \in resHandlers : /\ resPc[c] = "done"
                            /\ IF Uncollected THEN resTold[c] = "nothing" ELSE c \in resTodo <=> resTold[c] = "nothing"
  /\ resTodo # {} => ~Uncollected
  /\ \A c \in Clients : resTold[c] # "nothing" => resPc[c] = "done" /\ resTold[c] = resState
  /\ \A c \in Clients : resPc[c] = "done" => resTold[c] # "nothing" \/ c \in resHandlers

Promise == INSTANCE AssetPromise WITH
             Registrants <- Clients,
             status <- IF resState \in Ended THEN resState ELSE "pending",
             answered <- resTold

\* The outcome is settled once, and each client is told that outcome, once: the error handler is not
\* run for a resource that is ready, nor is a client that registers late told twice.
ResourceKeepsPromise == Promise!Spec

\* The asset thread waits for the mutex that it holds itself.
SelfLocked == resPc[AssetThread] = "raise_lock" /\ resMutex = AssetThread

\* A client that asked is told how it ended, unless the asset thread locked itself out: with the
\* state changed outside the mutex and the lists emptied by the completing thread, no registration
\* falls between the two.
ClientToldUnlessSelfLocked ==
  \A c \in Clients : resPc[c] # "find" ~> (resTold[c] # "nothing" \/ SelfLocked)

\* The inductive invariant: types, one load for all clients, one outcome, and a lock and lists that lose nobody.
ResourceSafe == ResourceTypeOK /\ LoadedOnce /\ StateFollowsCompletion /\ MutexHeld /\ NobodyForgotten
=============================================================================
