------------------------------ MODULE Material ------------------------------
(***************************************************************************)
(* One material of the material_manager. Its description is looked for in  *)
(* the material libraries, those still loading call it back; its textures  *)
(* are loaded and the last one to arrive makes it ready. Libraries and     *)
(* textures are taken as what they promise (AssetPromise): they end once,  *)
(* and tell each registered callback. A callback of one that has ended     *)
(* runs at once on the thread that asks. The procedures of material and    *)
(* their calls into each other run on client, library and texture threads, *)
(* step by step between synchronisation points. The manager may be         *)
(* destroyed before the last library has answered.                         *)
(***************************************************************************)
EXTENDS Naturals, FiniteSets

CONSTANTS MatClients, Libraries, Textures, TextureOf, LibraryRank, NobodyHolds

TextureMaps == DOMAIN TextureOf

MatThreads == MatClients \cup Libraries \cup Textures

ASSUME MaterialAssumption ==
  /\ MatClients \cap Libraries = {} /\ (MatClients \cup Libraries) \cap Textures = {}
  /\ NobodyHolds \notin MatThreads
  /\ IsFiniteSet(Libraries)
  /\ TextureMaps = 1 .. Cardinality(TextureMaps) /\ 1 \in TextureMaps
  /\ \A i \in TextureMaps : TextureOf[i] \in Textures
  /\ LibraryRank \in [Libraries -> Nat]

VARIABLES
  hasEntry,     \* the libraries that describe the material
  libState, libWaits,   \* a library's state, and whether the material registered with it
  texState, texWaits,   \* a texture's state, and the maps that registered with it
  matState,     \* "absent" until it is in the manager's map
  matMutex,     \* modification_mutex
  matRwLock,    \* the manager's rw_lock_, held exclusively
  matMaps,      \* the texture pointers that are assigned
  matPending,   \* pending_lib_load_count
  matHandlers,  \* clients in the handler lists
  matAsked, matToAsk,   \* libraries that were loading when it was created, and those not yet asked
  matReset,     \* the manager is being destroyed: it holds its dependencies_ no longer
  matExpired,   \* libraries whose callback found the manager expired
  matTold,      \* what each client was told, and how often
  matPc, matIdx, matTodo   \* per thread: place, texture map in work, handlers still to run

external == <<hasEntry, libState, libWaits, texState, texWaits>>
asking   == <<matAsked, matToAsk, matReset, matExpired>>
object   == <<matState, matMaps, matPending, matHandlers>>
matVars  == <<external, asking, object, matMutex, matRwLock, matTold, matPc, matIdx, matTodo>>

Outcome == {"ready", "error"}

MaterialInit ==
  /\ hasEntry \in SUBSET Libraries
  /\ libState \in [Libraries -> {"loading", "ready"}]
  /\ texState \in [Textures -> {"absent", "ready", "error"}]
  /\ libWaits = {} /\ texWaits = [x \in Textures |-> {}]
  /\ matState = "absent" /\ matMaps = {} /\ matPending = 0 /\ matHandlers = {}
  /\ matMutex = NobodyHolds /\ matRwLock = NobodyHolds
  /\ matTold = [c \in MatClients |-> [o \in Outcome |-> 0]]
  /\ matPc = [t \in MatThreads |-> IF t \in MatClients THEN "load" ELSE "idle"]
  /\ matIdx = [t \in MatThreads |-> 0]
  /\ matTodo = [t \in MatThreads |-> {}]
  /\ matAsked = {} /\ matToAsk = {} /\ matReset = FALSE /\ matExpired = {}

Goes(t, from, to) == matPc[t] = from /\ matPc' = [matPc EXCEPT ![t] = to]

Unlocked == matMutex = NobodyHolds

\* Where a thread goes on when a procedure it called for map i, or for a library, returns.
Resume(t) ==
  IF t \in Textures THEN "answer" ELSE IF matIdx[t] # 0 THEN "assign" ELSE IF t \in MatClients THEN "libs" ELSE "done"

(***************************************************************************)
(* material_manager::load_material                                         *)
(***************************************************************************)

Ready == {l \in Libraries : libState[l] = "ready"}

\* The loop over the libraries keeps what the last one that is ready answered.
ChosenDescription ==
  \E l \in Ready : l \in hasEntry /\ \A m \in Ready : LibraryRank[m] <= LibraryRank[l]

FindMaterial(c) ==
  /\ matPc[c] = "load" /\ matState # "absent" /\ matRwLock = NobodyHolds
  /\ Goes(c, "load", "register")
  /\ UNCHANGED <<external, asking, object, matMutex, matRwLock, matTold, matIdx, matTodo>>

\* "not found" is thrown to the caller, who has no handler run.
NoSuchMaterial(c) ==
  /\ matState = "absent" /\ matRwLock = NobodyHolds
  /\ ~ChosenDescription /\ Ready = Libraries
  /\ Goes(c, "load", "thrown")
  /\ UNCHANGED <<external, asking, object, matMutex, matRwLock, matTold, matIdx, matTodo>>

\* A ready library describes it: the textures are requested with the lock of the map held.
CreateDescribed(c) ==
  /\ matState = "absent" /\ matRwLock = NobodyHolds
  /\ ChosenDescription
  /\ Goes(c, "load", "start")
  /\ matState' = "initial"
  /\ matRwLock' = c
  /\ UNCHANGED <<external, asking, matMaps, matPending, matHandlers, matMutex, matTold, matIdx, matTodo>>

MutantCreatePending(c) ==
  /\ matState = "absent" /\ matRwLock = NobodyHolds
  /\ ~ChosenDescription /\ Ready # Libraries
  /\ Goes(c, "load", "libs")
  /\ matState' = "initial"
  /\ matPending' = 1
  /\ matAsked' = Libraries \ Ready
  /\ matToAsk' = Libraries \ Ready
  /\ UNCHANGED <<matReset, matExpired, external, matMaps, matHandlers, matMutex, matRwLock, matTold, matIdx, matTodo>>

CreatePending(c) ==
  /\ matState = "absent" /\ matRwLock = NobodyHolds
  /\ ~ChosenDescription /\ Ready # Libraries
  /\ Goes(c, "load", "libs")
  /\ matState' = "initial"
  /\ matPending' = Cardinality(Libraries \ Ready)
  /\ matAsked' = Libraries \ Ready
  /\ matToAsk' = Libraries \ Ready
  /\ UNCHANGED <<matReset, matExpired, external, matMaps, matHandlers, matMutex, matRwLock, matTold, matIdx, matTodo>>

\* Registers with a library, or has its callback run at once.
AskLibrary(c, l) ==
  /\ l \in matToAsk
  /\ Goes(c, "libs", IF libState[l] = "ready" THEN IF l \in hasEntry THEN "offer" ELSE "miss"
                     ELSE IF libState[l] = "error" THEN "lib_error" ELSE "libs")
  /\ libWaits' = IF libState[l] = "loading" THEN libWaits \cup {l} ELSE libWaits
  /\ matToAsk' = matToAsk \ {l}
  /\ UNCHANGED <<matAsked, matReset, matExpired, hasEntry, libState, texState, texWaits, object, matMutex, matRwLock, matTold,
                 matIdx, matTodo>>

AskedAll(c) ==
  /\ matToAsk = {}
  /\ Goes(c, "libs", "register")
  /\ UNCHANGED <<external, asking, object, matMutex, matRwLock, matTold, matIdx, matTodo>>

\* run_when_ready: once it has ended no mutex is needed, otherwise the handlers are added under it.
Register(c) ==
  /\ Goes(c, "register", "done")
  /\ \/ /\ matState \in Outcome
        /\ matTold' = [matTold EXCEPT ![c][matState] = @ + 1]
        /\ UNCHANGED matHandlers
     \/ /\ matState \notin Outcome /\ Unlocked
        /\ matHandlers' = matHandlers \cup {c}
        /\ UNCHANGED matTold
  /\ UNCHANGED <<external, asking, matState, matMaps, matPending, matMutex, matRwLock, matIdx, matTodo>>

(***************************************************************************)
(* The callbacks of a library                                              *)
(***************************************************************************)

\* ~material_manager, when no call is under way: it gives its dependencies up and waits until no
\* callback holds them.
DestroyManager ==
  /\ \A c \in MatClients : matPc[c] \in {"done", "thrown"}
  /\ ~matReset /\ matReset' = TRUE
  /\ UNCHANGED <<matAsked, matToAsk, matExpired, external, object, matMutex, matRwLock, matTold, matPc, matIdx, matTodo>>

\* The callback of a ready library holds the dependencies until it returns.
HoldsManager(l) == matPc[l] \in {"offer", "miss", "start", "relock"} \/ matIdx[l] # 0

Expired == matReset /\ \A l \in Libraries : ~HoldsManager(l)

\* A callback that finds the manager expired raises the error, and does not count the library.
LibraryEnds(l) ==
  /\ libState[l] = "loading"
  /\ \E o \in Outcome :
       /\ libState' = [libState EXCEPT ![l] = o]
       /\ Goes(l, "idle", IF l \notin libWaits THEN "done" ELSE IF o = "error" THEN "lib_error"
                          ELSE IF Expired THEN "raise" ELSE IF l \in hasEntry THEN "offer" ELSE "miss")
       /\ matExpired' = IF Expired /\ l \in libWaits /\ o = "ready" THEN matExpired \cup {l} ELSE matExpired
  /\ UNCHANGED <<matAsked, matToAsk, matReset, hasEntry, libWaits, texState, texWaits, object, matMutex, matRwLock, matTold,
                 matIdx, matTodo>>

\* process_pending_material_loads with a description, while none was found before.
UseDescription(t) ==
  /\ Unlocked /\ matState = "initial"
  /\ Goes(t, "offer", "start")
  /\ UNCHANGED <<external, asking, object, matMutex, matRwLock, matTold, matIdx, matTodo>>

\* The last library to answer goes into check_load_fails, which takes the mutex once more.
CountMiss(t) ==
  /\ Unlocked
  /\ matPc[t] = "miss" \/ (matPc[t] = "offer" /\ matState # "initial")
  /\ matPending' = matPending - 1
  /\ matMutex' = IF matPending = 1 THEN t ELSE NobodyHolds
  /\ Goes(t, matPc[t], IF matPending = 1 THEN "relock" ELSE Resume(t))
  /\ UNCHANGED <<external, asking, matState, matMaps, matHandlers, matRwLock, matTold, matIdx, matTodo>>

MutantLibraryError(t) ==
  /\ Goes(t, "lib_error", Resume(t))
  /\ matPending' = matPending - 1
  /\ UNCHANGED <<external, asking, matState, matMaps, matHandlers, matMutex, matRwLock, matTold, matIdx, matTodo>>

LibraryError(t) ==
  /\ Goes(t, "lib_error", IF matPending = 1 THEN "check_fails" ELSE Resume(t))
  /\ matPending' = matPending - 1
  /\ UNCHANGED <<external, asking, matState, matMaps, matHandlers, matMutex, matRwLock, matTold, matIdx, matTodo>>

CheckLoadFails(t) ==
  /\ Unlocked
  /\ Goes(t, "check_fails", IF matPending = 0 /\ matState = "initial" THEN "try_raise" ELSE Resume(t))
  /\ UNCHANGED <<external, asking, object, matMutex, matRwLock, matTold, matIdx, matTodo>>

TryRaise(t) ==
  /\ Goes(t, "try_raise", IF matState \in Outcome THEN Resume(t) ELSE "sync_error")
  /\ matState' = IF matState \in Outcome THEN matState ELSE "error"
  /\ UNCHANGED <<external, asking, matMaps, matPending, matHandlers, matMutex, matRwLock, matTold, matIdx, matTodo>>

(***************************************************************************)
(* try_start_loading                                                       *)
(***************************************************************************)

\* One thread wins the exchange of the state and loads the textures.
StartLoading(t) ==
  /\ Goes(t, "start", IF matState = "initial" THEN "texture" ELSE "started")
  /\ matState' = IF matState = "initial" THEN "loading" ELSE matState
  /\ matIdx' = [matIdx EXCEPT ![t] = 1]
  /\ UNCHANGED <<external, asking, matMaps, matPending, matHandlers, matMutex, matRwLock, matTold, matTodo>>

LoadTexture(t) ==
  LET x == TextureOf[matIdx[t]]
  IN /\ Goes(t, "texture", CASE texState[x] = "ready" -> "loaded" [] texState[x] = "error" -> "raise" [] OTHER -> "assign")
     /\ texState' = [texState EXCEPT ![x] = IF @ = "absent" THEN "loading" ELSE @]
     /\ texWaits' = [texWaits EXCEPT ![x] = IF texState[x] \in Outcome THEN @ ELSE @ \cup {matIdx[t]}]
     /\ UNCHANGED <<asking, hasEntry, libState, libWaits, object, matMutex, matRwLock, matTold, matIdx, matTodo>>

\* The pointer is assigned when load_texture has returned.
AssignMap(t) ==
  /\ Goes(t, "assign", IF matIdx[t] + 1 \in TextureMaps THEN "texture" ELSE "started")
  /\ matMaps' = matMaps \cup {matIdx[t]}
  /\ matIdx' = [matIdx EXCEPT ![t] = @ + 1]
  /\ UNCHANGED <<external, asking, matState, matPending, matHandlers, matMutex, matRwLock, matTold, matTodo>>

Started(t) ==
  /\ matPc[t] = "started"
  /\ matIdx' = [matIdx EXCEPT ![t] = 0]
  /\ IF matRwLock = t
     THEN /\ Goes(t, "started", "register") /\ matRwLock' = NobodyHolds
          /\ UNCHANGED matPending
     ELSE /\ Goes(t, "started", IF t \in MatClients THEN "libs" ELSE "done")
          /\ matPending' = matPending - 1
          /\ UNCHANGED matRwLock
  /\ UNCHANGED <<external, asking, matState, matMaps, matHandlers, matMutex, matTold, matTodo>>

(***************************************************************************)
(* The callbacks of a texture                                              *)
(***************************************************************************)

TextureEnds(x) ==
  /\ texState[x] = "loading"
  /\ \E o \in Outcome : texState' = [texState EXCEPT ![x] = o]
  /\ Goes(x, "idle", "answer")
  /\ UNCHANGED <<asking, hasEntry, libState, libWaits, texWaits, object, matMutex, matRwLock, matTold, matIdx, matTodo>>

AnswerTexture(x) ==
  \/ \E i \in texWaits[x] :
       /\ Goes(x, "answer", IF texState[x] = "ready" THEN "loaded" ELSE "raise")
       /\ texWaits' = [texWaits EXCEPT ![x] = @ \ {i}]
       /\ UNCHANGED <<asking, hasEntry, libState, libWaits, texState, object, matMutex, matRwLock, matTold, matIdx, matTodo>>
  \/ /\ texWaits[x] = {}
     /\ Goes(x, "answer", "done")
     /\ UNCHANGED <<external, asking, object, matMutex, matRwLock, matTold, matIdx, matTodo>>

IsReady(i) == texState[TextureOf[i]] = "ready"

\* The maps are looked at in turn, up to the first that is not ready.
ReadsUnassigned == \E i \in TextureMaps \ matMaps : \A j \in 1 .. i - 1 : IsReady(j)

AllReady == \A i \in TextureMaps : i \in matMaps /\ IsReady(i)

TextureLoaded(t) ==
  /\ Unlocked
  /\ Goes(t, "loaded", IF matState # "loading" THEN Resume(t) ELSE IF ReadsUnassigned THEN "crash"
                       ELSE IF AllReady THEN "run_ready" ELSE Resume(t))
  /\ matState' = IF matState = "loading" /\ AllReady THEN "ready" ELSE matState
  /\ matTodo' = [matTodo EXCEPT ![t] = IF matState = "loading" /\ AllReady THEN matHandlers ELSE @]
  /\ UNCHANGED <<external, asking, matMaps, matPending, matHandlers, matMutex, matRwLock, matTold, matIdx>>

RaiseMaterialError(t) ==
  /\ Goes(t, "raise", "sync_error")
  /\ matState' = "error"
  /\ UNCHANGED <<external, asking, matMaps, matPending, matHandlers, matMutex, matRwLock, matTold, matIdx, matTodo>>

\* The mutex is taken and given back, so that registrations under way are finished.
SyncError(t) ==
  /\ Unlocked
  /\ Goes(t, "sync_error", "run_error")
  /\ matTodo' = [matTodo EXCEPT ![t] = matHandlers]
  /\ UNCHANGED <<external, asking, object, matMutex, matRwLock, matTold, matIdx>>

Running(t) == matPc[t] \in {"run_ready", "run_error"}

RunMatHandler(t, c) ==
  /\ Running(t) /\ c \in matTodo[t]
  /\ matTodo' = [matTodo EXCEPT ![t] = @ \ {c}]
  /\ matTold' = [matTold EXCEPT ![c][IF matPc[t] = "run_ready" THEN "ready" ELSE "error"] = @ + 1]
  /\ UNCHANGED <<external, asking, object, matMutex, matRwLock, matPc, matIdx>>

HandlersDone(t) ==
  /\ Running(t) /\ matTodo[t] = {}
  /\ Goes(t, matPc[t], Resume(t))
  /\ matHandlers' = {}
  /\ UNCHANGED <<external, asking, matState, matMaps, matPending, matMutex, matRwLock, matTold, matIdx, matTodo>>

MaterialStep(t) ==
  \/ FindMaterial(t) \/ NoSuchMaterial(t) \/ CreateDescribed(t) \/ CreatePending(t)
  \/ \E l \in Libraries : AskLibrary(t, l)
  \/ AskedAll(t) \/ (t \in MatClients /\ Register(t))
  \/ UseDescription(t) \/ CountMiss(t) \/ LibraryError(t) \/ CheckLoadFails(t) \/ TryRaise(t)
  \/ StartLoading(t) \/ LoadTexture(t) \/ AssignMap(t) \/ Started(t)
  \/ TextureLoaded(t) \/ RaiseMaterialError(t) \/ SyncError(t) \/ HandlersDone(t)
  \/ \E c \in MatClients : RunMatHandler(t, c)

\* The null pointer read in texture_loaded ends the program.
Crashed == \E t \in MatThreads : matPc[t] = "crash"

MaterialNext ==
  /\ ~Crashed
  /\ \/ \E t \in MatThreads : MaterialStep(t)
     \/ \E l \in Libraries : LibraryEnds(l)
     \/ \E x \in Textures : TextureEnds(x) \/ AnswerTexture(x)
     \/ DestroyManager

MaterialSpec == MaterialInit /\ [][MaterialNext]_matVars

(***************************************************************************)
(* Properties                                                              *)
(***************************************************************************)

LoadingPlaces == {"texture", "assign", "started", "loaded", "raise", "sync_error", "run_ready", "run_error", "crash"}
Procedures == LoadingPlaces \cup {"offer", "miss", "lib_error", "check_fails", "try_raise", "relock", "start"}
ClientPlaces == Procedures \cup {"load", "libs", "register", "done", "thrown"}
LibraryPlaces == Procedures \cup {"idle", "done"}
TexturePlaces == (LoadingPlaces \ {"texture", "assign", "started"}) \cup {"idle", "answer", "done"}

\* Only the thread that goes into check_load_fails keeps the mutex.
MaterialTypeOK ==
  /\ hasEntry \subseteq Libraries /\ libWaits \subseteq Libraries
  /\ libState \in [Libraries -> {"loading"} \cup Outcome]
  /\ texState \in [Textures -> {"absent", "loading"} \cup Outcome]
  /\ texWaits \in [Textures -> SUBSET TextureMaps]
  /\ matState \in {"absent", "initial", "loading"} \cup Outcome
  /\ matMaps \subseteq TextureMaps /\ matHandlers \subseteq MatClients
  /\ matPending \in 0 .. Cardinality(Libraries)
  /\ matAsked \subseteq Libraries /\ matToAsk \subseteq Libraries
  /\ matReset \in BOOLEAN /\ matExpired \subseteq libWaits
  /\ matTold \in [MatClients -> [Outcome -> Nat]]
  /\ matPc \in [MatThreads -> ClientPlaces \cup LibraryPlaces \cup TexturePlaces]
  /\ matIdx \in [MatThreads -> Nat] /\ matTodo \in [MatThreads -> SUBSET MatClients]
  /\ matMutex \in MatThreads \cup {NobodyHolds} /\ matRwLock \in MatClients \cup {NobodyHolds}
  /\ \A t \in MatThreads : matMutex = t <=> matPc[t] = "relock"

\* Where each kind of thread can be, and which texture it works at there.
PlacesInv ==
  /\ \A c \in MatClients : matPc[c] \in ClientPlaces
  /\ \A l \in Libraries : /\ matPc[l] \in LibraryPlaces
                          /\ matPc[l] # "idle" => libState[l] # "loading"
                          /\ matPc[l] \in Procedures => l \in libWaits
                          /\ l \in matExpired => /\ matPc[l] \in {"raise", "sync_error", "run_error", "done"}
                                                 /\ matIdx[l] = 0
  /\ \A x \in Textures : /\ matPc[x] \in TexturePlaces /\ matIdx[x] = 0
                         /\ matPc[x] # "idle" => texState[x] \in Outcome
                         /\ \A i \in texWaits[x] : TextureOf[i] = x
  /\ \A t \in MatThreads : /\ matIdx[t] # 0 => matPc[t] \in LoadingPlaces
                           /\ matIdx[t] \in TextureMaps \/ matIdx[t] = 0 \/ matPc[t] = "started"
                           /\ matPc[t] \in {"texture", "assign", "started"} => matIdx[t] # 0

\* The thread that creates the material holds the lock of the map, or asks libraries.
AskingInv ==
  /\ matToAsk \cup libWaits \subseteq matAsked /\ matToAsk \cap libWaits = {}
  /\ matState = "absent" => /\ matAsked = {} /\ matRwLock = NobodyHolds /\ matPending = 0
                            /\ \A c \in MatClients : matPc[c] \in {"load", "thrown"}
  /\ \A c \in MatClients : /\ matPc[c] \in Procedures \cup {"libs"} => matRwLock = c \/ matAsked # {}
                           /\ matRwLock = c => matAsked = {} /\ (matPc[c] = "start" \/ matIdx[c] # 0)

\* A thread works for a library that is not yet counted as answered.
Uncounted(t) == matRwLock # t /\ (matPc[t] \in {"offer", "miss", "start", "lib_error"} \/ matIdx[t] # 0)

Open ==
  matToAsk \cup {l \in libWaits : libState[l] = "loading"} \cup {t \in MatThreads : Uncounted(t)} \cup matExpired

\* The counter tells how many libraries have not answered, or found the manager expired.
CountInv ==
  /\ IsFiniteSet(Open) /\ matPending = Cardinality(Open)
  /\ \A t \in MatThreads : matPc[t] = "try_raise" => matPending = 0 /\ matState # "loading"

\* While nothing is known of the material, a library that describes it is yet to say so.
DescriptionInv ==
  matState = "initial" =>
    \A l \in matAsked \cap hasEntry :
      \/ libState[l] = "error" \/ l \in matToAsk \/ (l \in libWaits /\ libState[l] = "loading")
      \/ l \in matExpired
      \/ \E t \in {l} \cup MatClients : matPc[t] \in {"offer", "start"} /\ matRwLock # t

\* A material that is ready has all its textures, whichever of them arrived last.
ReadyHasTextures ==
  matState = "ready" => matMaps = TextureMaps /\ \A i \in TextureMaps : texState[TextureOf[i]] = "ready"

\* The textures of a material arrive on any thread and in any order: no client is told twice that it
\* is ready, or is told both outcomes. Not so once a library's callback found the manager expired: its
\* raise_error_flag looks at no state, turns a ready material into a failed one, and clears the
\* handler lists under a thread that may still be running them.
ToldReadyOnce ==
  matExpired = {} =>
    \A c \in MatClients :
      matTold[c]["ready"] <= 1 /\ (matTold[c]["ready"] = 0 \/ matTold[c]["error"] = 0)

\* With every texture sound and the manager there, the error is "not found", and it is raised only when
\* each library that was still loading when the material was made, and describes it, has failed: the
\* count of pending libraries does not reach zero before. Of the libraries that were ready then it says
\* nothing: the last of them overwrites what the others answered, so that "not found" may be said,
\* or thrown by load_material, of a material that one of them describes.
NotFoundIsTrue ==
  (matState = "error" /\ matExpired = {} /\ \A x \in Textures : texState[x] # "error")
    => \A l \in matAsked \cap hasEntry : libState[l] = "error"

\* The thread is in check_load_fails with the mutex taken before.
MaterialSelfLocked == matMutex # NobodyHolds

\* A client is told how it ended, or sees the exception; unless the last library to answer had no
\* description to give, or the first texture was there already.
ClientToldOrStuck ==
  \A c \in MatClients :
    matPc[c] # "load" ~> \/ \E o \in Outcome : matTold[c][o] > 0
                        \/ matPc[c] = "thrown" \/ MaterialSelfLocked \/ Crashed

\* It ends once, and with an error only if a texture failed, none of the libraries described it, or a
\* callback found the manager expired; only the last turns a ready material into a failed one.
OutcomeInv ==
  /\ \A t \in MatThreads :
       /\ matPc[t] = "run_ready" => matState = "ready" \/ (matState = "error" /\ matExpired # {})
       /\ matPc[t] \in {"sync_error", "run_error"} => matState = "error"
       /\ matPc[t] = "raise" => t \in matExpired \/ \E i \in TextureMaps : texState[TextureOf[i]] = "error"
  /\ \A t, u \in MatThreads : matPc[t] = "run_ready" /\ matPc[u] = "run_ready" => t = u

\* A client is told what the material became, and is in the handler lists when it has not been told.
ToldInv ==
  /\ \A c \in MatClients, o \in Outcome : matTold[c][o] > 0 => matState = o \/ (matState = "error" /\ matExpired # {})
  /\ \A c \in MatClients :
       /\ matTold[c]["ready"] <= 1
       /\ matPc[c] # "done" => /\ matTold[c]["ready"] = 0 /\ c \notin matHandlers
                               /\ \A t \in MatThreads : c \notin matTodo[t]
       /\ \A t \in MatThreads : matPc[t] = "run_ready" /\ c \in matTodo[t] => matTold[c]["ready"] = 0

\* The inductive invariant.
MaterialInv ==
  /\ MaterialTypeOK /\ PlacesInv /\ AskingInv /\ CountInv /\ DescriptionInv /\ NotFoundIsTrue
  /\ ReadyHasTextures /\ OutcomeInv /\ ToldInv

\* All of it holds at once: a material that is ready can be drawn, is said to be so once, and is not
\* said to be missing when it is not.
MaterialSafe == MaterialInv /\ ToldReadyOnce
=============================================================================
