-------------------------- MODULE RenderingProofs ---------------------------
(***************************************************************************)
(* Proofs about what the renderer shares and draws: Resource for any       *)
(* number of clients and each kind, Material for any number of clients,    *)
(* libraries and textures, RenderFrames for any number of slots, resources *)
(* and frames.                                                             *)
(***************************************************************************)
EXTENDS Resource, Material, RenderFrames, FiniteSetTheorems, TLAPS

(***************************************************************************)
(* Resource                                                                *)
(***************************************************************************)

\* Clients, the asset thread and the frame thread are different threads, none is NoThread.
LEMMA ResourceThreadKinds ==
  /\ AssetThread \in ResourceThreads /\ FrameThread \in ResourceThreads /\ AssetThread # FrameThread
  /\ \A c \in Clients : c \in ResourceThreads /\ c # AssetThread /\ c # FrameThread
  /\ \A t \in ResourceThreads : t # NoThread
BY ResourceAssumption DEF ResourceThreads

\* The initial states satisfy the invariant.
LEMMA InitSafe == ResourceInit => ResourceSafe
<1> SUFFICES ASSUME ResourceInit PROVE ResourceSafe
  OBVIOUS
<1> USE ResourceThreadKinds DEF ResourceInit, Ended
<1>1. ResourceTypeOK
  BY DEF ResourceTypeOK, ClientPCs, AssetPCs, FramePCs
<1>2. LoadedOnce /\ StateFollowsCompletion /\ MutexHeld
  BY DEF LoadedOnce, StateFollowsCompletion, MutexHeld
<1>3. NobodyForgotten
  BY DEF NobodyForgotten, Uncollected, AssetPCs
<1> QED BY <1>1, <1>2, <1>3 DEF ResourceSafe

\* A client's step preserves the invariant.
LEMMA ClientSafe ==
  ASSUME ResourceSafe, NEW c \in Clients, ClientStep(c)
  PROVE  ResourceSafe'
<1> USE ResourceThreadKinds DEF ResourceSafe, Ended, At, MutexFree
<1>1. CASE Find(c)
  <2>1. ResourceTypeOK'
    BY <1>1 DEF Find, ResourceTypeOK, ClientPCs, AssetPCs, FramePCs
  <2>2. LoadedOnce' /\ StateFollowsCompletion' /\ MutexHeld'
    BY <1>1 DEF Find, LoadedOnce, StateFollowsCompletion, MutexHeld, ResourceTypeOK
  <2>3. NobodyForgotten'
    BY <1>1 DEF Find, NobodyForgotten, Uncollected, AssetPCs, ResourceTypeOK
  <2> QED BY <2>1, <2>2, <2>3
<1>2. CASE Insert(c)
  <2>1. ResourceTypeOK'
    BY <1>2 DEF Insert, ResourceTypeOK, ClientPCs, AssetPCs, FramePCs
  <2>2. LoadedOnce' /\ StateFollowsCompletion' /\ MutexHeld'
    BY <1>2 DEF Insert, LoadedOnce, StateFollowsCompletion, MutexHeld, ResourceTypeOK, AssetPCs
  <2>3. NobodyForgotten'
    BY <1>2 DEF Insert, NobodyForgotten, Uncollected, AssetPCs, ResourceTypeOK
  <2> QED BY <2>1, <2>2, <2>3
<1>3. CASE RequestAsset(c)
  <2>1. ResourceTypeOK'
    BY <1>3 DEF RequestAsset, ResourceTypeOK, ClientPCs, AssetPCs, FramePCs
  <2>2. LoadedOnce' /\ StateFollowsCompletion' /\ MutexHeld'
    BY <1>3 DEF RequestAsset, LoadedOnce, StateFollowsCompletion, MutexHeld, ResourceTypeOK
  <2>3. NobodyForgotten'
    BY <1>3 DEF RequestAsset, NobodyForgotten, Uncollected, AssetPCs, ResourceTypeOK
  <2> QED BY <2>1, <2>2, <2>3
<1>4. CASE Check(c)
  <2>1. ResourceTypeOK'
    BY <1>4 DEF Check, ResourceTypeOK, ClientPCs, AssetPCs, FramePCs
  <2>2. LoadedOnce' /\ StateFollowsCompletion' /\ MutexHeld'
    BY <1>4 DEF Check, LoadedOnce, StateFollowsCompletion, MutexHeld, ResourceTypeOK
  <2>3. NobodyForgotten'
    BY <1>4 DEF Check, NobodyForgotten, Uncollected, AssetPCs, ResourceTypeOK
  <2> QED BY <2>1, <2>2, <2>3
<1>5. CASE Recheck(c)
  <2>1. ResourceTypeOK'
    BY <1>5 DEF Recheck, ResourceTypeOK, ClientPCs, AssetPCs, FramePCs
  <2>2. LoadedOnce' /\ StateFollowsCompletion' /\ MutexHeld'
    BY <1>5 DEF Recheck, LoadedOnce, StateFollowsCompletion, MutexHeld, ResourceTypeOK
  <2>3. NobodyForgotten'
    BY <1>5 DEF Recheck, NobodyForgotten, Uncollected, AssetPCs, FramePCs, ResourceTypeOK, StateFollowsCompletion
  <2> QED BY <2>1, <2>2, <2>3
<1>6. CASE AppendHandlers(c)
  <2>1. ResourceTypeOK'
    BY <1>6 DEF AppendHandlers, ResourceTypeOK, ClientPCs, AssetPCs, FramePCs
  <2>2. LoadedOnce' /\ StateFollowsCompletion' /\ MutexHeld'
    BY <1>6 DEF AppendHandlers, LoadedOnce, StateFollowsCompletion, MutexHeld, ResourceTypeOK
  <2>3. NobodyForgotten'
    BY <1>6 DEF AppendHandlers, NobodyForgotten, Uncollected, AssetPCs, ResourceTypeOK
  <2> QED BY <2>1, <2>2, <2>3
<1>7. CASE CallAtOnce(c)
  <2>1. ResourceTypeOK'
    BY <1>7 DEF CallAtOnce, ResourceTypeOK, ClientPCs, AssetPCs, FramePCs
  <2>2. LoadedOnce' /\ StateFollowsCompletion' /\ MutexHeld'
    BY <1>7 DEF CallAtOnce, LoadedOnce, StateFollowsCompletion, MutexHeld, ResourceTypeOK
  <2>3. NobodyForgotten'
    BY <1>7 DEF CallAtOnce, NobodyForgotten, Uncollected, AssetPCs, ResourceTypeOK, StateFollowsCompletion
  <2> QED BY <2>1, <2>2, <2>3
<1> QED BY <1>1, <1>2, <1>3, <1>4, <1>5, <1>6, <1>7 DEF ClientStep

\* The thread that completes the resource, in whichever way, preserves the invariant as it runs the handlers.
LEMMA CompletionSafe ==
  ASSUME ResourceSafe, NEW t \in {AssetThread, FrameThread}, CompletionStep(t)
  PROVE  ResourceSafe'
<1> USE ResourceThreadKinds DEF ResourceSafe, Ended, At
<1>1. ASSUME NEW c \in Clients, RunHandler(t, c) PROVE ResourceSafe'
  <2>1. ResourceTypeOK'
    BY <1>1 DEF RunHandler, ResourceTypeOK, ClientPCs, AssetPCs, FramePCs
  <2>2. LoadedOnce' /\ StateFollowsCompletion' /\ MutexHeld'
    BY <1>1 DEF RunHandler, LoadedOnce, StateFollowsCompletion, MutexHeld, ResourceTypeOK
  <2>3. NobodyForgotten'
    BY <1>1 DEF RunHandler, NobodyForgotten, Uncollected, AssetPCs, FramePCs, ResourceTypeOK, StateFollowsCompletion
  <2> QED BY <2>1, <2>2, <2>3
<1>2. CASE ClearHandlers(t)
  <2>1. ResourceTypeOK'
    BY <1>2 DEF ClearHandlers, ResourceTypeOK, ClientPCs, AssetPCs, FramePCs
  <2>2. LoadedOnce' /\ StateFollowsCompletion' /\ MutexHeld'
    BY <1>2 DEF ClearHandlers, LoadedOnce, StateFollowsCompletion, MutexHeld, ResourceTypeOK, AssetPCs, FramePCs
  <2>3. NobodyForgotten'
    BY <1>2 DEF ClearHandlers, NobodyForgotten, Uncollected, AssetPCs, FramePCs, ResourceTypeOK, StateFollowsCompletion
  <2> QED BY <2>1, <2>2, <2>3
<1> QED BY <1>1, <1>2 DEF CompletionStep

\* A step of the asset thread before the handlers run preserves the invariant.
LEMMA AssetSafe ==
  ASSUME ResourceSafe, AssetStep
  PROVE  ResourceSafe'
<1> USE ResourceThreadKinds, ResourceAssumption DEF ResourceSafe, Ended, At, MutexFree
<1>1. CASE AssetFailed
  <2>1. ResourceTypeOK'
    BY <1>1 DEF AssetFailed, ResourceTypeOK, ClientPCs, AssetPCs, FramePCs
  <2>2. LoadedOnce' /\ StateFollowsCompletion' /\ MutexHeld'
    BY <1>1 DEF AssetFailed, LoadedOnce, StateFollowsCompletion, MutexHeld, ResourceTypeOK
  <2>3. NobodyForgotten'
    BY <1>1 DEF AssetFailed, NobodyForgotten, Uncollected, AssetPCs, FramePCs, ResourceTypeOK, StateFollowsCompletion, MutexHeld
  <2> QED BY <2>1, <2>2, <2>3
<1>2. CASE CompleteLoading
  <2>1. ResourceTypeOK'
    BY <1>2 DEF CompleteLoading, ResourceTypeOK, ClientPCs, AssetPCs, FramePCs
  <2>2. LoadedOnce' /\ StateFollowsCompletion' /\ MutexHeld'
    BY <1>2 DEF CompleteLoading, LoadedOnce, StateFollowsCompletion, MutexHeld, ResourceTypeOK
  <2>3. NobodyForgotten'
    BY <1>2 DEF CompleteLoading, NobodyForgotten, Uncollected, AssetPCs, FramePCs, ResourceTypeOK, StateFollowsCompletion, MutexHeld
  <2> QED BY <2>1, <2>2, <2>3
<1>3. CASE DecodeFails
  <2>1. ResourceTypeOK'
    BY <1>3 DEF DecodeFails, FailsLocked, ResourceTypeOK, ClientPCs, AssetPCs, FramePCs
  <2>2. LoadedOnce' /\ StateFollowsCompletion' /\ MutexHeld'
    BY <1>3 DEF DecodeFails, FailsLocked, LoadedOnce, StateFollowsCompletion, MutexHeld, ResourceTypeOK
  <2>3. NobodyForgotten'
    BY <1>3 DEF DecodeFails, FailsLocked, NobodyForgotten, Uncollected, AssetPCs, FramePCs, ResourceTypeOK, StateFollowsCompletion, MutexHeld
  <2> QED BY <2>1, <2>2, <2>3
<1>4. CASE Decoded
  <2>1. ResourceTypeOK'
    BY <1>4 DEF Decoded, Staged, ResourceTypeOK, ClientPCs, AssetPCs, FramePCs
  <2>2. LoadedOnce' /\ StateFollowsCompletion' /\ MutexHeld'
    BY <1>4 DEF Decoded, Staged, LoadedOnce, StateFollowsCompletion, MutexHeld, ResourceTypeOK
  <2>3. NobodyForgotten'
    BY <1>4 DEF Decoded, Staged, NobodyForgotten, Uncollected, AssetPCs, FramePCs, ResourceTypeOK, StateFollowsCompletion, MutexHeld
  <2> QED BY <2>1, <2>2, <2>3
<1>5. CASE UploadData
  <2>1. ResourceTypeOK'
    BY <1>5 DEF UploadData, ResourceTypeOK, ClientPCs, AssetPCs, FramePCs
  <2>2. LoadedOnce' /\ StateFollowsCompletion' /\ MutexHeld'
    BY <1>5 DEF UploadData, LoadedOnce, StateFollowsCompletion, MutexHeld, ResourceTypeOK
  <2>3. NobodyForgotten'
    BY <1>5 DEF UploadData, NobodyForgotten, Uncollected, AssetPCs, FramePCs, ResourceTypeOK, StateFollowsCompletion, MutexHeld
  <2> QED BY <2>1, <2>2, <2>3
<1>6. CASE UploadFails
  <2>1. ResourceTypeOK'
    BY <1>6 DEF UploadFails, ResourceTypeOK, ClientPCs, AssetPCs, FramePCs
  <2>2. LoadedOnce' /\ StateFollowsCompletion' /\ MutexHeld'
    BY <1>6 DEF UploadFails, LoadedOnce, StateFollowsCompletion, MutexHeld, ResourceTypeOK
  <2>3. NobodyForgotten'
    BY <1>6 DEF UploadFails, NobodyForgotten, Uncollected, AssetPCs, FramePCs, ResourceTypeOK, StateFollowsCompletion, MutexHeld
  <2> QED BY <2>1, <2>2, <2>3
<1>7. CASE RaiseError
  <2>1. ResourceTypeOK'
    BY <1>7 DEF RaiseError, ResourceTypeOK, ClientPCs, AssetPCs, FramePCs
  <2>2. LoadedOnce' /\ StateFollowsCompletion' /\ MutexHeld'
    BY <1>7 DEF RaiseError, LoadedOnce, StateFollowsCompletion, MutexHeld, ResourceTypeOK
  <2>3. NobodyForgotten'
    BY <1>7 DEF RaiseError, NobodyForgotten, Uncollected, AssetPCs, FramePCs, ResourceTypeOK, StateFollowsCompletion, MutexHeld
  <2> QED BY <2>1, <2>2, <2>3
<1>8. CASE RaiseErrorLock
  <2>1. ResourceTypeOK'
    BY <1>8 DEF RaiseErrorLock, ResourceTypeOK, ClientPCs, AssetPCs, FramePCs
  <2>2. LoadedOnce' /\ StateFollowsCompletion' /\ MutexHeld'
    BY <1>8 DEF RaiseErrorLock, LoadedOnce, StateFollowsCompletion, MutexHeld, ResourceTypeOK
  <2>3. NobodyForgotten'
    BY <1>8 DEF RaiseErrorLock, NobodyForgotten, Uncollected, AssetPCs, FramePCs, ResourceTypeOK, StateFollowsCompletion, MutexHeld
  <2> QED BY <2>1, <2>2, <2>3
<1>9. CASE CompletionStep(AssetThread)
  BY <1>9, CompletionSafe
<1> QED BY <1>1, <1>2, <1>3, <1>4, <1>5, <1>6, <1>7, <1>8, <1>9 DEF AssetStep

\* A step of the frame thread preserves the invariant.
LEMMA FrameSafe ==
  ASSUME ResourceSafe, FrameStep
  PROVE  ResourceSafe'
<1> USE ResourceThreadKinds, ResourceAssumption DEF ResourceSafe, Ended, At, MutexFree
<1>1. CASE CompleteStaging
  <2>1. ResourceTypeOK'
    BY <1>1 DEF CompleteStaging, ResourceTypeOK, ClientPCs, AssetPCs, FramePCs
  <2>2. LoadedOnce' /\ StateFollowsCompletion' /\ MutexHeld'
    BY <1>1 DEF CompleteStaging, LoadedOnce, StateFollowsCompletion, MutexHeld, ResourceTypeOK
  <2>3. NobodyForgotten'
    BY <1>1 DEF CompleteStaging, NobodyForgotten, Uncollected, AssetPCs, FramePCs, ResourceTypeOK, StateFollowsCompletion, MutexHeld
  <2> QED BY <2>1, <2>2, <2>3
<1>2. CASE CompletionStep(FrameThread)
  BY <1>2, CompletionSafe
<1> QED BY <1>1, <1>2 DEF FrameStep

\* Every step preserves the invariant.
LEMMA NextSafe == ResourceSafe /\ [ResourceNext]_resVars => ResourceSafe'
<1> SUFFICES ASSUME ResourceSafe, [ResourceNext]_resVars PROVE ResourceSafe'
  OBVIOUS
<1>1. CASE UNCHANGED resVars
  BY <1>1 DEF resVars, ResourceSafe, ResourceTypeOK, LoadedOnce, StateFollowsCompletion, MutexHeld, NobodyForgotten,
       Uncollected
<1>2. CASE ResourceNext
  BY <1>2, ClientSafe, AssetSafe, FrameSafe DEF ResourceNext
<1> QED BY <1>1, <1>2

\* For any number of clients: the asset is requested once, the resource ends once, and of the handlers that are
\* registered while it ends none is forgotten or run twice, although the state changes outside the mutex.
THEOREM ResourceInvariance == ResourceSpec => []ResourceSafe
BY InitSafe, NextSafe, PTL DEF ResourceSpec

\* What a step does to the state and to what clients were told: one of them changes.
LEMMA AnswerOrSettle ==
  ASSUME ResourceSafe, ResourceNext
  PROVE  \/ UNCHANGED resTold /\ (resState \in Ended => UNCHANGED resState)
         \/ \E c \in Clients : /\ resState \in Ended /\ UNCHANGED resState
                               /\ resTold[c] = "nothing" /\ resTold' = [resTold EXCEPT ![c] = resState]
<1> USE ResourceThreadKinds, ResourceAssumption DEF ResourceSafe, Ended, At
<1>1. ASSUME NEW c \in Clients, ClientStep(c), ~CallAtOnce(c)
      PROVE  UNCHANGED resTold /\ (resState \in Ended => UNCHANGED resState)
  BY <1>1 DEF ClientStep, Find, Insert, RequestAsset, Check, Recheck, AppendHandlers
<1>2. ASSUME NEW c \in Clients, CallAtOnce(c)
      PROVE  /\ resState \in Ended /\ UNCHANGED resState
             /\ resTold[c] = "nothing" /\ resTold' = [resTold EXCEPT ![c] = resState]
  BY <1>2 DEF CallAtOnce, StateFollowsCompletion, NobodyForgotten, ResourceTypeOK
<1>3. ASSUME NEW t \in {AssetThread, FrameThread}, NEW c \in Clients, RunHandler(t, c)
      PROVE  /\ resState \in Ended /\ UNCHANGED resState
             /\ resTold[c] = "nothing" /\ resTold' = [resTold EXCEPT ![c] = resState]
  BY <1>3 DEF RunHandler, StateFollowsCompletion, NobodyForgotten, ResourceTypeOK, FramePCs
<1>4. ASSUME NEW t \in {AssetThread, FrameThread}, ClearHandlers(t) PROVE UNCHANGED <<resState, resTold>>
  BY <1>4 DEF ClearHandlers
<1>5. CASE \/ AssetFailed \/ CompleteLoading \/ DecodeFails \/ Decoded \/ UploadData \/ UploadFails
           \/ RaiseError \/ RaiseErrorLock \/ CompleteStaging
  BY <1>5 DEF AssetFailed, CompleteLoading, DecodeFails, Decoded, UploadData, UploadFails, RaiseError,
       RaiseErrorLock, CompleteStaging, StateFollowsCompletion
<1> QED BY <1>1, <1>2, <1>3, <1>4, <1>5 DEF ResourceNext, AssetStep, FrameStep, CompletionStep

\* The resource with its mutex, its three threads and its staging state keeps the promise of an asset.
THEOREM ResourceRefinement == ResourceSpec => ResourceKeepsPromise
<1>1. ResourceInit => Promise!Init
  BY DEF ResourceInit, Promise!Init, Ended
<1>2. ASSUME ResourceSafe, ResourceSafe', [ResourceNext]_resVars PROVE [Promise!Next]_(Promise!vars)
  <2>1. CASE UNCHANGED resVars
    BY <2>1 DEF resVars, Promise!vars
  <2>2. CASE ResourceNext /\ UNCHANGED resTold /\ (resState \in Ended => UNCHANGED resState)
    BY <2>2 DEF Promise!vars, Promise!Next, Promise!Settle, Ended
  <2>3. ASSUME NEW c \in Clients, resState \in Ended, UNCHANGED resState, resTold[c] = "nothing",
               resTold' = [resTold EXCEPT ![c] = resState]
        PROVE  Promise!Answer(c)
    BY <2>3 DEF Promise!Answer, Ended
  <2> QED BY <1>2, <2>1, <2>2, <2>3, AnswerOrSettle DEF Promise!Next
<1> QED BY ResourceInvariance, <1>1, <1>2, PTL DEF ResourceSpec, ResourceKeepsPromise, Promise!Spec

(***************************************************************************)
(* Material                                                                *)
(***************************************************************************)

\* A thread is of one kind.
LEMMA MaterialThreadKinds ==
  /\ \A c \in MatClients : c \in MatThreads /\ c \notin Libraries /\ c \notin Textures /\ c # NobodyHolds
  /\ \A l \in Libraries : l \in MatThreads /\ l \notin MatClients /\ l \notin Textures /\ l # NobodyHolds
  /\ \A x \in Textures : x \in MatThreads /\ x \notin MatClients /\ x \notin Libraries /\ x # NobodyHolds
  /\ \A t \in MatThreads : t # NobodyHolds /\ (t \in MatClients \/ t \in Libraries \/ t \in Textures)
BY MaterialAssumption DEF MatThreads

\* Where a thread goes on.
LEMMA ResumeFacts ==
  ASSUME PlacesInv, NEW t \in MatThreads
  PROVE  /\ Resume(t) \in {"answer", "assign", "libs", "done"}
         /\ Resume(t) = "answer" <=> t \in Textures
         /\ Resume(t) = "assign" <=> matIdx[t] # 0
         /\ Resume(t) = "libs" <=> t \in MatClients /\ matIdx[t] = 0
         /\ Resume(t) = "done" <=> t \in Libraries /\ matIdx[t] = 0
<1>1. t \in Textures => matIdx[t] = 0
  BY DEF PlacesInv
<1> QED BY <1>1, MaterialThreadKinds DEF Resume

\* Taking one out of a finite set that is counted.
LEMMA CountsDown ==
  ASSUME NEW S, IsFiniteSet(S), NEW x \in S
  PROVE  IsFiniteSet(S \ {x}) /\ Cardinality(S \ {x}) = Cardinality(S) - 1
         /\ Cardinality(S) \in Nat /\ Cardinality(S) > 0
BY FS_RemoveElement, FS_CardinalityType, FS_EmptySet

\* Replacing one of a finite set.
LEMMA CountsEven ==
  ASSUME NEW S, IsFiniteSet(S), NEW x \in S, NEW y, y \notin S
  PROVE  IsFiniteSet((S \ {x}) \cup {y}) /\ Cardinality((S \ {x}) \cup {y}) = Cardinality(S)
<1>1. IsFiniteSet(S \ {x}) /\ Cardinality(S \ {x}) = Cardinality(S) - 1
      /\ Cardinality(S) \in Nat
  BY CountsDown
<1> DEFINE R == S \ {x}
<1>2. y \notin R /\ IsFiniteSet(R) /\ Cardinality(R) = Cardinality(S) - 1
  BY <1>1
<1> HIDE DEF R
<1>3. IsFiniteSet(R \cup {y}) /\ Cardinality(R \cup {y}) = Cardinality(R) + 1
  BY <1>2, FS_AddElement
<1>4. Cardinality(R \cup {y}) = Cardinality(S)
  BY <1>1, <1>2, <1>3
<1> QED BY <1>3, <1>4 DEF R

\* The libraries that are not ready are counted.
LEMMA PendingFacts ==
  IsFiniteSet(Libraries \ Ready) /\ Cardinality(Libraries \ Ready) \in 0 .. Cardinality(Libraries)
<1>1. IsFiniteSet(Libraries)
  BY MaterialAssumption
<1>2. IsFiniteSet(Libraries \ Ready) /\ Cardinality(Libraries \ Ready) <= Cardinality(Libraries)
  BY <1>1, FS_Subset
<1> QED BY <1>1, <1>2, FS_CardinalityType

\* A thread that works for a library is counted.
LEMMA UncountedIsOpen ==
  ASSUME CountInv, NEW t \in MatThreads, Uncounted(t)
  PROVE  t \in Open /\ matPending \in Nat /\ matPending > 0
<1>1. t \in Open
  BY DEF Open
<1> QED BY <1>1, CountsDown DEF CountInv

\* When the counter is zero, no library is to answer.
LEMMA NoneIsOpen ==
  ASSUME CountInv, matPending = 0
  PROVE  Open = {}
BY FS_EmptySet DEF CountInv

\* Finding the material in the map preserves the invariant.
LEMMA FindMaterialSafe ==
  ASSUME MaterialInv, NEW t \in MatThreads, FindMaterial(t)
  PROVE  MaterialInv'
<1> USE MaterialThreadKinds DEF MaterialInv, external, asking, object, Goes, Unlocked
<1>1. MaterialTypeOK'
  BY DEF FindMaterial, MaterialTypeOK, PlacesInv, Outcome, ClientPlaces, LibraryPlaces,
     TexturePlaces, Procedures, LoadingPlaces
<1>2. PlacesInv'
  BY DEF FindMaterial, MaterialTypeOK, PlacesInv, Outcome, ClientPlaces, LibraryPlaces,
     TexturePlaces, Procedures, LoadingPlaces
<1>3. AskingInv'
  BY DEF FindMaterial, MaterialTypeOK, PlacesInv, AskingInv, Outcome, ClientPlaces, LibraryPlaces,
     TexturePlaces, Procedures, LoadingPlaces
<1>4. CountInv'
  <2>1. \A u \in MatThreads : Uncounted(u)' <=> Uncounted(u)
    BY DEF FindMaterial, Uncounted, AskingInv, MaterialTypeOK, PlacesInv, Outcome, ClientPlaces,
       LibraryPlaces, TexturePlaces, Procedures, LoadingPlaces
  <2>2. Open' = Open
    BY <2>1 DEF FindMaterial, Open, PlacesInv
  <2>3. matPending' = matPending
    BY DEF FindMaterial
  <2>4. \A u \in MatThreads : matPc'[u] = "try_raise" => matPending' = 0 /\ matState' # "loading"
    BY DEF FindMaterial, CountInv, MaterialTypeOK, PlacesInv, Outcome, ClientPlaces,
       LibraryPlaces, TexturePlaces, Procedures, LoadingPlaces
  <2> QED BY <2>2, <2>3, <2>4 DEF CountInv
<1>5. DescriptionInv'
  BY DEF FindMaterial, MaterialTypeOK, PlacesInv, AskingInv, DescriptionInv, Outcome
<1>6. NotFoundIsTrue'
  BY DEF FindMaterial, MaterialTypeOK, NotFoundIsTrue, OutcomeInv, Outcome
<1>7. ReadyHasTextures'
  BY DEF FindMaterial, MaterialTypeOK, ReadyHasTextures, OutcomeInv, Outcome
<1>8. OutcomeInv'
  BY DEF FindMaterial, MaterialTypeOK, ReadyHasTextures, OutcomeInv, Outcome
<1>9. ToldInv'
  BY DEF FindMaterial, MaterialTypeOK, OutcomeInv, ToldInv, Outcome
<1> QED BY <1>1, <1>2, <1>3, <1>4, <1>5, <1>6, <1>7, <1>8, <1>9

\* An exception to the caller preserves the invariant.
LEMMA NoSuchMaterialSafe ==
  ASSUME MaterialInv, NEW t \in MatThreads, NoSuchMaterial(t)
  PROVE  MaterialInv'
<1> USE MaterialThreadKinds DEF MaterialInv, external, asking, object, Goes, Unlocked
<1>1. MaterialTypeOK'
  BY DEF NoSuchMaterial, MaterialTypeOK, PlacesInv, Outcome, ClientPlaces, LibraryPlaces,
     TexturePlaces, Procedures, LoadingPlaces
<1>2. PlacesInv'
  BY DEF NoSuchMaterial, MaterialTypeOK, PlacesInv, Outcome, ClientPlaces, LibraryPlaces,
     TexturePlaces, Procedures, LoadingPlaces
<1>3. AskingInv'
  BY DEF NoSuchMaterial, MaterialTypeOK, PlacesInv, AskingInv, Outcome, ClientPlaces,
     LibraryPlaces, TexturePlaces, Procedures, LoadingPlaces
<1>4. CountInv'
  <2>1. \A u \in MatThreads : Uncounted(u)' <=> Uncounted(u)
    BY DEF NoSuchMaterial, Uncounted, AskingInv, MaterialTypeOK, PlacesInv, Outcome, ClientPlaces,
       LibraryPlaces, TexturePlaces, Procedures, LoadingPlaces
  <2>2. Open' = Open
    BY <2>1 DEF NoSuchMaterial, Open, PlacesInv
  <2>3. matPending' = matPending
    BY DEF NoSuchMaterial
  <2>4. \A u \in MatThreads : matPc'[u] = "try_raise" => matPending' = 0 /\ matState' # "loading"
    BY DEF NoSuchMaterial, CountInv, MaterialTypeOK, PlacesInv, Outcome, ClientPlaces,
       LibraryPlaces, TexturePlaces, Procedures, LoadingPlaces
  <2> QED BY <2>2, <2>3, <2>4 DEF CountInv
<1>5. DescriptionInv'
  BY DEF NoSuchMaterial, MaterialTypeOK, PlacesInv, AskingInv, DescriptionInv, Outcome
<1>6. NotFoundIsTrue'
  BY DEF NoSuchMaterial, MaterialTypeOK, NotFoundIsTrue, OutcomeInv, Outcome
<1>7. ReadyHasTextures'
  BY DEF NoSuchMaterial, MaterialTypeOK, ReadyHasTextures, OutcomeInv, Outcome
<1>8. OutcomeInv'
  BY DEF NoSuchMaterial, MaterialTypeOK, ReadyHasTextures, OutcomeInv, Outcome
<1>9. ToldInv'
  BY DEF NoSuchMaterial, MaterialTypeOK, OutcomeInv, ToldInv, Outcome
<1> QED BY <1>1, <1>2, <1>3, <1>4, <1>5, <1>6, <1>7, <1>8, <1>9

\* Creating a material that a library describes preserves the invariant.
LEMMA CreateDescribedSafe ==
  ASSUME MaterialInv, NEW t \in MatThreads, CreateDescribed(t)
  PROVE  MaterialInv'
<1> USE MaterialThreadKinds DEF MaterialInv, external, asking, object, Goes, Unlocked
<1>1. MaterialTypeOK'
  BY DEF CreateDescribed, MaterialTypeOK, PlacesInv, Outcome, ClientPlaces, LibraryPlaces,
     TexturePlaces, Procedures, LoadingPlaces
<1>2. PlacesInv'
  BY DEF CreateDescribed, MaterialTypeOK, PlacesInv, Outcome, ClientPlaces, LibraryPlaces,
     TexturePlaces, Procedures, LoadingPlaces
<1>3. AskingInv'
  BY DEF CreateDescribed, MaterialTypeOK, PlacesInv, AskingInv, Outcome, ClientPlaces,
     LibraryPlaces, TexturePlaces, Procedures, LoadingPlaces
<1>4. CountInv'
  <2>1. \A u \in MatThreads : Uncounted(u)' <=> Uncounted(u)
    BY DEF CreateDescribed, Uncounted, AskingInv, MaterialTypeOK, PlacesInv, Outcome,
       ClientPlaces, LibraryPlaces, TexturePlaces, Procedures, LoadingPlaces
  <2>2. Open' = Open
    BY <2>1 DEF CreateDescribed, Open, PlacesInv
  <2>3. matPending' = matPending
    BY DEF CreateDescribed
  <2>4. \A u \in MatThreads : matPc'[u] = "try_raise" => matPending' = 0 /\ matState' # "loading"
    BY DEF CreateDescribed, CountInv, MaterialTypeOK, PlacesInv, Outcome, ClientPlaces,
       LibraryPlaces, TexturePlaces, Procedures, LoadingPlaces
  <2> QED BY <2>2, <2>3, <2>4 DEF CountInv
<1>5. DescriptionInv'
  BY DEF CreateDescribed, MaterialTypeOK, PlacesInv, AskingInv, DescriptionInv, Outcome
<1>6. NotFoundIsTrue'
  BY DEF CreateDescribed, MaterialTypeOK, NotFoundIsTrue, OutcomeInv, Outcome
<1>7. ReadyHasTextures'
  BY DEF CreateDescribed, MaterialTypeOK, ReadyHasTextures, OutcomeInv, Outcome
<1>8. OutcomeInv'
  BY DEF CreateDescribed, MaterialTypeOK, ReadyHasTextures, OutcomeInv, Outcome
<1>9. ToldInv'
  BY DEF CreateDescribed, MaterialTypeOK, OutcomeInv, ToldInv, Outcome
<1> QED BY <1>1, <1>2, <1>3, <1>4, <1>5, <1>6, <1>7, <1>8, <1>9

\* Creating a material that is not described yet preserves the invariant.
LEMMA CreatePendingSafe ==
  ASSUME MaterialInv, NEW t \in MatThreads, CreatePending(t)
  PROVE  MaterialInv'
<1> USE MaterialThreadKinds DEF MaterialInv, external, asking, object, Goes, Unlocked
<1>1. MaterialTypeOK'
  BY PendingFacts DEF CreatePending, Ready, MaterialTypeOK, PlacesInv, Outcome, ClientPlaces,
     LibraryPlaces, TexturePlaces, Procedures, LoadingPlaces
<1>2. PlacesInv'
  BY DEF CreatePending, Ready, MaterialTypeOK, PlacesInv, Outcome, ClientPlaces, LibraryPlaces,
     TexturePlaces, Procedures, LoadingPlaces
<1>3. AskingInv'
  BY DEF CreatePending, Ready, MaterialTypeOK, PlacesInv, AskingInv, Outcome, ClientPlaces,
     LibraryPlaces, TexturePlaces, Procedures, LoadingPlaces
<1>4. CountInv'
  <2>1. /\ matToAsk' = Libraries \ Ready /\ libWaits = {} /\ libWaits' = libWaits /\ libState' = libState
        /\ matPending' = Cardinality(Libraries \ Ready) /\ matState' = "initial" /\ matIdx' = matIdx
        /\ matExpired' = {}
    BY DEF CreatePending, AskingInv, MaterialTypeOK
  <2>2. \A u \in MatThreads : /\ matPc[u] \in {"load", "thrown", "idle", "done"} \cup TexturePlaces
                              /\ matIdx[u] = 0
    BY <2>1 DEF CreatePending, AskingInv, MaterialTypeOK, PlacesInv, Outcome, ClientPlaces,
       LibraryPlaces, TexturePlaces, Procedures, LoadingPlaces
  <2>3. \A u \in MatThreads : ~Uncounted(u)' /\ matPc'[u] # "try_raise"
    BY <2>1, <2>2 DEF CreatePending, Uncounted, MaterialTypeOK, PlacesInv, Outcome, ClientPlaces,
       LibraryPlaces, TexturePlaces, Procedures, LoadingPlaces
  <2>4. Open' = Libraries \ Ready
    BY <2>1, <2>3 DEF Open
  <2>5. IsFiniteSet(Libraries \ Ready)
    BY PendingFacts
  <2> QED BY <2>1, <2>3, <2>4, <2>5 DEF CountInv
<1>5. DescriptionInv'
  BY DEF CreatePending, Ready, MaterialTypeOK, PlacesInv, AskingInv, DescriptionInv, Outcome
<1>6. NotFoundIsTrue'
  BY DEF CreatePending, Ready, MaterialTypeOK, NotFoundIsTrue, OutcomeInv, Outcome
<1>7. ReadyHasTextures'
  BY DEF CreatePending, Ready, MaterialTypeOK, ReadyHasTextures, OutcomeInv, Outcome
<1>8. OutcomeInv'
  BY DEF CreatePending, Ready, MaterialTypeOK, ReadyHasTextures, OutcomeInv, Outcome
<1>9. ToldInv'
  BY DEF CreatePending, Ready, MaterialTypeOK, OutcomeInv, ToldInv, Outcome
<1> QED BY <1>1, <1>2, <1>3, <1>4, <1>5, <1>6, <1>7, <1>8, <1>9

\* Asking a library preserves the invariant.
LEMMA AskLibrarySafe ==
  ASSUME MaterialInv, NEW t \in MatThreads, NEW l \in Libraries, AskLibrary(t, l)
  PROVE  MaterialInv'
<1> USE MaterialThreadKinds DEF MaterialInv, external, asking, object, Goes, Unlocked
<1>1. MaterialTypeOK'
  BY DEF AskLibrary, MaterialTypeOK, PlacesInv, Outcome, ClientPlaces, LibraryPlaces,
     TexturePlaces, Procedures, LoadingPlaces
<1>2. PlacesInv'
  BY DEF AskLibrary, MaterialTypeOK, PlacesInv, Outcome, ClientPlaces, LibraryPlaces,
     TexturePlaces, Procedures, LoadingPlaces
<1>3. AskingInv'
  BY DEF AskLibrary, MaterialTypeOK, PlacesInv, AskingInv, Outcome, ClientPlaces, LibraryPlaces,
     TexturePlaces, Procedures, LoadingPlaces
<1>4. CountInv'
  <2>1. /\ matPc[t] = "libs" /\ matIdx[t] = 0 /\ t \in MatClients /\ l \in matToAsk /\ l \notin libWaits
        /\ matRwLock # t /\ matRwLock # l /\ matPc[l] \in {"idle", "done"} /\ matIdx[l] = 0
        /\ l \notin matExpired /\ t \notin matExpired
        /\ matToAsk' = matToAsk \ {l} /\ UNCHANGED <<matExpired, matPending, libState, matRwLock, matIdx, matState>>
    BY DEF AskLibrary, AskingInv, MaterialTypeOK, PlacesInv, Outcome, ClientPlaces, LibraryPlaces,
       TexturePlaces, Procedures, LoadingPlaces
  <2>2. l \in Open /\ t \notin Open /\ ~Uncounted(l) /\ ~Uncounted(t)
    BY <2>1 DEF Open, Uncounted, MaterialTypeOK
  <2>3. \A u \in MatThreads : u # t => (Uncounted(u)' <=> Uncounted(u)) /\ matPc'[u] = matPc[u]
    BY <2>1 DEF AskLibrary, Uncounted, MaterialTypeOK
  <2>4. matPc'[t] # "try_raise"
    BY DEF AskLibrary, MaterialTypeOK
  <2>5. CASE libState[l] = "loading"
    <3>1. libWaits' = libWaits \cup {l} /\ ~Uncounted(t)'
      BY <2>1, <2>5 DEF AskLibrary, Uncounted, MaterialTypeOK
    <3>2. Open' = Open
      BY <2>1, <2>2, <2>3, <2>5, <3>1 DEF Open
    <3> QED BY <2>1, <2>3, <2>4, <3>2 DEF CountInv
  <2>6. CASE libState[l] # "loading"
    <3>1. libWaits' = libWaits /\ Uncounted(t)'
      <4>1. libState[l] \in Outcome
        BY <2>6 DEF MaterialTypeOK
      <4>2. libWaits' = libWaits /\ matPc'[t] \in {"offer", "miss", "lib_error"}
        BY <2>6, <4>1 DEF AskLibrary, MaterialTypeOK, Outcome
      <4> QED BY <2>1, <4>2 DEF Uncounted
    <3>2. Open' = (Open \ {l}) \cup {t}
      BY <2>1, <2>2, <2>3, <2>6, <3>1 DEF Open, MaterialTypeOK
    <3>3. IsFiniteSet(Open') /\ Cardinality(Open') = Cardinality(Open)
      BY <2>2, <3>2, CountsEven DEF CountInv
    <3> QED BY <2>1, <2>3, <2>4, <3>3 DEF CountInv
  <2> QED BY <2>5, <2>6
<1>5. DescriptionInv'
  <2> SUFFICES ASSUME matState = "initial", NEW k \in matAsked \cap hasEntry
               PROVE  \/ libState[k] = "error" \/ k \in matToAsk' \/ (k \in libWaits' /\ libState[k] = "loading") \/ k \in matExpired
                      \/ \E u \in {k} \cup MatClients : matPc'[u] \in {"offer", "start"} /\ matRwLock # u
    BY DEF AskLibrary, DescriptionInv
  <2>1. /\ matPc[t] = "libs" /\ t \in MatClients /\ matRwLock # t /\ matToAsk' = matToAsk \ {l} /\ libWaits \subseteq libWaits'
    BY DEF AskLibrary, AskingInv, PlacesInv, ClientPlaces, LibraryPlaces, TexturePlaces,
       Procedures, LoadingPlaces
  <2>2. \A u \in MatThreads : u # t => matPc'[u] = matPc[u]
    BY DEF AskLibrary, MaterialTypeOK
  <2>3. CASE k = l
    <3>1. CASE libState[l] = "loading"
      BY <2>3, <3>1 DEF AskLibrary
    <3>2. CASE libState[l] = "ready"
      <4>1. matPc'[t] = "offer"
        BY <2>3, <3>2 DEF AskLibrary, MaterialTypeOK
      <4> QED BY <2>1, <4>1
    <3> QED BY <2>3, <3>1, <3>2 DEF MaterialTypeOK, Outcome
  <2>4. CASE k # l
    <3>1. CASE libState[k] = "error" \/ k \in matToAsk \/ (k \in libWaits /\ libState[k] = "loading") \/ k \in matExpired
      BY <2>1, <2>4, <3>1
    <3>2. CASE \E u \in {k} \cup MatClients : matPc[u] \in {"offer", "start"} /\ matRwLock # u
      <4>1. PICK u \in {k} \cup MatClients : matPc[u] \in {"offer", "start"} /\ matRwLock # u
        BY <3>2
      <4>2. u \in MatThreads /\ u # t
        BY <2>1, <4>1 DEF MaterialTypeOK
      <4> QED BY <2>2, <4>1, <4>2
    <3> QED BY <3>1, <3>2 DEF DescriptionInv
  <2> QED BY <2>3, <2>4
<1>6. NotFoundIsTrue'
  BY DEF AskLibrary, MaterialTypeOK, NotFoundIsTrue, OutcomeInv, Outcome
<1>7. ReadyHasTextures'
  BY DEF AskLibrary, MaterialTypeOK, ReadyHasTextures, OutcomeInv, Outcome
<1>8. OutcomeInv'
  BY DEF AskLibrary, MaterialTypeOK, ReadyHasTextures, OutcomeInv, Outcome
<1>9. ToldInv'
  BY DEF AskLibrary, MaterialTypeOK, OutcomeInv, ToldInv, Outcome
<1> QED BY <1>1, <1>2, <1>3, <1>4, <1>5, <1>6, <1>7, <1>8, <1>9

\* Having asked all libraries preserves the invariant.
LEMMA AskedAllSafe ==
  ASSUME MaterialInv, NEW t \in MatThreads, AskedAll(t)
  PROVE  MaterialInv'
<1> USE MaterialThreadKinds DEF MaterialInv, external, asking, object, Goes, Unlocked
<1>1. MaterialTypeOK'
  BY DEF AskedAll, MaterialTypeOK, PlacesInv, Outcome, ClientPlaces, LibraryPlaces, TexturePlaces,
     Procedures, LoadingPlaces
<1>2. PlacesInv'
  BY DEF AskedAll, MaterialTypeOK, PlacesInv, Outcome, ClientPlaces, LibraryPlaces, TexturePlaces,
     Procedures, LoadingPlaces
<1>3. AskingInv'
  BY DEF AskedAll, MaterialTypeOK, PlacesInv, AskingInv, Outcome, ClientPlaces, LibraryPlaces,
     TexturePlaces, Procedures, LoadingPlaces
<1>4. CountInv'
  <2>1. \A u \in MatThreads : Uncounted(u)' <=> Uncounted(u)
    BY DEF AskedAll, Uncounted, AskingInv, MaterialTypeOK, PlacesInv, Outcome, ClientPlaces,
       LibraryPlaces, TexturePlaces, Procedures, LoadingPlaces
  <2>2. Open' = Open
    BY <2>1 DEF AskedAll, Open, PlacesInv
  <2>3. matPending' = matPending
    BY DEF AskedAll
  <2>4. \A u \in MatThreads : matPc'[u] = "try_raise" => matPending' = 0 /\ matState' # "loading"
    BY DEF AskedAll, CountInv, MaterialTypeOK, PlacesInv, Outcome, ClientPlaces, LibraryPlaces,
       TexturePlaces, Procedures, LoadingPlaces
  <2> QED BY <2>2, <2>3, <2>4 DEF CountInv
<1>5. DescriptionInv'
  BY DEF AskedAll, MaterialTypeOK, PlacesInv, AskingInv, DescriptionInv, Outcome
<1>6. NotFoundIsTrue'
  BY DEF AskedAll, MaterialTypeOK, NotFoundIsTrue, OutcomeInv, Outcome
<1>7. ReadyHasTextures'
  BY DEF AskedAll, MaterialTypeOK, ReadyHasTextures, OutcomeInv, Outcome
<1>8. OutcomeInv'
  BY DEF AskedAll, MaterialTypeOK, ReadyHasTextures, OutcomeInv, Outcome
<1>9. ToldInv'
  BY DEF AskedAll, MaterialTypeOK, OutcomeInv, ToldInv, Outcome
<1> QED BY <1>1, <1>2, <1>3, <1>4, <1>5, <1>6, <1>7, <1>8, <1>9

\* run_when_ready preserves the invariant.
LEMMA RegisterSafe ==
  ASSUME MaterialInv, NEW c \in MatClients, Register(c)
  PROVE  MaterialInv'
<1> USE MaterialThreadKinds DEF MaterialInv, external, asking, object, Goes, Unlocked
<1>1. MaterialTypeOK'
  BY DEF Register, MaterialTypeOK, PlacesInv, Outcome, ClientPlaces, LibraryPlaces, TexturePlaces,
     Procedures, LoadingPlaces
<1>2. PlacesInv'
  BY DEF Register, MaterialTypeOK, PlacesInv, Outcome, ClientPlaces, LibraryPlaces, TexturePlaces,
     Procedures, LoadingPlaces
<1>3. AskingInv'
  BY DEF Register, MaterialTypeOK, PlacesInv, AskingInv, Outcome, ClientPlaces, LibraryPlaces,
     TexturePlaces, Procedures, LoadingPlaces
<1>4. CountInv'
  <2>1. \A u \in MatThreads : Uncounted(u)' <=> Uncounted(u)
    BY DEF Register, Uncounted, AskingInv, MaterialTypeOK, PlacesInv, Outcome, ClientPlaces,
       LibraryPlaces, TexturePlaces, Procedures, LoadingPlaces
  <2>2. Open' = Open
    BY <2>1 DEF Register, Open, PlacesInv
  <2>3. matPending' = matPending
    BY DEF Register
  <2>4. \A u \in MatThreads : matPc'[u] = "try_raise" => matPending' = 0 /\ matState' # "loading"
    BY DEF Register, CountInv, MaterialTypeOK, PlacesInv, Outcome, ClientPlaces, LibraryPlaces,
       TexturePlaces, Procedures, LoadingPlaces
  <2> QED BY <2>2, <2>3, <2>4 DEF CountInv
<1>5. DescriptionInv'
  BY DEF Register, MaterialTypeOK, PlacesInv, AskingInv, DescriptionInv, Outcome
<1>6. NotFoundIsTrue'
  BY DEF Register, MaterialTypeOK, NotFoundIsTrue, OutcomeInv, Outcome
<1>7. ReadyHasTextures'
  BY DEF Register, MaterialTypeOK, ReadyHasTextures, OutcomeInv, Outcome
<1>8. OutcomeInv'
  BY DEF Register, MaterialTypeOK, ReadyHasTextures, OutcomeInv, Outcome
<1>9. ToldInv'
  BY DEF Register, MaterialTypeOK, OutcomeInv, ToldInv, Outcome
<1> QED BY <1>1, <1>2, <1>3, <1>4, <1>5, <1>6, <1>7, <1>8, <1>9

\* Taking a description preserves the invariant.
LEMMA UseDescriptionSafe ==
  ASSUME MaterialInv, NEW t \in MatThreads, UseDescription(t)
  PROVE  MaterialInv'
<1> USE MaterialThreadKinds DEF MaterialInv, external, asking, object, Goes, Unlocked
<1>1. MaterialTypeOK'
  BY DEF UseDescription, MaterialTypeOK, PlacesInv, Outcome, ClientPlaces, LibraryPlaces,
     TexturePlaces, Procedures, LoadingPlaces
<1>2. PlacesInv'
  BY DEF UseDescription, MaterialTypeOK, PlacesInv, Outcome, ClientPlaces, LibraryPlaces,
     TexturePlaces, Procedures, LoadingPlaces
<1>3. AskingInv'
  BY DEF UseDescription, MaterialTypeOK, PlacesInv, AskingInv, Outcome, ClientPlaces,
     LibraryPlaces, TexturePlaces, Procedures, LoadingPlaces
<1>4. CountInv'
  <2>1. \A u \in MatThreads : Uncounted(u)' <=> Uncounted(u)
    BY DEF UseDescription, Uncounted, AskingInv, MaterialTypeOK, PlacesInv, Outcome, ClientPlaces,
       LibraryPlaces, TexturePlaces, Procedures, LoadingPlaces
  <2>2. Open' = Open
    BY <2>1 DEF UseDescription, Open, PlacesInv
  <2>3. matPending' = matPending
    BY DEF UseDescription
  <2>4. \A u \in MatThreads : matPc'[u] = "try_raise" => matPending' = 0 /\ matState' # "loading"
    BY DEF UseDescription, CountInv, MaterialTypeOK, PlacesInv, Outcome, ClientPlaces,
       LibraryPlaces, TexturePlaces, Procedures, LoadingPlaces
  <2> QED BY <2>2, <2>3, <2>4 DEF CountInv
<1>5. DescriptionInv'
  BY DEF UseDescription, MaterialTypeOK, PlacesInv, AskingInv, DescriptionInv, Outcome
<1>6. NotFoundIsTrue'
  BY DEF UseDescription, MaterialTypeOK, NotFoundIsTrue, OutcomeInv, Outcome
<1>7. ReadyHasTextures'
  BY DEF UseDescription, MaterialTypeOK, ReadyHasTextures, OutcomeInv, Outcome
<1>8. OutcomeInv'
  BY DEF UseDescription, MaterialTypeOK, ReadyHasTextures, OutcomeInv, Outcome
<1>9. ToldInv'
  BY DEF UseDescription, MaterialTypeOK, OutcomeInv, ToldInv, Outcome
<1> QED BY <1>1, <1>2, <1>3, <1>4, <1>5, <1>6, <1>7, <1>8, <1>9

\* Counting an answer preserves the invariant.
LEMMA CountMissSafe ==
  ASSUME MaterialInv, NEW t \in MatThreads, CountMiss(t)
  PROVE  MaterialInv'
<1> USE MaterialThreadKinds DEF MaterialInv, external, asking, object, Goes, Unlocked
<1> USE ResumeFacts
<1>a. Uncounted(t)
  BY DEF CountMiss, Uncounted, AskingInv, MaterialTypeOK, PlacesInv, ClientPlaces, LibraryPlaces,
     TexturePlaces, Procedures, LoadingPlaces
<1>b. t \in Open /\ matPending \in Nat /\ matPending > 0
  BY <1>a, UncountedIsOpen
<1>1. MaterialTypeOK'
  <2>1. matPending' \in 0 .. Cardinality(Libraries)
    <3>1. Cardinality(Libraries) \in Nat
      BY MaterialAssumption, FS_CardinalityType
    <3>2. matPending' = matPending - 1 /\ matPending \in 0 .. Cardinality(Libraries)
      BY DEF CountMiss, MaterialTypeOK
    <3> QED BY <1>b, <3>1, <3>2
  <2>2. matPc' \in [MatThreads -> ClientPlaces \cup LibraryPlaces \cup TexturePlaces]
    BY DEF CountMiss, MaterialTypeOK, PlacesInv, Outcome, ClientPlaces, LibraryPlaces,
       TexturePlaces, Procedures, LoadingPlaces
  <2>3. \A u \in MatThreads : matMutex' = u <=> matPc'[u] = "relock"
    BY DEF CountMiss, MaterialTypeOK, PlacesInv, Outcome, ClientPlaces, LibraryPlaces,
       TexturePlaces, Procedures, LoadingPlaces
  <2> QED BY <2>1, <2>2, <2>3 DEF CountMiss, MaterialTypeOK
<1>2. PlacesInv'
  BY DEF CountMiss, MaterialTypeOK, PlacesInv, Outcome, ClientPlaces, LibraryPlaces,
     TexturePlaces, Procedures, LoadingPlaces
<1>3. AskingInv'
  BY DEF CountMiss, MaterialTypeOK, PlacesInv, AskingInv, Outcome, ClientPlaces, LibraryPlaces,
     TexturePlaces, Procedures, LoadingPlaces
<1>4. CountInv'
  <2>1. Uncounted(t) /\ ~Uncounted(t)' /\ \A u \in MatThreads : u # t => (Uncounted(u)' <=> Uncounted(u))
    BY DEF CountMiss, Uncounted, AskingInv, MaterialTypeOK, PlacesInv, Outcome, ClientPlaces,
       LibraryPlaces, TexturePlaces, Procedures, LoadingPlaces
  <2>2. t \in Open /\ Open' = Open \ {t}
    BY <2>1 DEF CountMiss, Open, PlacesInv, AskingInv, MaterialTypeOK, Procedures, LoadingPlaces
  <2>3. matPending' = matPending - 1
    BY DEF CountMiss
  <2>4. IsFiniteSet(Open') /\ matPending' = Cardinality(Open') /\ matPending > 0
    BY <2>2, <2>3, CountsDown DEF CountInv
  <2>5. \A u \in MatThreads : matPc'[u] # "try_raise"
    BY <2>4 DEF CountMiss, CountInv, MaterialTypeOK, PlacesInv, Outcome, ClientPlaces,
       LibraryPlaces, TexturePlaces, Procedures, LoadingPlaces
  <2> QED BY <2>4, <2>5 DEF CountInv
<1>5. DescriptionInv'
  BY DEF CountMiss, MaterialTypeOK, PlacesInv, AskingInv, DescriptionInv, Outcome
<1>6. NotFoundIsTrue'
  BY DEF CountMiss, MaterialTypeOK, NotFoundIsTrue, OutcomeInv, Outcome
<1>7. ReadyHasTextures'
  BY DEF CountMiss, MaterialTypeOK, ReadyHasTextures, OutcomeInv, Outcome
<1>8. OutcomeInv'
  BY DEF CountMiss, MaterialTypeOK, ReadyHasTextures, OutcomeInv, Outcome
<1>9. ToldInv'
  BY DEF CountMiss, MaterialTypeOK, OutcomeInv, ToldInv, Outcome
<1> QED BY <1>1, <1>2, <1>3, <1>4, <1>5, <1>6, <1>7, <1>8, <1>9

\* Counting a library that failed preserves the invariant.
LEMMA LibraryErrorSafe ==
  ASSUME MaterialInv, NEW t \in MatThreads, LibraryError(t)
  PROVE  MaterialInv'
<1> USE MaterialThreadKinds DEF MaterialInv, external, asking, object, Goes, Unlocked
<1> USE ResumeFacts
<1>a. Uncounted(t)
  BY DEF LibraryError, Uncounted, AskingInv, MaterialTypeOK, PlacesInv, ClientPlaces,
     LibraryPlaces, TexturePlaces, Procedures, LoadingPlaces
<1>b. t \in Open /\ matPending \in Nat /\ matPending > 0
  BY <1>a, UncountedIsOpen
<1>1. MaterialTypeOK'
  <2>1. matPending' \in 0 .. Cardinality(Libraries)
    <3>1. Cardinality(Libraries) \in Nat
      BY MaterialAssumption, FS_CardinalityType
    <3>2. matPending' = matPending - 1 /\ matPending \in 0 .. Cardinality(Libraries)
      BY DEF LibraryError, MaterialTypeOK
    <3> QED BY <1>b, <3>1, <3>2
  <2>2. matPc' \in [MatThreads -> ClientPlaces \cup LibraryPlaces \cup TexturePlaces]
    BY DEF LibraryError, MaterialTypeOK, PlacesInv, Outcome, ClientPlaces, LibraryPlaces,
       TexturePlaces, Procedures, LoadingPlaces
  <2>3. \A u \in MatThreads : matMutex' = u <=> matPc'[u] = "relock"
    BY DEF LibraryError, MaterialTypeOK, PlacesInv, Outcome, ClientPlaces, LibraryPlaces,
       TexturePlaces, Procedures, LoadingPlaces
  <2> QED BY <2>1, <2>2, <2>3 DEF LibraryError, MaterialTypeOK
<1>2. PlacesInv'
  BY DEF LibraryError, MaterialTypeOK, PlacesInv, Outcome, ClientPlaces, LibraryPlaces,
     TexturePlaces, Procedures, LoadingPlaces
<1>3. AskingInv'
  BY DEF LibraryError, MaterialTypeOK, PlacesInv, AskingInv, Outcome, ClientPlaces, LibraryPlaces,
     TexturePlaces, Procedures, LoadingPlaces
<1>4. CountInv'
  <2>1. Uncounted(t) /\ ~Uncounted(t)' /\ \A u \in MatThreads : u # t => (Uncounted(u)' <=> Uncounted(u))
    BY DEF LibraryError, Uncounted, AskingInv, MaterialTypeOK, PlacesInv, Outcome, ClientPlaces,
       LibraryPlaces, TexturePlaces, Procedures, LoadingPlaces
  <2>2. t \in Open /\ Open' = Open \ {t}
    BY <2>1 DEF LibraryError, Open, PlacesInv, AskingInv, MaterialTypeOK, Procedures, LoadingPlaces
  <2>3. matPending' = matPending - 1
    BY DEF LibraryError
  <2>4. IsFiniteSet(Open') /\ matPending' = Cardinality(Open') /\ matPending > 0
    BY <2>2, <2>3, CountsDown DEF CountInv
  <2>5. \A u \in MatThreads : matPc'[u] # "try_raise"
    BY <2>4 DEF LibraryError, CountInv, MaterialTypeOK, PlacesInv, Outcome, ClientPlaces,
       LibraryPlaces, TexturePlaces, Procedures, LoadingPlaces
  <2> QED BY <2>4, <2>5 DEF CountInv
<1>5. DescriptionInv'
  BY DEF LibraryError, MaterialTypeOK, PlacesInv, AskingInv, DescriptionInv, Outcome
<1>6. NotFoundIsTrue'
  BY DEF LibraryError, MaterialTypeOK, NotFoundIsTrue, OutcomeInv, Outcome
<1>7. ReadyHasTextures'
  BY DEF LibraryError, MaterialTypeOK, ReadyHasTextures, OutcomeInv, Outcome
<1>8. OutcomeInv'
  BY DEF LibraryError, MaterialTypeOK, ReadyHasTextures, OutcomeInv, Outcome
<1>9. ToldInv'
  BY DEF LibraryError, MaterialTypeOK, OutcomeInv, ToldInv, Outcome
<1> QED BY <1>1, <1>2, <1>3, <1>4, <1>5, <1>6, <1>7, <1>8, <1>9

\* check_load_fails preserves the invariant.
LEMMA CheckLoadFailsSafe ==
  ASSUME MaterialInv, NEW t \in MatThreads, CheckLoadFails(t)
  PROVE  MaterialInv'
<1> USE MaterialThreadKinds DEF MaterialInv, external, asking, object, Goes, Unlocked
<1> USE ResumeFacts
<1>1. MaterialTypeOK'
  BY DEF CheckLoadFails, MaterialTypeOK, PlacesInv, Outcome, ClientPlaces, LibraryPlaces,
     TexturePlaces, Procedures, LoadingPlaces
<1>2. PlacesInv'
  BY DEF CheckLoadFails, MaterialTypeOK, PlacesInv, Outcome, ClientPlaces, LibraryPlaces,
     TexturePlaces, Procedures, LoadingPlaces
<1>3. AskingInv'
  BY DEF CheckLoadFails, MaterialTypeOK, PlacesInv, AskingInv, Outcome, ClientPlaces,
     LibraryPlaces, TexturePlaces, Procedures, LoadingPlaces
<1>4. CountInv'
  <2>1. \A u \in MatThreads : Uncounted(u)' <=> Uncounted(u)
    BY DEF CheckLoadFails, Uncounted, AskingInv, MaterialTypeOK, PlacesInv, Outcome, ClientPlaces,
       LibraryPlaces, TexturePlaces, Procedures, LoadingPlaces
  <2>2. Open' = Open
    BY <2>1 DEF CheckLoadFails, Open, PlacesInv
  <2>3. matPending' = matPending
    BY DEF CheckLoadFails
  <2>4. \A u \in MatThreads : matPc'[u] = "try_raise" => matPending' = 0 /\ matState' # "loading"
    BY DEF CheckLoadFails, CountInv, MaterialTypeOK, PlacesInv, Outcome, ClientPlaces,
       LibraryPlaces, TexturePlaces, Procedures, LoadingPlaces
  <2> QED BY <2>2, <2>3, <2>4 DEF CountInv
<1>5. DescriptionInv'
  BY DEF CheckLoadFails, MaterialTypeOK, PlacesInv, AskingInv, DescriptionInv, Outcome
<1>6. NotFoundIsTrue'
  BY DEF CheckLoadFails, MaterialTypeOK, NotFoundIsTrue, OutcomeInv, Outcome
<1>7. ReadyHasTextures'
  BY DEF CheckLoadFails, MaterialTypeOK, ReadyHasTextures, OutcomeInv, Outcome
<1>8. OutcomeInv'
  BY DEF CheckLoadFails, MaterialTypeOK, ReadyHasTextures, OutcomeInv, Outcome
<1>9. ToldInv'
  BY DEF CheckLoadFails, MaterialTypeOK, OutcomeInv, ToldInv, Outcome
<1> QED BY <1>1, <1>2, <1>3, <1>4, <1>5, <1>6, <1>7, <1>8, <1>9

\* Saying that the material was not found preserves the invariant.
LEMMA TryRaiseSafe ==
  ASSUME MaterialInv, NEW t \in MatThreads, TryRaise(t)
  PROVE  MaterialInv'
<1> USE MaterialThreadKinds DEF MaterialInv, external, asking, object, Goes, Unlocked
<1> USE ResumeFacts
<1>1. MaterialTypeOK'
  BY DEF TryRaise, MaterialTypeOK, PlacesInv, Outcome, ClientPlaces, LibraryPlaces, TexturePlaces,
     Procedures, LoadingPlaces
<1>2. PlacesInv'
  BY DEF TryRaise, MaterialTypeOK, PlacesInv, Outcome, ClientPlaces, LibraryPlaces, TexturePlaces,
     Procedures, LoadingPlaces
<1>3. AskingInv'
  BY DEF TryRaise, MaterialTypeOK, PlacesInv, AskingInv, Outcome, ClientPlaces, LibraryPlaces,
     TexturePlaces, Procedures, LoadingPlaces
<1>4. CountInv'
  <2>1. \A u \in MatThreads : Uncounted(u)' <=> Uncounted(u)
    BY DEF TryRaise, Uncounted, AskingInv, MaterialTypeOK, PlacesInv, Outcome, ClientPlaces,
       LibraryPlaces, TexturePlaces, Procedures, LoadingPlaces
  <2>2. Open' = Open
    BY <2>1 DEF TryRaise, Open, PlacesInv
  <2>3. matPending' = matPending
    BY DEF TryRaise
  <2>4. \A u \in MatThreads : matPc'[u] = "try_raise" => matPending' = 0 /\ matState' # "loading"
    BY DEF TryRaise, CountInv, MaterialTypeOK, PlacesInv, Outcome, ClientPlaces, LibraryPlaces,
       TexturePlaces, Procedures, LoadingPlaces
  <2> QED BY <2>2, <2>3, <2>4 DEF CountInv
<1>5. DescriptionInv'
  BY DEF TryRaise, MaterialTypeOK, PlacesInv, AskingInv, DescriptionInv, Outcome
<1>6. NotFoundIsTrue'
  <2>1. CASE matState \in Outcome
    BY <2>1 DEF TryRaise, MaterialTypeOK, NotFoundIsTrue, OutcomeInv, Outcome
  <2>2. CASE matState \notin Outcome
    <3>1. matPending = 0 /\ matState # "loading" /\ UNCHANGED <<hasEntry, libState, matAsked>>
      BY DEF TryRaise, CountInv
    <3>2. \A u \in MatThreads : ~Uncounted(u)
      BY <3>1, UncountedIsOpen
    <3>3. matToAsk = {} /\ matExpired = {} /\ \A l \in libWaits : libState[l] # "loading"
      BY <3>1, NoneIsOpen DEF Open
    <3>4. CASE matState = "initial"
      <4>1. \A u \in MatThreads : matPc[u] \in {"offer", "start"} => matRwLock = u
        BY <3>2 DEF Uncounted
      <4>2. \A l \in matAsked \cap hasEntry : libState[l] = "error"
        BY <3>3, <3>4, <4>1 DEF DescriptionInv, MaterialTypeOK
      <4> QED BY <3>1, <4>2 DEF NotFoundIsTrue
    <3>5. CASE matState = "absent"
      BY <3>1, <3>5 DEF AskingInv, NotFoundIsTrue
    <3> QED BY <2>2, <3>1, <3>4, <3>5 DEF MaterialTypeOK
  <2> QED BY <2>1, <2>2
<1>7. ReadyHasTextures'
  BY DEF TryRaise, MaterialTypeOK, ReadyHasTextures, OutcomeInv, Outcome
<1>8. OutcomeInv'
  BY DEF TryRaise, MaterialTypeOK, ReadyHasTextures, OutcomeInv, Outcome
<1>9. ToldInv'
  BY DEF TryRaise, MaterialTypeOK, OutcomeInv, ToldInv, Outcome
<1> QED BY <1>1, <1>2, <1>3, <1>4, <1>5, <1>6, <1>7, <1>8, <1>9

\* Winning or losing the exchange of the state preserves the invariant.
LEMMA StartLoadingSafe ==
  ASSUME MaterialInv, NEW t \in MatThreads, StartLoading(t)
  PROVE  MaterialInv'
<1> USE MaterialThreadKinds DEF MaterialInv, external, asking, object, Goes, Unlocked
<1>1. MaterialTypeOK'
  BY DEF StartLoading, MaterialTypeOK, PlacesInv, Outcome, ClientPlaces, LibraryPlaces,
     TexturePlaces, Procedures, LoadingPlaces
<1>2. PlacesInv'
  BY MaterialAssumption DEF StartLoading, MaterialTypeOK, PlacesInv, Outcome, ClientPlaces,
     LibraryPlaces, TexturePlaces, Procedures, LoadingPlaces
<1>3. AskingInv'
  BY DEF StartLoading, MaterialTypeOK, PlacesInv, AskingInv, Outcome, ClientPlaces, LibraryPlaces,
     TexturePlaces, Procedures, LoadingPlaces
<1>4. CountInv'
  <2>1. \A u \in MatThreads : Uncounted(u)' <=> Uncounted(u)
    BY DEF StartLoading, Uncounted, AskingInv, MaterialTypeOK, PlacesInv, Outcome, ClientPlaces,
       LibraryPlaces, TexturePlaces, Procedures, LoadingPlaces
  <2>2. Open' = Open
    BY <2>1 DEF StartLoading, Open, PlacesInv
  <2>3. \A u \in MatThreads : matPc'[u] = "try_raise" => matPending' = 0 /\ matState' # "loading"
    <3> SUFFICES ASSUME NEW u \in MatThreads, matPc[u] = "try_raise" PROVE matPending = 0 /\ matState' # "loading"
      BY DEF StartLoading, MaterialTypeOK
    <3>1. matPending = 0 /\ matState # "loading"
      BY DEF CountInv
    <3>2. ~Uncounted(t)
      BY <3>1, UncountedIsOpen
    <3>3. matRwLock = t /\ t \in MatClients
      BY <3>2 DEF StartLoading, Uncounted, MaterialTypeOK
    <3>4. matAsked = {} /\ libWaits = {}
      BY <3>3 DEF AskingInv
    <3>5. u \in MatClients /\ matRwLock = u
      BY <3>4 DEF AskingInv, MaterialTypeOK, PlacesInv, Outcome, ClientPlaces, LibraryPlaces,
         TexturePlaces, Procedures, LoadingPlaces
    <3> QED BY <3>3, <3>5 DEF StartLoading
  <2> QED BY <2>2, <2>3 DEF StartLoading, CountInv
<1>5. DescriptionInv'
  BY DEF StartLoading, MaterialTypeOK, PlacesInv, AskingInv, DescriptionInv, Outcome
<1>6. NotFoundIsTrue'
  BY DEF StartLoading, MaterialTypeOK, NotFoundIsTrue, OutcomeInv, Outcome
<1>7. ReadyHasTextures'
  BY DEF StartLoading, MaterialTypeOK, ReadyHasTextures, OutcomeInv, Outcome
<1>8. OutcomeInv'
  BY DEF StartLoading, MaterialTypeOK, ReadyHasTextures, OutcomeInv, Outcome
<1>9. ToldInv'
  BY DEF StartLoading, MaterialTypeOK, OutcomeInv, ToldInv, Outcome
<1> QED BY <1>1, <1>2, <1>3, <1>4, <1>5, <1>6, <1>7, <1>8, <1>9

\* Loading a texture preserves the invariant.
LEMMA LoadTextureSafe ==
  ASSUME MaterialInv, NEW t \in MatThreads, LoadTexture(t)
  PROVE  MaterialInv'
<1> USE MaterialThreadKinds DEF MaterialInv, external, asking, object, Goes, Unlocked
<1>1. MaterialTypeOK'
  <2>1. matIdx[t] \in TextureMaps /\ TextureOf[matIdx[t]] \in Textures
    BY MaterialAssumption DEF LoadTexture, PlacesInv
  <2> QED BY <2>1 DEF LoadTexture, MaterialTypeOK, PlacesInv, Outcome, ClientPlaces,
     LibraryPlaces, TexturePlaces, Procedures, LoadingPlaces
<1>2. PlacesInv'
  BY DEF LoadTexture, MaterialTypeOK, PlacesInv, Outcome, ClientPlaces, LibraryPlaces,
     TexturePlaces, Procedures, LoadingPlaces
<1>3. AskingInv'
  BY DEF LoadTexture, MaterialTypeOK, PlacesInv, AskingInv, Outcome, ClientPlaces, LibraryPlaces,
     TexturePlaces, Procedures, LoadingPlaces
<1>4. CountInv'
  <2>1. \A u \in MatThreads : Uncounted(u)' <=> Uncounted(u)
    BY DEF LoadTexture, Uncounted, AskingInv, MaterialTypeOK, PlacesInv, Outcome, ClientPlaces,
       LibraryPlaces, TexturePlaces, Procedures, LoadingPlaces
  <2>2. Open' = Open
    BY <2>1 DEF LoadTexture, Open, PlacesInv
  <2>3. matPending' = matPending
    BY DEF LoadTexture
  <2>4. \A u \in MatThreads : matPc'[u] = "try_raise" => matPending' = 0 /\ matState' # "loading"
    BY DEF LoadTexture, CountInv, MaterialTypeOK, PlacesInv, Outcome, ClientPlaces, LibraryPlaces,
       TexturePlaces, Procedures, LoadingPlaces
  <2> QED BY <2>2, <2>3, <2>4 DEF CountInv
<1>5. DescriptionInv'
  BY DEF LoadTexture, MaterialTypeOK, PlacesInv, AskingInv, DescriptionInv, Outcome
<1>6. NotFoundIsTrue'
  BY DEF LoadTexture, MaterialTypeOK, NotFoundIsTrue, OutcomeInv, Outcome
<1>7. ReadyHasTextures'
  BY DEF LoadTexture, MaterialTypeOK, ReadyHasTextures, OutcomeInv, Outcome
<1>8. OutcomeInv'
  <2>1. matIdx[t] \in TextureMaps /\ TextureOf[matIdx[t]] \in Textures
    BY MaterialAssumption DEF LoadTexture, PlacesInv
  <2>2. \A x \in Textures : texState[x] = "error" => texState'[x] = "error"
    BY <2>1 DEF LoadTexture, MaterialTypeOK
  <2>3. \A i \in TextureMaps : TextureOf[i] \in Textures
    BY MaterialAssumption
  <2>4. matPc'[t] = "raise" => texState[TextureOf[matIdx[t]]] = "error"
    BY DEF LoadTexture, MaterialTypeOK
  <2>5. \A u \in MatThreads : u # t => matPc'[u] = matPc[u]
    BY DEF LoadTexture, MaterialTypeOK
  <2>6. matState' = matState /\ matExpired' = matExpired /\ matPc'[t] \notin {"run_ready", "sync_error", "run_error"}
    BY DEF LoadTexture, MaterialTypeOK
  <2>7. \A u \in MatThreads : matPc'[u] = "raise" => u \in matExpired' \/ \E i \in TextureMaps : texState'[TextureOf[i]] = "error"
    BY <2>1, <2>2, <2>3, <2>4, <2>5, <2>6 DEF OutcomeInv
  <2> QED BY <2>5, <2>6, <2>7 DEF OutcomeInv
<1>9. ToldInv'
  BY DEF LoadTexture, MaterialTypeOK, OutcomeInv, ToldInv, Outcome
<1> QED BY <1>1, <1>2, <1>3, <1>4, <1>5, <1>6, <1>7, <1>8, <1>9

\* Assigning a texture preserves the invariant.
LEMMA AssignMapSafe ==
  ASSUME MaterialInv, NEW t \in MatThreads, AssignMap(t)
  PROVE  MaterialInv'
<1> USE MaterialThreadKinds DEF MaterialInv, external, asking, object, Goes, Unlocked
<1>1. MaterialTypeOK'
  BY DEF AssignMap, MaterialTypeOK, PlacesInv, Outcome, ClientPlaces, LibraryPlaces,
     TexturePlaces, Procedures, LoadingPlaces
<1>2. PlacesInv'
  BY DEF AssignMap, MaterialTypeOK, PlacesInv, Outcome, ClientPlaces, LibraryPlaces,
     TexturePlaces, Procedures, LoadingPlaces
<1>3. AskingInv'
  BY DEF AssignMap, MaterialTypeOK, PlacesInv, AskingInv, Outcome, ClientPlaces, LibraryPlaces,
     TexturePlaces, Procedures, LoadingPlaces
<1>4. CountInv'
  <2>1. \A u \in MatThreads : Uncounted(u)' <=> Uncounted(u)
    BY DEF AssignMap, Uncounted, AskingInv, MaterialTypeOK, PlacesInv, Outcome, ClientPlaces,
       LibraryPlaces, TexturePlaces, Procedures, LoadingPlaces
  <2>2. Open' = Open
    BY <2>1 DEF AssignMap, Open, PlacesInv
  <2>3. matPending' = matPending
    BY DEF AssignMap
  <2>4. \A u \in MatThreads : matPc'[u] = "try_raise" => matPending' = 0 /\ matState' # "loading"
    BY DEF AssignMap, CountInv, MaterialTypeOK, PlacesInv, Outcome, ClientPlaces, LibraryPlaces,
       TexturePlaces, Procedures, LoadingPlaces
  <2> QED BY <2>2, <2>3, <2>4 DEF CountInv
<1>5. DescriptionInv'
  BY DEF AssignMap, MaterialTypeOK, PlacesInv, AskingInv, DescriptionInv, Outcome
<1>6. NotFoundIsTrue'
  BY DEF AssignMap, MaterialTypeOK, NotFoundIsTrue, OutcomeInv, Outcome
<1>7. ReadyHasTextures'
  <2>1. matIdx[t] \in TextureMaps
    BY DEF AssignMap, PlacesInv
  <2> QED BY <2>1 DEF AssignMap, MaterialTypeOK, ReadyHasTextures, OutcomeInv, Outcome
<1>8. OutcomeInv'
  BY DEF AssignMap, MaterialTypeOK, ReadyHasTextures, OutcomeInv, Outcome
<1>9. ToldInv'
  BY DEF AssignMap, MaterialTypeOK, OutcomeInv, ToldInv, Outcome
<1> QED BY <1>1, <1>2, <1>3, <1>4, <1>5, <1>6, <1>7, <1>8, <1>9

\* Having asked for the textures preserves the invariant.
LEMMA StartedSafe ==
  ASSUME MaterialInv, NEW t \in MatThreads, Started(t)
  PROVE  MaterialInv'
<1> USE MaterialThreadKinds DEF MaterialInv, external, asking, object, Goes, Unlocked
<1>1. MaterialTypeOK'
  <2>1. CASE matRwLock = t
    BY <2>1 DEF Started, MaterialTypeOK, PlacesInv, Outcome, ClientPlaces, LibraryPlaces,
       TexturePlaces, Procedures, LoadingPlaces
  <2>2. CASE matRwLock # t
    <3>a. Uncounted(t)
      BY <2>2 DEF Started, Uncounted, PlacesInv
    <3>b. matPending \in Nat /\ matPending > 0
      BY <3>a, UncountedIsOpen
    <3>1. matPending' \in 0 .. Cardinality(Libraries)
      <4>1. Cardinality(Libraries) \in Nat
        BY MaterialAssumption, FS_CardinalityType
      <4>2. matPending' = matPending - 1 /\ matPending \in 0 .. Cardinality(Libraries)
        BY <2>2 DEF Started, MaterialTypeOK
      <4> QED BY <3>b, <4>1, <4>2
    <3>2. matPc' \in [MatThreads -> ClientPlaces \cup LibraryPlaces \cup TexturePlaces]
      BY <2>2 DEF Started, MaterialTypeOK, PlacesInv, Outcome, ClientPlaces, LibraryPlaces,
         TexturePlaces, Procedures, LoadingPlaces
    <3>3. \A u \in MatThreads : matMutex' = u <=> matPc'[u] = "relock"
      BY <2>2 DEF Started, MaterialTypeOK, PlacesInv, Outcome, ClientPlaces, LibraryPlaces,
         TexturePlaces, Procedures, LoadingPlaces
    <3> QED BY <2>2, <3>1, <3>2, <3>3 DEF Started, MaterialTypeOK
  <2> QED BY <2>1, <2>2
<1>2. PlacesInv'
  BY DEF Started, MaterialTypeOK, PlacesInv, Outcome, ClientPlaces, LibraryPlaces, TexturePlaces,
     Procedures, LoadingPlaces
<1>3. AskingInv'
  BY DEF Started, MaterialTypeOK, PlacesInv, AskingInv, Outcome, ClientPlaces, LibraryPlaces,
     TexturePlaces, Procedures, LoadingPlaces
<1>4. CountInv'
  <2>1. /\ matPc[t] = "started" /\ matIdx[t] # 0 /\ matIdx' = [matIdx EXCEPT ![t] = 0]
        /\ UNCHANGED <<matToAsk, matExpired, libWaits, libState, matState>>
    BY DEF Started, PlacesInv
  <2>2. matPc'[t] # "try_raise" /\ matPc'[t] \notin {"offer", "miss", "start", "lib_error"}
    BY DEF Started, MaterialTypeOK
  <2>3. ~Uncounted(t)'
    BY <2>1, <2>2 DEF Uncounted, MaterialTypeOK
  <2>4. \A u \in MatThreads : u # t => (Uncounted(u)' <=> Uncounted(u)) /\ matPc'[u] = matPc[u]
    BY DEF Started, Uncounted, MaterialTypeOK
  <2>5. CASE matRwLock = t
    <3>1. ~Uncounted(t) /\ matPending' = matPending
      BY <2>5 DEF Started, Uncounted
    <3>2. Open' = Open
      BY <2>1, <2>3, <2>4, <3>1 DEF Open
    <3> QED BY <2>1, <2>2, <2>4, <3>1, <3>2 DEF CountInv
  <2>6. CASE matRwLock # t
    <3>1. Uncounted(t) /\ matPending' = matPending - 1
      BY <2>1, <2>6 DEF Started, Uncounted
    <3>2. t \in Open /\ matPending > 0
      BY <3>1, UncountedIsOpen
    <3>3. t \notin matToAsk /\ t \notin matExpired /\ ~(t \in libWaits /\ libState[t] = "loading")
      BY <2>1 DEF PlacesInv, AskingInv, MaterialTypeOK, Procedures, LoadingPlaces
    <3>4. Open' = Open \ {t}
      BY <2>1, <2>3, <2>4, <3>3 DEF Open
    <3>5. IsFiniteSet(Open') /\ matPending' = Cardinality(Open')
      BY <3>1, <3>2, <3>4, CountsDown DEF CountInv
    <3> QED BY <2>2, <2>4, <3>2, <3>5 DEF CountInv
  <2> QED BY <2>5, <2>6
<1>5. DescriptionInv'
  BY DEF Started, MaterialTypeOK, PlacesInv, AskingInv, DescriptionInv, Outcome
<1>6. NotFoundIsTrue'
  BY DEF Started, MaterialTypeOK, NotFoundIsTrue, OutcomeInv, Outcome
<1>7. ReadyHasTextures'
  BY DEF Started, MaterialTypeOK, ReadyHasTextures, OutcomeInv, Outcome
<1>8. OutcomeInv'
  BY DEF Started, MaterialTypeOK, ReadyHasTextures, OutcomeInv, Outcome
<1>9. ToldInv'
  BY DEF Started, MaterialTypeOK, OutcomeInv, ToldInv, Outcome
<1> QED BY <1>1, <1>2, <1>3, <1>4, <1>5, <1>6, <1>7, <1>8, <1>9

\* texture_loaded preserves the invariant.
LEMMA TextureLoadedSafe ==
  ASSUME MaterialInv, NEW t \in MatThreads, TextureLoaded(t)
  PROVE  MaterialInv'
<1> USE MaterialThreadKinds DEF MaterialInv, external, asking, object, Goes, Unlocked
<1> USE ResumeFacts
<1>1. MaterialTypeOK'
  BY DEF TextureLoaded, AllReady, IsReady, ReadsUnassigned, MaterialTypeOK, PlacesInv, Outcome,
     ClientPlaces, LibraryPlaces, TexturePlaces, Procedures, LoadingPlaces
<1>2. PlacesInv'
  BY DEF TextureLoaded, AllReady, IsReady, ReadsUnassigned, MaterialTypeOK, PlacesInv, Outcome,
     ClientPlaces, LibraryPlaces, TexturePlaces, Procedures, LoadingPlaces
<1>3. AskingInv'
  BY DEF TextureLoaded, AllReady, IsReady, ReadsUnassigned, MaterialTypeOK, PlacesInv, AskingInv,
     Outcome, ClientPlaces, LibraryPlaces, TexturePlaces, Procedures, LoadingPlaces
<1>4. CountInv'
  <2>1. \A u \in MatThreads : Uncounted(u)' <=> Uncounted(u)
    BY DEF TextureLoaded, AllReady, IsReady, ReadsUnassigned, Uncounted, AskingInv,
       MaterialTypeOK, PlacesInv, Outcome, ClientPlaces, LibraryPlaces, TexturePlaces, Procedures,
       LoadingPlaces
  <2>2. Open' = Open
    BY <2>1 DEF TextureLoaded, AllReady, IsReady, ReadsUnassigned, Open, PlacesInv
  <2>3. matPending' = matPending
    BY DEF TextureLoaded, AllReady, IsReady, ReadsUnassigned
  <2>4. \A u \in MatThreads : matPc'[u] = "try_raise" => matPending' = 0 /\ matState' # "loading"
    BY DEF TextureLoaded, AllReady, IsReady, ReadsUnassigned, CountInv, MaterialTypeOK, PlacesInv,
       Outcome, ClientPlaces, LibraryPlaces, TexturePlaces, Procedures, LoadingPlaces
  <2> QED BY <2>2, <2>3, <2>4 DEF CountInv
<1>5. DescriptionInv'
  BY DEF TextureLoaded, AllReady, IsReady, ReadsUnassigned, MaterialTypeOK, PlacesInv, AskingInv,
     DescriptionInv, Outcome
<1>6. NotFoundIsTrue'
  BY DEF TextureLoaded, AllReady, IsReady, ReadsUnassigned, MaterialTypeOK, NotFoundIsTrue,
     OutcomeInv, Outcome
<1>7. ReadyHasTextures'
  BY DEF TextureLoaded, AllReady, IsReady, ReadsUnassigned, MaterialTypeOK, ReadyHasTextures,
     OutcomeInv, Outcome
<1>8. OutcomeInv'
  BY DEF TextureLoaded, AllReady, IsReady, ReadsUnassigned, MaterialTypeOK, ReadyHasTextures,
     OutcomeInv, Outcome
<1>9. ToldInv'
  BY DEF TextureLoaded, AllReady, IsReady, ReadsUnassigned, MaterialTypeOK, OutcomeInv, ToldInv,
     Outcome
<1> QED BY <1>1, <1>2, <1>3, <1>4, <1>5, <1>6, <1>7, <1>8, <1>9

\* A texture error preserves the invariant.
LEMMA RaiseMaterialErrorSafe ==
  ASSUME MaterialInv, NEW t \in MatThreads, RaiseMaterialError(t)
  PROVE  MaterialInv'
<1> USE MaterialThreadKinds DEF MaterialInv, external, asking, object, Goes, Unlocked
<1>1. MaterialTypeOK'
  BY DEF RaiseMaterialError, MaterialTypeOK, PlacesInv, Outcome, ClientPlaces, LibraryPlaces,
     TexturePlaces, Procedures, LoadingPlaces
<1>2. PlacesInv'
  BY DEF RaiseMaterialError, MaterialTypeOK, PlacesInv, Outcome, ClientPlaces, LibraryPlaces,
     TexturePlaces, Procedures, LoadingPlaces
<1>3. AskingInv'
  BY DEF RaiseMaterialError, MaterialTypeOK, PlacesInv, AskingInv, Outcome, ClientPlaces,
     LibraryPlaces, TexturePlaces, Procedures, LoadingPlaces
<1>4. CountInv'
  <2>1. \A u \in MatThreads : Uncounted(u)' <=> Uncounted(u)
    BY DEF RaiseMaterialError, Uncounted, AskingInv, MaterialTypeOK, PlacesInv, Outcome,
       ClientPlaces, LibraryPlaces, TexturePlaces, Procedures, LoadingPlaces
  <2>2. Open' = Open
    BY <2>1 DEF RaiseMaterialError, Open, PlacesInv
  <2>3. matPending' = matPending
    BY DEF RaiseMaterialError
  <2>4. \A u \in MatThreads : matPc'[u] = "try_raise" => matPending' = 0 /\ matState' # "loading"
    BY DEF RaiseMaterialError, CountInv, MaterialTypeOK, PlacesInv, Outcome, ClientPlaces,
       LibraryPlaces, TexturePlaces, Procedures, LoadingPlaces
  <2> QED BY <2>2, <2>3, <2>4 DEF CountInv
<1>5. DescriptionInv'
  BY DEF RaiseMaterialError, MaterialTypeOK, PlacesInv, AskingInv, DescriptionInv, Outcome
<1>6. NotFoundIsTrue'
  <2>1. matExpired # {} \/ \E x \in Textures : texState[x] = "error"
    BY MaterialAssumption DEF RaiseMaterialError, OutcomeInv
  <2> QED BY <2>1 DEF RaiseMaterialError, NotFoundIsTrue
<1>7. ReadyHasTextures'
  BY DEF RaiseMaterialError, MaterialTypeOK, ReadyHasTextures, OutcomeInv, Outcome
<1>8. OutcomeInv'
  BY DEF RaiseMaterialError, MaterialTypeOK, ReadyHasTextures, OutcomeInv, Outcome
<1>9. ToldInv'
  <2>1. matState # "ready" \/ matExpired # {}
    BY DEF RaiseMaterialError, OutcomeInv, ReadyHasTextures
  <2> QED BY <2>1 DEF RaiseMaterialError, MaterialTypeOK, OutcomeInv, ToldInv, Outcome
<1> QED BY <1>1, <1>2, <1>3, <1>4, <1>5, <1>6, <1>7, <1>8, <1>9

\* Waiting for registrations under way preserves the invariant.
LEMMA SyncErrorSafe ==
  ASSUME MaterialInv, NEW t \in MatThreads, SyncError(t)
  PROVE  MaterialInv'
<1> USE MaterialThreadKinds DEF MaterialInv, external, asking, object, Goes, Unlocked
<1>1. MaterialTypeOK'
  BY DEF SyncError, MaterialTypeOK, PlacesInv, Outcome, ClientPlaces, LibraryPlaces,
     TexturePlaces, Procedures, LoadingPlaces
<1>2. PlacesInv'
  BY DEF SyncError, MaterialTypeOK, PlacesInv, Outcome, ClientPlaces, LibraryPlaces,
     TexturePlaces, Procedures, LoadingPlaces
<1>3. AskingInv'
  BY DEF SyncError, MaterialTypeOK, PlacesInv, AskingInv, Outcome, ClientPlaces, LibraryPlaces,
     TexturePlaces, Procedures, LoadingPlaces
<1>4. CountInv'
  <2>1. \A u \in MatThreads : Uncounted(u)' <=> Uncounted(u)
    BY DEF SyncError, Uncounted, AskingInv, MaterialTypeOK, PlacesInv, Outcome, ClientPlaces,
       LibraryPlaces, TexturePlaces, Procedures, LoadingPlaces
  <2>2. Open' = Open
    BY <2>1 DEF SyncError, Open, PlacesInv
  <2>3. matPending' = matPending
    BY DEF SyncError
  <2>4. \A u \in MatThreads : matPc'[u] = "try_raise" => matPending' = 0 /\ matState' # "loading"
    BY DEF SyncError, CountInv, MaterialTypeOK, PlacesInv, Outcome, ClientPlaces, LibraryPlaces,
       TexturePlaces, Procedures, LoadingPlaces
  <2> QED BY <2>2, <2>3, <2>4 DEF CountInv
<1>5. DescriptionInv'
  BY DEF SyncError, MaterialTypeOK, PlacesInv, AskingInv, DescriptionInv, Outcome
<1>6. NotFoundIsTrue'
  BY DEF SyncError, MaterialTypeOK, NotFoundIsTrue, OutcomeInv, Outcome
<1>7. ReadyHasTextures'
  BY DEF SyncError, MaterialTypeOK, ReadyHasTextures, OutcomeInv, Outcome
<1>8. OutcomeInv'
  BY DEF SyncError, MaterialTypeOK, ReadyHasTextures, OutcomeInv, Outcome
<1>9. ToldInv'
  BY DEF SyncError, MaterialTypeOK, OutcomeInv, ToldInv, Outcome
<1> QED BY <1>1, <1>2, <1>3, <1>4, <1>5, <1>6, <1>7, <1>8, <1>9

\* Running a handler preserves the invariant.
LEMMA RunMatHandlerSafe ==
  ASSUME MaterialInv, NEW t \in MatThreads, NEW c \in MatClients, RunMatHandler(t, c)
  PROVE  MaterialInv'
<1> USE MaterialThreadKinds DEF MaterialInv, external, asking, object, Goes, Unlocked
<1>1. MaterialTypeOK'
  BY DEF RunMatHandler, Running, MaterialTypeOK, PlacesInv, Outcome, ClientPlaces, LibraryPlaces,
     TexturePlaces, Procedures, LoadingPlaces
<1>2. PlacesInv'
  BY DEF RunMatHandler, Running, MaterialTypeOK, PlacesInv, Outcome, ClientPlaces, LibraryPlaces,
     TexturePlaces, Procedures, LoadingPlaces
<1>3. AskingInv'
  BY DEF RunMatHandler, Running, MaterialTypeOK, PlacesInv, AskingInv, Outcome, ClientPlaces,
     LibraryPlaces, TexturePlaces, Procedures, LoadingPlaces
<1>4. CountInv'
  <2>1. \A u \in MatThreads : Uncounted(u)' <=> Uncounted(u)
    BY DEF RunMatHandler, Running, Uncounted, AskingInv, MaterialTypeOK, PlacesInv, Outcome,
       ClientPlaces, LibraryPlaces, TexturePlaces, Procedures, LoadingPlaces
  <2>2. Open' = Open
    BY <2>1 DEF RunMatHandler, Running, Open, PlacesInv
  <2>3. matPending' = matPending
    BY DEF RunMatHandler, Running
  <2>4. \A u \in MatThreads : matPc'[u] = "try_raise" => matPending' = 0 /\ matState' # "loading"
    BY DEF RunMatHandler, Running, CountInv, MaterialTypeOK, PlacesInv, Outcome, ClientPlaces,
       LibraryPlaces, TexturePlaces, Procedures, LoadingPlaces
  <2> QED BY <2>2, <2>3, <2>4 DEF CountInv
<1>5. DescriptionInv'
  BY DEF RunMatHandler, Running, MaterialTypeOK, PlacesInv, AskingInv, DescriptionInv, Outcome
<1>6. NotFoundIsTrue'
  BY DEF RunMatHandler, Running, MaterialTypeOK, NotFoundIsTrue, OutcomeInv, Outcome
<1>7. ReadyHasTextures'
  BY DEF RunMatHandler, Running, MaterialTypeOK, ReadyHasTextures, OutcomeInv, Outcome
<1>8. OutcomeInv'
  BY DEF RunMatHandler, Running, MaterialTypeOK, ReadyHasTextures, OutcomeInv, Outcome
<1>9. ToldInv'
  BY DEF RunMatHandler, Running, MaterialTypeOK, OutcomeInv, ToldInv, Outcome
<1> QED BY <1>1, <1>2, <1>3, <1>4, <1>5, <1>6, <1>7, <1>8, <1>9

\* Having run the handlers preserves the invariant.
LEMMA HandlersDoneSafe ==
  ASSUME MaterialInv, NEW t \in MatThreads, HandlersDone(t)
  PROVE  MaterialInv'
<1> USE MaterialThreadKinds DEF MaterialInv, external, asking, object, Goes, Unlocked
<1> USE ResumeFacts
<1>1. MaterialTypeOK'
  BY DEF HandlersDone, Running, MaterialTypeOK, PlacesInv, Outcome, ClientPlaces, LibraryPlaces,
     TexturePlaces, Procedures, LoadingPlaces
<1>2. PlacesInv'
  BY DEF HandlersDone, Running, MaterialTypeOK, PlacesInv, Outcome, ClientPlaces, LibraryPlaces,
     TexturePlaces, Procedures, LoadingPlaces
<1>3. AskingInv'
  BY DEF HandlersDone, Running, MaterialTypeOK, PlacesInv, AskingInv, Outcome, ClientPlaces,
     LibraryPlaces, TexturePlaces, Procedures, LoadingPlaces
<1>4. CountInv'
  <2>1. \A u \in MatThreads : Uncounted(u)' <=> Uncounted(u)
    BY DEF HandlersDone, Running, Uncounted, AskingInv, MaterialTypeOK, PlacesInv, Outcome,
       ClientPlaces, LibraryPlaces, TexturePlaces, Procedures, LoadingPlaces
  <2>2. Open' = Open
    BY <2>1 DEF HandlersDone, Running, Open, PlacesInv
  <2>3. matPending' = matPending
    BY DEF HandlersDone, Running
  <2>4. \A u \in MatThreads : matPc'[u] = "try_raise" => matPending' = 0 /\ matState' # "loading"
    BY DEF HandlersDone, Running, CountInv, MaterialTypeOK, PlacesInv, Outcome, ClientPlaces,
       LibraryPlaces, TexturePlaces, Procedures, LoadingPlaces
  <2> QED BY <2>2, <2>3, <2>4 DEF CountInv
<1>5. DescriptionInv'
  BY DEF HandlersDone, Running, MaterialTypeOK, PlacesInv, AskingInv, DescriptionInv, Outcome
<1>6. NotFoundIsTrue'
  BY DEF HandlersDone, Running, MaterialTypeOK, NotFoundIsTrue, OutcomeInv, Outcome
<1>7. ReadyHasTextures'
  BY DEF HandlersDone, Running, MaterialTypeOK, ReadyHasTextures, OutcomeInv, Outcome
<1>8. OutcomeInv'
  BY DEF HandlersDone, Running, MaterialTypeOK, ReadyHasTextures, OutcomeInv, Outcome
<1>9. ToldInv'
  BY DEF HandlersDone, Running, MaterialTypeOK, OutcomeInv, ToldInv, Outcome
<1> QED BY <1>1, <1>2, <1>3, <1>4, <1>5, <1>6, <1>7, <1>8, <1>9

\* A library that ends preserves the invariant.
LEMMA LibraryEndsSafe ==
  ASSUME MaterialInv, NEW l \in Libraries, LibraryEnds(l)
  PROVE  MaterialInv'
<1> USE MaterialThreadKinds DEF MaterialInv, external, asking, object, Goes, Unlocked
<1>1. MaterialTypeOK'
  BY DEF LibraryEnds, MaterialTypeOK, PlacesInv, Outcome, ClientPlaces, LibraryPlaces,
     TexturePlaces, Procedures, LoadingPlaces
<1>2. PlacesInv'
  BY DEF LibraryEnds, MaterialTypeOK, PlacesInv, Outcome, ClientPlaces, LibraryPlaces,
     TexturePlaces, Procedures, LoadingPlaces
<1>3. AskingInv'
  BY DEF LibraryEnds, MaterialTypeOK, PlacesInv, AskingInv, Outcome, ClientPlaces, LibraryPlaces,
     TexturePlaces, Procedures, LoadingPlaces
<1>4. CountInv'
  <2>1. /\ libState[l] = "loading" /\ matPc[l] = "idle" /\ matIdx[l] = 0 /\ matRwLock # l
        /\ libState'[l] # "loading" /\ \A k \in Libraries : k # l => libState'[k] = libState[k]
        /\ UNCHANGED <<matToAsk, libWaits, matPending, matState, matIdx, matRwLock>>
        /\ matPc'[l] \in {"done", "lib_error", "offer", "miss", "raise"} /\ (matPc'[l] = "done" <=> l \notin libWaits)
        /\ matExpired' = IF matPc'[l] = "raise" THEN matExpired \cup {l} ELSE matExpired
        /\ \A u \in MatThreads : u # l => matPc'[u] = matPc[u]
    BY DEF LibraryEnds, MaterialTypeOK, PlacesInv, Outcome, ClientPlaces, LibraryPlaces,
       TexturePlaces, Procedures, LoadingPlaces
  <2>2. /\ ~Uncounted(l) /\ (Uncounted(l)' <=> l \in libWaits /\ matPc'[l] # "raise")
        /\ \A u \in MatThreads : u # l => (Uncounted(u)' <=> Uncounted(u))
    BY <2>1 DEF Uncounted
  <2>3. Open' = Open
    BY <2>1, <2>2 DEF Open, MaterialTypeOK
  <2> QED BY <2>1, <2>3 DEF CountInv
<1>5. DescriptionInv'
  BY DEF LibraryEnds, MaterialTypeOK, PlacesInv, AskingInv, DescriptionInv, Outcome
<1>6. NotFoundIsTrue'
  BY DEF LibraryEnds, MaterialTypeOK, NotFoundIsTrue, OutcomeInv, Outcome
<1>7. ReadyHasTextures'
  BY DEF LibraryEnds, MaterialTypeOK, ReadyHasTextures, OutcomeInv, Outcome
<1>8. OutcomeInv'
  BY DEF LibraryEnds, MaterialTypeOK, ReadyHasTextures, OutcomeInv, Outcome
<1>9. ToldInv'
  BY DEF LibraryEnds, MaterialTypeOK, OutcomeInv, ToldInv, Outcome
<1> QED BY <1>1, <1>2, <1>3, <1>4, <1>5, <1>6, <1>7, <1>8, <1>9

\* Destroying the manager preserves the invariant.
LEMMA DestroyManagerSafe ==
  ASSUME MaterialInv, DestroyManager
  PROVE  MaterialInv'
<1> USE DEF MaterialInv, DestroyManager, external, asking, object
<1>1. MaterialTypeOK' /\ PlacesInv' /\ AskingInv'
  BY DEF MaterialTypeOK, PlacesInv, AskingInv
<1>2. CountInv' /\ DescriptionInv' /\ NotFoundIsTrue'
  BY DEF CountInv, Open, Uncounted, DescriptionInv, NotFoundIsTrue
<1>3. ReadyHasTextures' /\ OutcomeInv' /\ ToldInv'
  BY DEF ReadyHasTextures, OutcomeInv, ToldInv
<1> QED BY <1>1, <1>2, <1>3

\* A texture that ends preserves the invariant.
LEMMA TextureEndsSafe ==
  ASSUME MaterialInv, NEW x \in Textures, TextureEnds(x)
  PROVE  MaterialInv'
<1> USE MaterialThreadKinds DEF MaterialInv, external, asking, object, Goes, Unlocked
<1>1. MaterialTypeOK'
  BY DEF TextureEnds, MaterialTypeOK, PlacesInv, Outcome, ClientPlaces, LibraryPlaces,
     TexturePlaces, Procedures, LoadingPlaces
<1>2. PlacesInv'
  BY DEF TextureEnds, MaterialTypeOK, PlacesInv, Outcome, ClientPlaces, LibraryPlaces,
     TexturePlaces, Procedures, LoadingPlaces
<1>3. AskingInv'
  BY DEF TextureEnds, MaterialTypeOK, PlacesInv, AskingInv, Outcome, ClientPlaces, LibraryPlaces,
     TexturePlaces, Procedures, LoadingPlaces
<1>4. CountInv'
  <2>1. \A u \in MatThreads : Uncounted(u)' <=> Uncounted(u)
    BY DEF TextureEnds, Uncounted, AskingInv, MaterialTypeOK, PlacesInv, Outcome, ClientPlaces,
       LibraryPlaces, TexturePlaces, Procedures, LoadingPlaces
  <2>2. Open' = Open
    BY <2>1 DEF TextureEnds, Open, PlacesInv
  <2>3. matPending' = matPending
    BY DEF TextureEnds
  <2>4. \A u \in MatThreads : matPc'[u] = "try_raise" => matPending' = 0 /\ matState' # "loading"
    BY DEF TextureEnds, CountInv, MaterialTypeOK, PlacesInv, Outcome, ClientPlaces, LibraryPlaces,
       TexturePlaces, Procedures, LoadingPlaces
  <2> QED BY <2>2, <2>3, <2>4 DEF CountInv
<1>5. DescriptionInv'
  BY DEF TextureEnds, MaterialTypeOK, PlacesInv, AskingInv, DescriptionInv, Outcome
<1>6. NotFoundIsTrue'
  BY DEF TextureEnds, MaterialTypeOK, NotFoundIsTrue, OutcomeInv, Outcome
<1>7. ReadyHasTextures'
  BY DEF TextureEnds, MaterialTypeOK, ReadyHasTextures, OutcomeInv, Outcome
<1>8. OutcomeInv'
  BY DEF TextureEnds, MaterialTypeOK, ReadyHasTextures, OutcomeInv, Outcome
<1>9. ToldInv'
  BY DEF TextureEnds, MaterialTypeOK, OutcomeInv, ToldInv, Outcome
<1> QED BY <1>1, <1>2, <1>3, <1>4, <1>5, <1>6, <1>7, <1>8, <1>9

\* A texture's callbacks preserves the invariant.
LEMMA AnswerTextureSafe ==
  ASSUME MaterialInv, NEW x \in Textures, AnswerTexture(x)
  PROVE  MaterialInv'
<1> USE MaterialThreadKinds DEF MaterialInv, external, asking, object, Goes, Unlocked
<1>1. MaterialTypeOK'
  BY DEF AnswerTexture, MaterialTypeOK, PlacesInv, Outcome, ClientPlaces, LibraryPlaces,
     TexturePlaces, Procedures, LoadingPlaces
<1>2. PlacesInv'
  BY DEF AnswerTexture, MaterialTypeOK, PlacesInv, Outcome, ClientPlaces, LibraryPlaces,
     TexturePlaces, Procedures, LoadingPlaces
<1>3. AskingInv'
  BY DEF AnswerTexture, MaterialTypeOK, PlacesInv, AskingInv, Outcome, ClientPlaces,
     LibraryPlaces, TexturePlaces, Procedures, LoadingPlaces
<1>4. CountInv'
  <2>1. \A u \in MatThreads : Uncounted(u)' <=> Uncounted(u)
    BY DEF AnswerTexture, Uncounted, AskingInv, MaterialTypeOK, PlacesInv, Outcome, ClientPlaces,
       LibraryPlaces, TexturePlaces, Procedures, LoadingPlaces
  <2>2. Open' = Open
    BY <2>1 DEF AnswerTexture, Open, PlacesInv
  <2>3. matPending' = matPending
    BY DEF AnswerTexture
  <2>4. \A u \in MatThreads : matPc'[u] = "try_raise" => matPending' = 0 /\ matState' # "loading"
    BY DEF AnswerTexture, CountInv, MaterialTypeOK, PlacesInv, Outcome, ClientPlaces,
       LibraryPlaces, TexturePlaces, Procedures, LoadingPlaces
  <2> QED BY <2>2, <2>3, <2>4 DEF CountInv
<1>5. DescriptionInv'
  BY DEF AnswerTexture, MaterialTypeOK, PlacesInv, AskingInv, DescriptionInv, Outcome
<1>6. NotFoundIsTrue'
  BY DEF AnswerTexture, MaterialTypeOK, NotFoundIsTrue, OutcomeInv, Outcome
<1>7. ReadyHasTextures'
  BY DEF AnswerTexture, MaterialTypeOK, ReadyHasTextures, OutcomeInv, Outcome
<1>8. OutcomeInv'
  <2>1. matPc'[x] = "raise" => \E i \in TextureMaps : texState[TextureOf[i]] = "error"
    BY DEF AnswerTexture, MaterialTypeOK, PlacesInv, Outcome
  <2>2. \A u \in MatThreads : u # x => matPc'[u] = matPc[u]
    BY DEF AnswerTexture, MaterialTypeOK
  <2>3. /\ matState' = matState /\ matExpired' = matExpired /\ texState' = texState
        /\ matPc'[x] \notin {"run_ready", "sync_error", "run_error"}
    BY DEF AnswerTexture, MaterialTypeOK
  <2> QED BY <2>1, <2>2, <2>3 DEF OutcomeInv
<1>9. ToldInv'
  BY DEF AnswerTexture, MaterialTypeOK, OutcomeInv, ToldInv, Outcome
<1> QED BY <1>1, <1>2, <1>3, <1>4, <1>5, <1>6, <1>7, <1>8, <1>9

\* A step that changes nothing preserves the invariant.
LEMMA MaterialStutter ==
  ASSUME MaterialInv, UNCHANGED matVars
  PROVE  MaterialInv'
<1> USE DEF MaterialInv, matVars, external, asking, object
<1>1. MaterialTypeOK' /\ PlacesInv' /\ AskingInv'
  BY DEF MaterialTypeOK, PlacesInv, AskingInv
<1>2. CountInv' /\ DescriptionInv' /\ NotFoundIsTrue'
  BY DEF CountInv, Open, Uncounted, DescriptionInv, NotFoundIsTrue
<1>3. ReadyHasTextures' /\ OutcomeInv' /\ ToldInv'
  BY DEF ReadyHasTextures, OutcomeInv, ToldInv
<1> QED BY <1>1, <1>2, <1>3

\* The first states satisfy the invariant.
LEMMA MaterialInitial ==
  ASSUME MaterialInit
  PROVE  MaterialInv
<1> USE MaterialThreadKinds DEF Outcome
<1>1. \A t \in MatThreads : matPc[t] \in {"load", "idle"} /\ matIdx[t] = 0 /\ (matPc[t] = "load" <=> t \in MatClients)
  BY DEF MaterialInit
<1>2. Cardinality(Libraries) \in Nat
  BY MaterialAssumption, FS_CardinalityType
<1>3. MaterialTypeOK
  <2>1. matPc \in [MatThreads -> ClientPlaces \cup LibraryPlaces \cup TexturePlaces]
    BY <1>1 DEF MaterialInit, ClientPlaces, LibraryPlaces
  <2>2. \A t \in MatThreads : matMutex = t <=> matPc[t] = "relock"
    BY <1>1 DEF MaterialInit
  <2>3. matTold \in [MatClients -> [Outcome -> Nat]] /\ matPending \in 0 .. Cardinality(Libraries)
    BY <1>2 DEF MaterialInit
  <2>4. /\ libState \in [Libraries -> {"loading"} \cup Outcome]
        /\ texState \in [Textures -> {"absent", "loading"} \cup Outcome]
    BY DEF MaterialInit
  <2> QED BY <2>1, <2>2, <2>3, <2>4 DEF MaterialInit, MaterialTypeOK
<1>4. PlacesInv
  BY <1>1 DEF MaterialInit, PlacesInv, ClientPlaces, LibraryPlaces, TexturePlaces, Procedures,
     LoadingPlaces
<1>5. AskingInv
  BY <1>1 DEF MaterialInit, AskingInv, Procedures, LoadingPlaces
<1>6. Open = {}
  BY <1>1 DEF MaterialInit, Open, Uncounted
<1>7. CountInv
  BY <1>1, <1>6, FS_EmptySet DEF MaterialInit, CountInv
<1>8. DescriptionInv /\ NotFoundIsTrue /\ ReadyHasTextures
  BY DEF MaterialInit, DescriptionInv, NotFoundIsTrue, ReadyHasTextures
<1>9. OutcomeInv /\ ToldInv
  BY <1>1 DEF MaterialInit, OutcomeInv, ToldInv
<1> QED BY <1>3, <1>4, <1>5, <1>7, <1>8, <1>9 DEF MaterialInv

\* The inductive invariant of a material: MaterialInv holds in every state, for any number of
\* clients, libraries and textures.
THEOREM MaterialInvariance == MaterialSpec => []MaterialInv
<1>1. MaterialInit => MaterialInv
  BY MaterialInitial
<1>2. MaterialInv /\ [MaterialNext]_matVars => MaterialInv'
  <2> SUFFICES ASSUME MaterialInv, [MaterialNext]_matVars PROVE MaterialInv'
    OBVIOUS
  <2>1. ASSUME NEW t \in MatThreads, MaterialStep(t) PROVE MaterialInv'
    <3>1. CASE FindMaterial(t) \/ NoSuchMaterial(t) \/ CreateDescribed(t) \/ CreatePending(t) \/ AskedAll(t)
      BY <3>1, FindMaterialSafe, NoSuchMaterialSafe, CreateDescribedSafe, CreatePendingSafe,
         AskedAllSafe
    <3>2. CASE (\E l \in Libraries : AskLibrary(t, l)) \/ (t \in MatClients /\ Register(t))
               \/ \E c \in MatClients : RunMatHandler(t, c)
      BY <3>2, AskLibrarySafe, RegisterSafe, RunMatHandlerSafe
    <3>3. CASE UseDescription(t) \/ CountMiss(t) \/ LibraryError(t) \/ CheckLoadFails(t) \/ TryRaise(t)
      BY <3>3, UseDescriptionSafe, CountMissSafe, LibraryErrorSafe, CheckLoadFailsSafe, TryRaiseSafe
    <3>4. CASE StartLoading(t) \/ LoadTexture(t) \/ AssignMap(t) \/ Started(t)
      BY <3>4, StartLoadingSafe, LoadTextureSafe, AssignMapSafe, StartedSafe
    <3>5. CASE TextureLoaded(t) \/ RaiseMaterialError(t) \/ SyncError(t) \/ HandlersDone(t)
      BY <3>5, TextureLoadedSafe, RaiseMaterialErrorSafe, SyncErrorSafe, HandlersDoneSafe
    <3> QED BY <2>1, <3>1, <3>2, <3>3, <3>4, <3>5 DEF MaterialStep
  <2>2. ASSUME NEW l \in Libraries, LibraryEnds(l) PROVE MaterialInv'
    BY <2>2, LibraryEndsSafe
  <2>3. ASSUME NEW x \in Textures, TextureEnds(x) \/ AnswerTexture(x) PROVE MaterialInv'
    BY <2>3, TextureEndsSafe, AnswerTextureSafe
  <2>4. CASE UNCHANGED matVars
    BY <2>4, MaterialStutter
  <2>5. CASE DestroyManager
    BY <2>5, DestroyManagerSafe
  <2> QED BY <2>1, <2>2, <2>3, <2>4, <2>5 DEF MaterialNext
<1> QED BY <1>1, <1>2, PTL DEF MaterialSpec

\* MaterialSafe: a material that is ready has all its textures; unless a library's callback found the
\* manager expired, no client is told twice that it is, or told both outcomes, and the error is raised
\* only for a failed texture or when every library that was asked and describes it has failed.
THEOREM MaterialCorrect == MaterialSpec => []MaterialSafe
<1>1. MaterialInv => MaterialSafe
  <2> SUFFICES ASSUME MaterialInv PROVE MaterialSafe
    OBVIOUS
  <2>1. MaterialTypeOK /\ ToldInv
    BY DEF MaterialInv
  <2>2. ToldReadyOnce
    <3> SUFFICES ASSUME matExpired = {}, NEW c \in MatClients
                 PROVE  matTold[c]["ready"] <= 1 /\ (matTold[c]["ready"] = 0 \/ matTold[c]["error"] = 0)
      BY DEF ToldReadyOnce
    <3>1. /\ matTold[c]["ready"] \in Nat /\ matTold[c]["error"] \in Nat
          /\ matTold[c]["ready"] > 0 => matState = "ready"
          /\ matTold[c]["error"] > 0 => matState = "error"
      BY <2>1 DEF MaterialTypeOK, ToldInv, Outcome
    <3> QED BY <2>1, <3>1 DEF ToldInv
  <2> QED BY <2>2 DEF MaterialSafe
<1> QED BY <1>1, MaterialInvariance, PTL

(***************************************************************************)
(* RenderFrames                                                            *)
(***************************************************************************)

\* What a sequence holds.
LEMMA SeqFacts ==
  ASSUME NEW S, NEW s \in Seq(S)
  PROVE  Len(s) \in Nat /\ DOMAIN s = 1..Len(s) /\ \A i \in 1..Len(s) : s[i] \in S
OBVIOUS

\* A sequence with one element more.
LEMMA AppendFacts ==
  ASSUME NEW S, NEW s \in Seq(S), NEW e \in S
  PROVE  /\ Append(s, e) \in Seq(S) /\ Len(Append(s, e)) = Len(s) + 1
         /\ DOMAIN Append(s, e) = 1..Len(s) + 1
         /\ \A i \in 1..Len(s) : Append(s, e)[i] = s[i]
         /\ Append(s, e)[Len(s) + 1] = e
OBVIOUS

\* A sequence without its first element.
LEMMA TailFacts ==
  ASSUME NEW S, NEW s \in Seq(S), s # <<>>
  PROVE  /\ Tail(s) \in Seq(S) /\ Len(Tail(s)) = Len(s) - 1 /\ DOMAIN Tail(s) = 1..Len(s) - 1
         /\ \A i \in 1..Len(s) - 1 : Tail(s)[i] = s[i + 1] /\ i + 1 \in 1..Len(s)
OBVIOUS

\* A slot is in flight when a submission that is not complete has it.
LEMMA InFlightFacts ==
  ASSUME NEW q, NEW s
  PROVE  SlotInFlight(q, s) <=> \E i \in DOMAIN q : q[i].slot = s
BY DEF SlotInFlight, ToSet

\* What is submitted on the graphics queue.
LEMMA GraphicsFlightFacts ==
  ASSUME FramesTypeOK
  PROVE  /\ Len(gFlight) \in Nat /\ DOMAIN gFlight = 1..Len(gFlight)
         /\ \A i \in DOMAIN gFlight : /\ i \in Nat
                                      /\ gFlight[i].slot \in FSlots /\ gFlight[i].objs \subseteq FrameObjects
                                      /\ gFlight[i].cbs \subseteq Nat /\ gFlight[i].sem \in Nat
<1> DEFINE R == [slot : FSlots, objs : SUBSET FrameObjects, cbs : SUBSET Nat, sem : Nat]
<1>1. gFlight \in Seq(R)
  BY DEF FramesTypeOK
<1>2. \A r \in R : r.slot \in FSlots /\ r.objs \subseteq FrameObjects /\ r.cbs \subseteq Nat /\ r.sem \in Nat
  OBVIOUS
<1> HIDE DEF R
<1> QED BY <1>1, <1>2, SeqFacts

\* What is submitted on the transfer queue.
LEMMA TransferFlightFacts ==
  ASSUME FramesTypeOK
  PROVE  /\ Len(tFlight) \in Nat /\ DOMAIN tFlight = 1..Len(tFlight)
         /\ \A i \in DOMAIN tFlight : /\ i \in Nat
                                      /\ tFlight[i].slot \in FSlots /\ tFlight[i].objs \subseteq FrameObjects
<1> DEFINE R == [slot : FSlots, objs : SUBSET FrameObjects]
<1>1. tFlight \in Seq(R)
  BY DEF FramesTypeOK
<1>2. \A r \in R : r.slot \in FSlots /\ r.objs \subseteq FrameObjects
  OBVIOUS
<1> HIDE DEF R
<1> QED BY <1>1, <1>2, SeqFacts

\* The numbers and the resources of some command buffers.
LEMMA BufferFacts ==
  ASSUME NEW S \in SUBSET CommandBuffers
  PROVE  /\ Ids(S) \subseteq Nat /\ \A n : n \in Ids(S) <=> \E b \in S : b.id = n
         /\ Uses(S) \subseteq FrameObjects /\ \A o : o \in Uses(S) <=> \E b \in S : o \in b.uses
BY DEF Ids, Uses, CommandBuffers

\* Recording copies in a slot adds to what its transfers and its ownership command buffer use.
LEMMA CopiesFacts ==
  ASSUME FramesTypeOK, NEW s \in FSlots, NEW objs \in SUBSET FrameObjects, RecordCopies(s, objs)
  PROVE  /\ jobsUp' \in [FSlots -> SUBSET FrameObjects]
         /\ pending' \in [FSlots -> CommandBuffers]
         /\ \A t \in FSlots : pending'[t].id = pending[t].id
         /\ \A t \in FSlots : t # s => pending'[t].uses = pending[t].uses /\ jobsUp'[t] = jobsUp[t]
         /\ pending'[s].uses = pending[s].uses \cup objs /\ jobsUp'[s] = jobsUp[s] \cup objs
<1>1. /\ jobsUp' = [jobsUp EXCEPT ![s] = @ \cup objs]
      /\ pending' = [pending EXCEPT ![s].uses = @ \cup objs]
  BY DEF RecordCopies
<1>2. pending \in [FSlots -> CommandBuffers] /\ jobsUp \in [FSlots -> SUBSET FrameObjects]
  BY DEF FramesTypeOK
<1>3. pending[s] \in [id : Nat, uses : SUBSET FrameObjects]
  BY <1>2 DEF CommandBuffers
<1> DEFINE b == [pending[s] EXCEPT !.uses = @ \cup objs]
<1>4. b \in CommandBuffers /\ b.id = pending[s].id /\ b.uses = pending[s].uses \cup objs
  BY <1>3 DEF CommandBuffers
<1>5. pending' = [pending EXCEPT ![s] = b]
  BY <1>1
<1> HIDE DEF b
<1>6. pending'[s] = b /\ pending' \in [FSlots -> CommandBuffers]
      /\ \A t \in FSlots : t # s => pending'[t] = pending[t]
  BY <1>2, <1>4, <1>5
<1>7. jobsUp' \in [FSlots -> SUBSET FrameObjects] /\ jobsUp'[s] = jobsUp[s] \cup objs
      /\ \A t \in FSlots : t # s => jobsUp'[t] = jobsUp[t]
  BY <1>1, <1>2
<1> QED BY <1>4, <1>6, <1>7

\* Creating a resource preserves the invariant.
LEMMA CreateObjectSafe ==
  ASSUME FramesInv, NEW o \in FrameObjects, CreateObject(o)
  PROVE  FramesInv'
<1> USE DEF FramesInv, cbVars, objVars, upVars, semVars, PhaseStep
<1>1. FramesTypeOK'
  <2>1. CASE RecordCopies(tSlot, {o}) /\ waitingUp' = waitingUp
    <3>1. tSlot \in FSlots /\ {o} \in SUBSET FrameObjects
      BY DEF FramesTypeOK
    <3> QED BY <2>1, <3>1, CopiesFacts DEF CreateObject, FramesTypeOK
  <2>2. CASE waitingUp' = waitingUp \cup {o} /\ jobsUp' = jobsUp /\ pending' = pending
    BY <2>2 DEF CreateObject, FramesTypeOK
  <2> QED BY <2>1, <2>2 DEF CreateObject
<1>2. ObjectsInv'
  <2>1. /\ objState[o] = "none" /\ objState' = [objState EXCEPT ![o] = "alive"]
        /\ refs' = [refs EXCEPT ![o] = {"app", "job"}] /\ UNCHANGED <<gQueue, todoCb>>
        /\ tSlot \in FSlots /\ {o} \in SUBSET FrameObjects
    BY DEF CreateObject, FramesTypeOK
  <2>2. /\ o \notin waitingUp /\ o \notin todoCb /\ \A s \in FSlots : o \notin jobsUp[s] /\ o \notin gQueue[s]
    BY <2>1 DEF ObjectsInv, FramesTypeOK
  <2>3. \A p \in FrameObjects :
          /\ refs'[p] # {} <=> objState'[p] = "alive"
          /\ objState'[p] = "queued" <=> \E s \in FSlots : p \in gQueue[s]
          /\ p # o => refs'[p] = refs[p]
          /\ "job" \in refs'[o]
    BY <2>1, <2>2 DEF ObjectsInv, FramesTypeOK
  <2>4. CASE RecordCopies(tSlot, {o}) /\ waitingUp' = waitingUp
    <3>1. /\ \A t \in FSlots : t # tSlot => pending'[t].uses = pending[t].uses /\ jobsUp'[t] = jobsUp[t]
          /\ pending'[tSlot].uses = pending[tSlot].uses \cup {o} /\ jobsUp'[tSlot] = jobsUp[tSlot] \cup {o}
      BY <2>1, <2>4, CopiesFacts
    <3>2. /\ \A s \in FSlots : jobsUp'[s] \cap (waitingUp' \cup todoCb') = {} /\ pending'[s].uses = jobsUp'[s]
          /\ \A s, t \in FSlots : s = t \/ jobsUp'[s] \cap jobsUp'[t] = {}
          /\ waitingUp' \cap todoCb' = {}
      <4>1. \A s \in FSlots : pending'[s].uses = jobsUp'[s]
        BY <2>1, <3>1 DEF ObjectsInv
      <4>2. \A s \in FSlots : jobsUp'[s] = jobsUp[s] \/ (s = tSlot /\ jobsUp'[s] = jobsUp[s] \cup {o})
        BY <3>1
      <4>3. \A s \in FSlots : jobsUp'[s] \cap (waitingUp' \cup todoCb') = {}
        BY <2>1, <2>2, <2>4, <4>2 DEF ObjectsInv
      <4>4. \A s, t \in FSlots : s = t \/ jobsUp'[s] \cap jobsUp'[t] = {}
        BY <2>2, <4>2 DEF ObjectsInv
      <4>5. waitingUp' \cap todoCb' = {}
        BY <2>1, <2>4 DEF ObjectsInv
      <4> QED BY <4>1, <4>3, <4>4, <4>5
    <3>3. \A p : (\E s \in FSlots : p \in jobsUp'[s]) <=> (p = o \/ \E s \in FSlots : p \in jobsUp[s])
      BY <2>1, <3>1
    <3>4. \A p \in FrameObjects :
            "job" \in refs'[p] <=> p \in waitingUp' \/ p \in todoCb' \/ \E s \in FSlots : p \in jobsUp'[s]
      BY <2>1, <2>3, <2>4, <3>3 DEF ObjectsInv
    <3> QED BY <2>1, <2>3, <3>2, <3>4 DEF ObjectsInv
  <2>5. CASE waitingUp' = waitingUp \cup {o} /\ jobsUp' = jobsUp /\ pending' = pending
    BY <2>1, <2>2, <2>3, <2>5 DEF ObjectsInv
  <2> QED BY <2>4, <2>5 DEF CreateObject
<1>3. PhaseInv'
  BY DEF CreateObject, RecordCopies, InFrame, FramesTypeOK, PhaseInv, SlotInFlight
<1>4. SubmittedUses'
  BY DEF CreateObject, RecordCopies, InFrame, FramesTypeOK, ObjectsInv, PhaseInv, SubmittedUses,
     Awaited
<1>5. UpcomingUses'
  BY DEF CreateObject, RecordCopies, InFrame, FramesTypeOK, ObjectsInv, PhaseInv, UpcomingUses,
     Upcoming
<1>6. TransferUses'
  <2>1. \A s \in FSlots : jobsUp[s] \subseteq jobsUp'[s]
    <3>1. CASE RecordCopies(tSlot, {o})
      <4>1. tSlot \in FSlots /\ {o} \in SUBSET FrameObjects
        BY DEF FramesTypeOK
      <4> QED BY <3>1, <4>1, CopiesFacts
    <3>2. CASE jobsUp' = jobsUp
      BY <3>2
    <3> QED BY <3>1, <3>2 DEF CreateObject
  <2>2. tFlight' = tFlight
    BY DEF CreateObject
  <2> QED BY <2>1, <2>2, TransferFlightFacts DEF TransferUses
<1>7. BuffersApart'
  <2>1. \A s \in FSlots : pending'[s].id = pending[s].id
    <3>1. CASE RecordCopies(tSlot, {o})
      <4>1. tSlot \in FSlots /\ {o} \in SUBSET FrameObjects
        BY DEF FramesTypeOK
      <4> QED BY <3>1, <4>1, CopiesFacts
    <3>2. CASE pending' = pending
      BY <3>2
    <3> QED BY <3>1, <3>2 DEF CreateObject
  <2>2. UNCHANGED <<phase, frameNo, ready, held, tQueue, deadCbs>>
    BY DEF CreateObject
  <2> QED BY <2>1, <2>2 DEF BuffersApart, IdBound, Freed
<1>8. BuffersGuarded'
  BY DEF CreateObject, RecordCopies, InFrame, FramesTypeOK, PhaseInv, BuffersGuarded, Awaited
<1>9. AcquiredInv'
  BY DEF CreateObject, RecordCopies, InFrame, FramesTypeOK, PhaseInv, AcquiredInv
<1>10. SemaphoresInv'
  BY DEF CreateObject, RecordCopies, InFrame, FramesTypeOK, PhaseInv, SemaphoresInv
<1> QED BY <1>1, <1>2, <1>3, <1>4, <1>5, <1>6, <1>7, <1>8, <1>9, <1>10

\* Dropping a resource preserves the invariant.
LEMMA DropObjectSafe ==
  ASSUME FramesInv, NEW o \in FrameObjects, DropObject(o)
  PROVE  FramesInv'
<1> USE DEF FramesInv, cbVars, objVars, upVars, semVars, PhaseStep
<1>1. FramesTypeOK'
  BY DEF DropObject, DropRef, FramesTypeOK
<1>2. ObjectsInv'
  BY DEF DropObject, DropRef, FramesTypeOK, ObjectsInv, PhaseInv
<1>3. PhaseInv'
  BY DEF DropObject, DropRef, FramesTypeOK, PhaseInv, SlotInFlight
<1>4. SubmittedUses'
  BY DEF DropObject, DropRef, FramesTypeOK, ObjectsInv, PhaseInv, SubmittedUses, Awaited
<1>5. UpcomingUses'
  BY DEF DropObject, DropRef, FramesTypeOK, ObjectsInv, PhaseInv, UpcomingUses, Upcoming
<1>6. TransferUses'
  BY DEF DropObject, DropRef, FramesTypeOK, PhaseInv, TransferUses, SlotInFlight
<1>7. BuffersApart'
  BY DEF DropObject, DropRef, FramesTypeOK, PhaseInv, BuffersApart, IdBound, Freed
<1>8. BuffersGuarded'
  BY DEF DropObject, DropRef, FramesTypeOK, PhaseInv, BuffersGuarded, Awaited
<1>9. AcquiredInv'
  BY DEF DropObject, DropRef, FramesTypeOK, PhaseInv, AcquiredInv
<1>10. SemaphoresInv'
  BY DEF DropObject, DropRef, FramesTypeOK, PhaseInv, SemaphoresInv
<1> QED BY <1>1, <1>2, <1>3, <1>4, <1>5, <1>6, <1>7, <1>8, <1>9, <1>10

\* The choice of an image preserves the invariant.
LEMMA AcquireImageSafe ==
  ASSUME FramesInv, AcquireImage
  PROVE  FramesInv'
<1> USE DEF FramesInv, cbVars, objVars, upVars, semVars, PhaseStep
<1>1. FramesTypeOK'
  BY DEF AcquireImage, FramesTypeOK
<1>2. ObjectsInv'
  BY DEF AcquireImage, FramesTypeOK, ObjectsInv, PhaseInv
<1>3. PhaseInv'
  BY DEF AcquireImage, FramesTypeOK, PhaseInv, SlotInFlight
<1>4. SubmittedUses'
  BY DEF AcquireImage, FramesTypeOK, ObjectsInv, PhaseInv, SubmittedUses, Awaited
<1>5. UpcomingUses'
  BY DEF AcquireImage, FramesTypeOK, ObjectsInv, PhaseInv, UpcomingUses, Upcoming
<1>6. TransferUses'
  BY DEF AcquireImage, FramesTypeOK, PhaseInv, TransferUses, SlotInFlight
<1>7. BuffersApart'
  <2>1. IdBound' = IdBound
    BY FramesAssumption DEF AcquireImage, FramesTypeOK, IdBound
  <2>2. UNCHANGED <<pending, ready, held, tQueue, deadCbs>>
    BY DEF AcquireImage
  <2> QED BY <2>1, <2>2 DEF BuffersApart, Freed
<1>8. BuffersGuarded'
  BY DEF AcquireImage, FramesTypeOK, PhaseInv, BuffersGuarded, Awaited
<1>9. AcquiredInv'
  BY DEF AcquireImage, FramesTypeOK, PhaseInv, AcquiredInv
<1>10. SemaphoresInv'
  BY DEF AcquireImage, FramesTypeOK, PhaseInv, SemaphoresInv
<1> QED BY <1>1, <1>2, <1>3, <1>4, <1>5, <1>6, <1>7, <1>8, <1>9, <1>10

\* Waiting for the fence of its slot preserves the invariant.
LEMMA WaitFenceSafe ==
  ASSUME FramesInv, WaitFence
  PROVE  FramesInv'
<1> USE DEF FramesInv, cbVars, objVars, upVars, semVars, PhaseStep
<1>1. FramesTypeOK'
  BY DEF WaitFence, SwapSemaphores, FramesTypeOK
<1>2. ObjectsInv'
  BY DEF WaitFence, SwapSemaphores, FramesTypeOK, ObjectsInv, PhaseInv
<1>3. PhaseInv'
  BY DEF WaitFence, SwapSemaphores, FramesTypeOK, PhaseInv, SlotInFlight
<1>4. SubmittedUses'
  BY DEF WaitFence, SwapSemaphores, FramesTypeOK, ObjectsInv, PhaseInv, SubmittedUses, Awaited
<1>5. UpcomingUses'
  BY DEF WaitFence, SwapSemaphores, FramesTypeOK, ObjectsInv, PhaseInv, UpcomingUses, Upcoming
<1>6. TransferUses'
  BY DEF WaitFence, SwapSemaphores, FramesTypeOK, PhaseInv, TransferUses, SlotInFlight
<1>7. BuffersApart'
  BY DEF WaitFence, SwapSemaphores, FramesTypeOK, PhaseInv, BuffersApart, IdBound, Freed
<1>8. BuffersGuarded'
  BY DEF WaitFence, SwapSemaphores, FramesTypeOK, PhaseInv, BuffersGuarded, Awaited
<1>9. AcquiredInv'
  BY DEF WaitFence, SwapSemaphores, FramesTypeOK, PhaseInv, AcquiredInv
<1>10. SemaphoresInv'
  <2>1. /\ acqSems' = [acqSems EXCEPT ![image] = tmpSem] /\ tmpSem' = acqSems[image]
        /\ gFlight' = gFlight /\ image \in FSlots /\ acqSems \in [FSlots -> Nat]
    BY DEF WaitFence, SwapSemaphores, FramesTypeOK
  <2>2. \A i \in DOMAIN gFlight : gFlight[i].slot \in FSlots /\ gFlight[i].slot # image
    BY GraphicsFlightFacts, InFlightFacts DEF WaitFence
  <2> QED BY <2>1, <2>2 DEF SemaphoresInv
<1> QED BY <1>1, <1>2, <1>3, <1>4, <1>5, <1>6, <1>7, <1>8, <1>9, <1>10

\* Starting the transfers of a frame preserves the invariant.
LEMMA StartTransfersSafe ==
  ASSUME FramesInv, StartTransfers
  PROVE  FramesInv'
<1> USE DEF FramesInv, cbVars, objVars, upVars, semVars, PhaseStep
<1>a. PICK taken \in SUBSET waitingUp :
        /\ pending' = [pending EXCEPT ![image] = CommandBuffer(FrameSlots + frameNo, taken)]
        /\ jobsUp' = [jobsUp EXCEPT ![image] = taken]
        /\ waitingUp' = waitingUp \ taken
  BY DEF StartTransfers
<1>b. /\ phase = "transfer" /\ phase' = "callbacks" /\ tSlot' = image /\ ready' = ready \cup {pending[image]}
      /\ deadCbs' = deadCbs \cup tQueue[image] /\ tQueue' = [tQueue EXCEPT ![image] = {}]
      /\ todoCb' = jobsUp[image] /\ todoCb = {} /\ ready = {} /\ drawn = {}
      /\ UNCHANGED <<frameNo, image, gSlot, objVars, drawable, held, drawn, acquiredObjs, gFlight, tFlight, semVars>>
      /\ ~SlotInFlight(tFlight, image) /\ ~SlotInFlight(gFlight, image)
  BY DEF StartTransfers, PhaseInv
<1>c. /\ image \in FSlots /\ FrameSlots + frameNo \in Nat /\ taken \in SUBSET FrameObjects
      /\ pending \in [FSlots -> CommandBuffers] /\ jobsUp \in [FSlots -> SUBSET FrameObjects]
      /\ tQueue \in [FSlots -> SUBSET Nat]
  BY FramesAssumption DEF FramesTypeOK
<1>d. CommandBuffer(FrameSlots + frameNo, taken) \in CommandBuffers
      /\ CommandBuffer(FrameSlots + frameNo, taken).id = FrameSlots + frameNo
      /\ CommandBuffer(FrameSlots + frameNo, taken).uses = taken
  BY <1>c DEF CommandBuffer, CommandBuffers
<1>e. /\ pending' \in [FSlots -> CommandBuffers] /\ jobsUp' \in [FSlots -> SUBSET FrameObjects]
      /\ pending'[image].id = FrameSlots + frameNo /\ pending'[image].uses = taken /\ jobsUp'[image] = taken
      /\ \A s \in FSlots : s # image => pending'[s] = pending[s] /\ jobsUp'[s] = jobsUp[s] /\ tQueue'[s] = tQueue[s]
      /\ tQueue'[image] = {} /\ tQueue' \in [FSlots -> SUBSET Nat]
  BY <1>a, <1>b, <1>c, <1>d
<1>1. FramesTypeOK'
  <2>1. /\ deadCbs' \subseteq Nat /\ ready' \subseteq CommandBuffers /\ todoCb' \subseteq FrameObjects
        /\ waitingUp' \subseteq FrameObjects
    BY <1>a, <1>b, <1>c DEF FramesTypeOK
  <2> QED BY <1>b, <1>c, <1>e, <2>1 DEF FramesTypeOK
<1>2. ObjectsInv'
  BY <1>a, <1>b, <1>c, <1>e DEF ObjectsInv, FramesTypeOK
<1>3. PhaseInv'
  BY DEF StartTransfers, CommandBuffer, FramesTypeOK, PhaseInv, SlotInFlight
<1>4. SubmittedUses'
  BY DEF StartTransfers, CommandBuffer, FramesTypeOK, ObjectsInv, PhaseInv, SubmittedUses, Awaited
<1>5. UpcomingUses'
  <2>1. \A o \in FrameObjects : o \in jobsUp[image] => objState[o] = "alive" /\ \A s \in FSlots : o \notin gQueue[s]
    BY <1>c DEF ObjectsInv, FramesTypeOK
  <2>2. pending[image].uses = jobsUp[image]
    BY <1>c DEF ObjectsInv
  <2>3. \A o \in FrameObjects : Upcoming(o)' => o \in jobsUp[image]
    BY <1>b, <2>2 DEF Upcoming
  <2> QED BY <1>b, <2>1, <2>3 DEF UpcomingUses
<1>6. TransferUses'
  <2>1. \A i \in DOMAIN tFlight : tFlight[i].slot \in FSlots /\ tFlight[i].slot # image
    BY <1>b, TransferFlightFacts, InFlightFacts
  <2> QED BY <1>b, <1>e, <2>1 DEF TransferUses
<1>7. BuffersApart'
  <2>1. IdBound = FrameSlots + frameNo /\ IdBound' = FrameSlots + frameNo + 1
    BY <1>b, <1>c, FramesAssumption DEF IdBound, FramesTypeOK
  <2>2. \A n : ~Freed(n) => n \notin deadCbs' /\ \A t \in FSlots : n \notin tQueue'[t]
    BY <1>b, <1>c, <1>e DEF Freed
  <2>3. /\ \A s \in FSlots : pending[s].id \in Nat /\ pending[s].id < FrameSlots + frameNo /\ ~Freed(pending[s].id)
        /\ \A b \in held : b.id \in Nat /\ b.id < FrameSlots + frameNo /\ ~Freed(b.id)
                           /\ \A s \in FSlots : pending[s].id # b.id
        /\ \A s, t \in FSlots : pending[s].id = pending[t].id => s = t
    BY <1>c, <2>1 DEF BuffersApart, FramesTypeOK, CommandBuffers
  <2>4. /\ \A n \in deadCbs : n \in Nat /\ n < FrameSlots + frameNo
        /\ \A s \in FSlots : \A n \in tQueue[s] : n \in Nat /\ n < FrameSlots + frameNo
    BY <1>c, <2>1 DEF BuffersApart, FramesTypeOK
  <2>5. ~Freed(FrameSlots + frameNo)
    BY <1>c, <2>4 DEF Freed
  <2>6. \A s \in FSlots : pending'[s].id < IdBound' /\ pending'[s].id \notin deadCbs'
                          /\ \A t \in FSlots : pending'[s].id \notin tQueue'[t]
    <3> SUFFICES ASSUME NEW s \in FSlots
                 PROVE  pending'[s].id < IdBound' /\ pending'[s].id \notin deadCbs'
                        /\ \A t \in FSlots : pending'[s].id \notin tQueue'[t]
      OBVIOUS
    <3>1. CASE s = image
      BY <1>c, <1>e, <2>1, <2>2, <2>5, <3>1
    <3>2. CASE s # image
      BY <1>c, <1>e, <2>1, <2>2, <2>3, <3>2
    <3> QED BY <3>1, <3>2
  <2>7. \A b \in ready' \cup held' : b.id < IdBound' /\ b.id \notin deadCbs'
            /\ \A s \in FSlots : b.id \notin tQueue'[s] /\ pending'[s].id # b.id
    BY <1>b, <1>c, <1>e, <2>1, <2>2, <2>3
  <2>8. (\A n \in deadCbs' : n < IdBound') /\ \A s \in FSlots : \A n \in tQueue'[s] : n < IdBound'
    BY <1>b, <1>c, <1>e, <2>1, <2>4
  <2>9. \A s, t \in FSlots : pending'[s].id = pending'[t].id => s = t
    BY <1>c, <1>e, <2>3
  <2>10. \A b \in ready', c \in held' : b.id # c.id
    BY <1>b, <1>c, <2>3
  <2> QED BY <2>6, <2>7, <2>8, <2>9, <2>10 DEF BuffersApart, Freed
<1>8. BuffersGuarded'
  <2>1. \A i \in DOMAIN gFlight : ~Awaited(i, image)
    BY <1>b, InFlightFacts DEF Awaited
  <2>2. \A i \in DOMAIN gFlight : \A s \in FSlots : Awaited(i, s)' <=> Awaited(i, s)
    BY <1>b DEF Awaited
  <2> QED BY <1>b, <1>c, <1>e, <2>1, <2>2 DEF BuffersGuarded
<1>9. AcquiredInv'
  <2>1. pending[image].uses = jobsUp[image]
    BY <1>c DEF ObjectsInv
  <2> QED BY <1>b, <2>1 DEF AcquiredInv
<1>10. SemaphoresInv'
  BY DEF StartTransfers, CommandBuffer, FramesTypeOK, PhaseInv, SemaphoresInv
<1> QED BY <1>1, <1>2, <1>3, <1>4, <1>5, <1>6, <1>7, <1>8, <1>9, <1>10

\* A completion callback preserves the invariant.
LEMMA RunTransferCallbackSafe ==
  ASSUME FramesInv, NEW o \in FrameObjects, RunTransferCallback(o)
  PROVE  FramesInv'
<1> USE DEF FramesInv, cbVars, objVars, upVars, semVars, PhaseStep
<1>1. FramesTypeOK'
  BY DEF RunTransferCallback, DropRef, FramesTypeOK
<1>2. ObjectsInv'
  BY DEF RunTransferCallback, DropRef, FramesTypeOK, ObjectsInv, PhaseInv
<1>3. PhaseInv'
  BY DEF RunTransferCallback, DropRef, FramesTypeOK, PhaseInv, SlotInFlight
<1>4. SubmittedUses'
  BY DEF RunTransferCallback, DropRef, FramesTypeOK, ObjectsInv, PhaseInv, SubmittedUses, Awaited
<1>5. UpcomingUses'
  BY DEF RunTransferCallback, DropRef, FramesTypeOK, ObjectsInv, PhaseInv, UpcomingUses, Upcoming
<1>6. TransferUses'
  BY DEF RunTransferCallback, DropRef, FramesTypeOK, PhaseInv, TransferUses, SlotInFlight
<1>7. BuffersApart'
  BY DEF RunTransferCallback, DropRef, FramesTypeOK, PhaseInv, BuffersApart, IdBound, Freed
<1>8. BuffersGuarded'
  BY DEF RunTransferCallback, DropRef, FramesTypeOK, PhaseInv, BuffersGuarded, Awaited
<1>9. AcquiredInv'
  BY DEF RunTransferCallback, DropRef, FramesTypeOK, PhaseInv, AcquiredInv
<1>10. SemaphoresInv'
  BY DEF RunTransferCallback, DropRef, FramesTypeOK, PhaseInv, SemaphoresInv
<1> QED BY <1>1, <1>2, <1>3, <1>4, <1>5, <1>6, <1>7, <1>8, <1>9, <1>10

\* Emptying a slot of the destruction queue preserves the invariant.
LEMMA CleanupSlotSafe ==
  ASSUME FramesInv, CleanupSlot
  PROVE  FramesInv'
<1> USE DEF FramesInv, cbVars, objVars, upVars, semVars, PhaseStep
<1>1. FramesTypeOK'
  BY DEF CleanupSlot, FramesTypeOK
<1>2. ObjectsInv'
  BY DEF CleanupSlot, FramesTypeOK, ObjectsInv, PhaseInv
<1>3. PhaseInv'
  BY DEF CleanupSlot, FramesTypeOK, PhaseInv, SlotInFlight
<1>4. SubmittedUses'
  <2>1. \A i \in DOMAIN gFlight : ~Awaited(i, image)
    BY InFlightFacts DEF CleanupSlot, PhaseInv, Awaited
  <2>2. \A i \in DOMAIN gFlight : \A s \in FSlots : Awaited(i, s)' <=> Awaited(i, s)
    BY DEF CleanupSlot, Awaited
  <2>3. \A i \in DOMAIN gFlight : \A o \in gFlight[i].objs \ early :
          /\ o \in FrameObjects /\ o \notin gQueue[image] /\ objState[o] \in {"alive", "queued"}
          /\ \A s \in FSlots : o \in gQueue[s] => Awaited(i, s)
    BY <2>1, GraphicsFlightFacts DEF CleanupSlot, SubmittedUses, FramesTypeOK
  <2>4. /\ \A o \in FrameObjects : o \notin gQueue[image] => objState'[o] = objState[o]
        /\ \A s \in FSlots : gQueue'[s] \subseteq gQueue[s]
        /\ gFlight' = gFlight /\ early' = early
    BY DEF CleanupSlot, FramesTypeOK
  <2> QED BY <2>2, <2>3, <2>4 DEF SubmittedUses
<1>5. UpcomingUses'
  BY DEF CleanupSlot, FramesTypeOK, ObjectsInv, PhaseInv, UpcomingUses, Upcoming
<1>6. TransferUses'
  BY DEF CleanupSlot, FramesTypeOK, PhaseInv, TransferUses, SlotInFlight
<1>7. BuffersApart'
  BY DEF CleanupSlot, FramesTypeOK, PhaseInv, BuffersApart, IdBound, Freed
<1>8. BuffersGuarded'
  BY DEF CleanupSlot, FramesTypeOK, PhaseInv, BuffersGuarded, Awaited
<1>9. AcquiredInv'
  BY DEF CleanupSlot, FramesTypeOK, PhaseInv, AcquiredInv
<1>10. SemaphoresInv'
  BY DEF CleanupSlot, FramesTypeOK, PhaseInv, SemaphoresInv
<1> QED BY <1>1, <1>2, <1>3, <1>4, <1>5, <1>6, <1>7, <1>8, <1>9, <1>10

\* Taking the ownership command buffers preserves the invariant.
LEMMA RetrieveBuffersSafe ==
  ASSUME FramesInv, RetrieveBuffers
  PROVE  FramesInv'
<1> USE DEF FramesInv, cbVars, objVars, upVars, semVars, PhaseStep
<1>a. /\ phase = "retrieve" /\ phase' = "record" /\ held' = ready /\ ready' = {}
      /\ tQueue' = [tQueue EXCEPT ![tSlot] = @ \cup Ids(held)]
      /\ UNCHANGED <<frameNo, image, gSlot, tSlot, objVars, upVars, todoCb, drawable, pending, deadCbs,
                     drawn, acquiredObjs, gFlight, tFlight, semVars>>
  BY DEF RetrieveBuffers
<1>b. /\ tSlot \in FSlots /\ tQueue \in [FSlots -> SUBSET Nat]
      /\ held \in SUBSET CommandBuffers /\ ready \in SUBSET CommandBuffers
  BY DEF FramesTypeOK
<1>c. Ids(held) \subseteq Nat /\ \A n : n \in Ids(held) <=> \E b \in held : b.id = n
  BY <1>b, BufferFacts
<1>d. /\ tQueue' \in [FSlots -> SUBSET Nat] /\ tQueue'[tSlot] = tQueue[tSlot] \cup Ids(held)
      /\ \A s \in FSlots : s # tSlot => tQueue'[s] = tQueue[s]
  BY <1>a, <1>b, <1>c
<1>1. FramesTypeOK'
  BY <1>a, <1>b, <1>d DEF FramesTypeOK
<1>2. ObjectsInv'
  BY DEF RetrieveBuffers, FramesTypeOK, ObjectsInv, PhaseInv
<1>3. PhaseInv'
  BY DEF RetrieveBuffers, FramesTypeOK, PhaseInv, SlotInFlight
<1>4. SubmittedUses'
  BY DEF RetrieveBuffers, FramesTypeOK, ObjectsInv, PhaseInv, SubmittedUses, Awaited
<1>5. UpcomingUses'
  BY DEF RetrieveBuffers, FramesTypeOK, ObjectsInv, PhaseInv, UpcomingUses, Upcoming
<1>6. TransferUses'
  BY DEF RetrieveBuffers, FramesTypeOK, PhaseInv, TransferUses, SlotInFlight
<1>7. BuffersApart'
  <2>1. IdBound' = IdBound
    BY <1>a DEF IdBound
  <2>2. \A n : Freed(n)' => Freed(n) \/ \E b \in held : b.id = n
    BY <1>a, <1>b, <1>c, <1>d DEF Freed
  <2>3. \A n : n \in tQueue'[tSlot] => n \in tQueue[tSlot] \/ \E b \in held : b.id = n
    BY <1>c, <1>d
  <2>4. \A s \in FSlots : \A n \in tQueue'[s] : n < IdBound
    BY <1>b, <1>d, <2>3 DEF BuffersApart
  <2> QED BY <1>a, <2>1, <2>2, <2>4 DEF BuffersApart
<1>8. BuffersGuarded'
  BY DEF RetrieveBuffers, FramesTypeOK, PhaseInv, BuffersGuarded, Awaited
<1>9. AcquiredInv'
  BY DEF RetrieveBuffers, FramesTypeOK, PhaseInv, AcquiredInv
<1>10. SemaphoresInv'
  BY DEF RetrieveBuffers, FramesTypeOK, PhaseInv, SemaphoresInv
<1> QED BY <1>1, <1>2, <1>3, <1>4, <1>5, <1>6, <1>7, <1>8, <1>9, <1>10

\* Drawing a resource preserves the invariant.
LEMMA DrawObjectSafe ==
  ASSUME FramesInv, NEW o \in FrameObjects, DrawObject(o)
  PROVE  FramesInv'
<1> USE DEF FramesInv, cbVars, objVars, upVars, semVars, PhaseStep
<1>1. FramesTypeOK'
  BY DEF DrawObject, FramesTypeOK
<1>2. ObjectsInv'
  BY DEF DrawObject, FramesTypeOK, ObjectsInv, PhaseInv
<1>3. PhaseInv'
  BY DEF DrawObject, FramesTypeOK, PhaseInv, SlotInFlight
<1>4. SubmittedUses'
  BY DEF DrawObject, FramesTypeOK, ObjectsInv, PhaseInv, SubmittedUses, Awaited
<1>5. UpcomingUses'
  BY DEF DrawObject, FramesTypeOK, ObjectsInv, PhaseInv, UpcomingUses, Upcoming
<1>6. TransferUses'
  BY DEF DrawObject, FramesTypeOK, PhaseInv, TransferUses, SlotInFlight
<1>7. BuffersApart'
  BY DEF DrawObject, FramesTypeOK, PhaseInv, BuffersApart, IdBound, Freed
<1>8. BuffersGuarded'
  BY DEF DrawObject, FramesTypeOK, PhaseInv, BuffersGuarded, Awaited
<1>9. AcquiredInv'
  BY DEF DrawObject, FramesTypeOK, PhaseInv, AcquiredInv
<1>10. SemaphoresInv'
  BY DEF DrawObject, FramesTypeOK, PhaseInv, SemaphoresInv
<1> QED BY <1>1, <1>2, <1>3, <1>4, <1>5, <1>6, <1>7, <1>8, <1>9, <1>10

\* Submitting the frame preserves the invariant.
LEMMA SubmitGraphicsSafe ==
  ASSUME FramesInv, SubmitGraphics
  PROVE  FramesInv'
<1> USE DEF FramesInv, cbVars, objVars, upVars, semVars, PhaseStep
<1> DEFINE R == [slot : FSlots, objs : SUBSET FrameObjects, cbs : SUBSET Nat, sem : Nat]
           e == [slot |-> image, objs |-> drawn \cup Uses(held), cbs |-> Ids(held), sem |-> acqSems[image]]
<1>a. /\ phase = "record" /\ phase' = "end" /\ gFlight' = Append(gFlight, e)
      /\ acquiredObjs' = acquiredObjs \cup Uses(held) /\ drawn' = {}
      /\ UNCHANGED <<frameNo, image, gSlot, tSlot, objVars, upVars, todoCb, drawable, cbVars, tFlight, semVars>>
  BY DEF SubmitGraphics
<1>b. /\ Ids(held) \subseteq Nat /\ \A n : n \in Ids(held) <=> \E b \in held : b.id = n
      /\ Uses(held) \subseteq FrameObjects /\ \A o : o \in Uses(held) <=> \E b \in held : o \in b.uses
  BY BufferFacts DEF FramesTypeOK
<1>c. gFlight \in Seq(R) /\ e \in R /\ image \in FSlots
  BY <1>b DEF FramesTypeOK
<1>d. e.slot = image /\ e.objs = drawn \cup Uses(held) /\ e.cbs = Ids(held) /\ e.sem = acqSems[image]
  OBVIOUS
<1> HIDE DEF R, e
<1>e. /\ Len(gFlight) \in Nat /\ DOMAIN gFlight = 1..Len(gFlight) /\ DOMAIN gFlight' = 1..Len(gFlight) + 1
      /\ \A i \in DOMAIN gFlight : gFlight'[i] = gFlight[i]
      /\ gFlight'[Len(gFlight) + 1] = e /\ gFlight' \in Seq(R)
  BY <1>a, <1>c, AppendFacts, SeqFacts
<1>f. /\ \A i \in DOMAIN gFlight : \A s : Awaited(i, s) => Awaited(i, s)'
      /\ \A i \in DOMAIN gFlight' : Awaited(i, image)'
  <2>1. Len(gFlight) + 1 \in DOMAIN gFlight' /\ \A i \in DOMAIN gFlight' : i <= Len(gFlight) + 1
    BY <1>e
  <2>2. DOMAIN gFlight \subseteq DOMAIN gFlight'
    BY <1>e
  <2>3. \A i \in DOMAIN gFlight : \A s : Awaited(i, s) => Awaited(i, s)'
    BY <1>e, <2>2 DEF Awaited
  <2>4. \A i \in DOMAIN gFlight' : Awaited(i, image)'
    BY <1>a, <1>d, <1>e, <2>1 DEF Awaited
  <2> QED BY <2>3, <2>4
<1>1. FramesTypeOK'
  <2>1. gFlight' \in Seq([slot : FSlots, objs : SUBSET FrameObjects, cbs : SUBSET Nat, sem : Nat])
    BY <1>e DEF R
  <2> QED BY <1>a, <1>b, <2>1 DEF FramesTypeOK
<1>2. ObjectsInv'
  BY DEF SubmitGraphics, FramesTypeOK, ObjectsInv, PhaseInv
<1>3. PhaseInv'
  <2>1. Len(gFlight') = Len(gFlight) + 1 /\ gFlight'[Len(gFlight')] = e
    BY <1>a, <1>c, <1>e, AppendFacts
  <2> QED BY <1>a, <1>d, <2>1 DEF PhaseInv
<1>4. SubmittedUses'
  <2> SUFFICES ASSUME NEW i \in DOMAIN gFlight', NEW o \in gFlight'[i].objs \ early
               PROVE  /\ objState[o] \in {"alive", "queued"}
                      /\ \A s \in FSlots : o \in gQueue[s] => Awaited(i, s)'
    BY <1>a DEF SubmittedUses
  <2>1. gSlot = image
    BY <1>a DEF PhaseInv
  <2>2. CASE i \in DOMAIN gFlight
    BY <1>a, <1>e, <1>f, <2>1, <2>2 DEF SubmittedUses
  <2>3. CASE i = Len(gFlight) + 1
    <3>1. o \in FrameObjects \ early /\ Upcoming(o)
      BY <1>a, <1>b, <1>d, <1>e, <2>3 DEF Upcoming, FramesTypeOK
    <3>2. objState[o] \in {"alive", "queued"} /\ \A s \in FSlots : o \in gQueue[s] => s = image
      BY <2>1, <3>1 DEF UpcomingUses
    <3>3. Awaited(i, image)'
      BY <1>f
    <3> QED BY <1>a, <3>2, <3>3
  <2> QED BY <1>e, <2>2, <2>3
<1>5. UpcomingUses'
  BY DEF SubmitGraphics, FramesTypeOK, ObjectsInv, PhaseInv, UpcomingUses, Upcoming
<1>6. TransferUses'
  BY DEF SubmitGraphics, FramesTypeOK, PhaseInv, TransferUses, SlotInFlight
<1>7. BuffersApart'
  BY DEF SubmitGraphics, FramesTypeOK, PhaseInv, BuffersApart, IdBound, Freed
<1>8. BuffersGuarded'
  <2> SUFFICES ASSUME NEW i \in DOMAIN gFlight', NEW n \in gFlight'[i].cbs
               PROVE  n \notin deadCbs /\ \A s \in FSlots : n \in tQueue[s] => Awaited(i, s)'
    BY <1>a DEF BuffersGuarded
  <2>1. tSlot = image
    BY <1>a DEF PhaseInv
  <2>2. CASE i \in DOMAIN gFlight
    BY <1>a, <1>e, <1>f, <2>1, <2>2 DEF BuffersGuarded
  <2>3. CASE i = Len(gFlight) + 1
    <3>1. \E b \in held : b.id = n
      BY <1>b, <1>d, <1>e, <2>3
    <3> QED BY <3>1 DEF BuffersApart, Freed
  <2> QED BY <1>e, <2>2, <2>3
<1>9. AcquiredInv'
  BY <1>a, <1>b DEF AcquiredInv
<1>10. SemaphoresInv'
  <2> SUFFICES ASSUME NEW i \in DOMAIN gFlight' PROVE gFlight'[i].sem = acqSems[gFlight'[i].slot]
    BY <1>a DEF SemaphoresInv
  <2>1. CASE i \in DOMAIN gFlight
    BY <1>e, <2>1 DEF SemaphoresInv
  <2>2. CASE i = Len(gFlight) + 1
    BY <1>d, <1>e, <2>2
  <2> QED BY <1>e, <2>1, <2>2
<1> QED BY <1>1, <1>2, <1>3, <1>4, <1>5, <1>6, <1>7, <1>8, <1>9, <1>10

\* Submitting the transfers preserves the invariant.
LEMMA SubmitTransfersSafe ==
  ASSUME FramesInv, SubmitTransfers
  PROVE  FramesInv'
<1> USE DEF FramesInv, cbVars, objVars, upVars, semVars, PhaseStep
<1>a. PICK taken \in SUBSET waitingUp :
        /\ RecordCopies(tSlot, taken)
        /\ waitingUp' = waitingUp \ taken
        /\ tFlight' = Append(tFlight, [slot |-> tSlot, objs |-> jobsUp[tSlot] \cup taken])
  BY DEF SubmitTransfers
<1>b. /\ phase = "end" /\ phase' = "idle" /\ tSlot \in FSlots /\ taken \in SUBSET FrameObjects
      /\ UNCHANGED <<frameNo, image, gSlot, tSlot, objVars, todoCb, drawable, ready, held, tQueue, deadCbs,
                     drawn, acquiredObjs, gFlight, semVars>>
  BY DEF SubmitTransfers, FramesTypeOK
<1>c. /\ jobsUp' \in [FSlots -> SUBSET FrameObjects]
      /\ pending' \in [FSlots -> CommandBuffers]
      /\ \A t \in FSlots : pending'[t].id = pending[t].id
      /\ \A t \in FSlots : t # tSlot => pending'[t].uses = pending[t].uses /\ jobsUp'[t] = jobsUp[t]
      /\ pending'[tSlot].uses = pending[tSlot].uses \cup taken /\ jobsUp'[tSlot] = jobsUp[tSlot] \cup taken
  BY <1>a, <1>b, CopiesFacts
<1> DEFINE R == [slot : FSlots, objs : SUBSET FrameObjects]
           e == [slot |-> tSlot, objs |-> jobsUp[tSlot] \cup taken]
<1>d. tFlight \in Seq(R) /\ e \in R /\ e.slot = tSlot /\ e.objs = jobsUp[tSlot] \cup taken
      /\ tFlight' = Append(tFlight, e)
  BY <1>a, <1>b DEF FramesTypeOK
<1> HIDE DEF R, e
<1>e. /\ DOMAIN tFlight = 1..Len(tFlight) /\ DOMAIN tFlight' = 1..Len(tFlight) + 1
      /\ \A i \in DOMAIN tFlight : tFlight'[i] = tFlight[i]
      /\ tFlight'[Len(tFlight) + 1] = e /\ tFlight' \in Seq(R)
  BY <1>d, AppendFacts, SeqFacts
<1>1. FramesTypeOK'
  <2>1. tFlight' \in Seq([slot : FSlots, objs : SUBSET FrameObjects])
    BY <1>e DEF R
  <2> QED BY <1>a, <1>b, <1>c, <2>1 DEF FramesTypeOK
<1>2. ObjectsInv'
  <2>1. /\ \A s \in FSlots : jobsUp'[s] \cap (waitingUp' \cup todoCb) = {} /\ pending'[s].uses = jobsUp'[s]
        /\ waitingUp' \cap todoCb = {}
    BY <1>a, <1>b, <1>c DEF ObjectsInv
  <2>2. \A s, t \in FSlots : s = t \/ jobsUp'[s] \cap jobsUp'[t] = {}
    BY <1>a, <1>b, <1>c DEF ObjectsInv
  <2>3. \A o : (o \in waitingUp' \/ \E s \in FSlots : o \in jobsUp'[s])
               <=> (o \in waitingUp \/ \E s \in FSlots : o \in jobsUp[s])
    BY <1>a, <1>b, <1>c
  <2> QED BY <1>b, <2>1, <2>2, <2>3 DEF ObjectsInv
<1>3. PhaseInv'
  BY DEF SubmitTransfers, RecordCopies, FramesTypeOK, PhaseInv, SlotInFlight
<1>4. SubmittedUses'
  BY DEF SubmitTransfers, RecordCopies, FramesTypeOK, ObjectsInv, PhaseInv, SubmittedUses, Awaited
<1>5. UpcomingUses'
  BY DEF SubmitTransfers, RecordCopies, FramesTypeOK, ObjectsInv, PhaseInv, UpcomingUses, Upcoming
<1>6. TransferUses'
  <2> SUFFICES ASSUME NEW i \in DOMAIN tFlight' PROVE tFlight'[i].objs \subseteq jobsUp'[tFlight'[i].slot]
    BY DEF TransferUses
  <2>1. CASE i \in DOMAIN tFlight
    BY <1>c, <1>e, <2>1, TransferFlightFacts DEF TransferUses
  <2>2. CASE i = Len(tFlight) + 1
    BY <1>c, <1>d, <1>e, <2>2
  <2> QED BY <1>e, <2>1, <2>2
<1>7. BuffersApart'
  <2>1. IdBound' = IdBound
    BY <1>b DEF IdBound
  <2> QED BY <1>b, <1>c, <2>1 DEF BuffersApart, Freed
<1>8. BuffersGuarded'
  BY DEF SubmitTransfers, RecordCopies, FramesTypeOK, PhaseInv, BuffersGuarded, Awaited
<1>9. AcquiredInv'
  BY DEF SubmitTransfers, RecordCopies, FramesTypeOK, PhaseInv, AcquiredInv
<1>10. SemaphoresInv'
  BY DEF SubmitTransfers, RecordCopies, FramesTypeOK, PhaseInv, SemaphoresInv
<1> QED BY <1>1, <1>2, <1>3, <1>4, <1>5, <1>6, <1>7, <1>8, <1>9, <1>10

\* What the device completed preserves the invariant.
LEMMA FrameCompletesSafe ==
  ASSUME FramesInv, FrameCompletes
  PROVE  FramesInv'
<1> USE DEF FramesInv, cbVars, objVars, upVars, semVars, PhaseStep
<1>a. UNCHANGED <<phase, frameNo, image, gSlot, tSlot, objVars, upVars, todoCb, drawable, cbVars,
                  drawn, acquiredObjs, semVars>>
  BY DEF FrameCompletes
<1>b. /\ gFlight' \in Seq([slot : FSlots, objs : SUBSET FrameObjects, cbs : SUBSET Nat, sem : Nat])
      /\ Len(gFlight') \in Nat /\ DOMAIN gFlight' = 1..Len(gFlight')
      /\ \E k \in {0, 1} : /\ Len(gFlight') = Len(gFlight) - k
                           /\ \A i \in DOMAIN gFlight' : i + k \in DOMAIN gFlight /\ gFlight'[i] = gFlight[i + k]
  <2> DEFINE R == [slot : FSlots, objs : SUBSET FrameObjects, cbs : SUBSET Nat, sem : Nat]
  <2>1. gFlight \in Seq(R)
    BY DEF FramesTypeOK
  <2> HIDE DEF R
  <2>2. CASE gFlight # <<>> /\ gFlight' = Tail(gFlight)
    <3>1. gFlight' \in Seq(R)
      BY <2>1, <2>2, TailFacts
    <3>2. Len(gFlight') \in Nat /\ DOMAIN gFlight' = 1..Len(gFlight')
      BY <3>1, SeqFacts
    <3>3. Len(gFlight') = Len(gFlight) - 1
          /\ \A i \in DOMAIN gFlight' : i + 1 \in DOMAIN gFlight /\ gFlight'[i] = gFlight[i + 1]
      BY <2>1, <2>2, <3>2, TailFacts, SeqFacts
    <3> QED BY <3>1, <3>2, <3>3 DEF R
  <2>3. CASE gFlight' = gFlight
    <3>1. Len(gFlight) \in Nat /\ DOMAIN gFlight = 1..Len(gFlight)
      BY <2>1, SeqFacts
    <3>2. Len(gFlight') = Len(gFlight) - 0
          /\ \A i \in DOMAIN gFlight' : i + 0 \in DOMAIN gFlight /\ gFlight'[i] = gFlight[i + 0]
      BY <2>3, <3>1
    <3> QED BY <2>1, <2>3, <3>1, <3>2 DEF R
  <2> QED BY <2>2, <2>3 DEF FrameCompletes
<1>c. PICK k \in {0, 1} :
        /\ Len(gFlight') = Len(gFlight) - k
        /\ \A i \in DOMAIN gFlight' : i + k \in DOMAIN gFlight /\ gFlight'[i] = gFlight[i + k]
  BY <1>b
<1>d. /\ tFlight' \in Seq([slot : FSlots, objs : SUBSET FrameObjects])
      /\ \A i \in DOMAIN tFlight' : \E j \in DOMAIN tFlight : tFlight'[i] = tFlight[j]
  <2> DEFINE R == [slot : FSlots, objs : SUBSET FrameObjects]
  <2>1. tFlight \in Seq(R)
    BY DEF FramesTypeOK
  <2> HIDE DEF R
  <2>2. CASE tFlight # <<>> /\ tFlight' = Tail(tFlight)
    <3>1. tFlight' \in Seq(R)
      BY <2>1, <2>2, TailFacts
    <3>2. \A i \in DOMAIN tFlight' : i + 1 \in DOMAIN tFlight /\ tFlight'[i] = tFlight[i + 1]
      BY <2>1, <2>2, TailFacts, SeqFacts
    <3> QED BY <3>1, <3>2 DEF R
  <2>3. CASE tFlight' = tFlight
    BY <2>1, <2>3 DEF R
  <2> QED BY <2>2, <2>3 DEF FrameCompletes
<1>e. /\ Len(gFlight) \in Nat /\ DOMAIN gFlight = 1..Len(gFlight)
  BY GraphicsFlightFacts
<1>f. \A i \in DOMAIN gFlight' : \A s : Awaited(i + k, s) => Awaited(i, s)'
  <2> SUFFICES ASSUME NEW i \in DOMAIN gFlight', NEW s, Awaited(i + k, s) PROVE Awaited(i, s)'
    OBVIOUS
  <2>1. PICK j \in DOMAIN gFlight : i + k <= j /\ gFlight[j].slot = s
    BY DEF Awaited
  <2>2. j - k \in DOMAIN gFlight' /\ i <= j - k /\ (j - k) + k = j
    BY <1>b, <1>c, <1>e, <2>1
  <2>3. gFlight'[j - k] = gFlight[j]
    BY <1>c, <2>2
  <2> QED BY <2>1, <2>2, <2>3 DEF Awaited
<1>g. \A s : SlotInFlight(gFlight', s) => SlotInFlight(gFlight, s)
  BY <1>c, InFlightFacts
<1>1. FramesTypeOK'
  BY <1>a, <1>b, <1>d DEF FramesTypeOK
<1>2. ObjectsInv'
  BY DEF FrameCompletes, FramesTypeOK, ObjectsInv, PhaseInv
<1>3. PhaseInv'
  <2>1. gFlight' # <<>> => gFlight # <<>> /\ gFlight'[Len(gFlight')] = gFlight[Len(gFlight)]
    <3> SUFFICES ASSUME gFlight' # <<>> PROVE gFlight # <<>> /\ gFlight'[Len(gFlight')] = gFlight[Len(gFlight)]
      OBVIOUS
    <3>1. Len(gFlight') > 0
      BY <1>b
    <3>2. Len(gFlight') \in DOMAIN gFlight' /\ Len(gFlight') + k = Len(gFlight) /\ Len(gFlight) > 0
      BY <1>b, <1>c, <1>e, <3>1
    <3> QED BY <1>c, <3>2
  <2> QED BY <1>a, <1>g, <2>1 DEF PhaseInv
<1>4. SubmittedUses'
  BY <1>a, <1>c, <1>f DEF SubmittedUses
<1>5. UpcomingUses'
  BY DEF FrameCompletes, FramesTypeOK, ObjectsInv, PhaseInv, UpcomingUses, Upcoming
<1>6. TransferUses'
  BY <1>a, <1>d DEF TransferUses
<1>7. BuffersApart'
  BY DEF FrameCompletes, FramesTypeOK, PhaseInv, BuffersApart, IdBound, Freed
<1>8. BuffersGuarded'
  BY <1>a, <1>c, <1>f DEF BuffersGuarded
<1>9. AcquiredInv'
  BY DEF FrameCompletes, FramesTypeOK, PhaseInv, AcquiredInv
<1>10. SemaphoresInv'
  BY <1>a, <1>c DEF SemaphoresInv
<1> QED BY <1>1, <1>2, <1>3, <1>4, <1>5, <1>6, <1>7, <1>8, <1>9, <1>10

\* A step that changes nothing preserves the invariant.
LEMMA FramesStutter ==
  ASSUME FramesInv, UNCHANGED frameVars
  PROVE  FramesInv'
<1> USE DEF FramesInv, frameVars, cbVars, objVars, upVars, semVars
<1>1. FramesTypeOK' /\ ObjectsInv' /\ PhaseInv' /\ AcquiredInv' /\ SemaphoresInv'
  BY DEF FramesTypeOK, ObjectsInv, PhaseInv, SlotInFlight, AcquiredInv, SemaphoresInv
<1>2. SubmittedUses' /\ UpcomingUses' /\ TransferUses'
  BY DEF SubmittedUses, Awaited, UpcomingUses, Upcoming, TransferUses
<1>3. BuffersApart' /\ BuffersGuarded'
  BY DEF BuffersApart, IdBound, Freed, BuffersGuarded, Awaited
<1> QED BY <1>1, <1>2, <1>3

\* The first state satisfies the invariant.
LEMMA FramesInitial ==
  ASSUME FrameInit
  PROVE  FramesInv
<1>1. FrameSlots \in Nat \ {0} /\ 0 \in FSlots /\ FSlots \subseteq Nat
  BY FramesAssumption DEF FSlots
<1>2. \A s \in FSlots : s < FrameSlots
  BY <1>1 DEF FSlots
<1>3. \A s \in FSlots : pending[s] \in CommandBuffers /\ pending[s].id = s /\ pending[s].uses = {}
  BY <1>1 DEF FrameInit, CommandBuffer, CommandBuffers
<1>4. pending \in [FSlots -> CommandBuffers]
  BY <1>3 DEF FrameInit
<1>5. gFlight = <<>> /\ tFlight = <<>> /\ DOMAIN gFlight = {} /\ DOMAIN tFlight = {}
  BY DEF FrameInit
<1>6. FramesTypeOK
  BY <1>1, <1>4, <1>5 DEF FrameInit, FramesTypeOK
<1>7. ObjectsInv
  BY <1>3 DEF FrameInit, ObjectsInv
<1>8. PhaseInv
  BY <1>5 DEF FrameInit, PhaseInv
<1>9. SubmittedUses /\ UpcomingUses /\ TransferUses /\ BuffersGuarded
  BY <1>5 DEF FrameInit, SubmittedUses, UpcomingUses, Upcoming, TransferUses, BuffersGuarded
<1>10. BuffersApart
  BY <1>1, <1>2, <1>3 DEF FrameInit, BuffersApart, IdBound, Freed
<1>11. AcquiredInv /\ SemaphoresInv
  BY <1>1, <1>2, <1>5 DEF FrameInit, AcquiredInv, SemaphoresInv
<1> QED BY <1>6, <1>7, <1>8, <1>9, <1>10, <1>11 DEF FramesInv

\* The inductive invariant of the frame loop: FramesInv holds in every state, for any number of
\* slots, resources and frames and any order of the swapchain images.
THEOREM FramesInvariance == FrameSpec => []FramesInv
<1>1. FrameInit => FramesInv
  BY FramesInitial
<1>2. FramesInv /\ [FrameNext]_frameVars => FramesInv'
  <2> SUFFICES ASSUME FramesInv, [FrameNext]_frameVars PROVE FramesInv'
    OBVIOUS
  <2>1. ASSUME NEW o \in FrameObjects,
               CreateObject(o) \/ DropObject(o) \/ RunTransferCallback(o) \/ DrawObject(o)
        PROVE  FramesInv'
    BY <2>1, CreateObjectSafe, DropObjectSafe, RunTransferCallbackSafe, DrawObjectSafe
  <2>2. CASE AcquireImage \/ WaitFence \/ StartTransfers \/ CleanupSlot
    BY <2>2, AcquireImageSafe, WaitFenceSafe, StartTransfersSafe, CleanupSlotSafe
  <2>3. CASE RetrieveBuffers \/ SubmitGraphics \/ SubmitTransfers \/ FrameCompletes
    BY <2>3, RetrieveBuffersSafe, SubmitGraphicsSafe, SubmitTransfersSafe, FrameCompletesSafe
  <2>4. CASE UNCHANGED frameVars
    BY <2>4, FramesStutter
  <2> QED BY <2>1, <2>2, <2>3, <2>4 DEF FrameNext
<1> QED BY <1>1, <1>2, PTL DEF FrameSpec

\* FramesSafe: whatever the device has not completed uses no destroyed resource (but for one dropped
\* between the callbacks of a frame and the change of the slot), no freed command buffer and no
\* semaphore that is acquired again, and a resource is drawn in no frame before the graphics queue
\* acquires it.
THEOREM FramesCorrect == FrameSpec => []FramesSafe
<1>1. FramesInv => FramesSafe
  <2> SUFFICES ASSUME FramesInv PROVE FramesSafe
    OBVIOUS
  <2> USE DEF FramesInv
  <2>1. DestroyedAfterUse
    <3> SUFFICES ASSUME NEW o \in FrameObjects \ early, objState[o] = "destroyed", UsedByDevice(o)
                 PROVE  FALSE
      BY DEF DestroyedAfterUse
    <3>1. CASE \E i \in DOMAIN gFlight : o \in gFlight[i].objs
      BY <3>1 DEF SubmittedUses
    <3>2. CASE \E i \in DOMAIN tFlight : o \in tFlight[i].objs
      <4>1. PICK i \in DOMAIN tFlight : o \in tFlight[i].objs
        BY <3>2
      <4>2. tFlight[i].slot \in FSlots /\ o \in jobsUp[tFlight[i].slot]
        BY <4>1, TransferFlightFacts DEF TransferUses
      <4> QED BY <4>2 DEF ObjectsInv
    <3> QED BY <3>1, <3>2 DEF UsedByDevice, Submissions, ToSet
  <2>2. OwnershipBuffersOutliveUse
    <3>1. \A b \in ToSet(gFlight) : b.cbs \cap deadCbs = {}
      BY DEF BuffersGuarded, ToSet
    <3>2. (Ids(held) \cup Ids(ready)) \cap deadCbs = {}
      <4>1. held \in SUBSET CommandBuffers /\ ready \in SUBSET CommandBuffers
        BY DEF FramesTypeOK
      <4>2. \A n \in Ids(held) \cup Ids(ready) : \E b \in held \cup ready : b.id = n
        BY <4>1, BufferFacts
      <4> QED BY <4>2 DEF BuffersApart, Freed
    <3> QED BY <3>1, <3>2 DEF OwnershipBuffersOutliveUse
  <2>3. AcquiredBeforeDrawn
    BY BufferFacts DEF AcquiredBeforeDrawn, AcquiredInv, PhaseInv, FramesTypeOK
  <2>4. AcquireSemaphoreIdle
    BY GraphicsFlightFacts DEF AcquireSemaphoreIdle, SemaphoresInv, ToSet
  <2> QED BY <2>1, <2>2, <2>3, <2>4 DEF FramesSafe
<1> QED BY <1>1, FramesInvariance, PTL
=============================================================================
