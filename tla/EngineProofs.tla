---------------------------- MODULE EngineProofs ----------------------------
(* Proofs about GraphicsManager, for any names, kinds, framebuffer configs     *)
(* and numbers of swapchain images, and about Entities, for any threads, names *)
(* and components; about Statistics, for any threads, samples and buckets; and *)
(* about GameStates, GlfwWindows and InputFrames, for any of what they name.   *)
EXTENDS GraphicsManager, Entities, Statistics, InputFrames, FiniteSetTheorems, SequenceTheorems, WellFoundedInduction,
        NaturalsInduction, TLAPS

(***************************************************************************)
(* pipeline_config and the pipelines that are made of it                   *)
(***************************************************************************)

Pointers == {"null", "own", "elsewhere"}
Stages   == [data : Nat, info : Pointers]
ConfigRecords ==
  [lists : [StateLists -> Nat \cup {NoList}], derived : [StateLists -> Pointers], stages : Seq(Stages)]

\* The inductive invariant: live configs are well formed, and what the device was given last is right.
PcInv == (\A c \in DOMAIN pcConfigs : pcConfigs[c] \in ConfigRecords) /\ PipelineConfigsSafe

LEMMA FiniteUpTo == ASSUME NEW n \in Nat PROVE IsFiniteSet(1 .. n)
<1>1. 1 \in Int /\ n \in Int
  OBVIOUS
<1> QED BY ONLY <1>1, FS_Interval

LEMMA OutdatedPointers == ASSUME NEW p \in Pointers PROVE Outdated(p) \in Pointers
BY DEF Outdated, Pointers

LEMMA CopiedRecord ==
  ASSUME NEW config \in ConfigRecords
  PROVE  Copied(config) \in ConfigRecords
<1> DEFINE Copy(stage) == [stage EXCEPT !.info = Outdated(@)]
<1>1. ASSUME NEW stage \in Stages PROVE Copy(stage) \in Stages
  <2>1. stage.info \in Pointers /\ stage.data \in Nat
    BY DEF Stages
  <2>2. Outdated(stage.info) \in Pointers
    BY <2>1, OutdatedPointers
  <2> QED BY <2>1, <2>2 DEF Stages
<1>2. config.stages \in Seq(Stages) /\ config.derived \in [StateLists -> Pointers]
  BY DEF ConfigRecords
<1>3. [s \in DOMAIN config.stages |-> Copy(config.stages[s])] \in Seq(Stages)
  <2>1. Len(config.stages) \in Nat /\ DOMAIN config.stages = 1 .. Len(config.stages)
    BY <1>2
  <2>2. \A s \in DOMAIN config.stages : Copy(config.stages[s]) \in Stages
    BY <1>1, <1>2
  <2> HIDE DEF Copy
  <2> QED BY <2>1, <2>2
<1>4. [l \in StateLists |-> Outdated(config.derived[l])] \in [StateLists -> Pointers]
  BY <1>2, OutdatedPointers
<1>5. Copied(config) = [config EXCEPT !.derived = [l \in StateLists |-> Outdated(config.derived[l])],
                                      !.stages = [s \in DOMAIN config.stages |-> Copy(config.stages[s])]]
  BY DEF Copied
<1> HIDE DEF Copy
<1> QED BY <1>3, <1>4, <1>5 DEF ConfigRecords

LEMMA GeneratedRecord ==
  ASSUME NEW config \in ConfigRecords
  PROVE  Generated(config) \in ConfigRecords
<1>1. ASSUME NEW stage \in Stages PROVE WithInfo(stage) \in Stages
  BY DEF Stages, WithInfo, Pointers
<1>2. config.stages \in Seq(Stages)
  BY DEF ConfigRecords
<1>3. [s \in DOMAIN config.stages |-> WithInfo(config.stages[s])] \in Seq(Stages)
  <2>1. Len(config.stages) \in Nat /\ DOMAIN config.stages = 1 .. Len(config.stages)
    BY <1>2
  <2>2. \A s \in DOMAIN config.stages : WithInfo(config.stages[s]) \in Stages
    BY <1>1, <1>2
  <2> QED BY <2>1, <2>2
<1>4. [l \in StateLists |-> IF config.lists[l] = NoList THEN "null" ELSE "own"] \in [StateLists -> Pointers]
  BY DEF Pointers
<1> QED BY <1>3, <1>4 DEF ConfigRecords, Generated

\* What the device is given of a well-formed config that has been generated.
LEMMA GivenIsRight ==
  ASSUME NEW config \in ConfigRecords
  PROVE  LET given == GivenToDevice(Generated(config)) IN
           /\ \A l \in StateLists : given.states[l] = IF given.lists[l] = NoList THEN "null" ELSE "own"
           /\ \A s \in DOMAIN given.data : given.stages[s] = IF given.data[s] = 0 THEN "null" ELSE "own"
<1> DEFINE made == Generated(config)
           given == GivenToDevice(made)
<1>1. /\ made.lists = config.lists
      /\ made.derived = [l \in StateLists |-> IF config.lists[l] = NoList THEN "null" ELSE "own"]
      /\ made.stages = [s \in DOMAIN config.stages |-> WithInfo(config.stages[s])]
  BY DEF ConfigRecords, Generated
<1>2. \A s \in DOMAIN made.stages : made.stages[s].info = "own"
  <2>1. \A s \in DOMAIN config.stages : config.stages[s] \in Stages
    BY DEF ConfigRecords
  <2> QED BY <1>1, <2>1 DEF WithInfo, Stages
<1> HIDE DEF made
<1>3. /\ given.lists = made.lists
      /\ given.states = [l \in StateLists |-> IF made.lists[l] = NoList THEN "null" ELSE made.derived[l]]
      /\ given.data = [s \in DOMAIN made.stages |-> made.stages[s].data]
      /\ given.stages = [s \in DOMAIN made.stages |-> StageCreateInfo(made.stages[s])]
  BY DEF GivenToDevice
<1> HIDE DEF given
<1>4. \A l \in StateLists : given.states[l] = IF given.lists[l] = NoList THEN "null" ELSE "own"
  BY <1>1, <1>3
<1>5. \A s \in DOMAIN given.data : given.stages[s] = IF given.data[s] = 0 THEN "null" ELSE "own"
  BY <1>2, <1>3 DEF StageCreateInfo
<1> QED BY <1>4, <1>5 DEF given, made

\* A config is replaced by a well-formed one.
LEMMA ConfigStep ==
  ASSUME PcInv, NEW c, NEW config \in ConfigRecords, WithConfig(c, config)
  PROVE  PcInv'
<1>1. \A d \in DOMAIN pcConfigs' : pcConfigs'[d] \in ConfigRecords
  BY DEF PcInv, WithConfig
<1>2. PipelineConfigsSafe'
  BY DEF WithConfig, PipelineConfigsSafe
<1> QED BY <1>1, <1>2 DEF PcInv

LEMMA NewConfigRecord == NewConfig \in ConfigRecords
<1>1. [l \in StateLists |-> IF l \in OptionalLists THEN NoList ELSE 0] \in [StateLists -> Nat \cup {NoList}]
  OBVIOUS
<1>2. [l \in StateLists |-> "null"] \in [StateLists -> Pointers]
  BY DEF Pointers
<1>3. <<>> \in Seq(Stages)
  OBVIOUS
<1> QED BY <1>1, <1>2, <1>3 DEF NewConfig, ConfigRecords

LEMMA ChangeStateStep ==
  ASSUME PcInv, NEW c, NEW l \in StateLists, NEW length \in Nat \cup {NoList}, ChangeState(c, l, length)
  PROVE  PcInv'
<1>1. Live(c) /\ WithConfig(c, [pcConfigs[c] EXCEPT !.lists[l] = length, !.derived[l] = Outdated(@)])
  BY DEF ChangeState
<1> DEFINE config == pcConfigs[c]
           lists == [config.lists EXCEPT ![l] = length]
           derived == [config.derived EXCEPT ![l] = Outdated(@)]
<1>2. config \in ConfigRecords
  BY <1>1 DEF PcInv, Live
<1>3. lists \in [StateLists -> Nat \cup {NoList}]
  BY <1>2 DEF ConfigRecords
<1>4. derived \in [StateLists -> Pointers]
  <2>1. config.derived \in [StateLists -> Pointers]
    BY <1>2 DEF ConfigRecords
  <2>2. Outdated(config.derived[l]) \in Pointers
    BY <2>1, OutdatedPointers
  <2> QED BY <2>1, <2>2
<1>5. [config EXCEPT !.lists[l] = length, !.derived[l] = Outdated(@)]
        = [lists |-> lists, derived |-> derived, stages |-> config.stages]
  <2> HIDE DEF config
  <2>1. config = [lists |-> config.lists, derived |-> config.derived, stages |-> config.stages]
    BY <1>2 DEF ConfigRecords
  <2>2. PICK a, b, d : config = [lists |-> a, derived |-> b, stages |-> d]
    BY <2>1
  <2>3. config.lists = a /\ config.derived = b /\ config.stages = d
    BY <2>2
  <2>4. [config EXCEPT !.lists[l] = length, !.derived[l] = Outdated(@)]
          = [config EXCEPT !.lists = lists, !.derived = derived]
    OBVIOUS
  <2> HIDE DEF lists, derived
  <2>5. [config EXCEPT !.lists = lists, !.derived = derived] = [lists |-> lists, derived |-> derived, stages |-> d]
    <3>1. PICK first : first = [config EXCEPT !.lists = lists]
      OBVIOUS
    <3>2. first = [lists |-> lists, derived |-> b, stages |-> d]
      BY <2>2, <3>1
    <3>3. [first EXCEPT !.derived = derived] = [lists |-> lists, derived |-> derived, stages |-> d]
      BY <3>2
    <3> QED BY <3>1, <3>3
  <2> QED BY <2>3, <2>4, <2>5
<1>6. [lists |-> lists, derived |-> derived, stages |-> config.stages] \in ConfigRecords
  BY <1>2, <1>3, <1>4 DEF ConfigRecords
<1> QED BY <1>1, <1>5, <1>6, ConfigStep

LEMMA StagesStep ==
  ASSUME PcInv, NEW c, Live(c), NEW stages \in Seq(Stages), WithConfig(c, [pcConfigs[c] EXCEPT !.stages = stages])
  PROVE  PcInv'
<1>1. pcConfigs[c] \in ConfigRecords
  BY DEF PcInv, Live
<1>2. [pcConfigs[c] EXCEPT !.stages = stages] \in ConfigRecords
  BY <1>1 DEF ConfigRecords
<1> QED BY <1>2, ConfigStep

LEMMA PcStep ==
  ASSUME PcInv, [PcNext]_pcVars
  PROVE  PcInv'
<1>1. CASE \E c \in PipelineObjects : Construct(c)
  BY <1>1, NewConfigRecord, ConfigStep DEF Construct
<1>2. CASE \E c \in PipelineObjects : Destroy(c)
  <2>1. \A d \in DOMAIN pcConfigs' : pcConfigs'[d] \in ConfigRecords
    BY <1>2 DEF PcInv, Destroy
  <2>2. PipelineConfigsSafe'
    BY <1>2 DEF Destroy, PipelineConfigsSafe
  <2> QED BY <2>1, <2>2 DEF PcInv
<1>3. CASE \E c \in PipelineObjects : ClearStages(c)
  <2>1. <<>> \in Seq(Stages)
    OBVIOUS
  <2> QED BY <1>3, <2>1, StagesStep DEF ClearStages
<1>4. CASE \E c \in PipelineObjects : Generate(c)
  <2>1. PICK c \in PipelineObjects : Live(c) /\ WithConfig(c, Generated(pcConfigs[c]))
    BY <1>4 DEF Generate
  <2>2. pcConfigs[c] \in ConfigRecords
    BY <2>1 DEF PcInv, Live
  <2> QED BY <2>1, <2>2, GeneratedRecord, ConfigStep
<1>5. CASE \E c, d \in PipelineObjects : CopyConfig(c, d)
  <2>1. PICK c, d \in PipelineObjects : Live(d) /\ WithConfig(c, Copied(pcConfigs[d]))
    BY <1>5 DEF CopyConfig
  <2>2. pcConfigs[d] \in ConfigRecords
    BY <2>1 DEF PcInv, Live
  <2> QED BY <2>1, <2>2, CopiedRecord, ConfigStep
<1>6. CASE \E c \in PipelineObjects, l \in StateLists : AddItem(c, l) \/ ClearItems(c, l) \/ SetState(c, l) \/ ResetState(c, l)
  <2>1. PICK c \in PipelineObjects, l \in StateLists : AddItem(c, l) \/ ClearItems(c, l) \/ SetState(c, l) \/ ResetState(c, l)
    BY <1>6
  <2>2. \E length \in Nat \cup {NoList} : ChangeState(c, l, length)
    <3>1. CASE AddItem(c, l)
      <4>1. pcConfigs[c].lists[l] + 1 \in Nat
        BY <3>1, PipelineAssumption DEF AddItem
      <4> QED BY <3>1, <4>1 DEF AddItem
    <3>2. CASE ClearItems(c, l) \/ SetState(c, l) \/ ResetState(c, l)
      BY <3>2 DEF ClearItems, SetState, ResetState
    <3> QED BY <2>1, <3>1, <3>2
  <2> QED BY <2>2, ChangeStateStep
<1>7. CASE \E c \in PipelineObjects, n \in 0 .. MaxItems : AddStage(c, n)
  <2>1. PICK c \in PipelineObjects, n \in 0 .. MaxItems : AddStage(c, n)
    BY <1>7
  <2>2. pcConfigs[c].stages \in Seq(Stages)
    BY <2>1 DEF AddStage, Live, PcInv, ConfigRecords
  <2>3. [data |-> n, info |-> "null"] \in Stages
    BY PipelineAssumption DEF Stages, Pointers
  <2>4. Append(pcConfigs[c].stages, [data |-> n, info |-> "null"]) \in Seq(Stages)
    BY <2>2, <2>3
  <2> QED BY <2>1, <2>4, StagesStep DEF AddStage
<1>8. CASE \E c \in PipelineObjects, s \in 1 .. MaxStages, n \in 0 .. MaxItems : Specialize(c, s, n)
  <2>1. PICK c \in PipelineObjects, s \in 1 .. MaxStages, n \in 0 .. MaxItems : Specialize(c, s, n)
    BY <1>8
  <2> DEFINE stages == pcConfigs[c].stages
             stage == WithInfo([stages[s] EXCEPT !.data = n])
  <2>2. stages \in Seq(Stages) /\ s \in DOMAIN stages
    BY <2>1 DEF Specialize, Live, PcInv, ConfigRecords
  <2>3. stage \in Stages
    <3>1. stages[s] \in Stages /\ n \in Nat
      BY <2>2, PipelineAssumption
    <3> HIDE DEF stages
    <3> QED BY <3>1 DEF Stages, Pointers, WithInfo
  <2>4. [stages EXCEPT ![s] = stage] \in Seq(Stages)
    <3> HIDE DEF stage, stages
    <3> QED BY <2>2, <2>3
  <2>5. pcConfigs[c] \in ConfigRecords
    BY <2>1 DEF PcInv, Live, Specialize
  <2>6. [pcConfigs[c] EXCEPT !.stages[s] = WithInfo([@ EXCEPT !.data = n])]
          = [pcConfigs[c] EXCEPT !.stages = [stages EXCEPT ![s] = stage]]
    BY <2>5 DEF ConfigRecords
  <2> HIDE DEF stage
  <2> QED BY <2>1, <2>4, <2>6, StagesStep DEF Specialize
<1>9. CASE \E c, d \in PipelineObjects : CreatePipelines(<<c>>) \/ CreatePipelines(<<c, d>>)
  <2>1. PICK configs : CreatePipelines(configs)
    BY <1>9
  <2>2. \A k \in DOMAIN configs : Copied(pcConfigs[configs[k]]) \in ConfigRecords
    BY <2>1, CopiedRecord DEF CreatePipelines, Live, PcInv
  <2>3. PipelineConfigsSafe'
    BY <2>1, <2>2, GivenIsRight DEF CreatePipelines, PipelineConfigsSafe
  <2> QED BY <2>1, <2>3 DEF PcInv, CreatePipelines
<1>10. CASE UNCHANGED pcVars
  BY <1>10 DEF pcVars, PcInv, PipelineConfigsSafe
<1> QED
  BY <1>1, <1>2, <1>3, <1>4, <1>5, <1>6, <1>7, <1>8, <1>9, <1>10 DEF PcNext

LEMMA PipelineConfigsCorrect == PcSpec => []PipelineConfigsSafe
<1>1. PcInit => PcInv
  BY DEF PcInit, PcInv, PipelineConfigsSafe
<1>2. PcInv /\ [PcNext]_pcVars => PcInv'
  BY PcStep
<1>3. PcInv => PipelineConfigsSafe
  BY DEF PcInv
<1> QED BY <1>1, <1>2, <1>3, PTL DEF PcSpec

(***************************************************************************)
(* graphics_manager: the objects and their names                           *)
(***************************************************************************)

GraphicsObjects == [kind : ObjectKinds, uses : SUBSET Nat, config : FbConfigs \cup {NoGraphicsObject}]

Notes == [name : ObjectNames, config : Nat]

\* The object made as the i-th is whole: it uses objects that are there, of the kinds that it is made of.
Whole(objects, object) ==
  /\ object \in GraphicsObjects /\ object.uses \subseteq DOMAIN objects
  /\ object.kind \in ComposedKinds => {objects[u].kind : u \in object.uses} = Parts(object.kind)
  /\ object.kind = "framebuffer config" => object.config \in FbConfigs

IsOfKind(objects, id, kind) == id \in DOMAIN objects /\ objects[id].kind = kind

ObjectsInv ==
  /\ gmObjects \in Seq(GraphicsObjects)
  /\ \A i \in DOMAIN gmObjects : Whole(gmObjects, gmObjects[i])

\* An entry holds nothing or an object of its kind; a name that a call has returned still holds it.
NamesInv ==
  /\ DOMAIN gmNamed = ObjectKinds /\ DOMAIN gmPromised = ObjectKinds
  /\ \A kind \in ObjectKinds : \A n \in DOMAIN gmNamed[kind] :
       gmNamed[kind][n] = NoGraphicsObject \/ IsOfKind(gmObjects, gmNamed[kind][n], kind)
  /\ \A kind \in ObjectKinds : \A n \in DOMAIN gmPromised[kind] :
       /\ n \in DOMAIN gmNamed[kind] /\ gmNamed[kind][n] = gmPromised[kind][n]
       /\ gmPromised[kind][n] # NoGraphicsObject

\* Pending names are each noted once, are not lost, and their configs are there.
PendingInv ==
  /\ gmPending \in Seq(Notes)
  /\ \A k \in DOMAIN gmPending :
       gmPending[k].name \notin gmLost /\ IsOfKind(gmObjects, gmPending[k].config, "pipeline config")
  /\ \A j, k \in DOMAIN gmPending : gmPending[j].name = gmPending[k].name => j = k

RegisteredInv ==
  /\ DOMAIN gmNamed["pipeline"] = DOMAIN gmNamed["pipeline config"]
  /\ \A n \in DOMAIN gmNamed["pipeline"] :
       /\ gmNamed["pipeline"][n] # NoGraphicsObject /\ n \notin gmLost
       /\ \A k \in DOMAIN gmPending : gmPending[k].name # n

FramesInv ==
  FramesShowTheirImage /\ (gmFrames.config # NoGraphicsObject => gmFrames.config \in DOMAIN gmObjects)

GmInv == ObjectsInv /\ NamesInv /\ PendingInv /\ RegisteredInv /\ FramesInv

LEMMA KindFacts ==
  /\ {"pipeline", "pipeline config"} \cap (NamedKinds \cup ComposedKinds) = {}
  /\ NamedKinds \cap ComposedKinds = {}
  /\ {"pipeline", "pipeline config"} \cup NamedKinds \cup ComposedKinds = ObjectKinds
  /\ "framebuffer config" \in NamedKinds
  /\ \A kind \in ComposedKinds : Parts(kind) # {} /\ Parts(kind) \subseteq NamedKinds
<1>1. SimpleKinds \cap {"pipeline layout", "render pass", "pipeline config", "pipeline"} = {}
  BY GraphicsManagerAssumption
<1> QED BY <1>1 DEF NamedKinds, ComposedKinds, ObjectKinds, Parts

(***************************************************************************)
(* What a step adds                                                        *)
(***************************************************************************)

Grows(objects, more) == \A i \in DOMAIN objects : i \in DOMAIN more /\ more[i] = objects[i]

LEMMA WholeKept ==
  ASSUME NEW objects, NEW more, NEW object, Whole(objects, object), Grows(objects, more)
  PROVE  Whole(more, object)
<1>1. object.uses \subseteq DOMAIN more
  BY DEF Whole, Grows
<1>2. {more[u].kind : u \in object.uses} = {objects[u].kind : u \in object.uses}
  BY DEF Whole, Grows
<1> QED BY <1>1, <1>2 DEF Whole

LEMMA OneMore ==
  ASSUME ObjectsInv, NEW object, Whole(gmObjects, object), gmObjects' = Append(gmObjects, object)
  PROVE  /\ ObjectsInv' /\ Grows(gmObjects, gmObjects')
         /\ IsOfKind(gmObjects', NewId, object.kind) /\ NewId \in Nat
<1>1. gmObjects \in Seq(GraphicsObjects) /\ object \in GraphicsObjects
  BY DEF ObjectsInv, Whole
<1>2. /\ gmObjects' \in Seq(GraphicsObjects) /\ NewId \in Nat
      /\ DOMAIN gmObjects' = DOMAIN gmObjects \cup {NewId}
      /\ \A i \in DOMAIN gmObjects : gmObjects'[i] = gmObjects[i]
      /\ gmObjects'[NewId] = object
  BY <1>1 DEF NewId
<1>3. Grows(gmObjects, gmObjects')
  BY <1>2 DEF Grows
<1>4. \A i \in DOMAIN gmObjects' : Whole(gmObjects, gmObjects'[i])
  BY <1>2 DEF ObjectsInv
<1>5. \A i \in DOMAIN gmObjects' : Whole(gmObjects', gmObjects'[i])
  BY <1>3, <1>4, WholeKept
<1> QED BY <1>2, <1>3, <1>5 DEF ObjectsInv, IsOfKind

LEMMA FramesKept ==
  ASSUME FramesInv, Grows(gmObjects, gmObjects'), UNCHANGED gmFrames
  PROVE  FramesInv'
<1>1. CASE gmFrames.config = NoGraphicsObject
  BY <1>1 DEF FramesInv, FramesShowTheirImage
<1>2. CASE gmFrames.config # NoGraphicsObject
  <2>1. gmFrames.config \in DOMAIN gmObjects' /\ gmObjects'[gmFrames.config] = gmObjects[gmFrames.config]
    BY <1>2 DEF FramesInv, Grows
  <2> QED BY <1>2, <2>1 DEF FramesInv, FramesShowTheirImage
<1> QED BY <1>1, <1>2

LEMMA PendingKept ==
  ASSUME PendingInv, Grows(gmObjects, gmObjects'), UNCHANGED <<gmPending, gmLost>>
  PROVE  PendingInv'
BY DEF PendingInv, Grows, IsOfKind

LEMMA Same == Grows(gmObjects, gmObjects)
BY DEF Grows

\* Names of the kinds that are not pipelines.
LEMMA RegisteredKept ==
  ASSUME RegisteredInv, gmNamed'["pipeline"] = gmNamed["pipeline"],
         gmNamed'["pipeline config"] = gmNamed["pipeline config"], UNCHANGED <<gmPending, gmLost>>
  PROVE  RegisteredInv'
BY DEF RegisteredInv

(***************************************************************************)
(* Creation and release                                                    *)
(***************************************************************************)

LEMMA EnterStep ==
  ASSUME GmInv, NEW kind \in NamedKinds \cup ComposedKinds, NEW n, NEW object, Whole(gmObjects, object),
         object.kind = kind, EnterObject(kind, n, object), UNCHANGED <<gmPending, gmLost, gmFrames>>
  PROVE  GmInv'
<1>1. /\ ObjectsInv' /\ Grows(gmObjects, gmObjects')
      /\ IsOfKind(gmObjects', NewId, kind) /\ NewId \in Nat
  BY OneMore DEF GmInv, EnterObject
<1>2. NewId # NoGraphicsObject /\ kind \in ObjectKinds /\ kind # "pipeline" /\ kind # "pipeline config"
  BY <1>1, GraphicsManagerAssumption, KindFacts
<1>3. /\ DOMAIN gmNamed' = ObjectKinds /\ DOMAIN gmPromised' = ObjectKinds
      /\ \A other \in ObjectKinds : gmNamed'[other] = IF other = kind THEN With(gmNamed[kind], n, NewId) ELSE gmNamed[other]
      /\ \A other \in ObjectKinds : gmPromised'[other] = IF other = kind THEN With(gmPromised[kind], n, NewId) ELSE gmPromised[other]
  BY DEF EnterObject, GmInv, NamesInv
<1>4. /\ DOMAIN With(gmNamed[kind], n, NewId) = DOMAIN gmNamed[kind] \cup {n}
      /\ \A m \in DOMAIN gmNamed[kind] \cup {n} : With(gmNamed[kind], n, NewId)[m] = IF m = n THEN NewId ELSE gmNamed[kind][m]
      /\ DOMAIN With(gmPromised[kind], n, NewId) = DOMAIN gmPromised[kind] \cup {n}
      /\ \A m \in DOMAIN gmPromised[kind] \cup {n} :
           With(gmPromised[kind], n, NewId)[m] = IF m = n THEN NewId ELSE gmPromised[kind][m]
  BY DEF With
<1>5. \A other \in ObjectKinds : \A m \in DOMAIN gmNamed'[other] :
        gmNamed'[other][m] = NoGraphicsObject \/ IsOfKind(gmObjects', gmNamed'[other][m], other)
  <2> TAKE other \in ObjectKinds
  <2> TAKE m \in DOMAIN gmNamed'[other]
  <2>1. CASE other = kind /\ m = n
    BY <1>1, <1>3, <1>4, <2>1
  <2>2. CASE ~(other = kind /\ m = n)
    <3>1. m \in DOMAIN gmNamed[other] /\ gmNamed'[other][m] = gmNamed[other][m]
      BY <1>3, <1>4, <2>2
    <3> QED BY <1>1, <3>1 DEF GmInv, NamesInv, IsOfKind, Grows
  <2> QED BY <2>1, <2>2
<1>6. \A other \in ObjectKinds : \A m \in DOMAIN gmPromised'[other] :
        /\ m \in DOMAIN gmNamed'[other] /\ gmNamed'[other][m] = gmPromised'[other][m]
        /\ gmPromised'[other][m] # NoGraphicsObject
  <2> TAKE other \in ObjectKinds
  <2> TAKE m \in DOMAIN gmPromised'[other]
  <2>1. CASE other = kind /\ m = n
    BY <1>2, <1>3, <1>4, <2>1
  <2>2. CASE ~(other = kind /\ m = n)
    <3>1. m \in DOMAIN gmPromised[other] /\ gmPromised'[other][m] = gmPromised[other][m]
      BY <1>3, <1>4, <2>2
    <3>2. m \in DOMAIN gmNamed[other]
      BY <3>1 DEF GmInv, NamesInv
    <3>3. m \in DOMAIN gmNamed'[other] /\ gmNamed'[other][m] = gmNamed[other][m]
      BY <1>3, <1>4, <2>2, <3>2
    <3> QED BY <3>1, <3>3 DEF GmInv, NamesInv
  <2> QED BY <2>1, <2>2
<1>7. NamesInv'
  BY <1>3, <1>5, <1>6 DEF NamesInv
<1>8. RegisteredInv'
  BY <1>2, <1>3, KindFacts, RegisteredKept DEF GmInv
<1> QED BY <1>1, <1>7, <1>8, FramesKept, PendingKept DEF GmInv

\* An entry that holds nothing was promised to nobody.
LEMMA FreeIsNotPromised ==
  ASSUME NamesInv, NEW kind \in ObjectKinds, NEW n, NameFree(kind, n)
  PROVE  n \notin DOMAIN gmPromised[kind]
BY DEF NamesInv, NameFree, At

LEMMA LeaveStep ==
  ASSUME GmInv, NEW kind \in NamedKinds \cup ComposedKinds, NEW n, NameFree(kind, n), LeaveEmpty(kind, n),
         UNCHANGED <<gmPending, gmLost, gmFrames>>
  PROVE  GmInv'
<1>1. kind \in ObjectKinds /\ kind # "pipeline" /\ kind # "pipeline config"
  BY KindFacts
<1>2. n \notin DOMAIN gmPromised[kind]
  BY <1>1, FreeIsNotPromised DEF GmInv
<1>3. /\ gmObjects' = gmObjects /\ gmPromised' = gmPromised
      /\ DOMAIN gmNamed' = ObjectKinds
      /\ \A other \in ObjectKinds :
           gmNamed'[other] = IF other = kind THEN With(gmNamed[kind], n, NoGraphicsObject) ELSE gmNamed[other]
  BY DEF LeaveEmpty, GmInv, NamesInv
<1>4. /\ DOMAIN With(gmNamed[kind], n, NoGraphicsObject) = DOMAIN gmNamed[kind] \cup {n}
      /\ \A m \in DOMAIN gmNamed[kind] \cup {n} :
           With(gmNamed[kind], n, NoGraphicsObject)[m] = IF m = n THEN NoGraphicsObject ELSE gmNamed[kind][m]
  BY DEF With
<1>5. NamesInv'
  <2>1. \A other \in ObjectKinds : \A m \in DOMAIN gmNamed'[other] :
          gmNamed'[other][m] = NoGraphicsObject \/ (m \in DOMAIN gmNamed[other] /\ gmNamed'[other][m] = gmNamed[other][m])
    BY <1>3, <1>4
  <2>2. \A other \in ObjectKinds : \A m \in DOMAIN gmPromised[other] :
          m \in DOMAIN gmNamed'[other] /\ gmNamed'[other][m] = gmNamed[other][m]
    <3> TAKE other \in ObjectKinds
    <3> TAKE m \in DOMAIN gmPromised[other]
    <3>1. m \in DOMAIN gmNamed[other]
      BY DEF GmInv, NamesInv
    <3> QED BY <1>2, <1>3, <1>4, <3>1
  <2> QED BY <1>3, <2>1, <2>2 DEF GmInv, NamesInv
<1>6. RegisteredInv'
  BY <1>1, <1>3, KindFacts, RegisteredKept DEF GmInv
<1> QED BY <1>3, <1>5, <1>6, Same, FramesKept, PendingKept DEF GmInv, ObjectsInv

\* A name is released from the maps of some kinds.
LEMMA ReleaseStep ==
  ASSUME GmInv, NEW kinds \in SUBSET ObjectKinds, NEW n, "pipeline" \in kinds <=> "pipeline config" \in kinds,
         DOMAIN gmNamed' = ObjectKinds, DOMAIN gmPromised' = ObjectKinds,
         \A kind \in ObjectKinds :
           /\ gmNamed'[kind] = IF kind \in kinds THEN Without(gmNamed[kind], n) ELSE gmNamed[kind]
           /\ gmPromised'[kind] = IF kind \in kinds THEN Without(gmPromised[kind], n) ELSE gmPromised[kind],
         UNCHANGED <<gmObjects, gmPending, gmLost, gmFrames>>
  PROVE  GmInv'
<1>1. \A kind \in ObjectKinds :
        /\ DOMAIN Without(gmNamed[kind], n) = DOMAIN gmNamed[kind] \ {n}
        /\ \A m \in DOMAIN gmNamed[kind] \ {n} : Without(gmNamed[kind], n)[m] = gmNamed[kind][m]
        /\ DOMAIN Without(gmPromised[kind], n) = DOMAIN gmPromised[kind] \ {n}
        /\ \A m \in DOMAIN gmPromised[kind] \ {n} : Without(gmPromised[kind], n)[m] = gmPromised[kind][m]
  BY DEF Without
<1>2. \A kind \in ObjectKinds :
        /\ \A m : m \in DOMAIN gmNamed'[kind] <=> m \in DOMAIN gmNamed[kind] /\ ~(kind \in kinds /\ m = n)
        /\ \A m : m \in DOMAIN gmPromised'[kind] <=> m \in DOMAIN gmPromised[kind] /\ ~(kind \in kinds /\ m = n)
        /\ \A m \in DOMAIN gmNamed'[kind] : gmNamed'[kind][m] = gmNamed[kind][m]
        /\ \A m \in DOMAIN gmPromised'[kind] : gmPromised'[kind][m] = gmPromised[kind][m]
  <2> TAKE kind \in ObjectKinds
  <2>1. CASE kind \in kinds
    <3>1. gmNamed'[kind] = Without(gmNamed[kind], n) /\ gmPromised'[kind] = Without(gmPromised[kind], n)
      BY <2>1
    <3>2. DOMAIN gmNamed'[kind] = DOMAIN gmNamed[kind] \ {n}
          /\ \A m \in DOMAIN gmNamed[kind] \ {n} : gmNamed'[kind][m] = gmNamed[kind][m]
      BY <1>1, <3>1
    <3>3. DOMAIN gmPromised'[kind] = DOMAIN gmPromised[kind] \ {n}
          /\ \A m \in DOMAIN gmPromised[kind] \ {n} : gmPromised'[kind][m] = gmPromised[kind][m]
      BY <1>1, <3>1
    <3> QED BY ONLY <2>1, <3>2, <3>3
  <2>2. CASE kind \notin kinds
    BY <2>2
  <2> QED BY <2>1, <2>2
<1>3. NamesInv'
  <2>1. \A kind \in ObjectKinds : \A m \in DOMAIN gmNamed'[kind] :
          gmNamed'[kind][m] = NoGraphicsObject \/ IsOfKind(gmObjects, gmNamed'[kind][m], kind)
    BY <1>2 DEF GmInv, NamesInv
  <2>2. \A kind \in ObjectKinds : \A m \in DOMAIN gmPromised'[kind] :
          /\ m \in DOMAIN gmNamed'[kind] /\ gmNamed'[kind][m] = gmPromised'[kind][m]
          /\ gmPromised'[kind][m] # NoGraphicsObject
    <3> TAKE kind \in ObjectKinds
    <3> TAKE m \in DOMAIN gmPromised'[kind]
    <3>1. m \in DOMAIN gmPromised[kind] /\ ~(kind \in kinds /\ m = n) /\ gmPromised'[kind][m] = gmPromised[kind][m]
      BY <1>2
    <3>2. m \in DOMAIN gmNamed[kind] /\ gmNamed[kind][m] = gmPromised[kind][m] /\ gmPromised[kind][m] # NoGraphicsObject
      BY <3>1 DEF GmInv, NamesInv
    <3> QED BY <1>2, <3>1, <3>2
  <2> QED BY <2>1, <2>2 DEF NamesInv
<1>4. RegisteredInv'
  <2>1. "pipeline" \in ObjectKinds /\ "pipeline config" \in ObjectKinds
    BY KindFacts
  <2>2. DOMAIN gmNamed'["pipeline"] = DOMAIN gmNamed'["pipeline config"]
    BY <1>2, <2>1 DEF GmInv, RegisteredInv
  <2>3. \A m \in DOMAIN gmNamed'["pipeline"] : m \in DOMAIN gmNamed["pipeline"] /\ gmNamed'["pipeline"][m] = gmNamed["pipeline"][m]
    BY <1>2, <2>1
  <2> QED BY <2>2, <2>3 DEF GmInv, RegisteredInv
<1> QED BY <1>3, <1>4, Same, FramesKept, PendingKept DEF GmInv, ObjectsInv

(***************************************************************************)
(* Pipelines                                                               *)
(***************************************************************************)

LEMMA AddPendingStep ==
  ASSUME GmInv, NEW n \in ObjectNames, NEW pass \in DOMAIN gmObjects, AddPendingPipeline(n, pass)
  PROVE  GmInv'
<1> DEFINE object == [kind |-> "pipeline config", uses |-> {pass}, config |-> NoGraphicsObject]
           noted  == [name |-> n, config |-> NewId]
<1>1. Whole(gmObjects, object)
  <2>1. pass \in Nat
    BY DEF GmInv, ObjectsInv
  <2>2. object.kind \in ObjectKinds /\ object.kind \notin ComposedKinds /\ object.kind # "framebuffer config"
    BY DEF ObjectKinds, ComposedKinds
  <2> QED BY <2>1, <2>2 DEF Whole, GraphicsObjects
<1>2. gmObjects' = Append(gmObjects, object)
  BY DEF AddPendingPipeline
<1>3. /\ ObjectsInv' /\ Grows(gmObjects, gmObjects')
      /\ IsOfKind(gmObjects', NewId, "pipeline config") /\ NewId \in Nat
  <2>1. object.kind = "pipeline config"
    OBVIOUS
  <2> HIDE DEF object
  <2> QED BY <1>1, <1>2, <2>1, OneMore DEF GmInv
<1> HIDE DEF object
<1>4. NamesInv'
  <2>1. gmNamed' = gmNamed /\ gmPromised' = gmPromised
    BY DEF AddPendingPipeline
  <2>2. \A kind \in ObjectKinds : \A m \in DOMAIN gmNamed[kind] :
          gmNamed[kind][m] = NoGraphicsObject \/ IsOfKind(gmObjects', gmNamed[kind][m], kind)
    BY <1>3 DEF GmInv, NamesInv, Grows, IsOfKind
  <2> QED BY <2>1, <2>2 DEF GmInv, NamesInv
<1>5. /\ gmPending' \in Seq(Notes)
      /\ DOMAIN gmPending' = DOMAIN gmPending \cup {Len(gmPending) + 1}
      /\ Len(gmPending) + 1 \notin DOMAIN gmPending
      /\ \A k \in DOMAIN gmPending : gmPending'[k] = gmPending[k]
      /\ gmPending'[Len(gmPending) + 1].name = n /\ gmPending'[Len(gmPending) + 1].config = NewId
  <2>1. gmPending \in Seq(Notes) /\ noted \in Notes
    BY <1>3 DEF GmInv, PendingInv, Notes
  <2>2. gmPending' = Append(gmPending, noted)
    BY DEF AddPendingPipeline
  <2>3. noted.name = n /\ noted.config = NewId
    OBVIOUS
  <2> HIDE DEF noted
  <2> QED BY <2>1, <2>2, <2>3
<1>6. gmLost' = gmLost \ {n} /\ \A k \in DOMAIN gmPending : gmPending[k].name # n
  BY DEF AddPendingPipeline
<1>7. PendingInv'
  <2>1. \A k \in DOMAIN gmPending' :
          gmPending'[k].name \notin gmLost' /\ IsOfKind(gmObjects', gmPending'[k].config, "pipeline config")
    <3>1. ASSUME NEW k \in DOMAIN gmPending
          PROVE  gmPending'[k].name \notin gmLost' /\ IsOfKind(gmObjects', gmPending'[k].config, "pipeline config")
      BY <1>3, <1>5, <1>6 DEF GmInv, PendingInv, IsOfKind, Grows
    <3>2. gmPending'[Len(gmPending) + 1].name \notin gmLost'
          /\ IsOfKind(gmObjects', gmPending'[Len(gmPending) + 1].config, "pipeline config")
      BY <1>3, <1>5, <1>6
    <3> QED BY <1>5, <3>1, <3>2
  <2>2. \A j, k \in DOMAIN gmPending' : gmPending'[j].name = gmPending'[k].name => j = k
    <3>1. \A j, k \in DOMAIN gmPending : gmPending'[j].name = gmPending'[k].name => j = k
      BY <1>5 DEF GmInv, PendingInv
    <3>2. \A j \in DOMAIN gmPending : gmPending'[j].name # gmPending'[Len(gmPending) + 1].name
      BY <1>5, <1>6
    <3> QED BY <1>5, <3>1, <3>2
  <2> QED BY <1>5, <2>1, <2>2 DEF PendingInv
<1>8. RegisteredInv'
  <2>1. gmNamed' = gmNamed /\ n \notin DOMAIN gmNamed["pipeline"]
    BY DEF AddPendingPipeline
  <2>2. \A m \in DOMAIN gmNamed["pipeline"] : \A k \in DOMAIN gmPending' : gmPending'[k].name # m
    <3> TAKE m \in DOMAIN gmNamed["pipeline"]
    <3>1. m # n /\ \A k \in DOMAIN gmPending : gmPending[k].name # m
      BY <2>1 DEF GmInv, RegisteredInv
    <3>2. \A k \in DOMAIN gmPending : gmPending'[k].name # m
      BY <1>5, <3>1
    <3> QED BY <1>5, <3>1, <3>2
  <2> QED BY <1>6, <2>1, <2>2 DEF GmInv, RegisteredInv
<1>9. FramesInv'
  BY <1>3, FramesKept DEF GmInv, AddPendingPipeline
<1> QED BY <1>3, <1>4, <1>7, <1>8, <1>9 DEF GmInv

LEMMA CompileThrowsStep ==
  ASSUME GmInv, CompileThrows
  PROVE  GmInv'
<1>1. gmNamed' = gmNamed /\ gmObjects' = gmObjects /\ gmPromised' = gmPromised /\ gmFrames' = gmFrames /\ gmPending' = <<>>
      /\ gmLost' = gmLost \cup {gmPending[k].name : k \in DOMAIN gmPending}
  BY DEF CompileThrows
<1>2. PendingInv'
  BY <1>1 DEF PendingInv
<1>3. RegisteredInv'
  <2>1. \A n \in DOMAIN gmNamed["pipeline"] : n \notin {gmPending[k].name : k \in DOMAIN gmPending}
    BY DEF GmInv, RegisteredInv
  <2>2. DOMAIN gmPending' = {}
    BY <1>1
  <2> QED BY <1>1, <2>1, <2>2 DEF GmInv, RegisteredInv
<1> QED BY <1>1, <1>2, <1>3, Same, FramesKept DEF GmInv, ObjectsInv, NamesInv

\* The compiled pipelines are registered at the end of the objects, in the order in which they were noted.
LEMMA CompileStep ==
  ASSUME GmInv, CompilePendingPipelines
  PROVE  GmInv'
<1> DEFINE names   == {gmPending[k].name : k \in DOMAIN gmPending}
           TaskOf(n) == CHOOSE k \in DOMAIN gmPending : gmPending[k].name = n
           object  == [kind |-> "pipeline", uses |-> {}, config |-> NoGraphicsObject]
           Made(map) == [n \in DOMAIN map \cup names |-> IF n \in names THEN Len(gmObjects) + TaskOf(n) ELSE map[n]]
           Paired(map) == [n \in DOMAIN map \cup names |-> IF n \in names THEN gmPending[TaskOf(n)].config ELSE map[n]]
           Registered(maps) == [maps EXCEPT !["pipeline"] = Made(@), !["pipeline config"] = Paired(@)]
<1>1. /\ gmObjects' = gmObjects \o [k \in DOMAIN gmPending |-> object]
      /\ gmNamed' = Registered(gmNamed) /\ gmPromised' = Registered(gmPromised)
      /\ gmPending' = <<>> /\ gmLost' = gmLost /\ gmFrames' = gmFrames
  BY DEF CompilePendingPipelines
<1>2. \A n \in names : TaskOf(n) \in DOMAIN gmPending /\ gmPending[TaskOf(n)].name = n
  OBVIOUS
<1>3. /\ gmObjects \in Seq(GraphicsObjects) /\ gmPending \in Seq(Notes)
      /\ \A k \in DOMAIN gmPending : gmPending[k].config \in Nat
  <2>1. gmObjects \in Seq(GraphicsObjects) /\ gmPending \in Seq(Notes)
    BY DEF GmInv, ObjectsInv, PendingInv
  <2>2. \A k \in DOMAIN gmPending : gmPending[k] \in Notes
    BY <2>1
  <2> QED BY <2>1, <2>2 DEF Notes
<1>4. Whole(gmObjects, object)
  <2>1. object.kind \in ObjectKinds /\ object.kind \notin ComposedKinds /\ object.kind # "framebuffer config"
    BY DEF ObjectKinds, ComposedKinds
  <2> QED BY <2>1 DEF Whole, GraphicsObjects
<1>5. /\ gmObjects' \in Seq(GraphicsObjects) /\ Grows(gmObjects, gmObjects')
      /\ \A i \in DOMAIN gmObjects' : (i \in DOMAIN gmObjects /\ gmObjects'[i] = gmObjects[i]) \/ gmObjects'[i] = object
      /\ \A k \in DOMAIN gmPending : IsOfKind(gmObjects', Len(gmObjects) + k, "pipeline")
  <2> DEFINE added == [k \in DOMAIN gmPending |-> object]
  <2>1. added \in Seq(GraphicsObjects) /\ Len(added) = Len(gmPending) /\ object \in GraphicsObjects
        /\ (\A k \in DOMAIN gmPending : added[k] = object) /\ DOMAIN gmPending = 1 .. Len(gmPending) /\ Len(gmPending) \in Nat
    <3>1. DOMAIN gmPending = 1 .. Len(gmPending) /\ Len(gmPending) \in Nat /\ object \in GraphicsObjects
      BY <1>3, <1>4 DEF Whole
    <3> HIDE DEF object
    <3> QED BY <3>1
  <2>2. object.kind = "pipeline" /\ gmObjects' = gmObjects \o added
    BY <1>1
  <2> HIDE DEF added, object
  <2>3. /\ gmObjects' \in Seq(GraphicsObjects)
        /\ \A i \in DOMAIN gmObjects : i \in DOMAIN gmObjects' /\ gmObjects'[i] = gmObjects[i]
        /\ \A i \in DOMAIN gmObjects' : i \in DOMAIN gmObjects \/ (i - Len(gmObjects) \in DOMAIN gmPending /\ gmObjects'[i] = added[i - Len(gmObjects)])
        /\ \A k \in DOMAIN gmPending : Len(gmObjects) + k \in DOMAIN gmObjects' /\ gmObjects'[Len(gmObjects) + k] = added[k]
    <3>1. gmObjects \in Seq(GraphicsObjects) /\ added \in Seq(GraphicsObjects)
      BY <1>3, <2>1
    <3>2. /\ gmObjects' \in Seq(GraphicsObjects) /\ Len(gmObjects') = Len(gmObjects) + Len(added)
          /\ \A i \in 1 .. Len(gmObjects) + Len(added) :
               gmObjects'[i] = IF i <= Len(gmObjects) THEN gmObjects[i] ELSE added[i - Len(gmObjects)]
      BY <2>2, <3>1, ConcatProperties, Zenon
    <3>3. Len(gmObjects) \in Nat /\ DOMAIN gmObjects = 1 .. Len(gmObjects)
      BY <3>1
    <3>4. DOMAIN gmObjects' = 1 .. Len(gmObjects) + Len(added)
      BY <3>2
    <3>5. \A i \in DOMAIN gmObjects : i \in DOMAIN gmObjects' /\ gmObjects'[i] = gmObjects[i]
      BY <2>1, <3>2, <3>3, <3>4
    <3>6. \A i \in DOMAIN gmObjects' : i \in DOMAIN gmObjects \/ (i - Len(gmObjects) \in DOMAIN gmPending /\ gmObjects'[i] = added[i - Len(gmObjects)])
      <4> TAKE i \in DOMAIN gmObjects'
      <4>1. i \in 1 .. Len(gmObjects) + Len(added) /\ Len(added) \in Nat
        BY <2>1, <3>4
      <4>2. CASE i <= Len(gmObjects)
        <5>1. i \in DOMAIN gmObjects
          BY <3>3, <4>1, <4>2
        <5> QED BY <5>1
      <4>3. CASE ~(i <= Len(gmObjects))
        <5>1. i - Len(gmObjects) \in 1 .. Len(added)
          BY <3>3, <4>1, <4>3
        <5> QED BY <2>1, <3>2, <4>1, <4>3, <5>1
      <4> QED BY <4>2, <4>3
    <3>7. \A k \in DOMAIN gmPending : Len(gmObjects) + k \in DOMAIN gmObjects' /\ gmObjects'[Len(gmObjects) + k] = added[k]
      BY <2>1, <3>2, <3>3, <3>4
    <3> QED BY <3>2, <3>5, <3>6, <3>7
  <2> QED BY <2>1, <2>2, <2>3 DEF Grows, IsOfKind
<1>6. ObjectsInv'
  <2>1. \A i \in DOMAIN gmObjects' : Whole(gmObjects, gmObjects'[i])
    BY <1>4, <1>5 DEF GmInv, ObjectsInv
  <2> QED BY <1>5, <2>1, WholeKept DEF ObjectsInv
<1>7. \A maps : DOMAIN maps = ObjectKinds =>
        /\ DOMAIN Registered(maps) = ObjectKinds
        /\ Registered(maps)["pipeline"] = Made(maps["pipeline"])
        /\ Registered(maps)["pipeline config"] = Paired(maps["pipeline config"])
        /\ \A kind \in ObjectKinds \ {"pipeline", "pipeline config"} : Registered(maps)[kind] = maps[kind]
  <2>1. "pipeline" \in ObjectKinds /\ "pipeline config" \in ObjectKinds
    BY KindFacts
  <2> HIDE DEF Made, Paired
  <2> QED BY <2>1
<1>8. /\ DOMAIN gmNamed' = ObjectKinds /\ DOMAIN gmPromised' = ObjectKinds
      /\ gmNamed'["pipeline"] = Made(gmNamed["pipeline"]) /\ gmPromised'["pipeline"] = Made(gmPromised["pipeline"])
      /\ gmNamed'["pipeline config"] = Paired(gmNamed["pipeline config"])
      /\ gmPromised'["pipeline config"] = Paired(gmPromised["pipeline config"])
      /\ \A kind \in ObjectKinds \ {"pipeline", "pipeline config"} :
           gmNamed'[kind] = gmNamed[kind] /\ gmPromised'[kind] = gmPromised[kind]
  <2> HIDE DEF Registered
  <2> QED BY <1>1, <1>7 DEF GmInv, NamesInv
<1>9. \A n \in names : /\ IsOfKind(gmObjects', Len(gmObjects) + TaskOf(n), "pipeline")
                       /\ Len(gmObjects) + TaskOf(n) # NoGraphicsObject
                       /\ IsOfKind(gmObjects', gmPending[TaskOf(n)].config, "pipeline config")
                       /\ gmPending[TaskOf(n)].config # NoGraphicsObject
  <2> TAKE n \in names
  <2>1. TaskOf(n) \in DOMAIN gmPending
    BY <1>2
  <2> HIDE DEF TaskOf, names, Registered, Made, Paired
  <2>2. Len(gmObjects) + TaskOf(n) \in Nat /\ gmPending[TaskOf(n)].config \in Nat
    <3>1. PICK k : k = TaskOf(n)
      OBVIOUS
    <3>2. k \in DOMAIN gmPending /\ k \in Nat /\ Len(gmObjects) \in Nat
      BY <1>3, <2>1, <3>1
    <3> QED BY <1>3, <3>1, <3>2
  <2>3. IsOfKind(gmObjects, gmPending[TaskOf(n)].config, "pipeline config")
    BY <2>1 DEF GmInv, PendingInv
  <2> QED BY <1>5, <2>1, <2>2, <2>3, GraphicsManagerAssumption DEF IsOfKind, Grows
<1>10. /\ \A n : n \in DOMAIN gmNamed'["pipeline"] <=> n \in DOMAIN gmNamed["pipeline"] \/ n \in names
       /\ \A n : n \in DOMAIN gmNamed'["pipeline config"] <=> n \in DOMAIN gmNamed["pipeline config"] \/ n \in names
       /\ \A n : n \in DOMAIN gmPromised'["pipeline"] <=> n \in DOMAIN gmPromised["pipeline"] \/ n \in names
       /\ \A n : n \in DOMAIN gmPromised'["pipeline config"] <=> n \in DOMAIN gmPromised["pipeline config"] \/ n \in names
       /\ \A n \in names :
            /\ gmNamed'["pipeline"][n] = Len(gmObjects) + TaskOf(n) /\ gmPromised'["pipeline"][n] = Len(gmObjects) + TaskOf(n)
            /\ gmNamed'["pipeline config"][n] = gmPending[TaskOf(n)].config
            /\ gmPromised'["pipeline config"][n] = gmPending[TaskOf(n)].config
       /\ \A kind \in {"pipeline", "pipeline config"} :
            /\ \A n \in DOMAIN gmNamed[kind] \ names : gmNamed'[kind][n] = gmNamed[kind][n]
            /\ \A n \in DOMAIN gmPromised[kind] \ names : gmPromised'[kind][n] = gmPromised[kind][n]
  <2> HIDE DEF TaskOf, names, Registered
  <2>1. \A map, new : new = Made(map) =>
          /\ \A n : n \in DOMAIN new <=> n \in DOMAIN map \/ n \in names
          /\ \A n \in names : new[n] = Len(gmObjects) + TaskOf(n)
          /\ \A n \in DOMAIN map \ names : new[n] = map[n]
    OBVIOUS
  <2>2. \A map, new : new = Paired(map) =>
          /\ \A n : n \in DOMAIN new <=> n \in DOMAIN map \/ n \in names
          /\ \A n \in names : new[n] = gmPending[TaskOf(n)].config
          /\ \A n \in DOMAIN map \ names : new[n] = map[n]
    OBVIOUS
  <2> HIDE DEF Made, Paired
  <2>3. \A maps \in {gmNamed, gmPromised} : \A new \in {gmNamed', gmPromised'} :
          new["pipeline"] = Made(maps["pipeline"]) =>
            /\ \A n : n \in DOMAIN new["pipeline"] <=> n \in DOMAIN maps["pipeline"] \/ n \in names
            /\ \A n \in names : new["pipeline"][n] = Len(gmObjects) + TaskOf(n)
            /\ \A n \in DOMAIN maps["pipeline"] \ names : new["pipeline"][n] = maps["pipeline"][n]
    BY <2>1, Zenon
  <2>4. \A maps \in {gmNamed, gmPromised} : \A new \in {gmNamed', gmPromised'} :
          new["pipeline config"] = Paired(maps["pipeline config"]) =>
            /\ \A n : n \in DOMAIN new["pipeline config"] <=> n \in DOMAIN maps["pipeline config"] \/ n \in names
            /\ \A n \in names : new["pipeline config"][n] = gmPending[TaskOf(n)].config
            /\ \A n \in DOMAIN maps["pipeline config"] \ names : new["pipeline config"][n] = maps["pipeline config"][n]
    BY <2>2, Zenon
  <2> QED BY <1>8, <2>3, <2>4
<1> HIDE DEF Made, Paired, TaskOf, names, Registered
<1>11. NamesInv'
  <2>1. \A kind \in ObjectKinds : \A n \in DOMAIN gmNamed'[kind] :
          gmNamed'[kind][n] = NoGraphicsObject \/ IsOfKind(gmObjects', gmNamed'[kind][n], kind)
    <3> TAKE kind \in ObjectKinds
    <3> TAKE n \in DOMAIN gmNamed'[kind]
    <3>1. CASE n \in DOMAIN gmNamed[kind] /\ gmNamed'[kind][n] = gmNamed[kind][n]
      BY <1>5, <3>1 DEF GmInv, NamesInv, IsOfKind, Grows
    <3>2. CASE kind = "pipeline" /\ n \in names
      BY <1>8, <1>9, <1>10, <3>2
    <3>3. CASE kind = "pipeline config" /\ n \in names
      BY <1>8, <1>9, <1>10, <3>3
    <3>4. CASE kind \in {"pipeline", "pipeline config"} /\ n \notin names
      BY <1>8, <1>10, <3>1, <3>4
    <3>5. CASE kind \notin {"pipeline", "pipeline config"}
      BY <1>8, <3>1, <3>5
    <3> QED BY <3>2, <3>3, <3>4, <3>5
  <2>2. \A kind \in ObjectKinds : \A n \in DOMAIN gmPromised'[kind] :
          /\ n \in DOMAIN gmNamed'[kind] /\ gmNamed'[kind][n] = gmPromised'[kind][n]
          /\ gmPromised'[kind][n] # NoGraphicsObject
    <3> TAKE kind \in ObjectKinds
    <3> TAKE n \in DOMAIN gmPromised'[kind]
    <3>1. ASSUME n \in DOMAIN gmPromised[kind]
          PROVE  n \in DOMAIN gmNamed[kind] /\ gmNamed[kind][n] = gmPromised[kind][n] /\ gmPromised[kind][n] # NoGraphicsObject
      BY <3>1 DEF GmInv, NamesInv
    <3>2. CASE kind = "pipeline" /\ n \in names
      BY <1>8, <1>9, <1>10, <3>2
    <3>3. CASE kind = "pipeline config" /\ n \in names
      BY <1>8, <1>9, <1>10, <3>3
    <3>4. CASE kind \in {"pipeline", "pipeline config"} /\ n \notin names
      BY <1>8, <1>10, <3>1, <3>4
    <3>5. CASE kind \notin {"pipeline", "pipeline config"}
      BY <1>8, <3>1, <3>5
    <3> QED BY <3>2, <3>3, <3>4, <3>5
  <2> QED BY <1>8, <2>1, <2>2 DEF NamesInv
<1>12. RegisteredInv'
  <2>1. DOMAIN gmNamed'["pipeline"] = DOMAIN gmNamed'["pipeline config"]
    BY <1>8, <1>10 DEF GmInv, RegisteredInv
  <2>2. ASSUME NEW n \in DOMAIN gmNamed'["pipeline"]
        PROVE  gmNamed'["pipeline"][n] # NoGraphicsObject /\ n \notin gmLost'
    <3>1. CASE n \in names
      <4>1. n \notin gmLost
        BY <3>1 DEF GmInv, PendingInv, names
      <4> QED BY <1>1, <1>8, <1>9, <1>10, <3>1, <4>1
    <3>2. CASE n \notin names
      BY <1>1, <1>8, <1>10, <3>2 DEF GmInv, RegisteredInv
    <3> QED BY <3>1, <3>2
  <2>3. DOMAIN gmPending' = {}
    BY <1>1
  <2> QED BY <2>1, <2>2, <2>3 DEF RegisteredInv
<1>13. PendingInv'
  BY <1>1 DEF PendingInv
<1>14. FramesInv'
  BY <1>1, <1>5, FramesKept DEF GmInv
<1> QED BY <1>6, <1>11, <1>12, <1>13, <1>14 DEF GmInv

(***************************************************************************)
(* Framebuffers                                                            *)
(***************************************************************************)

LEMMA AtMostOne ==
  ASSUME NEW S, IsFiniteSet(S), Cardinality(S) <= 1, NEW x \in S, NEW y \in S
  PROVE  x = y
<1> SUFFICES ASSUME x # y PROVE FALSE
  OBVIOUS
<1>1. IsFiniteSet({x}) /\ Cardinality({x}) = 1
  BY FS_Singleton
<1>2. IsFiniteSet({x} \cup {y}) /\ Cardinality({x} \cup {y}) = 2
  <2>1. Cardinality({x} \cup {y}) = IF y \in {x} THEN Cardinality({x}) ELSE Cardinality({x}) + 1
    BY <1>1, FS_AddElement, Zenon
  <2>2. IsFiniteSet({x} \cup {y})
    BY <1>1, FS_AddElement, Zenon
  <2> QED BY <1>1, <2>1, <2>2
<1>3. Cardinality({x} \cup {y}) <= Cardinality(S)
  BY FS_Subset
<1>4. Cardinality(S) \in Nat
  BY FS_CardinalityType
<1> QED BY <1>2, <1>3, <1>4

\* Each frame of a pass that draws to the swapchain, of a config with one swapchain attachment.
LEMMA FramesShow ==
  ASSUME NEW c \in FbConfigs, NEW p \in DOMAIN c.passes,
         Cardinality({a \in DOMAIN c.attachments : Swapchain(c, a)}) <= 1,
         \A k \in DOMAIN c.passes[p] : c.passes[p][k] \in DOMAIN c.attachments,
         \E k \in DOMAIN c.passes[p] : Swapchain(c, c.passes[p][k])
  PROVE  \A i \in 1 .. SwapchainImages : \A k \in DOMAIN c.passes[p] :
           FramesOf(c, c.passes[p])[i][k] =
             IF Swapchain(c, c.passes[p][k]) THEN <<"image", i>> ELSE <<"attachment", c.passes[p][k]>>
<1> DEFINE used  == c.passes[p]
           shown == {k \in DOMAIN used : Swapchain(c, used[k])}
           theirs == {a \in DOMAIN c.attachments : Swapchain(c, a)}
<1>1. used \in Seq(Nat) /\ c.attachments \in Seq({"swapchain", "own"})
  <2>1. c.passes \in Seq(Seq(Nat)) /\ c.attachments \in Seq({"swapchain", "own"})
    BY GraphicsManagerAssumption, Zenon
  <2>2. PICK passes : passes = c.passes
    OBVIOUS
  <2>3. passes[p] \in Seq(Nat)
    BY <2>1, <2>2
  <2> QED BY <2>1, <2>2, <2>3
<1>2. IsFiniteSet(theirs)
  <2>1. Len(c.attachments) \in Nat /\ theirs \subseteq 1 .. Len(c.attachments)
    BY <1>1
  <2>2. IsFiniteSet(1 .. Len(c.attachments))
    BY <2>1, FiniteUpTo
  <2> QED BY <2>1, <2>2, FS_Subset
<1>3. ASSUME NEW j \in shown, NEW k \in shown PROVE j = k
  <2>1. used[j] \in theirs /\ used[k] \in theirs
    OBVIOUS
  <2>2. used[j] = used[k]
    BY <1>2, <2>1, AtMostOne
  <2> QED BY <2>2, AttachmentsListedOnce
<1>4. shown \subseteq Nat
  BY <1>1
<1>5. ASSUME NEW i \in 1 .. SwapchainImages, NEW k \in DOMAIN used
      PROVE  FramesOf(c, used)[i][k] = IF Swapchain(c, used[k]) THEN <<"image", i>> ELSE <<"attachment", used[k]>>
  <2>1. FramesOf(c, used)[i] = Views(c, used, i)
    BY DEF FramesOf
  <2>2. Views(c, used, i)[k] = IF k \in shown /\ \A j \in shown : k <= j THEN ImageView(i) ELSE Attachment(used[k])
    BY DEF Views
  <2>3. k \in shown => \A j \in shown : k <= j
    BY <1>3, <1>4
  <2>4. k \in shown <=> Swapchain(c, used[k])
    OBVIOUS
  <2> HIDE DEF shown, used
  <2> QED BY <2>1, <2>2, <2>3, <2>4 DEF ImageView, Attachment
<1> QED BY <1>5

LEMMA FramebufferStep ==
  ASSUME GmInv, NEW id \in DOMAIN gmObjects, MakeFramebuffer(id)
  PROVE  GmInv'
<1> DEFINE c == gmObjects[id].config
<1>1. UNCHANGED <<gmNamed, gmObjects, gmPending, gmPromised, gmLost>>
  BY DEF MakeFramebuffer
<1>2. c \in FbConfigs
  BY DEF MakeFramebuffer, GmInv, ObjectsInv, Whole
<1>3. /\ Cardinality({a \in DOMAIN c.attachments : Swapchain(c, a)}) <= 1
      /\ \A p \in DOMAIN c.passes : \A k \in DOMAIN c.passes[p] : c.passes[p][k] \in DOMAIN c.attachments
      /\ gmFrames'.config = id
      /\ \A p \in DOMAIN c.passes : gmFrames'.passes[p] = FramesOf(c, c.passes[p])
  BY DEF MakeFramebuffer
<1>4. FramesShowTheirImage'
  <2>1. gmObjects'[gmFrames'.config].config = c
    BY <1>1, <1>3
  <2> HIDE DEF c
  <2>2. ASSUME NEW p \in DOMAIN c.passes, \E k \in DOMAIN c.passes[p] : Swapchain(c, c.passes[p][k]),
               NEW i \in 1 .. SwapchainImages, NEW k \in DOMAIN c.passes[p]
        PROVE  gmFrames'.passes[p][i][k] =
                 IF Swapchain(c, c.passes[p][k]) THEN <<"image", i>> ELSE <<"attachment", c.passes[p][k]>>
    BY <1>2, <1>3, <2>2, FramesShow
  <2> QED BY <2>1, <2>2 DEF FramesShowTheirImage
<1> QED BY <1>1, <1>3, <1>4 DEF GmInv, ObjectsInv, NamesInv, PendingInv, RegisteredInv, FramesInv

(***************************************************************************)
(* The theorem                                                             *)
(***************************************************************************)

LEMMA GmInitially == GmInit => GmInv
<1> SUFFICES ASSUME GmInit PROVE GmInv
  OBVIOUS
<1>1. ObjectsInv /\ PendingInv
  BY DEF GmInit, ObjectsInv, PendingInv
<1>2. "pipeline" \in ObjectKinds /\ "pipeline config" \in ObjectKinds
  BY KindFacts
<1>3. gmNamed = [kind \in ObjectKinds |-> <<>>] /\ gmPromised = [kind \in ObjectKinds |-> <<>>]
  BY DEF GmInit
<1>4. \A kind \in ObjectKinds : DOMAIN gmNamed[kind] = {} /\ DOMAIN gmPromised[kind] = {}
  BY <1>3
<1>5. NamesInv
  BY <1>3, <1>4 DEF NamesInv
<1>6. RegisteredInv
  BY <1>2, <1>4 DEF RegisteredInv
<1>7. FramesInv
  BY DEF GmInit, FramesInv, FramesShowTheirImage
<1> QED BY <1>1, <1>5, <1>6, <1>7 DEF GmInv

LEMMA GmStep ==
  ASSUME GmInv, [GmNext]_gmVars
  PROVE  GmInv'
<1>1. CASE \E n \in ObjectNames, kind \in NamedKinds : Create(kind, n)
  <2>1. PICK n \in ObjectNames, kind \in NamedKinds : Create(kind, n)
    BY <1>1
  <2>2. PICK c \in IF kind = "framebuffer config" THEN FbConfigs ELSE {NoGraphicsObject} :
          EnterObject(kind, n, [kind |-> kind, uses |-> {}, config |-> c])
    BY <2>1 DEF Create
  <2>3. kind \in ObjectKinds /\ kind \notin ComposedKinds
    BY KindFacts
  <2>4. Whole(gmObjects, [kind |-> kind, uses |-> {}, config |-> c])
    BY <2>2, <2>3 DEF Whole, GraphicsObjects
  <2> QED BY <2>1, <2>2, <2>4, EnterStep DEF Create
<1>2. CASE \E n \in ObjectNames, kind \in NamedKinds \cup ComposedKinds : CreationThrows(kind, n)
  BY <1>2, LeaveStep DEF CreationThrows
<1>3. CASE \E n \in ObjectNames, kind \in ComposedKinds, uses \in SUBSET DOMAIN gmObjects : CreateOfObjects(kind, n, uses)
  <2>1. PICK n \in ObjectNames, kind \in ComposedKinds, uses \in SUBSET DOMAIN gmObjects : CreateOfObjects(kind, n, uses)
    BY <1>3
  <2>2. kind \in ObjectKinds /\ kind # "framebuffer config" /\ uses \subseteq Nat
    <3>1. DOMAIN gmObjects \subseteq Nat
      BY DEF GmInv, ObjectsInv
    <3> QED BY <3>1, KindFacts
  <2>3. Whole(gmObjects, [kind |-> kind, uses |-> uses, config |-> NoGraphicsObject])
    BY <2>1, <2>2 DEF Whole, GraphicsObjects, CreateOfObjects
  <2> QED BY <2>1, <2>3, EnterStep DEF CreateOfObjects
<1>4. CASE \E n, m \in ObjectNames, kind \in ComposedKinds : CreateByNames(kind, n, m)
  <2>1. PICK n \in ObjectNames, m \in ObjectNames, kind \in ComposedKinds : CreateByNames(kind, n, m)
    BY <1>4
  <2>2. CASE Missing(kind, m)
    BY <2>1, <2>2, LeaveStep DEF CreateByNames
  <2>3. CASE ~Missing(kind, m)
    <3> DEFINE uses == {gmNamed[part][m] : part \in Parts(kind)}
    <3>1. \A part \in Parts(kind) : IsOfKind(gmObjects, gmNamed[part][m], part)
      <4> TAKE part \in Parts(kind)
      <4>1. part \in ObjectKinds
        BY KindFacts
      <4>2. m \in DOMAIN gmNamed[part] /\ gmNamed[part][m] # NoGraphicsObject
        BY <2>3 DEF Missing, At
      <4> QED BY <4>1, <4>2 DEF GmInv, NamesInv
    <3>2. uses \subseteq DOMAIN gmObjects /\ {gmObjects[u].kind : u \in uses} = Parts(kind)
      BY <3>1 DEF IsOfKind
    <3>3. kind \in ObjectKinds /\ kind # "framebuffer config" /\ uses \subseteq Nat
      <4>1. DOMAIN gmObjects \subseteq Nat
        BY DEF GmInv, ObjectsInv
      <4> HIDE DEF uses
      <4> QED BY <3>2, <4>1, KindFacts
    <3>4. EnterObject(kind, n, [kind |-> kind, uses |-> uses, config |-> NoGraphicsObject])
      BY <2>1, <2>3 DEF CreateByNames
    <3> HIDE DEF uses
    <3>5. Whole(gmObjects, [kind |-> kind, uses |-> uses, config |-> NoGraphicsObject])
      BY <3>2, <3>3 DEF Whole, GraphicsObjects
    <3> QED BY <2>1, <3>4, <3>5, EnterStep DEF CreateByNames
  <2> QED BY <2>2, <2>3
<1>5. CASE \E n \in ObjectNames, kind \in ObjectKinds : Release(kind, n)
  <2>1. PICK n \in ObjectNames, kind \in ObjectKinds : Release(kind, n)
    BY <1>5
  <2>2. /\ DOMAIN gmNamed' = ObjectKinds /\ DOMAIN gmPromised' = ObjectKinds
        /\ \A other \in ObjectKinds :
             /\ gmNamed'[other] = IF other \in {kind} THEN Without(gmNamed[other], n) ELSE gmNamed[other]
             /\ gmPromised'[other] = IF other \in {kind} THEN Without(gmPromised[other], n) ELSE gmPromised[other]
    BY <2>1 DEF Release, GmInv, NamesInv
  <2>3. "pipeline" \notin {kind} /\ "pipeline config" \notin {kind} /\ {kind} \in SUBSET ObjectKinds
    BY <2>1 DEF Release
  <2> QED BY <2>1, <2>2, <2>3, ReleaseStep DEF Release
<1>6. CASE \E n \in ObjectNames : ReleasePipelineAndConfig(n)
  <2>1. PICK n \in ObjectNames : ReleasePipelineAndConfig(n)
    BY <1>6
  <2> DEFINE both == {"pipeline", "pipeline config"}
  <2>2. both \in SUBSET ObjectKinds
    BY KindFacts
  <2>3. /\ DOMAIN gmNamed' = ObjectKinds /\ DOMAIN gmPromised' = ObjectKinds
        /\ \A other \in ObjectKinds :
             /\ gmNamed'[other] = IF other \in both THEN Without(gmNamed[other], n) ELSE gmNamed[other]
             /\ gmPromised'[other] = IF other \in both THEN Without(gmPromised[other], n) ELSE gmPromised[other]
    BY <2>1 DEF ReleasePipelineAndConfig
  <2> QED BY <2>1, <2>2, <2>3, ReleaseStep DEF ReleasePipelineAndConfig
<1>7. CASE \E n \in ObjectNames, pass \in DOMAIN gmObjects : AddPendingPipeline(n, pass)
  BY <1>7, AddPendingStep
<1>8. CASE CompilePendingPipelines
  BY <1>8, CompileStep
<1>9. CASE CompileThrows
  BY <1>9, CompileThrowsStep
<1>10. CASE \E id \in DOMAIN gmObjects : MakeFramebuffer(id)
  BY <1>10, FramebufferStep
<1>11. CASE UNCHANGED gmVars
  <2>1. /\ gmNamed' = gmNamed /\ gmObjects' = gmObjects /\ gmPending' = gmPending
        /\ gmPromised' = gmPromised /\ gmLost' = gmLost /\ gmFrames' = gmFrames
    BY <1>11 DEF gmVars
  <2>2. ObjectsInv' /\ PendingInv'
    BY <2>1, Zenon DEF GmInv, ObjectsInv, PendingInv
  <2>3. NamesInv' /\ RegisteredInv'
    BY <2>1, Zenon DEF GmInv, NamesInv, RegisteredInv
  <2> QED BY <2>1, <2>2, <2>3, Same, FramesKept DEF GmInv
<1> QED
  BY <1>1, <1>2, <1>3, <1>4, <1>5, <1>6, <1>7, <1>8, <1>9, <1>10, <1>11 DEF GmNext

LEMMA GmInvIsSafe == GmInv => GmSafe
<1> SUFFICES ASSUME GmInv PROVE GmSafe
  OBVIOUS
<1>1. ObjectsWhole
  <2>1. \A kind \in ObjectKinds : \A n \in DOMAIN gmNamed[kind] :
          gmNamed[kind][n] # NoGraphicsObject => gmObjects[gmNamed[kind][n]].kind = kind
    BY DEF GmInv, NamesInv, IsOfKind
  <2>2. ASSUME NEW i \in DOMAIN gmObjects, gmObjects[i].kind \in ComposedKinds
        PROVE  {gmObjects[u].kind : u \in gmObjects[i].uses \ {NoGraphicsObject}} = Parts(gmObjects[i].kind)
    <3>1. Whole(gmObjects, gmObjects[i]) /\ gmObjects[i].uses \subseteq Nat
      BY DEF GmInv, ObjectsInv, Whole, GraphicsObjects
    <3>2. gmObjects[i].uses \ {NoGraphicsObject} = gmObjects[i].uses
      BY <3>1, GraphicsManagerAssumption
    <3> QED BY <2>2, <3>1, <3>2 DEF Whole
  <2> QED BY <2>1, <2>2 DEF ObjectsWhole
<1>2. NamesKept
  BY DEF GmInv, NamesInv, NamesKept, Find, At
<1>3. PipelinesPaired
  <2>1. ASSUME NEW n \in DOMAIN gmNamed["pipeline"] PROVE Tasks(n) = {}
    BY DEF GmInv, RegisteredInv, Tasks
  <2>2. ASSUME NEW n PROVE Cardinality(Tasks(n)) <= 1
    <3>1. \A j, k \in Tasks(n) : j = k
      BY DEF Tasks, GmInv, PendingInv
    <3>2. CASE Tasks(n) = {}
      BY <3>2, FS_EmptySet
    <3>3. CASE Tasks(n) # {}
      <4>1. PICK k : k \in Tasks(n)
        BY <3>3
      <4>2. Tasks(n) = {k}
        BY <3>1, <4>1
      <4>3. Cardinality({k}) = 1
        BY FS_Singleton
      <4> QED BY <4>2, <4>3
    <3> QED BY <3>2, <3>3
  <2> QED BY <2>1, <2>2 DEF PipelinesPaired, GmInv, RegisteredInv
<1>4. FramesShowTheirImage
  BY DEF GmInv, FramesInv
<1> QED BY <1>1, <1>2, <1>3, <1>4 DEF GmSafe

\* A name stands for the object that a call returned for it until it is released, whatever other calls do,
\* throw or compile; objects are whole; a pipeline goes with its config; a frame shows its own image; and
\* the device is never given a pointer into a config that was copied or edited since.
THEOREM ManagedObjectsCorrect == GmSpec /\ PcSpec => []ManagedObjectsSafe
<1>1. GmInit => GmInv
  BY GmInitially
<1>2. GmInv /\ [GmNext]_gmVars => GmInv'
  BY GmStep
<1>3. GmInv => GmSafe
  BY GmInvIsSafe
<1>4. GmSpec => []GmSafe
  BY <1>1, <1>2, <1>3, PTL DEF GmSpec
<1>5. GmSafe /\ PipelineConfigsSafe => ManagedObjectsSafe
  BY DEF ManagedObjectsSafe
<1> QED BY <1>4, <1>5, PipelineConfigsCorrect, PTL

(***************************************************************************)
(* Numbers: induction and recursion                                        *)
(***************************************************************************)

\* Every set of natural numbers has a least element.
LEMMA LeastElement ==
  ASSUME NEW S \in SUBSET Nat, S # {}
  PROVE  \E m \in S : \A n \in S : m <= n
<1> DEFINE R == OpToRel(<, Nat)
<1>1. IsWellFoundedOn(R, Nat)
  BY NatLessThanWellFounded
<1>2. \A x, y \in Nat : x < y => <<x, y>> \in R
  BY DEF OpToRel
<1> HIDE DEF R
<1>3. \E x \in S : \A y \in S : ~ (<<y, x>> \in R)
  BY <1>1, WFMin, Zenon
<1>4. PICK m \in S : \A n \in S : ~ (<<n, m>> \in R)
  BY <1>3
<1>5. \A n \in S : ~ (n < m)
  BY <1>2, <1>4, Zenon
<1> QED BY <1>5

\* Induction, for the set of the numbers that have a property.
LEMMA NatSets ==
  ASSUME NEW S, 0 \in S, \A n \in Nat : n \in S => n + 1 \in S
  PROVE  Nat \subseteq S
<1> DEFINE T == Nat \ S
<1> SUFFICES ASSUME T # {} PROVE FALSE
  OBVIOUS
<1>1. PICK m \in T : \A n \in T : m <= n
  BY LeastElement
<1>2. m # 0 /\ m - 1 \in Nat /\ m - 1 \notin T
  BY <1>1
<1> QED BY <1>1, <1>2

\* A function on the places up to L that starts with x and takes a step at each place.
Follows(g, x, L, G) == g[0] = x /\ \A n \in 1 .. L : g[n] = G[n][g[n - 1]]

\* Such a function exists.
LEMMA BoundedRecursion ==
  ASSUME NEW X, NEW x \in X, NEW L \in Nat, NEW G \in [1 .. L -> [X -> X]]
  PROVE  \E g \in [0 .. L -> X] : Follows(g, x, L, G)
<1> DEFINE Reached(n) == \E g \in [0 .. n -> X] : g[0] = x /\ \A m \in 1 .. n : g[m] = G[m][g[m - 1]]
           S == {n \in Nat : n <= L => Reached(n)}
<1>1. 0 \in S
  <2>1. [m \in 0 .. 0 |-> x] \in [0 .. 0 -> X] /\ [m \in 0 .. 0 |-> x][0] = x /\ 1 .. 0 = {}
    OBVIOUS
  <2>2. Reached(0)
    BY <2>1
  <2> QED BY <2>2
<1>2. ASSUME NEW n \in Nat, n \in S PROVE n + 1 \in S
  <2> SUFFICES ASSUME n + 1 <= L PROVE Reached(n + 1)
    OBVIOUS
  <2>1. PICK g \in [0 .. n -> X] : g[0] = x /\ \A m \in 1 .. n : g[m] = G[m][g[m - 1]]
    BY <1>2
  <2> DEFINE h == [m \in 0 .. n + 1 |-> IF m <= n THEN g[m] ELSE G[n + 1][g[n]]]
  <2>2. g[n] \in X /\ G[n + 1][g[n]] \in X
    BY <2>1
  <2>3. h \in [0 .. n + 1 -> X]
    BY <2>1, <2>2
  <2>4. h[0] = x
    BY <2>1
  <2>5. ASSUME NEW m \in 1 .. n + 1 PROVE h[m] = G[m][h[m - 1]]
    <3>1. CASE m <= n
      <4>1. m \in 1 .. n /\ m \in 0 .. n + 1 /\ m - 1 \in 0 .. n + 1 /\ m - 1 <= n
        BY <3>1
      <4>2. h[m] = g[m] /\ h[m - 1] = g[m - 1]
        BY <4>1, <3>1
      <4> QED BY <4>1, <4>2, <2>1
    <3>2. CASE ~(m <= n)
      <4>1. m = n + 1 /\ m - 1 = n
        BY <3>2
      <4>2. h[n + 1] = G[n + 1][g[n]] /\ h[n] = g[n]
        OBVIOUS
      <4> QED BY <4>1, <4>2
    <3> QED BY <3>1, <3>2
  <2> QED BY <2>3, <2>4, <2>5
<1> HIDE DEF S
<1>3. L \in S
  BY <1>1, <1>2, NatSets
<1> QED BY <1>3 DEF S, Follows

(***************************************************************************)
(* entity_manager: the inductive invariant                                 *)
(***************************************************************************)

EntPlaces == {"idle", "components", "register", "erase", "store", "restore"}
StoredEntities == [id : Ids, body : Bodies]

EntTypes ==
  /\ entBody \in [Ids -> Bodies]
  /\ entPc \in [EntThreads -> EntPlaces]
  /\ DOMAIN entId = EntThreads /\ oldMode \in [EntThreads -> BOOLEAN] /\ readOnly \in BOOLEAN

InWork(t) == entPc[t] \in {"components", "register", "erase"}

\* Two threads do not have the same entity in work.
OwnWork == \A t, u \in EntThreads : InWork(t) /\ InWork(u) /\ entId[t] = entId[u] => t = u

\* As long as stores have not overlapped, at most one thread stores, and it found the manager writable.
ModeInv ==
  ~overlapped =>
    /\ readOnly <=> Storing # {}
    /\ \A t, u \in Storing : t = u
    /\ \A t \in Storing : oldMode[t] = FALSE

\* A stream has an entity once.
StreamInv ==
  /\ snapshot \in Seq(StoredEntities)
  /\ \A j, k \in DOMAIN snapshot : snapshot[j].id = snapshot[k].id => j = k

EntInv == EntTypes /\ EntTypeOK /\ OwnWork /\ ModeInv /\ StreamInv

LEMMA NoComponentsBody == NoComponents \in Bodies
BY DEF NoComponents, Bodies

LEMMA EntitiesInitially == EntitiesInit => EntInv
<1> SUFFICES ASSUME EntitiesInit PROVE EntInv
  OBVIOUS
<1>1. EntTypes
  BY NoComponentsBody DEF EntitiesInit, EntTypes, EntPlaces
<1>2. EntTypeOK
  BY EntitiesAssumption DEF EntitiesInit, EntTypeOK
<1>3. OwnWork
  BY DEF EntitiesInit, OwnWork, InWork
<1>4. ModeInv
  BY DEF EntitiesInit, ModeInv, Storing
<1>5. StreamInv
  BY DEF EntitiesInit, StreamInv
<1> QED BY <1>1, <1>2, <1>3, <1>4, <1>5 DEF EntInv

\* A step of a thread that neither stores nor has stored.
LEMMA ModeKept ==
  ASSUME ModeInv, UNCHANGED <<readOnly, oldMode, overlapped>>, Storing' = Storing
  PROVE  ModeInv'
BY DEF ModeInv

LEMMA StreamKept == ASSUME StreamInv, UNCHANGED snapshot PROVE StreamInv'
BY DEF StreamInv

\* A thread goes from a place to another, and neither is of a store.
LEMMA StoringKept ==
  ASSUME EntTypes, NEW t \in EntThreads, NEW from, NEW to \in EntPlaces, EntGoes(t, from, to),
         from \notin {"store", "restore"}, to \notin {"store", "restore"}
  PROVE  /\ Storing' = Storing /\ entPc' \in [EntThreads -> EntPlaces] /\ entPc[t] = from
         /\ entPc'[t] = to /\ \A u \in EntThreads \ {t} : entPc'[u] = entPc[u]
<1>1. /\ entPc' \in [EntThreads -> EntPlaces] /\ entPc[t] = from
      /\ entPc'[t] = to /\ \A u \in EntThreads \ {t} : entPc'[u] = entPc[u]
  BY DEF EntTypes, EntGoes
<1>2. \A u \in EntThreads : entPc'[u] \in {"store", "restore"} <=> entPc[u] \in {"store", "restore"}
  BY <1>1
<1> QED BY <1>1, <1>2 DEF Storing

(***************************************************************************)
(* Creating, destroying and naming entities                                *)
(***************************************************************************)

LEMMA EmplaceStep ==
  ASSUME EntInv, NEW t \in EntThreads, EmplaceEntity(t)
  PROVE  EntInv'
<1> USE DEF EntInv
<1>1. /\ Storing' = Storing /\ entPc' \in [EntThreads -> EntPlaces] /\ entPc[t] = "idle"
      /\ entPc'[t] = "components" /\ \A u \in EntThreads \ {t} : entPc'[u] = entPc[u]
  BY StoringKept DEF EmplaceEntity, EntPlaces
<1>2. /\ entNextId \in Ids /\ entNextId' = entNextId + 1 /\ entInPool' = entInPool \cup {entNextId}
      /\ entId'[t] = entNextId /\ (\A u \in EntThreads \ {t} : entId'[u] = entId[u]) /\ DOMAIN entId' = EntThreads
      /\ idMap' = idMap /\ entBody' = entBody
  BY DEF EmplaceEntity, EntTypes
<1>3. entNextId \in Nat /\ entNextId \notin entInPool /\ entNextId \notin idMap
  BY EntitiesAssumption DEF EntTypeOK
<1>4. EntTypes'
  BY <1>1, <1>2 DEF EntTypes, EmplaceEntity
<1>5. EntTypeOK'
  <2>1. entNextId' \in 1 .. MaxId + 1
    BY <1>2, <1>3, EntitiesAssumption DEF Ids
  <2>2. idMap' \subseteq entInPool' /\ entInPool' \subseteq 1 .. entNextId' - 1
    BY <1>2, <1>3, EntitiesAssumption DEF EntTypeOK, Ids
  <2>3. \A u \in EntThreads : InWork(u)' => entId'[u] \in entInPool' \ idMap'
    <3> TAKE u \in EntThreads
    <3>1. CASE u = t
      BY <1>2, <1>3, <3>1
    <3>2. CASE u # t
      BY <1>1, <1>2, <3>2 DEF EntTypeOK, InWork
    <3> QED BY <3>1, <3>2
  <2>4. \A i \in Ids \ entInPool' : entBody'[i] = NoComponents
    BY <1>2 DEF EntTypeOK
  <2> QED BY <2>1, <2>2, <2>3, <2>4 DEF EntTypeOK, InWork
<1>6. OwnWork'
  <2>1. \A u \in EntThreads \ {t} : InWork(u)' => entId'[u] # entNextId /\ InWork(u) /\ entId'[u] = entId[u]
    BY <1>1, <1>2, <1>3 DEF EntTypeOK, InWork
  <2> QED BY <1>2, <2>1 DEF OwnWork
<1>7. ModeInv' /\ StreamInv'
  BY <1>1, ModeKept, StreamKept DEF EmplaceEntity, stream
<1> QED BY <1>4, <1>5, <1>6, <1>7

\* The entity in work of a thread goes on, or is left; what it is made of may change.
LEMMA WorkStep ==
  ASSUME EntInv, NEW t \in EntThreads, NEW from, NEW to \in EntPlaces, EntGoes(t, from, to),
         from \in {"components", "register"}, to \in {"register", "idle"},
         entBody' \in [Ids -> Bodies], \A i \in Ids \ entInPool : entBody'[i] = entBody[i],
         \/ idMap' = idMap /\ entId' = entId
         \/ idMap' \subseteq idMap \cup {entId[t]} /\ to = "idle" /\ entId' = [entId EXCEPT ![t] = NoId],
         UNCHANGED <<entNextId, entInPool, readOnly, oldMode, snapshot, overlapped>>
  PROVE  EntInv'
<1> USE DEF EntInv
<1>1. /\ Storing' = Storing /\ entPc' \in [EntThreads -> EntPlaces] /\ entPc[t] = from
      /\ entPc'[t] = to /\ \A u \in EntThreads \ {t} : entPc'[u] = entPc[u]
  BY StoringKept
<1>2. InWork(t) /\ entId[t] \in entInPool \ idMap
  BY <1>1 DEF InWork, EntTypeOK
<1>3. DOMAIN entId' = EntThreads /\ \A u \in EntThreads \ {t} : entId'[u] = entId[u]
  BY DEF EntTypes
<1>4. EntTypes'
  BY <1>1, <1>3 DEF EntTypes
<1>5. \A u \in EntThreads \ {t} : InWork(u)' => InWork(u) /\ entId[u] # entId[t] /\ entId'[u] = entId[u]
  BY <1>1, <1>2, <1>3 DEF InWork, OwnWork
<1>6. InWork(t)' => idMap' = idMap /\ entId' = entId
  BY <1>1 DEF InWork
<1>7. EntTypeOK'
  <2>1. idMap' \subseteq entInPool'
    BY <1>2 DEF EntTypeOK
  <2>2. \A u \in EntThreads : InWork(u)' => entId'[u] \in entInPool' \ idMap'
    <3> TAKE u \in EntThreads
    <3>1. CASE u = t
      BY <1>2, <1>6, <3>1
    <3>2. CASE u # t
      <4>1. InWork(u)' => entId[u] \in entInPool \ idMap
        BY <1>5, <3>2 DEF EntTypeOK, InWork
      <4> QED BY <1>5, <3>2, <4>1
    <3> QED BY <3>1, <3>2
  <2> QED BY <2>1, <2>2 DEF EntTypeOK, InWork
<1>8. OwnWork'
  BY <1>5, <1>6 DEF OwnWork
<1>9. ModeInv' /\ StreamInv'
  BY <1>1, ModeKept, StreamKept
<1> QED BY <1>4, <1>7, <1>8, <1>9

LEMMA UnmapStep ==
  ASSUME EntInv, NEW t \in EntThreads, NEW i \in Ids, UnmapEntity(t, i)
  PROVE  EntInv'
<1> USE DEF EntInv
<1>1. /\ Storing' = Storing /\ entPc' \in [EntThreads -> EntPlaces] /\ entPc[t] = "idle"
      /\ entPc'[t] = "erase" /\ \A u \in EntThreads \ {t} : entPc'[u] = entPc[u]
  BY StoringKept DEF UnmapEntity, EntPlaces
<1>2. /\ i \in idMap /\ idMap' = idMap \ {i} /\ entId'[t] = i
      /\ (\A u \in EntThreads \ {t} : entId'[u] = entId[u]) /\ DOMAIN entId' = EntThreads
      /\ UNCHANGED <<entNextId, entInPool, entBody>>
  BY DEF UnmapEntity, EntTypes
<1>3. EntTypes'
  BY <1>1, <1>2 DEF EntTypes, UnmapEntity
<1>4. \A u \in EntThreads \ {t} : InWork(u)' => InWork(u) /\ entId'[u] = entId[u] /\ entId[u] \in entInPool \ idMap
  BY <1>1, <1>2 DEF InWork, EntTypeOK
<1>5. EntTypeOK'
  <2>1. \A u \in EntThreads : InWork(u)' => entId'[u] \in entInPool' \ idMap'
    <3> TAKE u \in EntThreads
    <3>1. CASE u = t
      BY <1>2, <3>1 DEF EntTypeOK
    <3>2. CASE u # t
      BY <1>2, <1>4, <3>2
    <3> QED BY <3>1, <3>2
  <2> QED BY <1>2, <2>1 DEF EntTypeOK, InWork
<1>6. OwnWork'
  BY <1>2, <1>4 DEF OwnWork
<1>7. ModeInv' /\ StreamInv'
  BY <1>1, ModeKept, StreamKept DEF UnmapEntity, stream
<1> QED BY <1>3, <1>5, <1>6, <1>7

LEMMA EraseStep ==
  ASSUME EntInv, NEW t \in EntThreads, EraseEntity(t)
  PROVE  EntInv'
<1> USE DEF EntInv
<1>1. /\ Storing' = Storing /\ entPc' \in [EntThreads -> EntPlaces] /\ entPc[t] = "erase"
      /\ entPc'[t] = "idle" /\ \A u \in EntThreads \ {t} : entPc'[u] = entPc[u]
  BY StoringKept DEF EraseEntity, EntPlaces
<1>2. /\ entInPool' = entInPool \ {entId[t]} /\ entBody' = [entBody EXCEPT ![entId[t]] = NoComponents]
      /\ (\A u \in EntThreads \ {t} : entId'[u] = entId[u]) /\ DOMAIN entId' = EntThreads
      /\ UNCHANGED <<entNextId, idMap>>
  BY DEF EraseEntity, EntTypes
<1>3. EntTypes'
  <2>1. entBody' \in [Ids -> Bodies]
    BY <1>2, NoComponentsBody DEF EntTypes
  <2> QED BY <1>1, <1>2, <2>1 DEF EntTypes, EraseEntity
<1>4. ~InWork(t)' /\ InWork(t) /\ entId[t] \in entInPool \ idMap
  BY <1>1 DEF InWork, EntTypeOK
<1>5. \A u \in EntThreads \ {t} :
        InWork(u)' => InWork(u) /\ entId'[u] = entId[u] /\ entId[u] \in entInPool \ idMap /\ entId[u] # entId[t]
  BY <1>1, <1>2, <1>4 DEF InWork, EntTypeOK, OwnWork
<1>6. EntTypeOK'
  <2>1. \A u \in EntThreads : InWork(u)' => entId'[u] \in entInPool' \ idMap'
    BY <1>2, <1>4, <1>5
  <2>2. \A i \in Ids \ entInPool' : entBody'[i] = NoComponents
    BY <1>2 DEF EntTypeOK, EntTypes
  <2>3. idMap' \subseteq entInPool' /\ entInPool' \subseteq 1 .. entNextId' - 1 /\ entNextId' \in 1 .. MaxId + 1
    BY <1>2, <1>4 DEF EntTypeOK
  <2> QED BY <2>1, <2>2, <2>3 DEF EntTypeOK, InWork
<1>7. OwnWork'
  BY <1>4, <1>5 DEF OwnWork
<1>8. ModeInv' /\ StreamInv'
  BY <1>1, ModeKept, StreamKept DEF EraseEntity, stream
<1> QED BY <1>3, <1>6, <1>7, <1>8

LEMMA ClearStep ==
  ASSUME EntInv, ClearEntities
  PROVE  EntInv'
<1> USE DEF EntInv
<1>1. /\ entInPool' = {} /\ idMap' = {} /\ entBody' = [i \in Ids |-> NoComponents]
      /\ UNCHANGED <<entNextId, readOnly, entPc, entId, oldMode, snapshot, overlapped>>
      /\ \A u \in EntThreads : ~InWork(u)
  BY DEF ClearEntities, EntitiesIdle, InWork, stream
<1>2. EntTypes'
  BY <1>1, NoComponentsBody DEF EntTypes
<1>3. EntTypeOK' /\ OwnWork'
  BY <1>1 DEF EntTypeOK, OwnWork, InWork
<1>4. ModeInv' /\ StreamInv'
  BY <1>1, ModeKept, StreamKept DEF Storing
<1> QED BY <1>2, <1>3, <1>4

LEMMA NewManagerStep ==
  ASSUME EntInv, NewManager
  PROVE  EntInv'
<1> USE DEF EntInv
<1>1. /\ entNextId' = 1 /\ entInPool' = {} /\ idMap' = {} /\ entBody' = [i \in Ids |-> NoComponents] /\ readOnly' = FALSE
      /\ UNCHANGED <<entPc, entId, oldMode, snapshot, overlapped>>
      /\ \A u \in EntThreads : entPc[u] = "idle"
  BY DEF NewManager, EntitiesIdle, stream
<1>2. EntTypes'
  BY <1>1, NoComponentsBody DEF EntTypes
<1>3. EntTypeOK' /\ OwnWork'
  BY <1>1, EntitiesAssumption DEF EntTypeOK, OwnWork, InWork
<1>4. ModeInv' /\ StreamInv'
  BY <1>1, StreamKept DEF Storing, ModeInv
<1> QED BY <1>2, <1>3, <1>4

(***************************************************************************)
(* Storing                                                                 *)
(***************************************************************************)

\* A step of a store leaves the entities and what is in work alone.
LEMMA StoreSteps ==
  ASSUME EntInv, NEW t \in EntThreads, NEW from, NEW to \in EntPlaces, EntGoes(t, from, to),
         from \in {"idle", "store", "restore"}, to \in {"idle", "store", "restore"},
         oldMode' \in [EntThreads -> BOOLEAN], readOnly' \in BOOLEAN, UNCHANGED <<entities, entId>>
  PROVE  EntTypes' /\ EntTypeOK' /\ OwnWork'
<1> USE DEF EntInv
<1>1. /\ entPc' \in [EntThreads -> EntPlaces] /\ entPc[t] = from
      /\ entPc'[t] = to /\ \A u \in EntThreads \ {t} : entPc'[u] = entPc[u]
  BY DEF EntTypes, EntGoes
<1>2. \A u \in EntThreads : InWork(u)' <=> InWork(u)
  BY <1>1 DEF InWork
<1>3. UNCHANGED <<entNextId, entInPool, idMap, entBody, entId>>
  BY DEF entities
<1>4. EntTypeOK' /\ OwnWork'
  BY <1>2, <1>3 DEF EntTypeOK, OwnWork, InWork
<1> QED BY <1>1, <1>3, <1>4 DEF EntTypes

LEMMA EnterReadOnlyStep ==
  ASSUME EntInv, NEW t \in EntThreads, EnterReadOnly(t)
  PROVE  EntInv'
<1> USE DEF EntInv
<1>1. EntTypes' /\ EntTypeOK' /\ OwnWork'
  BY StoreSteps DEF EnterReadOnly, EntPlaces, EntTypes
<1>2. /\ Storing' = Storing \cup {t} /\ readOnly' = TRUE /\ overlapped' = (overlapped \/ Storing # {})
      /\ oldMode'[t] = readOnly
  BY DEF EnterReadOnly, EntGoes, EntTypes, Storing
<1>3. ModeInv'
  <2> SUFFICES ASSUME ~overlapped' PROVE /\ readOnly' <=> Storing' # {}
                                         /\ \A u, v \in Storing' : u = v
                                         /\ \A u \in Storing' : oldMode'[u] = FALSE
    BY DEF ModeInv
  <2>1. ~overlapped /\ Storing = {} /\ Storing' = {t}
    BY <1>2
  <2>2. readOnly = FALSE
    BY <2>1 DEF ModeInv, EntTypes
  <2> QED BY <1>2, <2>1, <2>2
<1> QED BY <1>1, <1>3, StreamKept DEF EnterReadOnly, stream

\* An order of the entities in the pool has each of them once.
LEMMA StoredOnce ==
  ASSUME EntInv, NEW order \in SetToSeqs(entInPool)
  PROVE  /\ Stored(order) \in Seq(StoredEntities)
         /\ \A j, k \in DOMAIN Stored(order) : Stored(order)[j].id = Stored(order)[k].id => j = k
<1>1. entInPool \subseteq Ids /\ entBody \in [Ids -> Bodies]
  BY EntitiesAssumption DEF EntInv, EntTypeOK, EntTypes, Ids
<1>2. Cardinality(entInPool) \in Nat
  <2>1. IsFiniteSet(Ids)
    BY EntitiesAssumption, FiniteUpTo DEF Ids
  <2>2. IsFiniteSet(entInPool)
    BY <1>1, <2>1, FS_Subset
  <2> QED BY <2>2, FS_CardinalityType
<1>3. /\ order \in [1 .. Cardinality(entInPool) -> entInPool]
      /\ \A i, j \in 1 .. Cardinality(entInPool) : i # j => order[i] # order[j]
  BY DEF SetToSeqs
<1>4. Stored(order) = [k \in 1 .. Cardinality(entInPool) |-> [id |-> order[k], body |-> entBody[order[k]]]]
  BY <1>3 DEF Stored
<1>5. \A k \in 1 .. Cardinality(entInPool) : [id |-> order[k], body |-> entBody[order[k]]] \in StoredEntities
  BY <1>1, <1>3 DEF StoredEntities
<1>6. \A k \in 1 .. Cardinality(entInPool) : Stored(order)[k] \in StoredEntities /\ Stored(order)[k].id = order[k]
  BY <1>4, <1>5
<1>7. DOMAIN Stored(order) = 1 .. Cardinality(entInPool)
  BY <1>4
<1> HIDE DEF Stored
<1>8. Stored(order) \in [1 .. Cardinality(entInPool) -> StoredEntities]
  BY <1>4, <1>5
<1>9. Stored(order) \in Seq(StoredEntities)
  BY <1>2, <1>8
<1> QED BY <1>3, <1>6, <1>7, <1>9

LEMMA StoreStep ==
  ASSUME EntInv, NEW t \in EntThreads, StoreEntities(t)
  PROVE  EntInv'
<1> USE DEF EntInv
<1>1. EntTypes' /\ EntTypeOK' /\ OwnWork'
  BY StoreSteps DEF StoreEntities, EntPlaces, EntTypes
<1>2. Storing' = Storing
  BY DEF StoreEntities, EntGoes, EntTypes, Storing
<1>3. ModeInv'
  BY <1>2, ModeKept DEF StoreEntities
<1>4. PICK order \in SetToSeqs(entInPool) : snapshot' = Stored(order)
  BY DEF StoreEntities
<1>5. StreamInv'
  BY <1>4, StoredOnce DEF StreamInv, StoredEntities
<1> QED BY <1>1, <1>3, <1>5

LEMMA LeaveReadOnlyStep ==
  ASSUME EntInv, NEW t \in EntThreads, LeaveReadOnly(t)
  PROVE  EntInv'
<1> USE DEF EntInv
<1>1. EntTypes' /\ EntTypeOK' /\ OwnWork'
  BY StoreSteps DEF LeaveReadOnly, EntPlaces, EntTypes
<1>2. /\ Storing' = Storing \ {t} /\ t \in Storing /\ readOnly' = oldMode[t] /\ overlapped' = overlapped
  BY DEF LeaveReadOnly, EntGoes, EntTypes, Storing
<1>3. ModeInv'
  BY <1>2 DEF ModeInv
<1> QED BY <1>1, <1>3, StreamKept DEF LeaveReadOnly, stream

(***************************************************************************)
(* Loading                                                                 *)
(***************************************************************************)

LoadStates == [next : Nat, ids : SUBSET Nat, body : [Ids -> Bodies], as : Seq(Nat)]
Unloaded == [next |-> entNextId, ids |-> idMap, body |-> entBody, as |-> <<>>]

\* The id under which a stored entity goes on.
LoadedAs(m, e) == IF e.id \in m.ids THEN e.id ELSE m.next

LEMMA LoadEntityIs ==
  ASSUME NEW m \in LoadStates, NEW e \in StoredEntities
  PROVE  LET a == LoadedAs(m, e)  after == LoadEntity(m, e) IN
           /\ after \in LoadStates /\ a \in Nat
           /\ after.next = (IF e.id \in m.ids THEN m.next ELSE m.next + 1)
           /\ after.ids = m.ids \cup {a}
           /\ after.body = [m.body EXCEPT ![a] = e.body]
           /\ after.as = Append(m.as, a)
<1> DEFINE a == LoadedAs(m, e)
           body == [m.body EXCEPT ![a] = LoadBody(@, e.body)]
           after == LoadEntity(m, e)
<1>1. /\ m.next \in Nat /\ m.ids \in SUBSET Nat /\ m.body \in [Ids -> Bodies] /\ m.as \in Seq(Nat)
      /\ e.id \in Ids /\ e.body \in Bodies
  BY DEF LoadStates, StoredEntities
<1>2. a \in Nat
  BY <1>1, EntitiesAssumption DEF LoadedAs, Ids
<1>3. after = [next |-> IF e.id \in m.ids THEN m.next ELSE m.next + 1, ids |-> m.ids \cup {a}, body |-> body, as |-> Append(m.as, a)]
  BY DEF LoadEntity, LoadedAs
<1>4. \A old : LoadBody(old, e.body) = e.body
  BY <1>1 DEF LoadBody, Bodies
<1>5. body = [m.body EXCEPT ![a] = e.body]
  BY <1>4
<1>6. body \in [Ids -> Bodies]
  BY <1>1, <1>5
<1> HIDE DEF after, body, a
<1>7. after \in LoadStates
  BY <1>1, <1>2, <1>3, <1>6 DEF LoadStates
<1>8. /\ after.next = (IF e.id \in m.ids THEN m.next ELSE m.next + 1) /\ after.ids = m.ids \cup {a}
      /\ after.body = body /\ after.as = Append(m.as, a)
  BY <1>3
<1> QED BY <1>2, <1>5, <1>7, <1>8 DEF after, a

\* The states that loading goes through.
LEMMA LoadedIs ==
  ASSUME EntInv
  PROVE  /\ Loaded(0) = Unloaded
         /\ \A k \in 0 .. Len(snapshot) : Loaded(k) \in LoadStates
         /\ \A k \in 1 .. Len(snapshot) : snapshot[k] \in StoredEntities /\ Loaded(k) = LoadEntity(Loaded(k - 1), snapshot[k])
<1> DEFINE L == Len(snapshot)
           X == LoadStates
           G == [n \in 1 .. L |-> [x \in X |-> LoadEntity(x, snapshot[n])]]
           W == CHOOSE g : g = [k \in 0 .. Len(snapshot) |->
                                  IF k = 0 THEN [next |-> entNextId, ids |-> idMap, body |-> entBody, as |-> <<>>]
                                  ELSE LoadEntity(g[k - 1], snapshot[k])]
<1> HIDE DEF G, W, X
<1>1. L \in Nat /\ \A k \in 1 .. L : snapshot[k] \in StoredEntities
  BY DEF EntInv, StreamInv
<1>2. Unloaded \in X
  <2>1. entNextId \in Nat /\ idMap \subseteq Nat /\ entBody \in [Ids -> Bodies] /\ <<>> \in Seq(Nat)
    BY EntitiesAssumption DEF EntInv, EntTypeOK, EntTypes
  <2> QED BY <2>1 DEF X, LoadStates, Unloaded
<1>3. G \in [1 .. L -> [X -> X]]
  <2>1. ASSUME NEW n \in 1 .. L, NEW x \in X PROVE LoadEntity(x, snapshot[n]) \in X
    BY <1>1, LoadEntityIs DEF X
  <2> QED BY <2>1 DEF G
<1>4. PICK g \in [0 .. L -> X] : g[0] = Unloaded /\ \A n \in 1 .. L : g[n] = G[n][g[n - 1]]
  <2> HIDE DEF X, L
  <2>1. PICK x \in X : x = Unloaded
    BY <1>2
  <2>2. \E g \in [0 .. L -> X] : Follows(g, x, L, G)
    <3>1. x \in X /\ L \in Nat /\ G \in [1 .. L -> [X -> X]]
      BY <1>1, <1>3
    <3> HIDE DEF G
    <3> QED BY <3>1, BoundedRecursion, Zenon
  <2> QED BY <2>1, <2>2, Zenon DEF Follows
<1>5. \A n \in 1 .. L : g[n] = LoadEntity(g[n - 1], snapshot[n])
  <2> TAKE n \in 1 .. L
  <2>1. g[n - 1] \in X
    BY <1>1, <1>4
  <2>2. G[n][g[n - 1]] = LoadEntity(g[n - 1], snapshot[n])
    BY <2>1 DEF G
  <2> QED BY <1>4, <2>2
<1> DEFINE E(h, k) == IF k = 0 THEN Unloaded ELSE LoadEntity(h[k - 1], snapshot[k])
<1>6. g = [k \in 0 .. Len(snapshot) |-> E(g, k)]
  <2>1. ASSUME NEW n \in 0 .. Len(snapshot), n # 0 PROVE n \in 1 .. L
    BY <1>1, <2>1
  <2>2. \A n \in 0 .. Len(snapshot) : g[n] = E(g, n)
    BY <1>4, <1>5, <2>1
  <2>3. g = [n \in 0 .. Len(snapshot) |-> g[n]]
    BY <1>4
  <2> HIDE DEF E
  <2> QED BY <2>2, <2>3
<1>7. W = [k \in 0 .. Len(snapshot) |-> E(W, k)]
  BY <1>6 DEF W, Unloaded
<1>8. \A k \in 0 .. L : Loaded(k) = W[k]
  BY DEF Loaded, W
<1>9. W[0] = Unloaded /\ \A k \in 1 .. L : W[k] = LoadEntity(W[k - 1], snapshot[k])
  <2>1. \A k \in 0 .. L : W[k] = E(W, k)
    <3> HIDE DEF E
    <3> QED BY <1>7
  <2>2. 0 \in 0 .. L /\ \A k \in 1 .. L : k \in 0 .. L /\ k # 0
    BY <1>1
  <2> QED BY <2>1, <2>2
<1>10. \A k \in 1 .. L : k \in 0 .. L /\ k - 1 \in 0 .. L /\ 0 \in 0 .. L
  BY <1>1
<1>11. \A k \in 1 .. L : Loaded(k) = LoadEntity(Loaded(k - 1), snapshot[k])
  BY <1>8, <1>9, <1>10
<1>12. Loaded(0) = Unloaded
  BY <1>1, <1>8, <1>9
<1>13. \A k \in 0 .. L : Loaded(k) \in LoadStates
  <2> DEFINE S == {k \in Nat : k <= L => Loaded(k) \in LoadStates}
  <2>1. 0 \in S
    BY <1>2, <1>12 DEF X
  <2>2. ASSUME NEW k \in Nat, k \in S PROVE k + 1 \in S
    <3> SUFFICES ASSUME k + 1 <= L PROVE Loaded(k + 1) \in LoadStates
      OBVIOUS
    <3>1. k + 1 \in 1 .. L /\ (k + 1) - 1 = k /\ Loaded(k) \in LoadStates
      BY <1>1, <2>2
    <3>2. Loaded(k + 1) = LoadEntity(Loaded(k), snapshot[k + 1])
      BY <1>11, <3>1
    <3> QED BY <1>1, <3>1, <3>2, LoadEntityIs
  <2> HIDE DEF S
  <2>3. Nat \subseteq S
    BY <2>1, <2>2, NatSets
  <2> QED BY <1>1, <2>3 DEF S
<1> QED BY <1>1, <1>11, <1>12, <1>13

\* After k stored entities: the new ids are the next ones, and what has another id is as it was.
Reached(m, k) ==
  /\ m \in LoadStates /\ m.next \in entNextId .. entNextId + k
  /\ m.ids = idMap \cup (entNextId .. m.next - 1)
  /\ \A i \in Ids \ m.ids : m.body[i] = entBody[i]

LEMMA NextIsNew ==
  ASSUME EntInv, NEW k \in Nat, NEW m, Reached(m, k)
  PROVE  /\ entNextId \in Nat \ {0} /\ m.next \in Nat \ {0} /\ m.next \notin m.ids /\ entNextId <= m.next
         /\ \A i \in m.ids : i \in Nat /\ 1 <= i /\ i < m.next
         /\ idMap \subseteq 1 .. entNextId - 1 /\ idMap \subseteq m.ids
<1>1. entNextId \in Nat \ {0} /\ idMap \subseteq 1 .. entNextId - 1
  BY EntitiesAssumption DEF EntInv, EntTypeOK
<1>2. m.next \in entNextId .. entNextId + k /\ m.ids = idMap \cup (entNextId .. m.next - 1)
  BY DEF Reached
<1>3. m.next \in Nat \ {0} /\ entNextId <= m.next
  BY <1>1, <1>2
<1>4. ASSUME NEW i \in m.ids PROVE i \in Nat /\ 1 <= i /\ i < m.next
  <2>1. CASE i \in idMap
    <3>1. i \in 1 .. entNextId - 1
      BY <1>1, <2>1
    <3> QED BY <1>1, <1>3, <3>1
  <2>2. CASE i \in entNextId .. m.next - 1
    BY <1>1, <1>3, <2>2
  <2> QED BY <1>2, <2>1, <2>2
<1> QED BY <1>1, <1>2, <1>3, <1>4

LEMMA ReachedStep ==
  ASSUME EntInv, NEW k \in Nat, NEW m, Reached(m, k), NEW e \in StoredEntities
  PROVE  Reached(LoadEntity(m, e), k + 1) /\ LoadedAs(m, e) \in LoadEntity(m, e).ids
<1> DEFINE a == LoadedAs(m, e)
           after == LoadEntity(m, e)
<1>1. m \in LoadStates
  BY DEF Reached
<1>2. /\ after \in LoadStates /\ a \in Nat
      /\ after.next = (IF e.id \in m.ids THEN m.next ELSE m.next + 1)
      /\ after.ids = m.ids \cup {a}
      /\ after.body = [m.body EXCEPT ![a] = e.body]
  BY <1>1, LoadEntityIs
<1>3. a = IF e.id \in m.ids THEN e.id ELSE m.next
  BY DEF LoadedAs
<1> HIDE DEF a, after
<1>4. entNextId \in Nat /\ m.next \in Nat /\ entNextId <= m.next
  BY NextIsNew
<1>5. after.next \in entNextId .. entNextId + (k + 1)
  BY <1>2, <1>4 DEF Reached
<1>6. after.ids = idMap \cup (entNextId .. after.next - 1)
  <2>1. CASE e.id \in m.ids
    BY <1>2, <1>3, <2>1 DEF Reached
  <2>2. CASE e.id \notin m.ids
    <3>1. (entNextId .. m.next - 1) \cup {m.next} = entNextId .. (m.next + 1) - 1
      BY <1>4
    <3> QED BY <1>2, <1>3, <2>2, <3>1 DEF Reached
  <2> QED BY <2>1, <2>2
<1>7. \A i \in Ids \ after.ids : after.body[i] = entBody[i]
  <2> TAKE i \in Ids \ after.ids
  <2>1. i # a /\ i \in Ids \ m.ids /\ m.body \in [Ids -> Bodies]
    BY <1>1, <1>2 DEF LoadStates
  <2> QED BY <1>2, <2>1 DEF Reached
<1> QED BY <1>2, <1>5, <1>6, <1>7 DEF Reached, after, a

LEMMA LoadedReached ==
  ASSUME EntInv
  PROVE  \A k \in 0 .. Len(snapshot) : Reached(Loaded(k), k)
<1> DEFINE L == Len(snapshot)
           S == {k \in Nat : k <= L => Reached(Loaded(k), k)}
<1>1. L \in Nat
  BY DEF EntInv, StreamInv
<1>2. 0 \in S
  <2>1. Loaded(0) = Unloaded /\ Loaded(0) \in LoadStates
    BY <1>1, LoadedIs
  <2>2. entNextId \in Nat
    BY EntitiesAssumption DEF EntInv, EntTypeOK
  <2>3. Unloaded.next = entNextId /\ Unloaded.ids = idMap /\ Unloaded.body = entBody
    BY DEF Unloaded
  <2> QED BY <2>1, <2>2, <2>3 DEF Reached
<1>3. ASSUME NEW k \in Nat, k \in S PROVE k + 1 \in S
  <2> SUFFICES ASSUME k + 1 <= L PROVE Reached(Loaded(k + 1), k + 1)
    OBVIOUS
  <2>1. k + 1 \in 1 .. L /\ (k + 1) - 1 = k /\ Reached(Loaded(k), k)
    BY <1>1, <1>3
  <2>2. snapshot[k + 1] \in StoredEntities /\ Loaded(k + 1) = LoadEntity(Loaded(k), snapshot[k + 1])
    BY <2>1, LoadedIs
  <2> QED BY <2>1, <2>2, ReachedStep
<1> HIDE DEF S
<1>4. Nat \subseteq S
  BY <1>2, <1>3, NatSets
<1> QED BY <1>1, <1>4 DEF S

\* An entity that is left half loaded has an id, and components or none.
LEMMA BrokenReached ==
  ASSUME EntInv, IdsLeft, NEW k \in Nat, k <= Len(snapshot), NEW m, Reached(m, k), NEW e \in StoredEntities
  PROVE  Reached(Broken(m, e), k + 1)
<1> DEFINE empty == [e EXCEPT !.body = [c \in CompTypes |-> NoValue]]
           left == LoadEntity(m, empty)
           i == left.as[Len(left.as)]
           body == [c \in CompTypes |-> IF i \in m.ids /\ e.body[c] # NoValue THEN entBody[i][c] ELSE NoValue]
<1>1. empty \in StoredEntities
  BY DEF StoredEntities, Bodies
<1>2. Reached(left, k + 1) /\ LoadedAs(m, empty) \in left.ids
  BY <1>1, ReachedStep
<1>3. left.as = Append(m.as, LoadedAs(m, empty)) /\ m.as \in Seq(Nat) /\ LoadedAs(m, empty) \in Nat
  BY <1>1, LoadEntityIs DEF Reached, LoadStates
<1> HIDE DEF empty, left
<1>4. i \in left.ids
  <2>1. Append(m.as, LoadedAs(m, empty))[Len(Append(m.as, LoadedAs(m, empty)))] = LoadedAs(m, empty)
    BY <1>3
  <2> QED BY <1>2, <1>3, <2>1
<1>5. m.ids \subseteq Ids
  <2>1. entNextId + Len(snapshot) - 1 \in 1 .. MaxId /\ MaxId \in Nat /\ Len(snapshot) \in Nat /\ entNextId \in Nat
    BY EntitiesAssumption DEF IdsLeft, Ids, EntInv, StreamInv, EntTypeOK
  <2>2. m.next \in entNextId .. entNextId + k /\ \A j \in m.ids : j \in Nat /\ 1 <= j /\ j < m.next
    BY NextIsNew DEF Reached
  <2> QED BY <2>1, <2>2 DEF Ids
<1>6. body \in Bodies
  <2>1. i \in m.ids => entBody[i] \in Bodies
    BY <1>5 DEF EntInv, EntTypes
  <2> HIDE DEF i
  <2> QED BY <2>1 DEF Bodies
<1>7. Broken(m, e) = [left EXCEPT !.body = [left.body EXCEPT ![i] = body]]
  BY DEF Broken, left, empty
<1> HIDE DEF body, i
<1>8. left \in LoadStates
  BY <1>2 DEF Reached
<1>9. [left.body EXCEPT ![i] = body] \in [Ids -> Bodies]
  BY <1>6, <1>8 DEF LoadStates
<1>10. PICK changed : changed = [left.body EXCEPT ![i] = body]
  OBVIOUS
<1>11. /\ Broken(m, e) \in LoadStates /\ Broken(m, e).next = left.next /\ Broken(m, e).ids = left.ids
       /\ Broken(m, e).body = changed
  <2>1. Broken(m, e) = [left EXCEPT !.body = changed] /\ changed \in [Ids -> Bodies]
    BY <1>7, <1>9, <1>10
  <2> QED BY <1>8, <2>1 DEF LoadStates
<1>12. \A j \in Ids \ left.ids : changed[j] = left.body[j]
  BY <1>4, <1>8, <1>10 DEF LoadStates
<1> QED BY <1>2, <1>11, <1>12 DEF Reached

LEMMA LoadIntoStep ==
  ASSUME EntInv, IdsLeft, NEW k \in Nat, k <= Len(snapshot), NEW m, Reached(m, k), LoadInto(m)
  PROVE  EntInv'
<1> USE DEF EntInv
<1>1. /\ snapshot' = <<>> /\ entNextId' = m.next /\ idMap' = m.ids /\ entBody' = m.body
      /\ entInPool' = entInPool \cup (m.ids \ idMap)
      /\ UNCHANGED <<readOnly, entPc, entId, oldMode, overlapped>>
      /\ \A u \in EntThreads : entPc[u] = "idle"
  BY DEF LoadInto, EntitiesIdle
<1>2. entNextId + Len(snapshot) - 1 \in 1 .. MaxId /\ MaxId \in Nat /\ Len(snapshot) \in Nat /\ entNextId \in Nat
  BY EntitiesAssumption DEF IdsLeft, Ids, StreamInv, EntTypeOK
<1>3. /\ m.next \in entNextId .. entNextId + k /\ m.ids = idMap \cup (entNextId .. m.next - 1)
      /\ (\A i \in Ids \ m.ids : m.body[i] = entBody[i]) /\ m.body \in [Ids -> Bodies]
  BY DEF Reached, LoadStates
<1>4. EntTypes'
  BY <1>1, <1>3 DEF EntTypes
<1>5. EntTypeOK'
  <2>1. m.next \in 1 .. MaxId + 1 /\ entNextId <= m.next
    BY <1>2, <1>3, NextIsNew
  <2>2. idMap \subseteq entInPool /\ entInPool \subseteq 1 .. entNextId - 1
    BY DEF EntTypeOK
  <2>3. entInPool' \subseteq 1 .. m.next - 1
    <3>1. 1 .. entNextId - 1 \subseteq 1 .. m.next - 1 /\ entNextId .. m.next - 1 \subseteq 1 .. m.next - 1
      BY <1>2, <2>1, NextIsNew
    <3> QED BY <1>1, <1>3, <2>2, <3>1
  <2>4. idMap' \subseteq entInPool'
    BY <1>1, <2>2
  <2>5. \A i \in Ids \ entInPool' : entBody'[i] = NoComponents
    <3> TAKE i \in Ids \ entInPool'
    <3>1. i \notin entInPool /\ i \notin m.ids
      BY <1>1, <2>2
    <3> QED BY <1>1, <1>3, <3>1 DEF EntTypeOK
  <2> QED BY <1>1, <2>1, <2>3, <2>4, <2>5 DEF EntTypeOK
<1>6. OwnWork'
  BY <1>1 DEF OwnWork, InWork
<1>7. ModeInv'
  BY <1>1, ModeKept DEF Storing
<1>8. StreamInv'
  BY <1>1 DEF StreamInv
<1> QED BY <1>4, <1>5, <1>6, <1>7, <1>8

LEMMA LoadStep ==
  ASSUME EntInv, LoadEntities
  PROVE  EntInv'
<1>1. Len(snapshot) \in Nat
  BY DEF EntInv, StreamInv
<1>2. Reached(Loaded(Len(snapshot)), Len(snapshot))
  BY <1>1, LoadedReached
<1> QED BY <1>1, <1>2, LoadIntoStep DEF LoadEntities

LEMMA LoadThrowsStep ==
  ASSUME EntInv, LoadThrows
  PROVE  EntInv'
<1>1. PICK k \in DOMAIN snapshot : LoadInto(Loaded(k - 1)) \/ LoadInto(Broken(Loaded(k - 1), snapshot[k]))
  BY DEF LoadThrows
<1>2. Len(snapshot) \in Nat /\ k \in 1 .. Len(snapshot) /\ snapshot[k] \in StoredEntities
  BY DEF EntInv, StreamInv
<1>3. k - 1 \in Nat /\ k - 1 <= Len(snapshot) /\ k \in Nat /\ k <= Len(snapshot) /\ (k - 1) + 1 = k
  BY <1>2
<1>4. Reached(Loaded(k - 1), k - 1)
  BY <1>2, <1>3, LoadedReached
<1>5. IdsLeft
  BY DEF LoadThrows
<1>6. CASE LoadInto(Loaded(k - 1))
  BY <1>3, <1>4, <1>5, <1>6, LoadIntoStep
<1>7. CASE LoadInto(Broken(Loaded(k - 1), snapshot[k]))
  <2>1. Reached(Broken(Loaded(k - 1), snapshot[k]), k)
    BY <1>2, <1>3, <1>4, <1>5, BrokenReached
  <2> QED BY <1>3, <1>5, <1>7, <2>1, LoadIntoStep
<1> QED BY <1>1, <1>6, <1>7

LEMMA EntitiesStep ==
  ASSUME EntInv, [EntitiesNext]_entVars
  PROVE  EntInv'
<1>1. CASE \E t \in EntThreads : EmplaceEntity(t)
  BY <1>1, EmplaceStep
<1>2. CASE \E t \in EntThreads : CreateComponents(t)
  <2>1. PICK t \in EntThreads : CreateComponents(t)
    BY <1>2
  <2>2. entPc[t] = "components" /\ entId[t] \in entInPool
    BY <2>1 DEF CreateComponents, EntGoes, EntInv, EntTypeOK
  <2>3. entBody' \in [Ids -> Bodies] /\ \A i \in Ids \ entInPool : entBody'[i] = entBody[i]
    BY <2>1, <2>2, EntitiesAssumption DEF CreateComponents, Bodies, EntInv, EntTypes
  <2> QED BY <2>1, <2>3, WorkStep DEF CreateComponents, EntPlaces, stream
<1>3. CASE \E t \in EntThreads : CreateThrows(t)
  <2>1. PICK t \in EntThreads : CreateThrows(t)
    BY <1>3
  <2>2. UNCHANGED <<entNextId, entInPool, idMap, entBody, snapshot>> /\ entBody \in [Ids -> Bodies]
    BY <2>1 DEF CreateThrows, entities, stream, EntInv, EntTypes
  <2> QED BY <2>1, <2>2, WorkStep DEF CreateThrows, EntPlaces
<1>4. CASE \E t \in EntThreads : RegisterEntity(t)
  <2>1. PICK t \in EntThreads : RegisterEntity(t)
    BY <1>4
  <2>2. UNCHANGED <<entNextId, entInPool, entBody, snapshot>> /\ entBody \in [Ids -> Bodies]
    BY <2>1 DEF RegisterEntity, stream, EntInv, EntTypes
  <2> QED BY <2>1, <2>2, WorkStep DEF RegisterEntity, EntPlaces
<1>5. CASE \E t \in EntThreads, i \in Ids : UnmapEntity(t, i)
  BY <1>5, UnmapStep
<1>6. CASE \E t \in EntThreads, i \in Ids, n \in NameSet : NameEntity(t, n, i)
  BY <1>6 DEF NameEntity, entities, stream, EntInv, EntTypes, EntTypeOK, OwnWork, InWork, ModeInv, Storing, StreamInv
<1>7. CASE \E t \in EntThreads : EraseEntity(t)
  BY <1>7, EraseStep
<1>8. CASE \E t \in EntThreads : EnterReadOnly(t)
  BY <1>8, EnterReadOnlyStep
<1>9. CASE \E t \in EntThreads : StoreEntities(t)
  BY <1>9, StoreStep
<1>10. CASE \E t \in EntThreads : LeaveReadOnly(t)
  BY <1>10, LeaveReadOnlyStep
<1>11. CASE ClearEntities
  BY <1>11, ClearStep
<1>12. CASE LoadEntities
  BY <1>12, LoadStep
<1>13. CASE LoadThrows
  BY <1>13, LoadThrowsStep
<1>14. CASE NewManager
  BY <1>14, NewManagerStep
<1>15. CASE UNCHANGED entVars
  BY <1>15 DEF entVars, entities, stream, EntInv, EntTypes, EntTypeOK, OwnWork, InWork, ModeInv, Storing, StreamInv
<1> QED
  BY <1>1, <1>2, <1>3, <1>4, <1>5, <1>6, <1>7, <1>8, <1>9, <1>10, <1>11, <1>12, <1>13, <1>14, <1>15
  DEF EntitiesNext, EntityStep

\* An entity that can be found is in the pool, whatever the threads do; and the mode is that of the stores in
\* progress, unless stores have overlapped.
THEOREM EntitiesCorrect == EntitiesSpec => []EntitiesSafe
<1>1. EntInv => EntitiesSafe
  BY DEF EntInv, EntitiesSafe, ModeInv, ReadOnlyWhileStored
<1>2. EntitiesInit => EntInv
  BY EntitiesInitially
<1>3. EntInv /\ [EntitiesNext]_entVars => EntInv'
  BY EntitiesStep
<1> QED BY <1>1, <1>2, <1>3, PTL DEF EntitiesSpec

(***************************************************************************)
(* What loading restores                                                   *)
(***************************************************************************)

\* The id under which the k-th stored entity goes on.
AsId(k) == LoadedAs(Loaded(k - 1), snapshot[k])

LEMMA LoadedOne ==
  ASSUME EntInv, NEW k \in 1 .. Len(snapshot)
  PROVE  /\ Reached(Loaded(k - 1), k - 1) /\ Reached(Loaded(k), k)
         /\ snapshot[k] \in StoredEntities
         /\ Loaded(k).next \in {Loaded(k - 1).next, Loaded(k - 1).next + 1}
         /\ Loaded(k).ids = Loaded(k - 1).ids \cup {AsId(k)}
         /\ Loaded(k).body = [Loaded(k - 1).body EXCEPT ![AsId(k)] = snapshot[k].body]
         /\ Loaded(k).as = Append(Loaded(k - 1).as, AsId(k))
<1>1. Len(snapshot) \in Nat /\ k - 1 \in 0 .. Len(snapshot) /\ k \in 0 .. Len(snapshot)
  BY DEF EntInv, StreamInv
<1>2. Reached(Loaded(k - 1), k - 1) /\ Reached(Loaded(k), k)
  BY <1>1, LoadedReached
<1>3. snapshot[k] \in StoredEntities /\ Loaded(k) = LoadEntity(Loaded(k - 1), snapshot[k])
  BY LoadedIs
<1>4. Loaded(k - 1) \in LoadStates
  BY <1>2 DEF Reached
<1> QED BY <1>2, <1>3, <1>4, LoadEntityIs DEF AsId

\* The ids are noted in the order of the stream, and what has been entered stays.
LEMMA LoadedIds ==
  ASSUME EntInv
  PROVE  \A k \in 0 .. Len(snapshot) :
           /\ Len(Loaded(k).as) = k /\ DOMAIN Loaded(k).as = 1 .. k
           /\ \A j \in 1 .. k : Loaded(k).as[j] = AsId(j) /\ AsId(j) \in Loaded(k).ids
<1> DEFINE L == Len(snapshot)
           P(k) == /\ Len(Loaded(k).as) = k /\ DOMAIN Loaded(k).as = 1 .. k
                   /\ \A j \in 1 .. k : Loaded(k).as[j] = AsId(j) /\ AsId(j) \in Loaded(k).ids
           S == {k \in Nat : k <= L => P(k)}
<1>1. L \in Nat
  BY DEF EntInv, StreamInv
<1>2. 0 \in S
  <2>1. Loaded(0).as = <<>>
    BY LoadedIs DEF Unloaded
  <2>2. P(0)
    BY <2>1
  <2> QED BY <2>2
<1>3. ASSUME NEW k \in Nat, k \in S PROVE k + 1 \in S
  <2> SUFFICES ASSUME k + 1 <= L PROVE P(k + 1)
    OBVIOUS
  <2>1. k + 1 \in 1 .. L /\ (k + 1) - 1 = k /\ P(k)
    BY <1>1, <1>3
  <2>2. /\ Reached(Loaded(k), k) /\ Loaded(k + 1).ids = Loaded(k).ids \cup {AsId(k + 1)}
        /\ Loaded(k + 1).as = Append(Loaded(k).as, AsId(k + 1))
    BY <2>1, LoadedOne
  <2>3. PICK as : as = Loaded(k).as
    OBVIOUS
  <2>4. PICK new : new = Loaded(k + 1).as
    OBVIOUS
  <2>5. as \in Seq(Nat) /\ Len(as) = k /\ new = Append(as, AsId(k + 1))
    BY <2>1, <2>2, <2>3, <2>4 DEF Reached, LoadStates
  <2>6. Len(new) = k + 1 /\ DOMAIN new = 1 .. k + 1 /\ new[k + 1] = AsId(k + 1) /\ \A j \in 1 .. k : new[j] = as[j]
    <3>1. Loaded(k + 1) \in LoadStates
      BY <2>1, LoadedOne DEF Reached
    <3>2. PICK a : a = AsId(k + 1)
      OBVIOUS
    <3>3. a \in Nat
      BY <2>2, <3>1, <3>2 DEF LoadStates
    <3>4. as \in Seq(Nat) /\ Len(as) = k /\ new = Append(as, a)
      BY <2>5, <3>2
    <3>5. /\ new \in Seq(Nat) /\ Len(new) = Len(as) + 1 /\ (\A i \in 1 .. Len(as) : new[i] = as[i])
          /\ new[Len(as) + 1] = a
      BY <3>3, <3>4, AppendProperties, Zenon
    <3>6. Len(new) = k + 1 /\ new[k + 1] = AsId(k + 1)
      BY <3>2, <3>4, <3>5
    <3>7. DOMAIN new = 1 .. k + 1
      <4>1. new \in Seq(Nat)
        BY <3>5
      <4>2. DOMAIN new = 1 .. Len(new)
        BY <4>1
      <4> QED BY <3>6, <4>2
    <3>8. \A j \in 1 .. k : new[j] = as[j]
      BY <3>4, <3>5
    <3> QED BY <3>6, <3>7, <3>8
  <2>7. ASSUME NEW j \in 1 .. k + 1 PROVE new[j] = AsId(j) /\ AsId(j) \in Loaded(k + 1).ids
    <3>1. CASE j = k + 1
      BY <2>2, <2>6, <3>1
    <3>2. CASE j # k + 1
      <4>1. j \in 1 .. k
        BY <3>2
      <4> QED BY <2>1, <2>2, <2>3, <2>6, <4>1
    <3> QED BY <3>1, <3>2
  <2> QED BY <2>4, <2>6, <2>7
<1> HIDE DEF S
<1>4. Nat \subseteq S
  BY <1>2, <1>3, NatSets
<1> QED BY <1>1, <1>4 DEF S

LEMMA AsIsAsId ==
  ASSUME EntInv
  PROVE  \A k \in 1 .. Len(snapshot) : As[k] = AsId(k) /\ AsId(k) \in Loaded(Len(snapshot)).ids
<1>1. Len(snapshot) \in Nat
  BY DEF EntInv, StreamInv
<1> QED BY <1>1, LoadedIds DEF As

\* Without a collision no two stored entities go on as one.
LEMMA NoTwoAsOne ==
  ASSUME EntInv, ~Collides, NEW j \in 1 .. Len(snapshot), NEW k \in 1 .. Len(snapshot), j < k
  PROVE  AsId(j) # AsId(k)
<1>1. Len(snapshot) \in Nat /\ j \in DOMAIN snapshot /\ k \in DOMAIN snapshot
  BY DEF EntInv, StreamInv
<1>2. CASE snapshot[k].id \in Loaded(k - 1).ids
  <2>1. AsId(k) = snapshot[k].id
    BY <1>2 DEF AsId, LoadedAs
  <2>2. ~(As[j] = snapshot[k].id /\ snapshot[j].id # As[j])
    BY <1>1 DEF Collides
  <2>3. snapshot[j].id # snapshot[k].id
    BY <1>1 DEF EntInv, StreamInv
  <2> QED BY <2>1, <2>2, <2>3, AsIsAsId
<1>3. CASE snapshot[k].id \notin Loaded(k - 1).ids
  <2>1. AsId(k) = Loaded(k - 1).next
    BY <1>3 DEF AsId, LoadedAs
  <2>2. k - 1 \in 0 .. Len(snapshot) /\ k - 1 \in Nat /\ j \in 1 .. k - 1
    BY <1>1
  <2>3. Reached(Loaded(k - 1), k - 1) /\ AsId(j) \in Loaded(k - 1).ids
    BY <2>2, LoadedReached, LoadedIds
  <2>4. Loaded(k - 1).next \notin Loaded(k - 1).ids
    BY <2>2, <2>3, NextIsNew
  <2> QED BY <2>1, <2>3, <2>4
<1> QED BY <1>2, <1>3

LEMMA LoadedBodies ==
  ASSUME EntInv, IdsLeft, ~Collides
  PROVE  LET last == Loaded(Len(snapshot)) IN
           /\ \A k \in 1 .. Len(snapshot) : last.body[AsId(k)] = snapshot[k].body
           /\ \A i \in idMap \ {snapshot[k].id : k \in DOMAIN snapshot} : last.body[i] = entBody[i]
<1> DEFINE L == Len(snapshot)
           others == idMap \ {snapshot[k].id : k \in DOMAIN snapshot}
           P(k) == /\ \A j \in 1 .. k : Loaded(k).body[AsId(j)] = snapshot[j].body
                   /\ \A i \in others : Loaded(k).body[i] = entBody[i]
           S == {k \in Nat : k <= L => P(k)}
<1>1. L \in Nat /\ DOMAIN snapshot = 1 .. L
  BY DEF EntInv, StreamInv
<1>2. 0 \in S
  <2>1. Loaded(0).body = entBody
    BY LoadedIs DEF Unloaded
  <2>2. P(0)
    BY <2>1
  <2> QED BY <2>2
<1>3. ASSUME NEW k \in Nat, k \in S PROVE k + 1 \in S
  <2> SUFFICES ASSUME k + 1 <= L PROVE P(k + 1)
    OBVIOUS
  <2>1. k + 1 \in 1 .. L /\ (k + 1) - 1 = k /\ P(k)
    BY <1>1, <1>3
  <2>2. /\ Reached(Loaded(k), k) /\ Reached(Loaded(k + 1), k + 1) /\ Loaded(k + 1).ids = Loaded(k).ids \cup {AsId(k + 1)}
        /\ Loaded(k + 1).body = [Loaded(k).body EXCEPT ![AsId(k + 1)] = snapshot[k + 1].body]
    BY <2>1, LoadedOne
  <2>3. Loaded(k).body \in [Ids -> Bodies]
    BY <2>2 DEF Reached, LoadStates
  <2>4. \A i \in Loaded(k + 1).ids : i \in Ids
    <3>1. entNextId + L - 1 \in 1 .. MaxId /\ MaxId \in Nat /\ entNextId \in Nat
      BY EntitiesAssumption DEF IdsLeft, Ids, EntInv, EntTypeOK
    <3>2. Loaded(k + 1).next \in entNextId .. entNextId + (k + 1) /\ \A i \in Loaded(k + 1).ids : i \in Nat /\ 1 <= i /\ i < Loaded(k + 1).next
      BY <2>2, NextIsNew DEF Reached
    <3> QED BY <1>1, <2>1, <3>1, <3>2 DEF Ids
  <2>5. ASSUME NEW j \in 1 .. k + 1 PROVE Loaded(k + 1).body[AsId(j)] = snapshot[j].body
    <3>1. CASE j = k + 1
      BY <2>2, <2>3, <2>4, <3>1
    <3>2. CASE j # k + 1
      <4>1. j \in 1 .. k /\ j \in 1 .. L /\ j < k + 1
        BY <1>1, <2>1, <3>2
      <4>2. AsId(j) # AsId(k + 1)
        BY <2>1, <4>1, NoTwoAsOne
      <4>3. AsId(j) \in Loaded(k).ids
        <5>1. k \in 0 .. L
          BY <1>1, <2>1
        <5> QED BY <4>1, <5>1, LoadedIds
      <4>4. AsId(j) \in Ids
        BY <2>2, <2>4, <4>3
      <4> QED BY <2>1, <2>2, <2>3, <4>1, <4>2, <4>4
    <3> QED BY <3>1, <3>2
  <2>6. ASSUME NEW i \in others PROVE Loaded(k + 1).body[i] = entBody[i]
    <3>1. i \in Ids
      <4>1. i \in 1 .. entNextId - 1 /\ entNextId \in 1 .. MaxId + 1 /\ MaxId \in Nat
        BY EntitiesAssumption DEF EntInv, EntTypeOK
      <4> QED BY <4>1 DEF Ids
    <3>2. AsId(k + 1) # i
      <4>1. snapshot[k + 1].id # i
        BY <1>1, <2>1
      <4>2. Loaded(k).next # i
        BY <2>2, NextIsNew
      <4> QED BY <2>1, <4>1, <4>2 DEF AsId, LoadedAs
    <3> QED BY <2>1, <2>2, <2>3, <3>1, <3>2
  <2> QED BY <2>5, <2>6
<1> HIDE DEF S
<1>4. Nat \subseteq S
  BY <1>2, <1>3, NatSets
<1>5. P(L)
  BY <1>1, <1>4 DEF S
<1> QED BY <1>5

LEMMA RestoreStep ==
  ASSUME EntInv, LoadEntities, ~Collides
  PROVE  /\ \A k \in DOMAIN snapshot : As[k] \in idMap' /\ entBody'[As[k]] = snapshot[k].body
         /\ \A i \in idMap \ {snapshot[k].id : k \in DOMAIN snapshot} : i \in idMap' /\ entBody'[i] = entBody[i]
         /\ \A n \in NameSet, k \in DOMAIN snapshot :
              snapNames[n] = snapshot[k].id /\ As[k] = snapshot[k].id => FindName(n)' = As[k]
<1> DEFINE last == Loaded(Len(snapshot))
<1>1. IdsLeft /\ idMap' = last.ids /\ entBody' = last.body /\ entNames' = LoadedNames
  BY DEF LoadEntities, LoadInto
<1>2. Len(snapshot) \in Nat /\ DOMAIN snapshot = 1 .. Len(snapshot)
  BY DEF EntInv, StreamInv
<1>3. Reached(last, Len(snapshot))
  BY <1>2, LoadedReached
<1> HIDE DEF last
<1>4. \A k \in DOMAIN snapshot : As[k] \in idMap' /\ entBody'[As[k]] = snapshot[k].body
  BY <1>1, <1>2, AsIsAsId, LoadedBodies DEF last
<1>5. \A i \in idMap \ {snapshot[k].id : k \in DOMAIN snapshot} : i \in idMap' /\ entBody'[i] = entBody[i]
  <2>1. idMap \subseteq last.ids
    BY <1>2, <1>3, NextIsNew
  <2> QED BY <1>1, <2>1, LoadedBodies DEF last
<1>6. ASSUME NEW n \in NameSet, NEW k \in DOMAIN snapshot, snapNames[n] = snapshot[k].id, As[k] = snapshot[k].id
      PROVE  FindName(n)' = As[k]
  <2>1. snapshot[k].id \in Ids /\ NoId \notin Ids
    <3>1. snapshot[k] \in StoredEntities
      BY <1>2, LoadedOne
    <3>2. NoId \notin Ids
      BY EntitiesAssumption DEF Ids, NoId
    <3> QED BY <3>1, <3>2 DEF StoredEntities
  <2>2. entNames'[n] = snapNames[n]
    BY <1>1, <1>6, <2>1 DEF LoadedNames
  <2>3. entNames'[n] = As[k] /\ As[k] \in idMap'
    BY <1>4, <1>6, <2>2
  <2> QED BY <2>3 DEF FindName
<1> QED BY <1>4, <1>5, <1>6

\* Where no new id collides with one of the stream, loading restores each stored entity with its components, leaves
\* the others alone, and the names of those that kept their ids find them.
THEOREM LoadingRestores == EntitiesSpec => LoadRestores
<1>1. EntitiesInit => EntInv
  BY EntitiesInitially
<1>2. EntInv /\ [EntitiesNext]_entVars => EntInv'
  BY EntitiesStep
<1>3. EntInv /\ [EntitiesNext]_entVars =>
        [LoadEntities /\ ~Collides =>
          /\ \A k \in DOMAIN snapshot : As[k] \in idMap' /\ entBody'[As[k]] = snapshot[k].body
          /\ \A i \in idMap \ {snapshot[k].id : k \in DOMAIN snapshot} : i \in idMap' /\ entBody'[i] = entBody[i]
          /\ \A n \in NameSet, k \in DOMAIN snapshot :
               snapNames[n] = snapshot[k].id /\ As[k] = snapshot[k].id => FindName(n)' = As[k]]_entVars
  BY RestoreStep
<1> QED BY <1>1, <1>2, <1>3, PTL DEF EntitiesSpec, LoadRestores

\* Induction over a finite set, for the set of its subsets that have a property.
LEMMA FiniteSubsets ==
  ASSUME NEW S, IsFiniteSet(S), NEW F, {} \in F, \A T \in SUBSET S : \A x \in S \ T : T \in F => T \cup {x} \in F
  PROVE  S \in F
<1> DEFINE K == {k \in Nat : \A T \in SUBSET S : Cardinality(T) = k => T \in F}
<1>1. \A T \in SUBSET S : IsFiniteSet(T) /\ Cardinality(T) \in Nat
  BY FS_Subset, FS_CardinalityType
<1>2. 0 \in K
  <2>1. \A T \in SUBSET S : Cardinality(T) = 0 => T = {}
    BY <1>1, FS_EmptySet
  <2> QED BY <2>1
<1>3. ASSUME NEW k \in Nat, k \in K PROVE k + 1 \in K
  <2> SUFFICES ASSUME NEW T \in SUBSET S, Cardinality(T) = k + 1 PROVE T \in F
    OBVIOUS
  <2>0. Cardinality({}) = 0 /\ k + 1 # 0
    BY <1>3, FS_EmptySet
  <2>1. T # {}
    BY <2>0
  <2>2. PICK x \in T : TRUE
    BY <2>1
  <2>3. Cardinality(T \ {x}) = k
    <3>1. Cardinality(T \ {x}) = Cardinality(T) - 1
      BY <1>1, <2>2, FS_RemoveElement
    <3> QED BY <1>3, <3>1
  <2>4. T \ {x} \in F /\ x \in S \ (T \ {x}) /\ (T \ {x}) \cup {x} = T
    BY <1>3, <2>2, <2>3
  <2> QED BY <2>4
<1> HIDE DEF K
<1>4. Cardinality(S) \in K
  BY <1>1, <1>2, <1>3, NatSets
<1> QED BY <1>4 DEF K

(***************************************************************************)
(* Sums over a finite set                                                  *)
(***************************************************************************)

\* What a fold adds up over subsets: each set is one of its members and the rest, and by induction whichever member.
Summing(g, S, w) == \A s \in SUBSET S : g[s] = IF s = {} THEN 0 ELSE w[CHOOSE x \in s : TRUE] + g[s \ {CHOOSE x \in s : TRUE}]

Iterates(g, S, w) ==
  g = [s \in SUBSET S |-> IF s = {} THEN 0 ELSE w[CHOOSE x \in s : TRUE] + g[s \ {CHOOSE x \in s : TRUE}]]

LEMMA SummingExists ==
  ASSUME NEW S, IsFiniteSet(S), NEW w \in [S -> Int]
  PROVE  \E g : Iterates(g, S, w)
<1> DEFINE Small(k) == {s \in SUBSET S : Cardinality(s) <= k}
           Chosen(s) == CHOOSE x \in s : TRUE
           Sums(g, k) == \A s \in Small(k) : g[s] = IF s = {} THEN 0 ELSE w[Chosen(s)] + g[s \ {Chosen(s)}]
           K == {k \in Nat : \E g \in [Small(k) -> Int] : Sums(g, k)}
<1>1. \A s \in SUBSET S : /\ IsFiniteSet(s) /\ Cardinality(s) \in Nat
                          /\ Cardinality(s) = 0 <=> s = {}
                          /\ \A x \in s : Cardinality(s \ {x}) = Cardinality(s) - 1
  BY FS_Subset, FS_CardinalityType, FS_EmptySet, FS_RemoveElement
<1>2. \A s \in SUBSET S : s # {} => Chosen(s) \in s
  OBVIOUS
<1> HIDE DEF Chosen
<1>3. 0 \in K
  <2>1. Small(0) = {{}}
    BY <1>1
  <2>2. [s \in Small(0) |-> 0] \in [Small(0) -> Int] /\ Sums([s \in Small(0) |-> 0], 0)
    BY <2>1
  <2> QED BY <2>2
<1>4. ASSUME NEW k \in Nat, k \in K PROVE k + 1 \in K
  <2>1. PICK g \in [Small(k) -> Int] : Sums(g, k)
    BY <1>4
  <2> DEFINE h == [s \in Small(k + 1) |-> IF s \in Small(k) THEN g[s] ELSE w[Chosen(s)] + g[s \ {Chosen(s)}]]
  <2>2. ASSUME NEW s \in Small(k + 1), s \notin Small(k)
        PROVE  s # {} /\ Chosen(s) \in S /\ s \ {Chosen(s)} \in Small(k)
    BY <1>1, <1>2, <2>2
  <2>3. \A s \in Small(k) : s \in Small(k + 1) /\ (s # {} => s \ {Chosen(s)} \in Small(k))
    BY <1>1, <1>2
  <2>4. h \in [Small(k + 1) -> Int]
    BY <2>2
  <2>5. Sums(h, k + 1)
    <3> SUFFICES ASSUME NEW s \in Small(k + 1)
                 PROVE  h[s] = IF s = {} THEN 0 ELSE w[Chosen(s)] + h[s \ {Chosen(s)}]
      OBVIOUS
    <3> HIDE DEF Small
    <3>1. CASE s \in Small(k)
      BY <2>1, <2>3, <3>1
    <3>2. CASE s \notin Small(k)
      BY <2>2, <2>3, <3>2
    <3> QED BY <3>1, <3>2
  <2> HIDE DEF h, Sums, Small
  <2>6. k + 1 \in Nat /\ \E f \in [Small(k + 1) -> Int] : Sums(f, k + 1)
    BY <1>4, <2>4, <2>5
  <2> QED BY <2>6
<1> HIDE DEF K
<1>5. Cardinality(S) \in K
  BY <1>1, <1>3, <1>4, NatSets
<1>6. Small(Cardinality(S)) = SUBSET S
  BY <1>1, FS_Subset
<1>7. PICK g \in [SUBSET S -> Int] : Sums(g, Cardinality(S))
  BY <1>5, <1>6 DEF K
<1>8. g = [s \in SUBSET S |-> IF s = {} THEN 0 ELSE w[Chosen(s)] + g[s \ {Chosen(s)}]]
  BY <1>6, <1>7
<1> QED BY <1>8 DEF Iterates, Chosen

\* A sum is the same whichever member is taken first.
AnyFirst(g, S, w) == \A s \in SUBSET S : g[s] \in Int /\ \A x \in s : g[s] = w[x] + g[s \ {x}]

LEMMA SummingAny ==
  ASSUME NEW S, IsFiniteSet(S), NEW w \in [S -> Int], NEW g, Summing(g, S, w)
  PROVE  AnyFirst(g, S, w)
<1> DEFINE Chosen(s) == CHOOSE x \in s : TRUE
           Right(s) == g[s] \in Int /\ \A x \in s : g[s] = w[x] + g[s \ {x}]
           K == {k \in Nat : \A s \in SUBSET S : Cardinality(s) <= k => Right(s)}
<1>1. \A s \in SUBSET S : /\ IsFiniteSet(s) /\ Cardinality(s) \in Nat
                          /\ Cardinality(s) = 0 <=> s = {}
                          /\ \A x \in s : Cardinality(s \ {x}) = Cardinality(s) - 1
                          /\ Cardinality(s) <= Cardinality(S)
  BY FS_Subset, FS_CardinalityType, FS_EmptySet, FS_RemoveElement
<1>2. /\ \A s \in SUBSET S : s # {} => Chosen(s) \in s /\ g[s] = w[Chosen(s)] + g[s \ {Chosen(s)}]
      /\ g[{}] = 0
  BY DEF Summing
<1> HIDE DEF Chosen
<1>3. 0 \in K
  <2>1. Right({})
    BY <1>2
  <2> HIDE DEF Right
  <2> QED BY <1>1, <2>1
<1>4. ASSUME NEW k \in Nat, k \in K PROVE k + 1 \in K
  <2>0. Right({}) /\ k + 1 \in Nat
    BY <1>2, <1>4
  <2> SUFFICES ASSUME NEW s \in SUBSET S, Cardinality(s) <= k + 1, s # {} PROVE Right(s)
    <3> HIDE DEF Right
    <3> QED BY <2>0
  <2>1. \A r \in SUBSET S : Cardinality(r) <= k => Right(r)
    BY <1>4
  <2>2. PICK y \in s : g[s] = w[y] + g[s \ {y}]
    BY <1>2
  <2>3. \A x \in s : s \ {x} \in SUBSET S /\ Cardinality(s \ {x}) <= k /\ w[x] \in Int
    BY <1>1
  <2>4. g[s] \in Int
    BY <2>1, <2>2, <2>3
  <2>5. ASSUME NEW x \in s PROVE g[s] = w[x] + g[s \ {x}]
    <3>1. CASE x = y
      BY <2>2, <3>1
    <3>2. CASE x # y
      <4>1. x \in s \ {y} /\ y \in s \ {x} /\ (s \ {y}) \ {x} = (s \ {x}) \ {y}
        BY <3>2
      <4>2. g[s \ {y}] = w[x] + g[(s \ {y}) \ {x}] /\ g[s \ {x}] = w[y] + g[(s \ {x}) \ {y}]
        BY <2>1, <2>3, <4>1
      <4>3. (s \ {x}) \ {y} \in SUBSET S /\ Cardinality((s \ {x}) \ {y}) <= k
        <5>1. /\ Cardinality(s \ {x}) \in Nat /\ Cardinality((s \ {x}) \ {y}) = Cardinality(s \ {x}) - 1
              /\ Cardinality(s \ {x}) <= k
          BY <1>1, <2>3, <4>1
        <5> QED BY <1>4, <5>1
      <4>4. g[(s \ {x}) \ {y}] \in Int
        BY <2>1, <4>3
      <4> DEFINE rest == g[(s \ {x}) \ {y}]
      <4>5. g[s] = w[y] + (w[x] + rest) /\ g[s \ {x}] = w[y] + rest
        BY <2>2, <4>1, <4>2
      <4>6. rest \in Int /\ w[x] \in Int /\ w[y] \in Int
        BY <2>3, <4>4
      <4> HIDE DEF rest
      <4> QED BY <4>5, <4>6
    <3> QED BY <3>1, <3>2
  <2> QED BY <2>4, <2>5
<1> HIDE DEF K
<1>5. Cardinality(S) \in K
  BY <1>1, <1>3, <1>4, NatSets
<1> HIDE DEF Right
<1>6. \A s \in SUBSET S : Right(s)
  BY <1>1, <1>5 DEF K
<1> QED BY <1>6 DEF Right, AnyFirst

LEMMA TotalIs ==
  ASSUME NEW S, IsFiniteSet(S), NEW w \in [S -> Int]
  PROVE  \E g : Summing(g, S, w) /\ FoldFunction(+, 0, w) = g[S]
<1> DEFINE Iter == CHOOSE g : Iterates(g, S, w)
<1>1. DOMAIN w = S
  OBVIOUS
<1>2. FoldFunction(+, 0, w) = Iter[S]
  BY <1>1 DEF Iterates, FoldFunction, FoldFunctionOnSet, MapThenFoldSet
<1>3. Iterates(Iter, S, w)
  BY SummingExists
<1> HIDE DEF Iter
<1>4. Summing(Iter, S, w)
  BY <1>3 DEF Summing, Iterates
<1> QED BY <1>2, <1>4

LEMMA TotalOfZeros ==
  ASSUME NEW S, IsFiniteSet(S), NEW w \in [S -> Int], \A x \in S : w[x] = 0
  PROVE  Total(w) = 0
<1>1. PICK g : Summing(g, S, w) /\ Total(w) = g[S]
  BY TotalIs DEF Total
<1>2. \A s \in SUBSET S : g[s] \in Int /\ \A x \in s : g[s] = w[x] + g[s \ {x}]
  <2>1. AnyFirst(g, S, w)
    BY <1>1, SummingAny
  <2> QED BY <2>1 DEF AnyFirst
<1> DEFINE F == {s \in SUBSET S : g[s] = 0}
<1>3. {} \in F
  BY <1>1 DEF Summing
<1>4. ASSUME NEW T \in SUBSET S, NEW x \in S \ T, T \in F PROVE T \cup {x} \in F
  <2>1. (T \cup {x}) \ {x} = T /\ T \cup {x} \in SUBSET S
    BY <1>4
  <2> QED BY <1>2, <1>4, <2>1
<1> HIDE DEF F
<1>5. S \in F
  BY <1>3, <1>4, FiniteSubsets
<1> QED BY <1>1, <1>5 DEF F

\* One value more or less changes the sum by as much.
LEMMA TotalChanged ==
  ASSUME NEW S, IsFiniteSet(S), NEW w \in [S -> Int], NEW v \in S, NEW n \in Int
  PROVE  Total(w) \in Int /\ Total([w EXCEPT ![v] = n]) = Total(w) + (n - w[v])
<1> DEFINE u == [w EXCEPT ![v] = n]
<1>1. u \in [S -> Int] /\ u[v] = n /\ \A x \in S : x # v => u[x] = w[x]
  OBVIOUS
<1> HIDE DEF u
<1>2. PICK g : Summing(g, S, w) /\ Total(w) = g[S]
  BY TotalIs DEF Total
<1>3. PICK h : Summing(h, S, u) /\ Total(u) = h[S]
  BY <1>1, TotalIs DEF Total
<1>4. \A s \in SUBSET S : g[s] \in Int /\ \A x \in s : g[s] = w[x] + g[s \ {x}]
  <2>1. AnyFirst(g, S, w)
    BY <1>2, SummingAny
  <2> QED BY <2>1 DEF AnyFirst
<1>5. \A s \in SUBSET S : h[s] \in Int /\ \A x \in s : h[s] = u[x] + h[s \ {x}]
  <2>1. AnyFirst(h, S, u)
    BY <1>1, <1>3, SummingAny
  <2> QED BY <2>1 DEF AnyFirst
<1> DEFINE F == {s \in SUBSET S : v \notin s => g[s] = h[s]}
<1>6. {} \in F
  BY <1>2, <1>3 DEF Summing
<1>7. ASSUME NEW T \in SUBSET S, NEW x \in S \ T, T \in F PROVE T \cup {x} \in F
  <2> SUFFICES ASSUME v \notin T \cup {x} PROVE g[T \cup {x}] = h[T \cup {x}]
    BY <1>7
  <2> DEFINE s == T \cup {x}
  <2>1. s \ {x} = T /\ s \in SUBSET S /\ x \in s /\ x # v /\ v \notin T /\ x \in S
    BY <1>7
  <2> HIDE DEF s
  <2>2. g[s] = w[x] + g[T] /\ h[s] = u[x] + h[T]
    BY <1>4, <1>5, <2>1
  <2>3. u[x] = w[x] /\ g[T] = h[T]
    BY <1>1, <1>7, <2>1
  <2>4. g[s] = h[s]
    BY <2>2, <2>3
  <2> QED BY <2>4 DEF s
<1> HIDE DEF F
<1>8. \A T \in SUBSET S : \A x \in S \ T : T \in F => T \cup {x} \in F
  BY <1>7
<1>9. S \ {v} \in SUBSET S /\ IsFiniteSet(S \ {v})
  BY FS_Subset
<1>10. \A T \in SUBSET (S \ {v}) : \A x \in (S \ {v}) \ T : T \in F => T \cup {x} \in F
  BY <1>8
<1>11. S \ {v} \in F
  BY <1>6, <1>9, <1>10, FiniteSubsets
<1>12. g[S \ {v}] = h[S \ {v}]
  BY <1>11 DEF F
<1>13. g[S] = w[v] + g[S \ {v}] /\ h[S] = n + h[S \ {v}] /\ g[S \ {v}] \in Int /\ w[v] \in Int /\ g[S] \in Int
  BY <1>1, <1>4, <1>5, <1>9
<1> QED BY <1>2, <1>3, <1>12, <1>13 DEF u

(***************************************************************************)
(* Statistics                                                              *)
(***************************************************************************)

\* A finite set of numbers has a least and a greatest one.
LEMMA Extremes ==
  ASSUME NEW S \in SUBSET Int, IsFiniteSet(S), S # {}
  PROVE  /\ Min(S) \in S /\ \A y \in S : Min(S) <= y
         /\ Max(S) \in S /\ \A y \in S : Max(S) >= y
<1> DEFINE F == {s \in SUBSET S : s # {} => (\E m \in s : \A y \in s : m <= y) /\ (\E m \in s : \A y \in s : m >= y)}
<1>1. {} \in F
  OBVIOUS
<1>2. ASSUME NEW T \in SUBSET S, NEW x \in S \ T, T \in F PROVE T \cup {x} \in F
  <2>1. CASE T = {}
    <3>1. T \cup {x} = {x} /\ x \in Int /\ {x} \in SUBSET S
      BY <1>2, <2>1
    <3> QED BY <3>1
  <2>2. CASE T # {}
    <3>1. PICK a \in T : \A y \in T : a <= y
      BY <1>2, <2>2
    <3>2. PICK b \in T : \A y \in T : b >= y
      BY <1>2, <2>2
    <3>3. \E m \in T \cup {x} : \A y \in T \cup {x} : m <= y
      <4>1. CASE x <= a
        BY <3>1, <4>1, <1>2
      <4>2. CASE a <= x
        BY <3>1, <4>2, <1>2
      <4> QED BY <4>1, <4>2, <1>2
    <3>4. \E m \in T \cup {x} : \A y \in T \cup {x} : m >= y
      <4>1. CASE x >= b
        BY <3>2, <4>1, <1>2
      <4>2. CASE b >= x
        BY <3>2, <4>2, <1>2
      <4> QED BY <4>1, <4>2, <1>2
    <3> QED BY <3>3, <3>4, <1>2
  <2> QED BY <2>1, <2>2
<1> HIDE DEF F
<1>3. S \in F
  BY <1>1, <1>2, FiniteSubsets
<1>4. (\E m \in S : \A y \in S : m <= y) /\ (\E m \in S : \A y \in S : m >= y)
  BY <1>3 DEF F
<1> QED BY <1>4 DEF Min, Max

\* The extremes are what their definition says, whatever set they are of.
LEMMA ExtremesAre ==
  ASSUME NEW S \in SUBSET Int, NEW m \in S
  PROVE  /\ (\A y \in S : m <= y) => Min(S) = m
         /\ (\A y \in S : m >= y) => Max(S) = m
<1>1. ASSUME \A y \in S : m <= y PROVE Min(S) = m
  <2>1. Min(S) \in S /\ \A y \in S : Min(S) <= y
    BY <1>1 DEF Min
  <2>2. Min(S) <= m /\ m <= Min(S)
    BY <1>1, <2>1
  <2>3. Min(S) \in Int /\ m \in Int
    BY <2>1
  <2> QED BY ONLY <2>2, <2>3
<1>2. ASSUME \A y \in S : m >= y PROVE Max(S) = m
  <2>1. Max(S) \in S /\ \A y \in S : Max(S) >= y
    BY <1>2 DEF Max
  <2>2. Max(S) >= m /\ m >= Max(S)
    BY <1>2, <2>1
  <2>3. Max(S) \in Int /\ m \in Int
    BY <2>1
  <2> QED BY ONLY <2>2, <2>3
<1> QED BY <1>1, <1>2

States  == [sum : Int, min : Int, max : Int, count : Int]
Records == [op : {"none", "record", "histogram"}, sample : Samples, loaded : States]
Counts  == [Places -> Nat]
Reads   == [op : {"none", "clear", "evaluate"}, left : SUBSET Places, read : Counts]

StatTypes ==
  /\ saState \in States /\ saThread \in [StatThreads -> Records] /\ saLog \in [Samples -> Nat]
  /\ shCount \in Counts /\ shThread \in [StatThreads -> Reads]
  /\ shBefore \in [StatThreads -> {<<>>} \cup {<<c>> : c \in Counts}]

\* A state without a sample is the one that everything is compared with.
EmptyIsNeutral == Logged = {} => saState.min = Max(Samples) /\ saState.max = Min(Samples)

\* Counters only grow since an evaluation began that no clear has touched.
CountersGrow == \A t \in StatThreads : shBefore[t] # <<>> => \A i \in Places : shBefore[t][1][i] <= shCount[i]

StatInv == StatTypes /\ AggregateRight /\ EmptyIsNeutral /\ EvaluationBounded /\ CountersGrow

LEMMA SampleFacts ==
  /\ Samples \in SUBSET Int /\ Samples # {} /\ IsFiniteSet(Samples)
  /\ Min(Samples) \in Samples /\ Max(Samples) \in Samples
  /\ \A v \in Samples : Min(Samples) <= v /\ v <= Max(Samples)
  /\ Min(Samples) \in Int /\ Max(Samples) \in Int
<1>1. Samples \in SUBSET Int /\ Samples # {} /\ IsFiniteSet(Samples)
  BY StatisticsAssumption
<1>2. /\ Min(Samples) \in Samples /\ \A y \in Samples : Min(Samples) <= y
      /\ Max(Samples) \in Samples /\ \A y \in Samples : Max(Samples) >= y
  BY <1>1, Extremes
<1> QED BY <1>1, <1>2

\* Dividing rounds down: the quotient is the last whose product is not more.
LEMMA Quotient ==
  ASSUME NEW a \in Int, NEW b \in Nat \ {0}
  PROVE  a \div b \in Int /\ b * (a \div b) <= a /\ a < b * ((a \div b) + 1)
OBVIOUS

LEMMA QuotientBounds ==
  ASSUME NEW a \in Int, NEW b \in Nat \ {0}, NEW x \in Int
  PROVE  /\ a <= b * x => a \div b <= x
         /\ b * x <= a => x <= a \div b
<1> DEFINE q == a \div b
<1>1. q \in Int /\ b * q <= a /\ a < b * (q + 1)
  BY Quotient
<1> HIDE DEF q
<1>2. ASSUME a <= b * x, x < q PROVE FALSE
  <2>1. x + 1 <= q
    BY <1>1, <1>2
  <2>2. b * (x + 1) <= b * q
    BY <1>1, <2>1
  <2>3. b * (x + 1) = b * x + b
    OBVIOUS
  <2> QED BY <1>1, <1>2, <2>2, <2>3
<1>3. ASSUME b * x <= a, q < x PROVE FALSE
  <2>1. q + 1 <= x
    BY <1>1, <1>3
  <2>2. b * (q + 1) <= b * x
    BY <1>1, <2>1
  <2> QED BY <1>1, <1>3, <2>2
<1>4. (a <= b * x => q <= x) /\ (b * x <= a => x <= q)
  BY <1>1, <1>2, <1>3
<1> QED BY <1>4 DEF q

LEMMA BucketsDoEnclose == BucketsEnclose
<1> SUFFICES ASSUME NEW v \in Samples, Lower <= v, v < Upper
             PROVE  /\ PlaceFor(v) \in 1 .. Buckets
                    /\ BucketBound(BucketIndex(v)) <= v /\ v <= BucketBound(BucketIndex(v) + 1)
  BY DEF BucketsEnclose
<1> DEFINE D == Upper - Lower
           x == v - Lower
           q == BucketIndex(v)
<1>1. /\ Lower \in Int /\ Upper \in Int /\ v \in Int /\ Buckets \in Nat \ {0} /\ ~(v < Lower) /\ ~(v >= Upper)
      /\ D \in Nat \ {0} /\ x \in Nat /\ x < D
  BY StatisticsAssumption
<1> DEFINE n == Buckets * x
<1>2. n \in Nat /\ q = n \div D
  BY <1>1 DEF BucketIndex
<1>3. q \in Int /\ D * q <= n /\ n < D * (q + 1)
  <2> HIDE DEF D, n, q, x
  <2>1. n \div D \in Int /\ D * (n \div D) <= n /\ n < D * ((n \div D) + 1)
    BY <1>1, <1>2, Quotient
  <2> QED BY <1>2, <2>1
<1>4. PlaceFor(v) = q + 1
  BY <1>1 DEF PlaceFor
<1>5. 0 <= q
  <2>1. D * 0 <= n
    BY <1>1, <1>2
  <2> QED BY <1>1, <1>2, <2>1, QuotientBounds
<1>6. q < Buckets
  <2>1. n <= Buckets * (D - 1) /\ Buckets * (D - 1) = Buckets * D - Buckets /\ Buckets * D = D * Buckets
    BY <1>1
  <2>2. n < D * Buckets /\ D * Buckets \in Int
    BY <1>1, <1>2, <2>1
  <2>3. ~ (Buckets <= q)
    <3>1. ASSUME Buckets <= q PROVE D * Buckets <= D * q
      BY <1>1, <1>3, <3>1
    <3> QED BY <1>1, <1>2, <1>3, <2>2, <3>1
  <2> QED BY <1>1, <1>3, <2>3
<1> HIDE DEF q, n, x, D
<1>7. BucketBound(q) = ((q * D) \div Buckets) + Lower /\ BucketBound(q + 1) = (((q + 1) * D) \div Buckets) + Lower
  BY DEF BucketBound, D
<1>8. (q * D) \div Buckets <= x
  <2>1. q * D \in Int /\ q * D = D * q /\ n = Buckets * x
    BY <1>1, <1>3 DEF n
  <2> QED BY <1>1, <1>3, <2>1, QuotientBounds
<1>9. x <= ((q + 1) * D) \div Buckets
  <2>1. (q + 1) * D \in Int /\ (q + 1) * D = D * (q + 1) /\ n = Buckets * x
    BY <1>1, <1>3 DEF n
  <2>2. Buckets * x <= (q + 1) * D
    BY <1>2, <1>3, <2>1
  <2> QED BY <1>1, <2>1, <2>2, QuotientBounds
<1>10. (q * D) \div Buckets \in Int /\ ((q + 1) * D) \div Buckets \in Int
  <2>1. q * D \in Int /\ (q + 1) * D \in Int
    BY <1>1, <1>3
  <2> QED BY <1>1, <2>1, Quotient
<1>11. v = x + Lower
  BY <1>1 DEF x
<1>12. BucketBound(q) <= v /\ v <= BucketBound(q + 1)
  BY <1>1, <1>7, <1>8, <1>9, <1>10, <1>11
<1>13. PlaceFor(v) \in 1 .. Buckets
  BY <1>1, <1>3, <1>4, <1>5, <1>6
<1> QED BY <1>12, <1>13 DEF q

LEMMA PlaceForIsPlace == \A v \in Samples : PlaceFor(v) \in Places
<1> SUFFICES ASSUME NEW v \in Samples PROVE PlaceFor(v) \in Places
  OBVIOUS
<1>1. Lower \in Int /\ Upper \in Int /\ v \in Int /\ Buckets \in Nat \ {0}
  BY StatisticsAssumption
<1>2. CASE v < Lower
  BY <1>1, <1>2 DEF PlaceFor, Places
<1>3. CASE ~(v < Lower) /\ v >= Upper
  BY <1>1, <1>3 DEF PlaceFor, Places
<1>4. CASE Lower <= v /\ v < Upper
  <2>1. PlaceFor(v) \in 1 .. Buckets
    BY <1>4, BucketsDoEnclose DEF BucketsEnclose
  <2> QED BY <1>1, <2>1 DEF Places
<1> QED BY <1>1, <1>2, <1>3, <1>4

LEMMA StatInitially == StatInit => StatInv
<1> SUFFICES ASSUME StatInit PROVE StatInv
  OBVIOUS
<1>1. StatTypes
  <2>1. NothingRecorded \in States /\ Min(Samples) \in Samples
    BY SampleFacts DEF NothingRecorded, States
  <2>2. Quiet \in Records
    BY <2>1 DEF Quiet, Records
  <2>3. NotEvaluating \in Reads
    BY DEF NotEvaluating, Reads, Counts
  <2> QED BY <2>1, <2>2, <2>3 DEF StatInit, StatTypes, Counts
<1>2. /\ \A v \in Samples : saLog[v] = 0
      /\ saLog \in [Samples -> Int]
      /\ [v \in Samples |-> v * saLog[v]] \in [Samples -> Int] /\ \A v \in Samples : [x \in Samples |-> x * saLog[x]][v] = 0
  BY SampleFacts DEF StatInit
<1>3. Total(saLog) = 0 /\ Total([v \in Samples |-> v * saLog[v]]) = 0
  BY <1>2, SampleFacts, TotalOfZeros
<1>4. Logged = {}
  BY <1>2 DEF Logged
<1>5. AggregateRight
  BY <1>3, <1>4 DEF StatInit, NothingRecorded, AggregateRight
<1>6. EmptyIsNeutral
  BY DEF StatInit, NothingRecorded, EmptyIsNeutral
<1>7. EvaluationBounded /\ CountersGrow
  BY DEF StatInit, EvaluationBounded, CountersGrow
<1> QED BY <1>1, <1>5, <1>6, <1>7 DEF StatInv

LEMMA OneMoreTime == ASSUME NEW a \in Int, NEW b \in Int PROVE a * (b + 1) = a * b + a /\ a * b \in Int
OBVIOUS

\* One more sample makes of the aggregate what it is of the samples with it.
LEMMA ExchangeAggregate ==
  ASSUME StatInv, NEW v \in Samples, saState' = WithSample(saState, v), saLog' = [saLog EXCEPT ![v] = @ + 1]
  PROVE  saState' \in States /\ saLog' \in [Samples -> Nat] /\ AggregateRight' /\ EmptyIsNeutral'
<1>1. /\ saLog \in [Samples -> Nat] /\ saLog \in [Samples -> Int] /\ saLog[v] \in Nat /\ v \in Int
      /\ saState.sum \in Int /\ saState.min \in Int /\ saState.max \in Int /\ saState.count \in Int
  BY SampleFacts DEF StatInv, StatTypes, States
<1>2. /\ saState'.sum = saState.sum + v /\ saState'.count = saState.count + 1
      /\ saState'.min = Lesser(saState.min, v) /\ saState'.max = Greater(saState.max, v)
      /\ saState' \in States
  BY <1>1 DEF WithSample, States, Lesser, Greater
<1>3. saLog' = [saLog EXCEPT ![v] = saLog[v] + 1] /\ saLog' \in [Samples -> Nat]
      /\ saLog'[v] = saLog[v] + 1 /\ \A x \in Samples : x # v => saLog'[x] = saLog[x]
  BY <1>1
<1>4. Total(saLog') = Total(saLog) + 1 /\ Total(saLog) \in Int
  <2>1. saLog[v] + 1 \in Int /\ (saLog[v] + 1) - saLog[v] = 1
    BY <1>1
  <2>2. Total(saLog) \in Int /\ Total([saLog EXCEPT ![v] = saLog[v] + 1]) = Total(saLog) + ((saLog[v] + 1) - saLog[v])
    BY <1>1, <2>1, SampleFacts, TotalChanged
  <2> QED BY <1>3, <2>1, <2>2
<1> DEFINE weighted == [x \in Samples |-> x * saLog[x]]
           n == v * (saLog[v] + 1)
<1>5. weighted \in [Samples -> Int] /\ weighted[v] = v * saLog[v] /\ n \in Int /\ n - weighted[v] = v
  <2>1. \A x \in Samples : x * saLog[x] \in Int
    BY <1>1, SampleFacts
  <2>2. n = v * saLog[v] + v /\ v * saLog[v] \in Int
    BY <1>1, OneMoreTime
  <2>3. weighted \in [Samples -> Int] /\ weighted[v] = v * saLog[v]
    BY <2>1
  <2> HIDE DEF n, weighted
  <2> QED BY <1>1, <2>2, <2>3
<1>6. [x \in Samples |-> x * saLog'[x]] = [weighted EXCEPT ![v] = n]
  BY <1>3
<1> HIDE DEF weighted, n
<1>7. Total(weighted) \in Int /\ Total([weighted EXCEPT ![v] = n]) = Total(weighted) + (n - weighted[v])
  BY <1>5, SampleFacts, TotalChanged
<1>8. Total([x \in Samples |-> x * saLog'[x]]) = Total(weighted) + v
  BY <1>5, <1>6, <1>7
<1>9. Logged' = Logged \cup {v} /\ Logged \in SUBSET Int /\ Logged \in SUBSET Samples /\ v \in Logged' /\ Logged' \in SUBSET Int
  <2>1. \A x \in Samples : saLog'[x] > 0 <=> saLog[x] > 0 \/ x = v
    BY <1>1, <1>3
  <2>2. Logged' = {x \in Samples : saLog'[x] > 0} /\ Logged = {x \in Samples : saLog[x] > 0}
    BY DEF Logged
  <2> QED BY <2>1, <2>2, SampleFacts
<1>10. saState'.min = Min(Logged') /\ saState'.max = Max(Logged')
  <2>1. CASE Logged = {}
    <3>1. saState'.min = v /\ saState'.max = v
      BY <1>1, <1>2, <2>1, SampleFacts DEF StatInv, EmptyIsNeutral, Lesser, Greater
    <3>2. \A y \in Logged' : v <= y /\ v >= y
      BY <1>1, <1>9, <2>1
    <3> QED BY <1>9, <3>1, <3>2, ExtremesAre
  <2>2. CASE Logged # {}
    <3>1. saState.min = Min(Logged) /\ saState.max = Max(Logged) /\ IsFiniteSet(Logged)
      BY <1>9, <2>2, SampleFacts, FS_Subset DEF StatInv, AggregateRight
    <3>2. /\ saState.min \in Logged /\ \A y \in Logged : saState.min <= y
          /\ saState.max \in Logged /\ \A y \in Logged : saState.max >= y
      BY <1>9, <2>2, <3>1, Extremes
    <3>3. saState'.min \in Logged' /\ \A y \in Logged' : saState'.min <= y
      BY <1>1, <1>2, <1>9, <3>2 DEF Lesser
    <3>4. saState'.max \in Logged' /\ \A y \in Logged' : saState'.max >= y
      BY <1>1, <1>2, <1>9, <3>2 DEF Greater
    <3> QED BY <1>9, <3>3, <3>4, ExtremesAre
  <2> QED BY <2>1, <2>2
<1>11. AggregateRight'
  <2>1. saState.count = Total(saLog) /\ saState.sum = Total(weighted)
    BY DEF StatInv, AggregateRight, weighted
  <2> QED BY <1>1, <1>2, <1>4, <1>8, <1>10, <2>1 DEF AggregateRight
<1>12. EmptyIsNeutral'
  BY <1>9 DEF EmptyIsNeutral
<1> QED BY <1>2, <1>3, <1>11, <1>12

LEMMA AggregateKept ==
  ASSUME StatInv, saState' = saState, saLog' = saLog
  PROVE  saState' \in States /\ saLog' \in [Samples -> Nat] /\ AggregateRight' /\ EmptyIsNeutral'
BY DEF StatInv, StatTypes, AggregateRight, EmptyIsNeutral, Logged

LEMMA CountersKept ==
  ASSUME StatInv, UNCHANGED <<shCount, shThread, shBefore>>
  PROVE  /\ shCount' \in Counts /\ shThread' \in [StatThreads -> Reads]
         /\ shBefore' \in [StatThreads -> {<<>>} \cup {<<c>> : c \in Counts}]
         /\ EvaluationBounded' /\ CountersGrow'
BY DEF StatInv, StatTypes, EvaluationBounded, CountersGrow

LEMMA BeginRecordStep ==
  ASSUME StatInv, NEW t \in StatThreads, NEW v \in Samples, BeginRecord(t, v)
  PROVE  StatInv'
<1>1. saThread' \in [StatThreads -> Records]
  BY DEF BeginRecord, StatInv, StatTypes, Records
<1>2. UNCHANGED <<saState, saLog, shCount, shThread, shBefore>>
  BY DEF BeginRecord
<1> QED BY <1>1, <1>2, AggregateKept, CountersKept DEF StatInv, StatTypes

LEMMA ExchangeStateStep ==
  ASSUME StatInv, NEW t \in StatThreads, ExchangeState(t)
  PROVE  StatInv'
<1>1. saThread[t] \in Records /\ saThread \in [StatThreads -> Records] /\ saState \in States
  BY DEF StatInv, StatTypes
<1>2. UNCHANGED <<shCount, shThread, shBefore>>
  BY DEF ExchangeState
<1>3. CASE Exchanges(saThread[t].loaded)
  <2> DEFINE v == saThread[t].sample
  <2>1. v \in Samples /\ saThread[t].loaded = saState
    BY <1>1, <1>3 DEF Exchanges, Records
  <2>2. saState' = WithSample(saState, v) /\ saLog' = [saLog EXCEPT ![v] = @ + 1]
        /\ saThread' = [saThread EXCEPT ![t].op = "histogram"]
    BY <1>3, <2>1 DEF ExchangeState
  <2>3. saThread' \in [StatThreads -> Records]
    BY <1>1, <2>2 DEF Records
  <2> HIDE DEF v
  <2>4. saState' \in States /\ saLog' \in [Samples -> Nat] /\ AggregateRight' /\ EmptyIsNeutral'
    BY <2>1, <2>2, ExchangeAggregate
  <2> QED BY <1>2, <2>3, <2>4, CountersKept DEF StatInv, StatTypes
<1>4. CASE ~Exchanges(saThread[t].loaded)
  <2>1. saState' = saState /\ saLog' = saLog /\ saThread' = [saThread EXCEPT ![t].loaded = saState]
    BY <1>4 DEF ExchangeState
  <2>2. saThread' \in [StatThreads -> Records]
    BY <1>1, <2>1 DEF Records
  <2> QED BY <1>2, <2>1, <2>2, AggregateKept, CountersKept DEF StatInv, StatTypes
<1> QED BY <1>3, <1>4

LEMMA ClearAggregateStep ==
  ASSUME StatInv, NEW t \in StatThreads, ClearAggregate(t)
  PROVE  StatInv'
<1>1. /\ saState' = NothingRecorded /\ saLog' = [v \in Samples |-> 0] /\ saThread' = saThread /\ shCount' = shCount
      /\ shThread' = [shThread EXCEPT ![t] = [NotEvaluating EXCEPT !.op = "clear", !.left = Places]]
      /\ shBefore' = [u \in StatThreads |-> <<>>]
  BY DEF ClearAggregate
<1>2. saState' \in States /\ saLog' \in [Samples -> Nat]
  BY <1>1, SampleFacts DEF NothingRecorded, States
<1>3. Total(saLog') = 0 /\ Total([v \in Samples |-> v * saLog'[v]]) = 0
  <2>1. /\ \A v \in Samples : saLog'[v] = 0
        /\ saLog' \in [Samples -> Int]
        /\ [v \in Samples |-> v * saLog'[v]] \in [Samples -> Int] /\ \A v \in Samples : [x \in Samples |-> x * saLog'[x]][v] = 0
    BY <1>1, SampleFacts
  <2> QED BY <2>1, SampleFacts, TotalOfZeros
<1>4. Logged' = {}
  BY <1>1 DEF Logged
<1>5. AggregateRight' /\ EmptyIsNeutral'
  BY <1>1, <1>3, <1>4 DEF AggregateRight, EmptyIsNeutral, NothingRecorded
<1>6. shThread' \in [StatThreads -> Reads] /\ shBefore' \in [StatThreads -> {<<>>} \cup {<<c>> : c \in Counts}]
  <2>1. [NotEvaluating EXCEPT !.op = "clear", !.left = Places] \in Reads
    BY DEF NotEvaluating, Reads, Counts
  <2> QED BY <1>1, <2>1 DEF StatInv, StatTypes
<1>7. EvaluationBounded' /\ CountersGrow'
  BY <1>1 DEF EvaluationBounded, CountersGrow
<1> QED BY <1>1, <1>2, <1>5, <1>6, <1>7 DEF StatInv, StatTypes

LEMMA RecordInHistogramStep ==
  ASSUME StatInv, NEW t \in StatThreads, RecordInHistogram(t)
  PROVE  StatInv'
<1> DEFINE p == PlaceFor(saThread[t].sample)
<1>1. /\ shCount' = [shCount EXCEPT ![p] = @ + 1] /\ saThread' = [saThread EXCEPT ![t] = Quiet]
      /\ UNCHANGED <<saState, saLog, shThread, shBefore>>
  BY DEF RecordInHistogram
<1>2. p \in Places
  BY PlaceForIsPlace DEF StatInv, StatTypes, Records
<1> HIDE DEF p
<1>3. saThread' \in [StatThreads -> Records]
  <2>1. Quiet \in Records
    BY SampleFacts DEF Quiet, Records, NothingRecorded, States
  <2> QED BY <1>1, <2>1 DEF StatInv, StatTypes
<1>4. shCount \in [Places -> Nat] /\ shCount' \in [Places -> Nat] /\ \A i \in Places : shCount[i] <= shCount'[i]
  BY <1>1, <1>2 DEF StatInv, StatTypes, Counts
<1>5. \A u \in StatThreads : shBefore[u] \in {<<>>} \cup {<<c>> : c \in Counts} /\ shThread[u] \in Reads
  BY DEF StatInv, StatTypes
<1>6. CountersGrow'
  <2> SUFFICES ASSUME NEW u \in StatThreads, shBefore[u] # <<>>, NEW i \in Places PROVE shBefore[u][1][i] <= shCount'[i]
    BY <1>1 DEF CountersGrow
  <2>1. shBefore[u][1][i] <= shCount[i]
    BY DEF StatInv, CountersGrow
  <2>2. shBefore[u][1][i] \in Nat
    BY <1>5 DEF Counts
  <2>3. shCount[i] \in Nat /\ shCount'[i] \in Nat /\ shCount[i] <= shCount'[i]
    BY <1>4
  <2> QED BY <2>1, <2>2, <2>3
<1>7. EvaluationBounded'
  <2> SUFFICES ASSUME NEW u \in StatThreads, shThread[u].op = "evaluate", shBefore[u] # <<>>, NEW i \in Places \ shThread[u].left
               PROVE  shBefore[u][1][i] <= shThread[u].read[i] /\ shThread[u].read[i] <= shCount'[i]
    BY <1>1 DEF EvaluationBounded
  <2>1. shBefore[u][1][i] <= shThread[u].read[i] /\ shThread[u].read[i] <= shCount[i]
    BY DEF StatInv, EvaluationBounded
  <2>2. shThread[u].read[i] \in Nat
    BY <1>5 DEF Reads, Counts
  <2>3. shCount[i] \in Nat /\ shCount'[i] \in Nat /\ shCount[i] <= shCount'[i]
    BY <1>4
  <2> QED BY <2>1, <2>2, <2>3
<1> QED BY <1>1, <1>3, <1>4, <1>6, <1>7, AggregateKept DEF StatInv, StatTypes, Counts

LEMMA ClearPlaceStep ==
  ASSUME StatInv, NEW t \in StatThreads, ClearPlace(t)
  PROVE  StatInv'
<1> DEFINE i == NextCleared(shThread[t].left)
           less == WithoutPlace(shThread[t], i)
<1>1. /\ shCount' = [shCount EXCEPT ![i] = 0]
      /\ shThread' = [shThread EXCEPT ![t] = IF shThread[t].left = {i} THEN NotEvaluating ELSE less]
      /\ shBefore' = [u \in StatThreads |-> <<>>]
      /\ UNCHANGED <<saState, saThread, saLog>>
  <2>1. UNCHANGED <<saState, saThread, saLog>> /\ shCount' = [shCount EXCEPT ![i] = 0] /\ shBefore' = [u \in StatThreads |-> <<>>]
    BY DEF ClearPlace
  <2>2. shThread' = [shThread EXCEPT ![t] = IF shThread[t].left = {i} THEN NotEvaluating ELSE less]
    BY DEF ClearPlace
  <2> QED BY <2>1, <2>2
<1> HIDE DEF i, less
<1>2. shCount' \in Counts
  BY <1>1 DEF StatInv, StatTypes, Counts
<1>3. shThread' \in [StatThreads -> Reads]
  <2>1. shThread \in [StatThreads -> Reads] /\ shThread[t] \in Reads
    BY DEF StatInv, StatTypes
  <2>2. NotEvaluating \in Reads /\ less \in Reads
    BY <2>1 DEF NotEvaluating, Reads, Counts, less, WithoutPlace
  <2> QED BY <1>1, <2>1, <2>2
<1>4. EvaluationBounded' /\ CountersGrow' /\ shBefore' \in [StatThreads -> {<<>>} \cup {<<c>> : c \in Counts}]
  BY <1>1 DEF EvaluationBounded, CountersGrow
<1> QED BY <1>1, <1>2, <1>3, <1>4, AggregateKept DEF StatInv, StatTypes

LEMMA EvaluateStep ==
  ASSUME StatInv, NEW t \in StatThreads, Evaluate(t)
  PROVE  StatInv'
<1> DEFINE begun == [NotEvaluating EXCEPT !.op = "evaluate", !.left = Places]
<1>1. /\ shThread' = [shThread EXCEPT ![t] = begun] /\ shBefore' = [shBefore EXCEPT ![t] = <<shCount>>]
      /\ UNCHANGED <<saState, saThread, saLog, shCount>>
  BY DEF Evaluate
<1>2. begun \in Reads /\ begun.left = Places
  BY DEF NotEvaluating, Reads, Counts
<1> HIDE DEF begun
<1>3. shCount \in Counts /\ shThread \in [StatThreads -> Reads] /\ shBefore \in [StatThreads -> {<<>>} \cup {<<c>> : c \in Counts}]
  BY DEF StatInv, StatTypes
<1>4. shThread' \in [StatThreads -> Reads] /\ shBefore' \in [StatThreads -> {<<>>} \cup {<<c>> : c \in Counts}]
  BY <1>1, <1>2, <1>3
<1>5. CountersGrow'
  <2> SUFFICES ASSUME NEW u \in StatThreads, shBefore'[u] # <<>>, NEW i \in Places PROVE shBefore'[u][1][i] <= shCount[i]
    BY <1>1 DEF CountersGrow
  <2>1. CASE u = t
    <3>1. shBefore'[u][1] = shCount /\ shCount[i] \in Nat
      BY <1>1, <1>3, <2>1 DEF Counts
    <3> QED BY <3>1
  <2>2. CASE u # t
    BY <1>1, <1>3, <2>2 DEF StatInv, CountersGrow
  <2> QED BY <2>1, <2>2
<1>6. EvaluationBounded'
  <2> SUFFICES ASSUME NEW u \in StatThreads, shThread'[u].op = "evaluate", shBefore'[u] # <<>>, NEW i \in Places \ shThread'[u].left
               PROVE  shBefore'[u][1][i] <= shThread'[u].read[i] /\ shThread'[u].read[i] <= shCount[i]
    BY <1>1 DEF EvaluationBounded
  <2>1. u # t
    BY <1>1, <1>2, <1>3
  <2> QED BY <1>1, <1>3, <2>1 DEF StatInv, EvaluationBounded
<1> QED BY <1>1, <1>3, <1>4, <1>5, <1>6, AggregateKept DEF StatInv, StatTypes

LEMMA ReadPlaceStep ==
  ASSUME StatInv, NEW t \in StatThreads, ReadPlace(t)
  PROVE  StatInv'
<1> DEFINE p == NextPlace(shThread[t].left)
           r == shThread[t]
           after == [WithoutPlace(r, p) EXCEPT !.read[p] = shCount[p]]
<1>1. shThread' = [shThread EXCEPT ![t] = after] /\ UNCHANGED <<saState, saThread, saLog, shCount, shBefore>>
  <2>1. UNCHANGED <<saState, saThread, saLog, shCount, shBefore>>
    BY DEF ReadPlace
  <2>2. shThread' = [shThread EXCEPT ![t] = after]
    BY DEF ReadPlace
  <2> QED BY <2>1, <2>2
<1> HIDE DEF p, after
<1>2. shCount \in Counts /\ shThread \in [StatThreads -> Reads] /\ shBefore \in [StatThreads -> {<<>>} \cup {<<c>> : c \in Counts}]
  BY DEF StatInv, StatTypes
<1>3. /\ shThread[t] \in Reads
      /\ shThread'[t] = after
      /\ \A u \in StatThreads : u # t => shThread'[u] = shThread[u]
  BY <1>1, <1>2
<1>4. /\ shThread'[t] \in Reads /\ shThread'[t].op = shThread[t].op /\ shThread'[t].left = shThread[t].left \ {p}
      /\ \A i \in Places : shThread'[t].read[i] = IF i = p THEN shCount[p] ELSE shThread[t].read[i]
  <2>1. r.op \in {"none", "clear", "evaluate"} /\ r.left \in SUBSET Places /\ r.read \in [Places -> Nat] /\ r \in Reads
    BY <1>3 DEF Reads, Counts
  <2>2. after = [op |-> r.op, left |-> r.left \ {p}, read |-> [r.read EXCEPT ![p] = shCount[p]]]
    <3>1. PICK m : m = [r EXCEPT !.left = r.left \ {p}] /\ m = WithoutPlace(r, p)
      BY DEF WithoutPlace
    <3>2. m \in Reads /\ m.op = r.op /\ m.left = r.left \ {p} /\ m.read = r.read
      BY <2>1, <3>1 DEF Reads, Counts
    <3>3. PICK q : q = [r.read EXCEPT ![p] = shCount[p]]
      OBVIOUS
    <3>4. after = [m EXCEPT !.read = q]
      BY <3>1, <3>2, <3>3 DEF after
    <3>5. m = [op |-> r.op, left |-> r.left \ {p}, read |-> r.read]
      BY <3>2 DEF Reads
    <3> QED BY <3>3, <3>4, <3>5
  <2>3. PICK read : read = [r.read EXCEPT ![p] = shCount[p]]
    OBVIOUS
  <2>4. read \in [Places -> Nat] /\ \A i \in Places : read[i] = IF i = p THEN shCount[p] ELSE r.read[i]
    BY <1>2, <2>1, <2>3 DEF Counts
  <2> HIDE DEF r
  <2>5. after = [op |-> r.op, left |-> r.left \ {p}, read |-> read]
    BY <2>2, <2>3
  <2>6. after \in Reads /\ after.op = r.op /\ after.left = r.left \ {p} /\ after.read = read
    BY <2>1, <2>4, <2>5 DEF Reads, Counts
  <2> QED BY <1>3, <2>4, <2>6 DEF r
<1>5. shThread' \in [StatThreads -> Reads]
  BY <1>1, <1>2, <1>3, <1>4
<1>6. CountersGrow'
  BY <1>1 DEF StatInv, CountersGrow
<1>7. EvaluationBounded'
  <2> SUFFICES ASSUME NEW u \in StatThreads, shThread'[u].op = "evaluate", shBefore[u] # <<>>, NEW i \in Places \ shThread'[u].left
               PROVE  shBefore[u][1][i] <= shThread'[u].read[i] /\ shThread'[u].read[i] <= shCount[i]
    BY <1>1 DEF EvaluationBounded
  <2>1. CASE u = t /\ i = p
    <3>1. shThread'[u].read[i] = shCount[i] /\ shCount[i] \in Nat
      BY <1>2, <1>4, <2>1 DEF Counts
    <3>2. shBefore[u][1][i] <= shCount[i]
      BY DEF StatInv, CountersGrow
    <3> QED BY <3>1, <3>2
  <2>2. CASE u = t /\ i # p
    <3>1. shThread[u].op = "evaluate" /\ i \in Places \ shThread[u].left /\ shThread'[u].read[i] = shThread[u].read[i]
      BY <1>4, <2>2
    <3> QED BY <3>1 DEF StatInv, EvaluationBounded
  <2>3. CASE u # t
    <3>1. shThread'[u] = shThread[u]
      BY <1>3, <2>3
    <3> QED BY <3>1 DEF StatInv, EvaluationBounded
  <2> QED BY <2>1, <2>2, <2>3
<1> QED BY <1>1, <1>2, <1>5, <1>6, <1>7, AggregateKept DEF StatInv, StatTypes

LEMMA EvaluatedStep ==
  ASSUME StatInv, NEW t \in StatThreads, Evaluated(t)
  PROVE  StatInv'
<1>1. /\ shThread' = [shThread EXCEPT ![t] = NotEvaluating] /\ shBefore' = [shBefore EXCEPT ![t] = <<>>]
      /\ UNCHANGED <<saState, saThread, saLog, shCount>>
  BY DEF Evaluated
<1>2. shCount \in Counts /\ shThread \in [StatThreads -> Reads] /\ shBefore \in [StatThreads -> {<<>>} \cup {<<c>> : c \in Counts}]
  BY DEF StatInv, StatTypes
<1>3. NotEvaluating \in Reads
  BY DEF NotEvaluating, Reads, Counts
<1>4. shThread' \in [StatThreads -> Reads] /\ shBefore' \in [StatThreads -> {<<>>} \cup {<<c>> : c \in Counts}]
  BY <1>1, <1>2, <1>3
<1>5. \A u \in StatThreads : shBefore'[u] # <<>> => shBefore'[u] = shBefore[u] /\ shThread'[u] = shThread[u]
  BY <1>1, <1>2
<1>6. CountersGrow' /\ EvaluationBounded'
  BY <1>1, <1>5 DEF StatInv, CountersGrow, EvaluationBounded
<1> QED BY <1>1, <1>2, <1>4, <1>6, AggregateKept DEF StatInv, StatTypes

(***************************************************************************)
(* statistics_manager::save                                                *)
(***************************************************************************)

Lines == {"none", "header", "result", "footer"}
HeaderOnTop(file) == {i \in DOMAIN file : file[i] = "header"} = {1}

SaveRecords ==
  [at : {"none", "begun", "looked", "open"}, append : BOOLEAN, existed : BOOLEAN, left : SUBSET Edges, writes : SUBSET Edges,
   alone : BOOLEAN]

\* An edge is left out when the file is appended to, the header only if it was there before.
LeavesOut(save, edge) == save.append /\ (edge = "header" => save.existed)

\* What a save that nobody disturbs has read says what the file has.
Undisturbed(save) ==
  /\ save.append = smAppend
  /\ save.at \in {"begun", "looked"} => save.writes = {} /\ (smMixed \/ smFile = NoFile \/ HeaderOnTop(smFile))
  /\ save.at = "looked" => save.existed = (smFile # NoFile)
  /\ save.at = "open" => /\ IF save.append /\ save.existed THEN smMixed \/ HeaderOnTop(smFile) ELSE smFile = <<>>
                         /\ save.writes = {edge \in Edges \ save.left : ~LeavesOut(save, edge)}

SaveTypes ==
  /\ smFile \in Seq(Lines) /\ smAppend \in BOOLEAN /\ smMixed \in BOOLEAN
  /\ smSaving \in [StatThreads -> SaveRecords]

SaveInv ==
  /\ SaveTypes
  /\ OneHeader
  /\ \A t \in StatThreads : Saving(t) /\ smSaving[t].alone =>
       Undisturbed(smSaving[t]) /\ \A u \in StatThreads : Saving(u) => u = t

LEMMA SaveInitially == SaveInit => SaveInv
<1> SUFFICES ASSUME SaveInit PROVE SaveInv
  OBVIOUS
<1>1. <<"none">> \in Seq(Lines)
  <2>1. "none" \in Lines
    BY DEF Lines
  <2> QED BY <2>1
<1>2. NotSaving \in SaveRecords /\ NotSaving.at = "none"
  BY DEF NotSaving, SaveRecords
<1>3. SaveTypes
  BY <1>1, <1>2 DEF SaveInit, SaveTypes, NoFile
<1>4. \A t \in StatThreads : ~Saving(t)
  BY <1>2 DEF SaveInit, Saving
<1> QED BY <1>3, <1>4 DEF SaveInv, SaveInit, OneHeader

\* The other saves are disturbed by one that begins.
LEMMA BeginSaveStep == ASSUME SaveInv, NEW t \in StatThreads, BeginSave(t) PROVE SaveInv'
<1>1. smSaving \in [StatThreads -> SaveRecords] /\ smAppend \in BOOLEAN /\ UNCHANGED <<smAppend, smFile, smMixed>> /\ ~Saving(t)
  BY DEF SaveInv, SaveTypes, BeginSave
<1> DEFINE others == {u \in StatThreads : Saving(u)}
<1>2. PICK s : s = [NotSaving EXCEPT !.at = "begun", !.append = smAppend, !.alone = (others = {})]
  OBVIOUS
<1>3. smSaving' = [u \in StatThreads |-> IF u = t THEN s ELSE [smSaving[u] EXCEPT !.alone = FALSE]]
  BY <1>2 DEF BeginSave
<1>4. /\ s.at = "begun" /\ s.append = smAppend /\ s.existed = FALSE /\ s.left = {} /\ s.writes = {} /\ s.alone = (others = {})
      /\ s = [at |-> "begun", append |-> smAppend, existed |-> FALSE, left |-> {}, writes |-> {}, alone |-> (others = {})]
  BY <1>2 DEF NotSaving
<1>5. s \in SaveRecords
  <2>1. (others = {}) \in BOOLEAN
    OBVIOUS
  <2> QED BY <1>1, <1>4, <2>1 DEF SaveRecords
<1> HIDE DEF others
<1>6. \A u \in StatThreads \ {t} : smSaving'[u] \in SaveRecords /\ ~smSaving'[u].alone /\ smSaving'[u].at = smSaving[u].at
  <2> TAKE u \in StatThreads \ {t}
  <2>1. PICK r \in SaveRecords : r = smSaving[u]
    BY <1>1
  <2>2. smSaving'[u] = [r EXCEPT !.alone = FALSE]
    BY <1>3, <2>1
  <2> QED BY <2>1, <2>2 DEF SaveRecords
<1>7. SaveTypes'
  BY <1>1, <1>3, <1>5, <1>6 DEF SaveInv, SaveTypes
<1>8. smSaving'[t] = s
  BY <1>3
<1>9. OneHeader'
  BY <1>4, <1>8 DEF OneHeader, Saving
<1>10. ASSUME s.alone PROVE Undisturbed(s)' /\ \A u \in StatThreads : Saving(u)' => u = t
  <2>1. \A u \in StatThreads : ~Saving(u)
    BY <1>4, <1>10 DEF others
  <2>2. \A u \in StatThreads : Saving(u)' => u = t
    BY <1>6, <2>1 DEF Saving
  <2>3. smMixed \/ smFile = NoFile \/ HeaderOnTop(smFile)
    BY <2>1 DEF SaveInv, OneHeader, HeaderOnTop
  <2>4. Undisturbed(s)'
    BY <1>1, <1>4, <2>3 DEF Undisturbed, HeaderOnTop
  <2> QED BY <2>2, <2>4
<1> QED BY <1>6, <1>7, <1>8, <1>9, <1>10 DEF SaveInv

\* A save that goes on alone sees what it has left.
LEMMA SaveGoesOn ==
  ASSUME SaveInv, NEW t \in StatThreads, NEW s \in SaveRecords, smSaving' = [smSaving EXCEPT ![t] = s],
         Saving(t), s.at # "none", s.alone = smSaving[t].alone, s.alone => Undisturbed(s)',
         smFile' \in Seq(Lines), UNCHANGED <<smAppend, smMixed>>
  PROVE  SaveInv'
<1>1. smSaving \in [StatThreads -> SaveRecords]
  BY DEF SaveInv, SaveTypes
<1>2. smSaving'[t] = s /\ \A u \in StatThreads \ {t} : smSaving'[u] = smSaving[u]
  BY <1>1
<1>3. SaveTypes'
  BY <1>1 DEF SaveInv, SaveTypes
<1>4. \A u \in StatThreads : Saving(u)' <=> Saving(u)
  BY <1>2 DEF Saving
<1>5. OneHeader'
  BY <1>4 DEF OneHeader
<1>6. ASSUME NEW u \in StatThreads, Saving(u)', smSaving'[u].alone
      PROVE  Undisturbed(smSaving[u])' /\ \A w \in StatThreads : Saving(w)' => w = u
  <2>1. smSaving[u].alone /\ Saving(u)
    BY <1>2, <1>4, <1>6
  <2>2. \A w \in StatThreads : Saving(w) => w = u
    BY <2>1 DEF SaveInv
  <2>3. u = t
    BY <2>2
  <2> QED BY <1>2, <1>4, <1>6, <2>2, <2>3
<1> QED BY <1>3, <1>5, <1>6 DEF SaveInv

LEMMA LookForFileStep == ASSUME SaveInv, NEW t \in StatThreads, LookForFile(t) PROVE SaveInv'
<1>1. PICK r \in SaveRecords : r = smSaving[t]
  BY DEF SaveInv, SaveTypes
<1>2. PICK s : s = [r EXCEPT !.at = "looked", !.existed = (smFile # NoFile)]
  OBVIOUS
<1>3. smSaving' = [smSaving EXCEPT ![t] = s] /\ r.at = "begun" /\ UNCHANGED <<smAppend, smFile, smMixed>>
  BY <1>1, <1>2 DEF LookForFile
<1>4. s \in SaveRecords /\ s.at = "looked" /\ s.existed = (smFile # NoFile) /\ s.append = r.append /\ s.alone = r.alone
  <2>1. (smFile # NoFile) \in BOOLEAN
    OBVIOUS
  <2> QED BY <1>1, <1>2, <2>1 DEF SaveRecords
<1>5. Saving(t)
  BY <1>1, <1>3 DEF Saving
<1>6. ASSUME s.alone PROVE Undisturbed(s)'
  <2>1. r.append = smAppend /\ r.writes = {} /\ (smMixed \/ smFile = NoFile \/ HeaderOnTop(smFile))
    BY <1>1, <1>3, <1>4, <1>5, <1>6 DEF SaveInv, Undisturbed
  <2>2. s.writes = {}
    BY <1>1, <1>2, <2>1 DEF SaveRecords
  <2> QED BY <1>3, <1>4, <2>1, <2>2 DEF Undisturbed, HeaderOnTop
<1>7. smFile' \in Seq(Lines)
  BY <1>3 DEF SaveInv, SaveTypes
<1> QED BY <1>1, <1>3, <1>4, <1>5, <1>6, <1>7, SaveGoesOn

LEMMA OpenFileStep == ASSUME SaveInv, NEW t \in StatThreads, OpenFile(t) PROVE SaveInv'
<1>1. PICK r \in SaveRecords : r = smSaving[t]
  BY DEF SaveInv, SaveTypes
<1>2. PICK s : s = [r EXCEPT !.at = "open", !.left = Edges]
  OBVIOUS
<1>3. /\ smSaving' = [smSaving EXCEPT ![t] = s] /\ r.at = "looked" /\ UNCHANGED <<smAppend, smMixed>>
      /\ smFile' = IF r.append /\ smFile # NoFile THEN smFile ELSE <<>>
  BY <1>1, <1>2 DEF OpenFile
<1>4. s \in SaveRecords /\ s.at = "open" /\ s.existed = r.existed /\ s.append = r.append /\ s.alone = r.alone /\ s.left = Edges
  BY <1>1, <1>2 DEF SaveRecords
<1>5. Saving(t)
  BY <1>1, <1>3 DEF Saving
<1>6. ASSUME s.alone PROVE Undisturbed(s)'
  <2>1. r.append = smAppend /\ r.writes = {} /\ r.existed = (smFile # NoFile) /\ (smMixed \/ smFile = NoFile \/ HeaderOnTop(smFile))
    BY <1>1, <1>3, <1>4, <1>5, <1>6 DEF SaveInv, Undisturbed
  <2>2. s.append = smAppend' /\ s.writes = {edge \in Edges \ s.left : ~LeavesOut(s, edge)'}
    BY <1>1, <1>2, <1>3, <1>4, <2>1 DEF SaveRecords
  <2>3. CASE s.append /\ s.existed
    <3>1. smFile' = smFile /\ (smMixed \/ HeaderOnTop(smFile))
      BY <1>3, <1>4, <2>1, <2>3
    <3> QED BY <1>3, <1>4, <2>2, <2>3, <3>1 DEF Undisturbed, HeaderOnTop
  <2>4. CASE ~(s.append /\ s.existed)
    <3>1. smFile' = <<>>
      BY <1>3, <1>4, <2>1, <2>4
    <3> QED BY <1>4, <2>2, <2>4, <3>1 DEF Undisturbed
  <2> QED BY <2>3, <2>4
<1>7. smFile' \in Seq(Lines)
  BY <1>3 DEF SaveInv, SaveTypes
<1> QED BY <1>1, <1>3, <1>4, <1>5, <1>6, <1>7, SaveGoesOn

LEMMA DecideEdgeStep == ASSUME SaveInv, NEW t \in StatThreads, NEW edge \in Edges, DecideEdge(t, edge) PROVE SaveInv'
<1>1. PICK r \in SaveRecords : r = smSaving[t]
  BY DEF SaveInv, SaveTypes
<1>2. PICK w : w = IF smAppend /\ (edge = "header" => r.existed) THEN r.writes ELSE r.writes \cup {edge}
  OBVIOUS
<1>3. PICK s : s = [r EXCEPT !.left = r.left \ {edge}, !.writes = w]
  OBVIOUS
<1>4. smSaving' = [smSaving EXCEPT ![t] = s] /\ r.at = "open" /\ edge \in r.left /\ UNCHANGED <<smAppend, smFile, smMixed>>
  BY <1>1, <1>2, <1>3 DEF DecideEdge
<1>5. /\ s \in SaveRecords /\ s.at = "open" /\ s.existed = r.existed /\ s.append = r.append /\ s.alone = r.alone
      /\ s.left = r.left \ {edge} /\ s.writes = w /\ r.writes \subseteq Edges
  BY <1>1, <1>2, <1>3, <1>4 DEF SaveRecords
<1>6. Saving(t)
  BY <1>1, <1>4 DEF Saving
<1>7. ASSUME s.alone PROVE Undisturbed(s)'
  <2>1. Undisturbed(r)
    BY <1>1, <1>5, <1>6, <1>7 DEF SaveInv
  <2>2. LeavesOut(r, edge) <=> smAppend /\ (edge = "header" => r.existed)
    BY <2>1 DEF Undisturbed, LeavesOut
  <2>3. \A e : LeavesOut(s, e) <=> LeavesOut(r, e)
    BY <1>5 DEF LeavesOut
  <2>4. r.writes = {e \in Edges \ r.left : ~LeavesOut(r, e)}
    BY <1>4, <2>1 DEF Undisturbed
  <2>5. s.writes = {e \in Edges \ s.left : ~LeavesOut(s, e)}
    BY <1>2, <1>4, <1>5, <2>2, <2>3, <2>4
  <2>6. IF r.append /\ r.existed THEN smMixed \/ HeaderOnTop(smFile) ELSE smFile = <<>>
    BY <1>4, <2>1 DEF Undisturbed
  <2>7. \A e : LeavesOut(s, e)' <=> LeavesOut(s, e)
    BY DEF LeavesOut
  <2>8. s.append = smAppend
    BY <1>5, <2>1 DEF Undisturbed
  <2> QED BY <1>4, <1>5, <2>5, <2>6, <2>7, <2>8 DEF Undisturbed
<1>8. smFile' \in Seq(Lines)
  BY <1>4 DEF SaveInv, SaveTypes
<1> QED BY <1>1, <1>4, <1>5, <1>6, <1>7, <1>8, SaveGoesOn

\* Lines that are no header may follow.
LEMMA HeaderStays ==
  ASSUME NEW file \in Seq(Lines), NEW line \in Lines, line # "header", HeaderOnTop(file)
  PROVE  Append(file, line) \in Seq(Lines) /\ HeaderOnTop(Append(file, line))
<1>1. /\ Append(file, line) \in Seq(Lines) /\ DOMAIN Append(file, line) = 1 .. Len(file) + 1
      /\ Len(file) \in Nat /\ DOMAIN file = 1 .. Len(file)
      /\ Append(file, line)[Len(file) + 1] = line
      /\ \A i \in 1 .. Len(file) : Append(file, line)[i] = file[i]
  BY AppendProperties
<1>2. {i \in DOMAIN Append(file, line) : Append(file, line)[i] = "header"} = {i \in DOMAIN file : file[i] = "header"}
  BY <1>1
<1> QED BY <1>1, <1>2 DEF HeaderOnTop

\* What a save writes: a header only in front, if at all.
LEMMA TextIs ==
  ASSUME NEW edges \in SUBSET Edges
  PROVE  /\ Text(edges) \in Seq(Lines) /\ Len(Text(edges)) \in Nat
         /\ edges = {} => Text(edges) = <<"result">>
         /\ "header" \in edges => HeaderOnTop(Text(edges))
<1>1. PICK h, f : h = (IF "header" \in edges THEN <<"header">> ELSE <<>>) /\ f = (IF "footer" \in edges THEN <<"footer">> ELSE <<>>)
  OBVIOUS
<1>9. PICK t : t = Text(edges)
  OBVIOUS
<1>2. t = (h \o <<"result">>) \o f
  BY <1>1, <1>9 DEF Text
<1>3. "result" \in Lines /\ "header" \in Lines /\ "footer" \in Lines
  BY DEF Lines
<1>4. h \in Seq(Lines) /\ ("header" \in edges => HeaderOnTop(h)) /\ ("header" \notin edges => h = <<>>)
  <2>1. HeaderOnTop(<<"header">>)
    BY DEF HeaderOnTop
  <2> QED BY <1>1, <1>3, <2>1
<1>5. PICK r : r = h \o <<"result">>
  OBVIOUS
<1>6. r \in Seq(Lines) /\ ("header" \in edges => HeaderOnTop(r)) /\ ("header" \notin edges => r = <<"result">>)
  <2>1. r = Append(h, "result")
    BY <1>3, <1>4, <1>5, AppendIsConcat
  <2>2. "header" \notin edges => r = <<"result">>
    BY <1>4, <1>5
  <2> QED BY <1>3, <1>4, <2>1, <2>2, AppendProperties, HeaderStays
<1>7. CASE "footer" \in edges
  <2>1. r \o f = Append(r, "footer")
    BY <1>1, <1>3, <1>6, <1>7, AppendIsConcat
  <2>2. Append(r, "footer") \in Seq(Lines) /\ ("header" \in edges => HeaderOnTop(Append(r, "footer")))
    BY <1>3, <1>6, AppendProperties, HeaderStays
  <2>3. t \in Seq(Lines) /\ ("header" \in edges => HeaderOnTop(t))
    BY <1>2, <1>5, <2>1, <2>2
  <2>4. Len(t) \in Nat
    BY <2>3
  <2> QED BY <1>7, <1>9, <2>3, <2>4
<1>8. CASE "footer" \notin edges
  <2>1. r \o f = r
    BY <1>1, <1>6, <1>8, ConcatEmptySeq
  <2>2. t = r
    BY <1>2, <1>5, <2>1
  <2>3. Len(t) \in Nat
    BY <1>6, <2>2
  <2> QED BY <1>6, <1>9, <2>2, <2>3
<1> QED BY <1>7, <1>8

LEMMA WriteResultStep == ASSUME SaveInv, NEW t \in StatThreads, WriteResult(t) PROVE SaveInv'
<1>1. PICK r \in SaveRecords : r = smSaving[t]
  BY DEF SaveInv, SaveTypes
<1>2. PICK text : text = Text(r.writes)
  OBVIOUS
<1>3. /\ smFile' = IF r.append THEN smFile \o text ELSE text \o SubSeq(smFile, Len(text) + 1, Len(smFile))
      /\ smMixed' = (~r.alone \/ (smMixed /\ r.append)) /\ smSaving' = [smSaving EXCEPT ![t] = NotSaving]
      /\ smAppend' = smAppend /\ r.at = "open" /\ r.left = {}
  BY <1>1, <1>2 DEF WriteResult
<1>4. /\ text \in Seq(Lines) /\ Len(text) \in Nat /\ smFile \in Seq(Lines) /\ r.writes \in SUBSET Edges
      /\ smSaving \in [StatThreads -> SaveRecords] /\ smMixed \in BOOLEAN /\ r.alone \in BOOLEAN /\ r.append \in BOOLEAN
  BY <1>1, <1>2, TextIs DEF SaveInv, SaveTypes, SaveRecords
<1>5. SubSeq(smFile, Len(text) + 1, Len(smFile)) \in Seq(Lines)
  <2>1. PICK m \in Nat : m = Len(text)
    BY <1>4
  <2>2. PICK n \in Nat : n = Len(smFile) /\ DOMAIN smFile = 1 .. n
    BY <1>4
  <2>3. SubSeq(smFile, m + 1, n) = [i \in 1 .. (1 + n - (m + 1)) |-> smFile[i + (m + 1) - 1]]
    BY DEF SubSeq
  <2>4. CASE n <= m
    <3>1. 1 .. (1 + n - (m + 1)) = {}
      BY <2>4
    <3>2. SubSeq(smFile, m + 1, n) = <<>>
      BY <2>3, <3>1
    <3>3. <<>> \in Seq(Lines)
      OBVIOUS
    <3> QED BY <2>1, <2>2, <3>2, <3>3
  <2>5. CASE n > m
    BY <1>4, <2>1, <2>2, <2>5, SubSeqProperties
  <2> QED BY <2>1, <2>2, <2>4, <2>5
<1>6. smFile' \in Seq(Lines)
  BY <1>3, <1>4, <1>5, ConcatProperties
<1>7. NotSaving \in SaveRecords /\ NotSaving.at = "none"
  BY DEF NotSaving, SaveRecords
<1>8. SaveTypes'
  BY <1>3, <1>4, <1>6, <1>7 DEF SaveInv, SaveTypes
<1>9. smSaving'[t] = NotSaving /\ \A u \in StatThreads \ {t} : smSaving'[u] = smSaving[u]
  BY <1>3, <1>4
<1>10. Saving(t)
  BY <1>1, <1>3 DEF Saving
<1>11. ASSUME ~smMixed' PROVE HeaderOnTop(smFile')
  <2>1. r.alone /\ Undisturbed(r) /\ ~(smMixed /\ r.append)
    BY <1>1, <1>3, <1>4, <1>10, <1>11 DEF SaveInv
  <2>2. r.writes = {edge \in Edges : ~LeavesOut(r, edge)}
    BY <1>3, <2>1 DEF Undisturbed
  <2>3. "header" \in Edges /\ "footer" \in Edges /\ \A edge \in Edges : edge \in {"header", "footer"}
    BY DEF Edges
  <2>4. CASE r.append /\ r.existed
    <3>1. r.writes = {}
      BY <2>2, <2>4 DEF LeavesOut
    <3>2. text = <<"result">> /\ HeaderOnTop(smFile) /\ smFile' = smFile \o <<"result">>
      BY <1>2, <1>3, <1>4, <2>1, <2>4, <3>1, TextIs DEF Undisturbed
    <3>3. smFile \o <<"result">> = Append(smFile, "result") /\ "result" \in Lines
      BY <1>4 DEF Lines
    <3> QED BY <1>4, <3>2, <3>3, HeaderStays
  <2>5. CASE ~(r.append /\ r.existed)
    <3>1. smFile = <<>>
      BY <1>3, <2>1, <2>5 DEF Undisturbed
    <3>2. HeaderOnTop(text)
      BY <1>2, <1>4, <2>2, <2>3, <2>5, TextIs DEF LeavesOut
    <3>3. smFile' = text
      <4>1. SubSeq(<<>>, Len(text) + 1, Len(<<>>)) = <<>>
        BY <1>4
      <4>2. <<>> \o text = text /\ text \o <<>> = text
        BY <1>4, ConcatEmptySeq
      <4> QED BY <1>3, <3>1, <4>1, <4>2
    <3> QED BY <3>2, <3>3
  <2> QED BY <2>4, <2>5
<1>12. OneHeader'
  BY <1>11 DEF OneHeader, HeaderOnTop
<1>13. ASSUME NEW u \in StatThreads, Saving(u)', smSaving'[u].alone PROVE FALSE
  <2>1. u # t /\ smSaving'[u] = smSaving[u]
    BY <1>7, <1>9, <1>13 DEF Saving
  <2>2. Saving(u) /\ smSaving[u].alone
    BY <1>13, <2>1 DEF Saving
  <2> QED BY <1>10, <2>1, <2>2 DEF SaveInv
<1> QED BY <1>8, <1>12, <1>13 DEF SaveInv

LEMMA SetAppendStep == ASSUME SaveInv, SetAppend PROVE SaveInv'
<1>1. smSaving' = [t \in StatThreads |-> [smSaving[t] EXCEPT !.alone = FALSE]] /\ smAppend' = ~smAppend
      /\ UNCHANGED <<smFile, smMixed>>
  BY DEF SetAppend
<1>2. \A t \in StatThreads : smSaving'[t] \in SaveRecords /\ ~smSaving'[t].alone /\ smSaving'[t].at = smSaving[t].at
  <2> TAKE t \in StatThreads
  <2>1. PICK r \in SaveRecords : r = smSaving[t]
    BY DEF SaveInv, SaveTypes
  <2>2. smSaving'[t] = [r EXCEPT !.alone = FALSE]
    BY <1>1, <2>1
  <2> QED BY <2>1, <2>2 DEF SaveRecords
<1>3. SaveTypes'
  BY <1>1, <1>2 DEF SaveInv, SaveTypes
<1>4. OneHeader'
  BY <1>1, <1>2 DEF SaveInv, OneHeader, Saving
<1> QED BY <1>2, <1>3, <1>4 DEF SaveInv

LEMMA SaveInvariance == SaveSpec => []SaveInv
<1>1. SaveInv /\ [SaveNext]_saveVars => SaveInv'
  <2> SUFFICES ASSUME SaveInv, [SaveNext]_saveVars PROVE SaveInv'
    OBVIOUS
  <2>1. CASE UNCHANGED saveVars
    BY <2>1 DEF saveVars, SaveInv, SaveTypes, OneHeader, Saving, Undisturbed, LeavesOut
  <2> QED BY <2>1, BeginSaveStep, LookForFileStep, OpenFileStep, DecideEdgeStep, WriteResultStep, SetAppendStep DEF SaveNext
<1> QED BY <1>1, SaveInitially, PTL DEF SaveSpec

LEMMA StatInvariance == StatSpec => []StatInv
<1>1. StatInv /\ [StatNext]_statVars => StatInv'
  <2> SUFFICES ASSUME StatInv, [StatNext]_statVars PROVE StatInv'
    OBVIOUS
  <2>1. CASE UNCHANGED statVars
    <3>1. UNCHANGED <<saState, saThread, saLog, shCount, shThread, shBefore>>
      BY <2>1 DEF statVars
    <3> QED BY <3>1, AggregateKept, CountersKept DEF StatInv, StatTypes
  <2> QED BY <2>1, BeginRecordStep, ExchangeStateStep, ClearAggregateStep, RecordInHistogramStep, ClearPlaceStep,
             EvaluateStep, ReadPlaceStep, EvaluatedStep DEF StatNext
<1> QED BY <1>1, StatInitially, PTL DEF StatSpec

\* However threads record, evaluate and clear, the aggregate is that of the samples since it was cleared, an
\* evaluation lies between when it began and now, buckets enclose their samples, and a file has one header, unless saves of
\* several threads overlapped or the flag was set during a save since the last save that replaced it undisturbed.
THEOREM StatisticsCorrect == StatSpec /\ SaveSpec => []StatisticsSafe
<1>1. StatInv /\ SaveInv => StatisticsSafe
  BY BucketsDoEnclose DEF StatInv, SaveInv, StatisticsSafe
<1> QED BY <1>1, StatInvariance, SaveInvariance, PTL

(***************************************************************************)
(* The engine's systems                                                    *)
(***************************************************************************)

\* A set of numbers up to n that has all below each of them is those up to its size.
LEMMA Downward ==
  ASSUME NEW n \in Nat, NEW D \in SUBSET (1 .. n), \A i \in D, j \in 1 .. n : j < i => j \in D
  PROVE  Cardinality(D) \in 0 .. n /\ D = 1 .. Cardinality(D)
<1> DEFINE rest == (1 .. n) \ D
<1>1. CASE rest = {}
  <2>1. D = 1 .. n
    BY <1>1
  <2>2. Cardinality(1 .. n) = IF 1 > n THEN 0 ELSE n - 1 + 1
    BY FS_Interval
  <2>3. Cardinality(1 .. n) = n
    BY <2>2
  <2> QED BY <2>1, <2>3
<1>2. CASE rest # {}
  <2>1. PICK m \in rest : \A j \in rest : m <= j
    <3>1. rest \in SUBSET Nat
      OBVIOUS
    <3> HIDE DEF rest
    <3> QED BY <1>2, <3>1, LeastElement
  <2>2. D = 1 .. m - 1
    <3>1. \A i \in D : i < m
      BY <2>1
    <3>2. \A i \in 1 .. m - 1 : i \in D
      BY <2>1
    <3>3. \A i \in D : i \in 1 .. m - 1
      BY <2>1, <3>1
    <3> QED BY <3>2, <3>3
  <2>4. Cardinality(1 .. m - 1) = IF 1 > m - 1 THEN 0 ELSE m - 1 - 1 + 1
    BY <2>1, FS_Interval
  <2>3. Cardinality(1 .. m - 1) = m - 1
    BY <2>1, <2>4
  <2> QED BY <2>1, <2>2, <2>3
<1> QED BY <1>1, <1>2

WithNew(s, x, k) == SubSeq(s, 1, k) \o <<x>> \o SubSeq(s, k + 1, Len(s))

\* What has been put into a sequence after its first k elements.
Inserted(r, s, k, x) ==
  /\ DOMAIN r = 1 .. Len(s) + 1 /\ Len(r) = Len(s) + 1
  /\ \A i \in 1 .. Len(s) + 1 : r[i] = IF i <= k THEN s[i] ELSE IF i = k + 1 THEN x ELSE s[i - 1]

LEMMA InsertedIs ==
  ASSUME NEW S, NEW s \in Seq(S), NEW k \in 0 .. Len(s), NEW x \in S
  PROVE  WithNew(s, x, k) \in Seq(S) /\ Inserted(WithNew(s, x, k), s, k, x)
<1>1. PICK n \in Nat : n = Len(s) /\ DOMAIN s = 1 .. n
  OBVIOUS
<1>2. PICK a : a = SubSeq(s, 1, k)
  OBVIOUS
<1>3. PICK b : b = SubSeq(s, k + 1, n)
  OBVIOUS
<1>4. a \in Seq(S) /\ Len(a) = k /\ \A i \in 1 .. k : a[i] = s[i]
  <2>1. \A i \in 1 .. k : s[i] \in S
    BY <1>1
  <2>2. /\ SubSeq(s, 1, k) \in Seq(S) /\ Len(SubSeq(s, 1, k)) = (IF 1 <= k THEN k - 1 + 1 ELSE 0)
        /\ \A i \in 1 .. k - 1 + 1 : SubSeq(s, 1, k)[i] = s[1 + i - 1]
    BY <2>1, SubSeqProperties
  <2> QED BY <1>1, <1>2, <2>2
<1>5. b \in Seq(S) /\ Len(b) = n - k /\ \A i \in 1 .. n - k : b[i] = s[k + i]
  <2>1. \A i \in k + 1 .. n : s[i] \in S
    BY <1>1
  <2>2. /\ SubSeq(s, k + 1, n) \in Seq(S) /\ Len(SubSeq(s, k + 1, n)) = (IF k + 1 <= n THEN n - (k + 1) + 1 ELSE 0)
        /\ \A i \in 1 .. n - (k + 1) + 1 : SubSeq(s, k + 1, n)[i] = s[k + 1 + i - 1]
    BY <1>1, <2>1, SubSeqProperties
  <2>3. \A i \in 1 .. n - k : i \in 1 .. n - (k + 1) + 1 /\ k + 1 + i - 1 = k + i
    BY <1>1
  <2> QED BY <1>1, <1>3, <2>2, <2>3
<1>6. PICK c : c = a \o <<x>>
  OBVIOUS
<1>7. <<x>> \in Seq(S) /\ Len(<<x>>) = 1 /\ <<x>>[1] = x
  OBVIOUS
<1>8. c \in Seq(S) /\ Len(c) = k + 1 /\ \A i \in 1 .. k + 1 : c[i] = IF i <= k THEN s[i] ELSE x
  <2>1. /\ a \o <<x>> \in Seq(S) /\ Len(a \o <<x>>) = Len(a) + Len(<<x>>)
        /\ \A i \in 1 .. Len(a) + Len(<<x>>) : (a \o <<x>>)[i] = IF i <= Len(a) THEN a[i] ELSE <<x>>[i - Len(a)]
    BY <1>4, <1>7, ConcatProperties
  <2>2. \A i \in 1 .. k + 1 : i <= k \/ i - k = 1
    OBVIOUS
  <2>3. c \in Seq(S) /\ Len(c) = k + 1
    BY <1>4, <1>6, <1>7, <2>1
  <2>4. ASSUME NEW i \in 1 .. k + 1 PROVE c[i] = IF i <= k THEN s[i] ELSE x
    <3>1. c[i] = IF i <= k THEN a[i] ELSE <<x>>[i - k]
      BY <1>4, <1>6, <1>7, <2>1
    <3> QED BY <1>4, <1>7, <2>2, <3>1
  <2> QED BY <2>3, <2>4
<1>9. PICK r : r = c \o b
  OBVIOUS
<1>10. r \in Seq(S) /\ Len(r) = n + 1 /\ \A i \in 1 .. n + 1 : r[i] = IF i <= k + 1 THEN c[i] ELSE b[i - (k + 1)]
  <2>1. /\ c \o b \in Seq(S) /\ Len(c \o b) = Len(c) + Len(b)
        /\ \A i \in 1 .. Len(c) + Len(b) : (c \o b)[i] = IF i <= Len(c) THEN c[i] ELSE b[i - Len(c)]
    BY <1>5, <1>8, ConcatProperties
  <2>2. Len(c) + Len(b) = n + 1
    BY <1>1, <1>5, <1>8
  <2> QED BY <1>8, <1>9, <2>1, <2>2
<1>11. ASSUME NEW i \in 1 .. n + 1 PROVE r[i] = IF i <= k THEN s[i] ELSE IF i = k + 1 THEN x ELSE s[i - 1]
  <2>1. CASE i <= k + 1
    BY <1>8, <1>10, <2>1
  <2>2. CASE ~(i <= k + 1)
    <3>1. PICK j \in 1 .. n - k : j = i - (k + 1) /\ k + j = i - 1
      BY <1>1, <2>2
    <3>2. r[i] = b[j] /\ b[j] = s[k + j] /\ ~(i <= k) /\ i # k + 1
      BY <1>5, <1>10, <2>2, <3>1
    <3> QED BY <3>1, <3>2
  <2> QED BY <2>1, <2>2
<1>12. r = SubSeq(s, 1, k) \o <<x>> \o SubSeq(s, k + 1, Len(s))
  BY <1>1, <1>2, <1>3, <1>6, <1>9
<1>13. DOMAIN r = 1 .. n + 1
  BY <1>10
<1>14. Inserted(r, s, k, x)
  BY <1>1, <1>10, <1>11, <1>13 DEF Inserted
<1> QED BY <1>10, <1>12, <1>14 DEF WithNew

\* Systems by rising keys, each once.
InOrder(s, key) ==
  /\ \A i, j \in DOMAIN s : s[i] = s[j] => i = j
  /\ \A i, j \in DOMAIN s : i < j => key[s[i]] <= key[s[j]]

\* The places of what is not sorted after x.
NotAfter(s, x, key) == {i \in DOMAIN s : ~(key[s[i]] > key[x])}

\* The stable sort keeps that order.
LEMMA SortedIs ==
  ASSUME NEW S, NEW s \in Seq(S), NEW x \in S, NEW key \in [S -> Int], InOrder(s, key), x \notin Range(s),
         NEW k, k = Cardinality(NotAfter(s, x, key))
  PROVE  WithNew(s, x, k) \in Seq(S) /\ Len(WithNew(s, x, k)) = Len(s) + 1 /\ InOrder(WithNew(s, x, k), key) /\ Range(WithNew(s, x, k)) = Range(s) \cup {x}
<1>0. PICK D : D = NotAfter(s, x, key)
  OBVIOUS
<1>1. PICK n \in Nat : n = Len(s) /\ DOMAIN s = 1 .. n
  OBVIOUS
<1>2. \A i \in 1 .. n : key[s[i]] \in Int /\ key[x] \in Int /\ s[i] # x
  BY <1>1 DEF Range
<1>3. k \in 0 .. n /\ D = 1 .. k
  <2>1. D \in SUBSET (1 .. n) /\ \A i \in D, j \in 1 .. n : j < i => j \in D
    BY <1>0, <1>1, <1>2 DEF InOrder, NotAfter
  <2> QED BY <1>0, <2>1, Downward
<1>4. PICK r : r = WithNew(s, x, k)
  OBVIOUS
<1>5. r \in Seq(S) /\ Inserted(r, s, k, x)
  BY <1>1, <1>3, <1>4, InsertedIs
<1>6. /\ DOMAIN r = 1 .. n + 1 /\ Len(r) = n + 1 
      /\ \A i \in 1 .. n + 1 : r[i] = IF i <= k THEN s[i] ELSE IF i = k + 1 THEN x ELSE s[i - 1]
  BY <1>1, <1>5 DEF Inserted
<1>7. Range(r) = Range(s) \cup {x}
  <2>1. \A i \in 1 .. n + 1 : r[i] = x \/ r[i] \in Range(s)
    <3> TAKE i \in 1 .. n + 1
    <3>1. i <= k => i \in 1 .. n
      BY <1>3
    <3>2. ~(i <= k) /\ i # k + 1 => i - 1 \in 1 .. n
      BY <1>3
    <3> QED BY <1>1, <1>6, <3>1, <3>2 DEF Range
  <2>2. k + 1 \in 1 .. n + 1 /\ r[k + 1] = x
    BY <1>3, <1>6
  <2>3. \A i \in 1 .. n : \E j \in 1 .. n + 1 : r[j] = s[i]
    <3> TAKE i \in 1 .. n
    <3>1. CASE i <= k
      BY <1>6, <3>1
    <3>2. CASE i > k
      <4>1. i + 1 \in 1 .. n + 1 /\ ~(i + 1 <= k) /\ i + 1 # k + 1 /\ (i + 1) - 1 = i
        BY <1>3, <3>2
      <4> QED BY <1>6, <4>1
    <3>3. i <= k \/ i > k
      BY <1>3
    <3> QED BY <3>1, <3>2, <3>3
  <2>4. \A y \in Range(r) : y = x \/ y \in Range(s)
    BY <1>6, <2>1 DEF Range
  <2>5. x \in Range(r)
    BY <1>6, <2>2 DEF Range
  <2>6. \A y \in Range(s) : y \in Range(r)
    <3>1. \A i \in 1 .. n : s[i] \in Range(r)
      BY <1>6, <2>3 DEF Range
    <3> QED BY <1>1, <3>1 DEF Range
  <2> QED BY <2>4, <2>5, <2>6
<1> DEFINE old(i) == IF i <= k THEN i ELSE i - 1
<1>8. \A i \in 1 .. n + 1 : i # k + 1 => old(i) \in 1 .. n /\ r[i] = s[old(i)] /\ (i < k + 1 <=> old(i) \in D)
  <2> TAKE i \in 1 .. n + 1
  <2>1. CASE i <= k
    <3>1. old(i) = i /\ i \in 1 .. n /\ i < k + 1 /\ i \in 1 .. k
      BY <1>3, <2>1
    <3>2. r[i] = s[i]
      BY <1>6, <2>1
    <3> QED BY <1>3, <3>1, <3>2
  <2>2. CASE ~(i <= k)
    <3> SUFFICES ASSUME i # k + 1 PROVE old(i) \in 1 .. n /\ r[i] = s[old(i)] /\ ~(i < k + 1) /\ old(i) \notin 1 .. k
      BY <1>3
    <3>1. old(i) = i - 1 /\ i - 1 \in 1 .. n /\ ~(i < k + 1) /\ i - 1 \notin 1 .. k
      BY <1>3, <2>2
    <3>2. r[i] = s[i - 1]
      BY <1>6, <2>2
    <3> QED BY <3>1, <3>2
  <2> QED BY <2>1, <2>2
<1>9. \A i, j \in 1 .. n + 1 : i < j /\ i # k + 1 /\ j # k + 1 => old(i) < old(j)
  BY <1>3
<1>10. \A i, j \in 1 .. n : i < j => key[s[i]] <= key[s[j]] /\ s[i] # s[j]
  BY <1>1 DEF InOrder
<1>11. \A i \in 1 .. n : i \in D <=> key[s[i]] <= key[x]
  BY <1>0, <1>1, <1>2 DEF NotAfter
<1>12. r[k + 1] = x
  BY <1>3, <1>6
<1> HIDE DEF old
<1>13. ASSUME NEW i \in 1 .. n + 1, NEW j \in 1 .. n + 1, i < j PROVE key[r[i]] <= key[r[j]] /\ r[i] # r[j]
  <2>1. CASE i = k + 1
    <3>1. j # k + 1 /\ ~(j < k + 1)
      BY <1>3, <1>13, <2>1
    <3>2. old(j) \in 1 .. n /\ r[j] = s[old(j)] /\ old(j) \notin D
      BY <1>8, <3>1
    <3> QED BY <1>2, <1>11, <1>12, <2>1, <3>2
  <2>2. CASE j = k + 1
    <3>1. i # k + 1 /\ i < k + 1
      BY <1>3, <1>13, <2>2
    <3>2. old(i) \in 1 .. n /\ r[i] = s[old(i)] /\ old(i) \in D
      BY <1>8, <3>1
    <3> QED BY <1>2, <1>11, <1>12, <2>2, <3>2
  <2>3. CASE i # k + 1 /\ j # k + 1
    <3>1. old(i) \in 1 .. n /\ r[i] = s[old(i)] /\ old(j) \in 1 .. n /\ r[j] = s[old(j)] /\ old(i) < old(j)
      BY <1>8, <1>9, <1>13, <2>3
    <3> QED BY <1>10, <3>1
  <2> QED BY <2>1, <2>2, <2>3
<1>14. InOrder(r, key)
  <2>1. \A i, j \in 1 .. n + 1 : i < j \/ j < i \/ i = j
    OBVIOUS
  <2>2. \A i, j \in 1 .. n + 1 : r[i] = r[j] => i = j
    BY <1>13, <2>1
  <2>3. \A i, j \in 1 .. n + 1 : i < j => key[r[i]] <= key[r[j]]
    BY <1>13
  <2> QED BY <1>6, <2>2, <2>3 DEF InOrder
<1> QED BY <1>1, <1>4, <1>5, <1>6, <1>7, <1>14

(***************************************************************************)
(* Game states                                                             *)
(***************************************************************************)

Hooks == {"none", "enter", "leave_push", "reenter"}
Calls == [call : {"construct", "reenter", "phase"}, state : GameStates, at : {"first", "last"}]

\* The states under construction.
Constructing == {gsCalls[k].state : k \in {j \in DOMAIN gsCalls : gsCalls[j].call = "construct"}}

\* Only the outermost call is a phase of a state, which is there as long as the phase may go on.
CallsInv ==
  /\ gsCalls \in Seq(Calls)
  /\ \A k \in DOMAIN gsCalls : gsCalls[k].call = "phase" => k = 1
  /\ \A k \in DOMAIN gsCalls : gsCalls[k].at = "first" => gsCalls[k].call = "phase" /\ gsCalls[k].state \in Range(gsStack)
  /\ \A j, k \in DOMAIN gsCalls :
       gsCalls[j].call = "construct" /\ gsCalls[k].call = "construct" /\ gsCalls[j].state = gsCalls[k].state => j = k
  /\ gsPhase = "destroy" => gsCalls = <<>>

Below(stack, p, s) == \E i \in DOMAIN stack : stack[i] = p /\ \A j \in 1 .. i : stack[j] # s

StackInv ==
  /\ gsStack \in Seq(GameStates) /\ \A i, j \in DOMAIN gsStack : gsStack[i] = gsStack[j] => i = j
  /\ gsParent \in [GameStates -> GameStates \cup {NoState}] /\ gsTold \in [GameStates -> Hooks]
  /\ \A s \in GameStates : gsTold[s] # "none" <=> s \in Range(gsStack)
  /\ \A s \in Constructing : gsTold[s] = "none"

ParentsInv == \A s \in Range(gsStack) \cup Constructing : gsParent[s] # NoState => Below(gsStack, gsParent[s], s)

HooksInv ==
  gsPhase # "destroy" => \A i \in DOMAIN gsStack : gsStack[i] \notin gsSkewed =>
    (gsTold[gsStack[i]] = "leave_push" <=> i # Len(gsStack) \/ \E c \in Constructing : gsParent[c] = gsStack[i])

StatesInv == CallsInv /\ StackInv /\ ParentsInv /\ HooksInv

\* The last element of a sequence and those before.
LEMMA FrontIs ==
  ASSUME NEW S, NEW s \in Seq(S), s # <<>>
  PROVE  /\ Len(s) \in Nat \ {0} /\ Last(s) = s[Len(s)] /\ Last(s) \in S
         /\ Front(s) \in Seq(S) /\ Len(Front(s)) = Len(s) - 1 /\ DOMAIN Front(s) = 1 .. Len(s) - 1
         /\ \A i \in 1 .. Len(s) - 1 : Front(s)[i] = s[i]
<1>1. PICK n \in Nat : Len(s) = n + 1 /\ DOMAIN s = 1 .. n + 1
  <2>1. Len(s) \in Nat /\ Len(s) # 0
    OBVIOUS
  <2>2. PICK n \in Nat : Len(s) = n + 1
    <3>1. Len(s) - 1 \in Nat /\ Len(s) = (Len(s) - 1) + 1
      BY <2>1
    <3> QED BY <3>1
  <2>3. DOMAIN s = 1 .. Len(s)
    OBVIOUS
  <2> QED BY <2>2, <2>3
<1>2. \A i \in 1 .. n : s[i] \in S
  BY <1>1
<1>3. /\ SubSeq(s, 1, n) \in Seq(S) /\ Len(SubSeq(s, 1, n)) = (IF 1 <= n THEN n - 1 + 1 ELSE 0)
      /\ \A i \in 1 .. n - 1 + 1 : SubSeq(s, 1, n)[i] = s[1 + i - 1]
  BY <1>2, SubSeqProperties
<1>4. Front(s) = SubSeq(s, 1, n) /\ Last(s) = s[n + 1]
  BY <1>1 DEF Front, Last
<1>5. SubSeq(s, 1, n) \in Seq(S) /\ Len(SubSeq(s, 1, n)) = n /\ \A i \in 1 .. n : SubSeq(s, 1, n)[i] = s[i]
  BY <1>3
<1>6. n + 1 \in 1 .. n + 1 /\ n + 1 \in Nat \ {0}
  OBVIOUS
<1> QED BY <1>1, <1>4, <1>5, <1>6

\* A sequence with one more at its end.
LEMMA AppendedIs ==
  ASSUME NEW S, NEW s \in Seq(S), NEW x \in S, NEW n \in Nat, n = Len(s)
  PROVE  /\ Append(s, x) \in Seq(S) /\ Len(Append(s, x)) = n + 1 /\ DOMAIN Append(s, x) = 1 .. n + 1
         /\ Append(s, x)[n + 1] = x /\ \A i \in 1 .. n : Append(s, x)[i] = s[i]
         /\ \A i \in 1 .. n + 1 : i \in 1 .. n \/ i = n + 1
         /\ Range(Append(s, x)) = Range(s) \cup {x}
<1>1. PICK a : a = Append(s, x)
  OBVIOUS
<1>2. a \in Seq(S) /\ Len(a) = n + 1 /\ a[n + 1] = x /\ (\A i \in 1 .. n : a[i] = s[i]) /\ DOMAIN a = 1 .. n + 1 /\ DOMAIN s = 1 .. n
  BY <1>1, AppendProperties
<1>3. \A i \in 1 .. n + 1 : i \in 1 .. n \/ i = n + 1
  OBVIOUS
<1>4. 1 .. n \subseteq 1 .. n + 1 /\ n + 1 \in 1 .. n + 1
  OBVIOUS
<1>5. Range(a) = Range(s) \cup {x}
  BY <1>2, <1>3, <1>4 DEF Range
<1> QED BY <1>1, <1>2, <1>3, <1>5

\* A call more, and the innermost one done.
LEMMA CallPushed ==
  ASSUME CallsInv, NEW c \in Calls, gsCalls' = Append(gsCalls, c), c.call # "phase", c.at = "last", gsPhase' # "destroy",
         c.call = "construct" => c.state \notin Constructing,
         \A k \in DOMAIN gsCalls : gsCalls[k].at = "first" => gsCalls[k].state \in Range(gsStack')
  PROVE  CallsInv' /\ Constructing' = Constructing \cup (IF c.call = "construct" THEN {c.state} ELSE {})
<1>1. PICK n \in Nat : n = Len(gsCalls) /\ DOMAIN gsCalls = 1 .. n /\ gsCalls \in Seq(Calls)
  BY DEF CallsInv
<1>2. /\ gsCalls' \in Seq(Calls) /\ DOMAIN gsCalls' = 1 .. n + 1 /\ gsCalls'[n + 1] = c
      /\ (\A i \in 1 .. n : gsCalls'[i] = gsCalls[i]) /\ \A i \in 1 .. n + 1 : i \in 1 .. n \/ i = n + 1
  BY <1>1, AppendedIs
<1>3. 1 .. n \subseteq 1 .. n + 1 /\ n + 1 \in 1 .. n + 1
  OBVIOUS
<1>4. \A k \in 1 .. n + 1 : gsCalls'[k].call = "phase" => k = 1
  BY <1>1, <1>2 DEF CallsInv
<1>5. \A k \in 1 .. n + 1 : gsCalls'[k].at = "first" => gsCalls'[k].call = "phase" /\ gsCalls'[k].state \in Range(gsStack')
  <2>1. c.at # "first"
    OBVIOUS
  <2> QED BY <1>1, <1>2, <2>1 DEF CallsInv
<1>6. \A k \in 1 .. n : gsCalls[k].call = "construct" => gsCalls[k].state \in Constructing
  BY <1>1 DEF Constructing
<1>7. ASSUME NEW j \in 1 .. n + 1, NEW k \in 1 .. n + 1,
             gsCalls'[j].call = "construct", gsCalls'[k].call = "construct", gsCalls'[j].state = gsCalls'[k].state
      PROVE  j = k
  <2>1. CASE j = n + 1
    BY <1>2, <1>6, <1>7, <2>1
  <2>2. CASE k = n + 1
    BY <1>2, <1>6, <1>7, <2>2
  <2>3. CASE j \in 1 .. n /\ k \in 1 .. n
    BY <1>1, <1>2, <1>7, <2>3 DEF CallsInv
  <2> QED BY <1>2, <2>1, <2>2, <2>3
<1>8. CallsInv'
  BY <1>2, <1>4, <1>5, <1>7 DEF CallsInv
<1>9. Constructing' = Constructing \cup (IF c.call = "construct" THEN {c.state} ELSE {})
  <2>1. \A x \in Constructing' : x \in Constructing \cup (IF c.call = "construct" THEN {c.state} ELSE {})
    BY <1>1, <1>2 DEF Constructing
  <2>2. \A x \in Constructing : x \in Constructing'
    BY <1>1, <1>2, <1>3 DEF Constructing
  <2>3. c.call = "construct" => c.state \in Constructing'
    BY <1>2, <1>3 DEF Constructing
  <2> QED BY <2>1, <2>2, <2>3
<1> QED BY <1>8, <1>9

LEMMA CallPopped ==
  ASSUME CallsInv, gsCalls # <<>>, gsCalls' = Front(gsCalls), gsPhase' # "destroy", Range(gsStack) \subseteq Range(gsStack')
  PROVE  CallsInv' /\ Constructing' = Constructing \ (IF Last(gsCalls).call = "construct" THEN {Last(gsCalls).state} ELSE {})
<1> DEFINE c == Last(gsCalls)
<1>1. PICK n \in Nat : n + 1 = Len(gsCalls) /\ DOMAIN gsCalls = 1 .. n + 1 /\ gsCalls \in Seq(Calls)
  <2>1. gsCalls \in Seq(Calls)
    BY DEF CallsInv
  <2>2. Len(gsCalls) \in Nat /\ Len(gsCalls) # 0
    BY <2>1
  <2>3. PICK n \in Nat : n + 1 = Len(gsCalls)
    <3>1. Len(gsCalls) - 1 \in Nat /\ Len(gsCalls) = (Len(gsCalls) - 1) + 1
      BY <2>2
    <3> QED BY <3>1
  <2>4. DOMAIN gsCalls = 1 .. Len(gsCalls)
    BY <2>1
  <2> QED BY <2>1, <2>3, <2>4
<1>2. gsCalls' \in Seq(Calls) /\ DOMAIN gsCalls' = 1 .. n /\ c = gsCalls[n + 1] /\ \A i \in 1 .. n : gsCalls'[i] = gsCalls[i]
  <2>1. /\ Last(gsCalls) = gsCalls[Len(gsCalls)] /\ Front(gsCalls) \in Seq(Calls) /\ DOMAIN Front(gsCalls) = 1 .. Len(gsCalls) - 1
        /\ \A i \in 1 .. Len(gsCalls) - 1 : Front(gsCalls)[i] = gsCalls[i]
    BY <1>1, FrontIs
  <2> QED BY <1>1, <2>1
<1> HIDE DEF c
<1>3. 1 .. n \subseteq 1 .. n + 1 /\ n + 1 \in 1 .. n + 1 /\ n + 1 \notin 1 .. n /\ \A i \in 1 .. n + 1 : i \in 1 .. n \/ i = n + 1
  OBVIOUS
<1>4. CallsInv'
  BY <1>1, <1>2, <1>3 DEF CallsInv
<1>5. Constructing' = Constructing \ (IF c.call = "construct" THEN {c.state} ELSE {})
  <2>1. \A x \in Constructing' : x \in Constructing
    BY <1>1, <1>2, <1>3 DEF Constructing
  <2>2. c.call = "construct" => c.state \notin Constructing'
    <3> SUFFICES ASSUME c.call = "construct", NEW k \in 1 .. n, gsCalls'[k].call = "construct", gsCalls'[k].state = c.state PROVE FALSE
      BY <1>2 DEF Constructing
    <3> QED BY <1>1, <1>2, <1>3 DEF CallsInv
  <2>3. \A x \in Constructing : x \in Constructing' \/ (c.call = "construct" /\ x = c.state)
    BY <1>1, <1>2, <1>3 DEF Constructing
  <2> QED BY <2>1, <2>2, <2>3
<1> QED BY <1>4, <1>5 DEF c

\* What leaves the states as they are.
LEMMA StatesKept ==
  ASSUME StatesInv, CallsInv', UNCHANGED stateVars, Constructing' = Constructing, gsPhase' # "destroy" => gsPhase # "destroy"
  PROVE  StatesInv'
<1>1. UNCHANGED <<gsStack, gsParent, gsTold, gsSkewed>>
  BY DEF stateVars
<1> QED BY <1>1 DEF StatesInv, StackInv, ParentsInv, HooksInv

LEMMA ConstructingStates == ASSUME CallsInv PROVE Constructing \subseteq GameStates
<1>1. gsCalls \in Seq(Calls) /\ DOMAIN gsCalls = 1 .. Len(gsCalls)
  BY DEF CallsInv
<1>2. \A k \in DOMAIN gsCalls : gsCalls[k] \in Calls
  BY <1>1
<1>3. \A k \in DOMAIN gsCalls : gsCalls[k].state \in GameStates
  BY <1>2 DEF Calls
<1> QED BY <1>3 DEF Constructing

LEMMA EnterGameStateStep == ASSUME StatesInv, NEW s \in GameStates, Enter(s) PROVE StatesInv'
<1>1. /\ gsTold[s] = "none" /\ (\A k \in DOMAIN gsCalls : gsCalls[k].state # s) /\ gsPhase # "destroy"
      /\ gsTold' = (IF Current = NoState THEN gsTold ELSE [gsTold EXCEPT ![Current] = "leave_push"])
      /\ gsParent' = [gsParent EXCEPT ![s] = Current]
      /\ gsCalls' = Append(gsCalls, [call |-> "construct", state |-> s, at |-> "last"])
      /\ UNCHANGED <<gsStack, gsSkewed, gsPhase>>
  BY DEF Enter, MayEnter
<1>2. PICK c \in Calls : c = [call |-> "construct", state |-> s, at |-> "last"]
  BY DEF Calls
<1>3. s \notin Constructing /\ s \notin Range(gsStack)
  BY <1>1 DEF Constructing, StatesInv, StackInv
<1>4. CallsInv' /\ Constructing' = Constructing \cup {s}
  <2>1. gsPhase' # "destroy" /\ gsCalls' = Append(gsCalls, c) /\ c.call = "construct" /\ c.at = "last" /\ c.state = s
    BY <1>1, <1>2
  <2>2. CallsInv /\ \A k \in DOMAIN gsCalls : gsCalls[k].at = "first" => gsCalls[k].state \in Range(gsStack')
    BY <1>1 DEF StatesInv, CallsInv
  <2>3. CallsInv' /\ Constructing' = Constructing \cup (IF c.call = "construct" THEN {c.state} ELSE {})
    BY <1>3, <2>1, <2>2, CallPushed
  <2> QED BY <2>1, <2>3
<1>5. PICK n \in Nat : n = Len(gsStack) /\ DOMAIN gsStack = 1 .. n /\ gsStack \in Seq(GameStates)
  BY DEF StatesInv, StackInv
<1>6. /\ \A i, j \in 1 .. n : gsStack[i] = gsStack[j] => i = j
      /\ \A i \in 1 .. n : gsStack[i] \in GameStates /\ gsStack[i] # NoState /\ gsStack[i] # s /\ gsStack[i] \in Range(gsStack)
  <2>1. \A i, j \in 1 .. n : gsStack[i] = gsStack[j] => i = j
    BY <1>5 DEF StatesInv, StackInv
  <2>2. \A i \in 1 .. n : gsStack[i] \in GameStates /\ gsStack[i] \in Range(gsStack)
    BY <1>5 DEF Range
  <2> QED BY <1>3, <2>1, <2>2, GameStatesAssumption
<1>7. CASE n = 0
  <2>1. gsStack = <<>> /\ Current = NoState /\ Range(gsStack) = {}
    BY <1>5, <1>7 DEF Current, Range
  <2>2. gsTold' = gsTold /\ gsParent' \in [GameStates -> GameStates \cup {NoState}] /\ gsParent'[s] = NoState
        /\ \A x \in GameStates \ {s} : gsParent'[x] = gsParent[x]
    BY <1>1, <2>1 DEF StatesInv, StackInv
  <2>3. StackInv'
    BY <1>1, <1>4, <2>2 DEF StatesInv, StackInv
  <2>4. ParentsInv'
    <3>1. \A x \in Constructing : x \in GameStates /\ gsParent[x] = NoState
      <4>1. Constructing \subseteq GameStates
        BY ConstructingStates DEF StatesInv
      <4>2. \A p, x : ~ Below(gsStack, p, x)
        BY <1>5, <1>7 DEF Below
      <4> QED BY <4>1, <4>2 DEF StatesInv, ParentsInv
    <3> QED BY <1>1, <1>4, <2>1, <2>2, <3>1 DEF ParentsInv
  <2>5. HooksInv'
    BY <1>1, <1>5, <1>7 DEF HooksInv
  <2> QED BY <1>4, <2>3, <2>4, <2>5 DEF StatesInv
<1>8. CASE n > 0
  <2>1. n \in 1 .. n /\ Current = gsStack[n] /\ gsStack # <<>>
    BY <1>5, <1>8 DEF Current, Last
  <2>2. Current \in GameStates /\ Current # NoState /\ Current # s /\ Current \in Range(gsStack)
    BY <1>6, <2>1
  <2>3. gsParent \in [GameStates -> GameStates \cup {NoState}] /\ gsTold \in [GameStates -> Hooks]
    BY DEF StatesInv, StackInv
  <2>4. /\ gsTold' \in [GameStates -> Hooks] /\ gsTold'[Current] = "leave_push"
        /\ \A x \in GameStates \ {Current} : gsTold'[x] = gsTold[x]
        /\ gsParent' \in [GameStates -> GameStates \cup {NoState}] /\ gsParent'[s] = Current
        /\ \A x \in GameStates \ {s} : gsParent'[x] = gsParent[x]
    BY <1>1, <2>2, <2>3 DEF Hooks
  <2>5. Constructing \subseteq GameStates
    BY ConstructingStates DEF StatesInv
  <2>6. StackInv'
    <3>1. \A x \in GameStates : gsTold'[x] # "none" <=> x \in Range(gsStack)
      BY <2>2, <2>4 DEF StatesInv, StackInv
    <3>2. \A x \in Constructing \cup {s} : gsTold'[x] = "none"
      BY <1>1, <2>2, <2>4, <2>5 DEF StatesInv, StackInv
    <3> QED BY <1>1, <1>4, <2>4, <3>1, <3>2 DEF StatesInv, StackInv
  <2>7. ParentsInv'
    <3>1. \A x \in Range(gsStack) \cup Constructing : x \in GameStates \ {s}
      BY <1>3, <1>5, <2>5 DEF Range
    <3>2. Below(gsStack, Current, s)
      BY <1>5, <1>6, <2>1 DEF Below
    <3> QED BY <1>1, <1>4, <2>4, <3>1, <3>2 DEF StatesInv, ParentsInv
  <2>8. HooksInv'
    <3> SUFFICES ASSUME NEW i \in 1 .. n, gsStack[i] \notin gsSkewed
                 PROVE  gsTold'[gsStack[i]] = "leave_push" <=> i # n \/ \E c2 \in Constructing' : gsParent'[c2] = gsStack[i]
      BY <1>1, <1>5 DEF HooksInv
    <3>1. CASE i = n
      BY <1>4, <2>1, <2>4, <3>1
    <3>2. CASE i # n
      <4>1. gsTold[gsStack[i]] = "leave_push"
        BY <1>1, <1>5, <3>2 DEF StatesInv, HooksInv
      <4>2. gsStack[i] # Current /\ gsStack[i] \in GameStates
        BY <1>6, <2>1, <3>2
      <4> QED BY <2>4, <3>2, <4>1, <4>2
    <3> QED BY <3>1, <3>2
  <2> QED BY <1>4, <2>6, <2>7, <2>8 DEF StatesInv
<1> QED BY <1>5, <1>7, <1>8

\* The state whose constructor returns or throws.
LEMMA InnermostConstruct ==
  ASSUME StatesInv, Innermost.call = "construct"
  PROVE  /\ gsCalls # <<>> /\ Innermost = Last(gsCalls) /\ gsPhase # "destroy"
         /\ Innermost.state \in Constructing /\ Innermost.state \in GameStates \ Range(gsStack)
<1>1. gsCalls # <<>> /\ Innermost = Last(gsCalls)
  BY DEF Innermost
<1>2. Len(gsCalls) \in Nat \ {0} /\ Last(gsCalls) = gsCalls[Len(gsCalls)] /\ Last(gsCalls) \in Calls
  BY <1>1, FrontIs DEF StatesInv, CallsInv
<1>3. Len(gsCalls) \in DOMAIN gsCalls
  <2>1. DOMAIN gsCalls = 1 .. Len(gsCalls)
    BY DEF StatesInv, CallsInv
  <2> QED BY <1>2, <2>1
<1>4. Innermost.state \in Constructing /\ Innermost.state \in GameStates
  BY <1>1, <1>2, <1>3 DEF Constructing, Calls
<1>5. gsTold[Innermost.state] = "none"
  BY <1>4 DEF StatesInv, StackInv
<1>6. Innermost.state \notin Range(gsStack)
  BY <1>4, <1>5 DEF StatesInv, StackInv
<1>7. gsPhase # "destroy"
  BY <1>1 DEF StatesInv, CallsInv
<1> QED BY <1>1, <1>4, <1>6, <1>7

LEMMA ConstructedStep == ASSUME StatesInv, Constructed PROVE StatesInv'
<1>0. Innermost.call = "construct"
  BY DEF Constructed
<1>1. PICK s \in GameStates : s = Innermost.state /\ s \in Constructing /\ s \notin Range(gsStack)
  BY <1>0, InnermostConstruct
<1>2. /\ gsStack' = Append(gsStack, s) /\ gsTold' = [gsTold EXCEPT ![s] = "enter"]
      /\ gsSkewed' = (IF gsParent[s] # Current THEN gsSkewed \cup {Current} ELSE gsSkewed)
      /\ gsCalls' = Front(gsCalls) /\ UNCHANGED <<gsParent, gsPhase>>
  BY <1>1 DEF Constructed
<1>3. gsCalls # <<>> /\ Innermost = Last(gsCalls) /\ gsPhase # "destroy"
  BY <1>0, InnermostConstruct
<1>4. PICK n \in Nat : n = Len(gsStack) /\ DOMAIN gsStack = 1 .. n /\ gsStack \in Seq(GameStates)
  BY DEF StatesInv, StackInv
<1>5. /\ gsStack' \in Seq(GameStates) /\ Len(gsStack') = n + 1 /\ DOMAIN gsStack' = 1 .. n + 1
      /\ gsStack'[n + 1] = s /\ (\A i \in 1 .. n : gsStack'[i] = gsStack[i])
      /\ (\A i \in 1 .. n + 1 : i \in 1 .. n \/ i = n + 1) /\ Range(gsStack') = Range(gsStack) \cup {s}
  BY <1>2, <1>4, AppendedIs
<1>6. CallsInv' /\ Constructing' = Constructing \ {s}
  <2>1. CallsInv' /\ Constructing' = Constructing \ (IF Last(gsCalls).call = "construct" THEN {Last(gsCalls).state} ELSE {})
    BY <1>2, <1>3, <1>5, CallPopped DEF StatesInv
  <2> QED BY <1>0, <1>1, <1>3, <2>1
<1>7. /\ \A i, j \in 1 .. n : gsStack[i] = gsStack[j] => i = j
      /\ \A i \in 1 .. n : gsStack[i] \in GameStates /\ gsStack[i] # s /\ gsStack[i] \in Range(gsStack)
  BY <1>1, <1>4 DEF StatesInv, StackInv, Range
<1>8. gsTold \in [GameStates -> Hooks] /\ Constructing \subseteq GameStates
  BY ConstructingStates DEF StatesInv, StackInv
<1>9. gsTold' \in [GameStates -> Hooks] /\ gsTold'[s] = "enter" /\ \A x \in GameStates \ {s} : gsTold'[x] = gsTold[x]
  BY <1>2, <1>8 DEF Hooks
<1>10. 1 .. n \subseteq 1 .. n + 1 /\ n + 1 \in 1 .. n + 1
  OBVIOUS
<1>11. StackInv'
  <2>1. \A i, j \in 1 .. n + 1 : gsStack'[i] = gsStack'[j] => i = j
    BY <1>5, <1>7
  <2>2. \A x \in GameStates : gsTold'[x] # "none" <=> x \in Range(gsStack')
    BY <1>5, <1>9 DEF StatesInv, StackInv
  <2>3. \A x \in Constructing' : gsTold'[x] = "none"
    BY <1>6, <1>8, <1>9 DEF StatesInv, StackInv
  <2> QED BY <1>2, <1>5, <1>9, <2>1, <2>2, <2>3 DEF StatesInv, StackInv
<1>12. \A p, x : Below(gsStack, p, x) => Below(gsStack', p, x)
  <2> SUFFICES ASSUME NEW p, NEW x, NEW i \in 1 .. n, gsStack[i] = p, \A j \in 1 .. i : gsStack[j] # x
               PROVE  Below(gsStack', p, x)
    BY <1>4 DEF Below
  <2>1. \A j \in 1 .. i : j \in 1 .. n
    OBVIOUS
  <2>2. \A j \in 1 .. i : gsStack'[j] # x
    BY <1>5, <2>1
  <2> QED BY <1>5, <1>10, <2>2 DEF Below
<1>13. ParentsInv'
  <2>1. Range(gsStack') \cup Constructing' = Range(gsStack) \cup Constructing
    BY <1>1, <1>5, <1>6
  <2> QED BY <1>2, <1>12, <2>1 DEF StatesInv, ParentsInv
<1>14. HooksInv'
  <2> SUFFICES ASSUME NEW i \in 1 .. n + 1, gsStack'[i] \notin gsSkewed'
               PROVE  gsTold'[gsStack'[i]] = "leave_push" <=> i # n + 1 \/ \E c \in Constructing' : gsParent'[c] = gsStack'[i]
    BY <1>5 DEF HooksInv
  <2>1. CASE i = n + 1
    <3>1. ASSUME NEW c \in Constructing, gsParent[c] = s PROVE FALSE
      <4>1. Below(gsStack, s, c)
        BY <1>1, <3>1, GameStatesAssumption DEF StatesInv, ParentsInv
      <4> QED BY <1>1, <1>4, <4>1 DEF Below, Range
    <3> QED BY <1>2, <1>5, <1>6, <1>9, <2>1, <3>1
  <2>2. CASE i \in 1 .. n /\ i # n
    <3>1. gsStack[i] \notin gsSkewed
      BY <1>2, <1>5, <2>2
    <3>2. gsTold[gsStack[i]] = "leave_push"
      BY <1>3, <1>4, <2>2, <3>1 DEF StatesInv, HooksInv
    <3>3. gsTold'[gsStack'[i]] = "leave_push" /\ i # n + 1
      BY <1>5, <1>7, <1>9, <2>2, <3>2
    <3> QED BY <3>3
  <2>3. CASE i = n /\ i \in 1 .. n
    <3>1. Current = gsStack[n]
      BY <1>4, <2>3 DEF Current, Last
    <3>2. gsStack[n] \notin gsSkewed /\ gsParent[s] = gsStack[n]
      BY <1>2, <1>5, <2>3, <3>1
    <3>3. gsTold[gsStack[n]] = "leave_push"
      BY <1>1, <1>3, <1>4, <2>3, <3>2 DEF StatesInv, HooksInv
    <3>4. gsTold'[gsStack'[n]] = "leave_push" /\ n # n + 1
      BY <1>5, <1>7, <1>9, <2>3, <3>3
    <3> QED BY <2>3, <3>4
  <2> QED BY <1>5, <2>1, <2>2, <2>3
<1> QED BY <1>6, <1>11, <1>13, <1>14 DEF StatesInv

LEMMA StateThrowsStep == ASSUME StatesInv, StateThrows PROVE StatesInv'
<1>0. Innermost.call = "construct"
  BY DEF StateThrows
<1>1. PICK s \in GameStates : s = Innermost.state /\ s \in Constructing /\ s \notin Range(gsStack)
  BY <1>0, InnermostConstruct
<1>2. /\ gsSkewed' = (IF gsParent[s] = Current /\ Current # NoState THEN gsSkewed \cup {Current} ELSE gsSkewed)
      /\ gsParent' = [gsParent EXCEPT ![s] = NoState]
      /\ gsCalls' = Front(gsCalls) /\ UNCHANGED <<gsStack, gsTold, gsPhase>>
  BY <1>1 DEF StateThrows
<1>3. gsCalls # <<>> /\ Innermost = Last(gsCalls) /\ gsPhase # "destroy"
  BY <1>0, InnermostConstruct
<1>4. CallsInv' /\ Constructing' = Constructing \ {s}
  <2>1. CallsInv' /\ Constructing' = Constructing \ (IF Last(gsCalls).call = "construct" THEN {Last(gsCalls).state} ELSE {})
    BY <1>2, <1>3, CallPopped DEF StatesInv
  <2> QED BY <1>0, <1>1, <1>3, <2>1
<1>5. PICK n \in Nat : n = Len(gsStack) /\ DOMAIN gsStack = 1 .. n /\ gsStack \in Seq(GameStates)
  BY DEF StatesInv, StackInv
<1>6. gsParent \in [GameStates -> GameStates \cup {NoState}] /\ Constructing \subseteq GameStates
  BY ConstructingStates DEF StatesInv, StackInv
<1>7. gsParent' \in [GameStates -> GameStates \cup {NoState}] /\ gsParent'[s] = NoState
      /\ \A x \in GameStates \ {s} : gsParent'[x] = gsParent[x]
  BY <1>2, <1>6
<1>8. StackInv'
  BY <1>2, <1>4, <1>7 DEF StatesInv, StackInv
<1>9. Range(gsStack) \subseteq GameStates
  BY <1>5 DEF Range
<1>10. ParentsInv'
  BY <1>2, <1>4, <1>6, <1>7, <1>9 DEF StatesInv, ParentsInv
<1>11. HooksInv'
  <2> SUFFICES ASSUME NEW i \in 1 .. n, gsStack[i] \notin gsSkewed'
               PROVE  gsTold[gsStack[i]] = "leave_push" <=> i # n \/ \E c \in Constructing' : gsParent'[c] = gsStack[i]
    BY <1>2, <1>5 DEF HooksInv
  <2>1. gsStack[i] \notin gsSkewed
    BY <1>2
  <2>2. gsTold[gsStack[i]] = "leave_push" <=> i # n \/ \E c \in Constructing : gsParent[c] = gsStack[i]
    BY <1>3, <1>5, <2>1 DEF StatesInv, HooksInv
  <2>3. CASE i # n
    BY <2>2, <2>3
  <2>4. CASE i = n
    <3>1. Current = gsStack[n] /\ Current # NoState
      BY <1>5, <2>4, GameStatesAssumption DEF Current, Last
    <3>2. gsParent[s] # gsStack[n]
      BY <1>2, <2>4, <3>1
    <3>3. (\E c \in Constructing : gsParent[c] = gsStack[i]) <=> (\E c \in Constructing' : gsParent'[c] = gsStack[i])
      BY <1>4, <1>6, <1>7, <2>4, <3>2
    <3> QED BY <2>2, <3>3
  <2> QED BY <2>3, <2>4
<1> QED BY <1>4, <1>8, <1>10, <1>11 DEF StatesInv

\* Without the state on top the others have their parents.
LEMMA TopGone ==
  ASSUME StatesInv, Constructing = {}, gsStack # <<>>, gsStack' = Front(gsStack), gsParent' = [gsParent EXCEPT ![Current] = NoState],
         Constructing' = {}, NEW n \in Nat, n = Len(gsStack)
  PROVE  /\ n > 0 /\ Current = gsStack[n] /\ Current \in GameStates /\ Range(gsStack) = Range(gsStack') \cup {Current} /\ Current \notin Range(gsStack')
         /\ gsStack' \in Seq(GameStates) /\ DOMAIN gsStack' = 1 .. n - 1 /\ Len(gsStack') = n - 1
         /\ (\A i \in 1 .. n - 1 : gsStack'[i] = gsStack[i]) /\ \A i, j \in DOMAIN gsStack' : gsStack'[i] = gsStack'[j] => i = j
         /\ gsParent' \in [GameStates -> GameStates \cup {NoState}] /\ ParentsInv'
<1>1. gsStack \in Seq(GameStates) /\ DOMAIN gsStack = 1 .. n /\ \A i, j \in 1 .. n : gsStack[i] = gsStack[j] => i = j
  BY DEF StatesInv, StackInv
<1>2. n \in Nat \ {0} /\ Current = gsStack[n] /\ Current \in GameStates /\ n \in 1 .. n
      /\ gsStack' \in Seq(GameStates) /\ DOMAIN gsStack' = 1 .. n - 1 /\ Len(gsStack') = n - 1
      /\ \A i \in 1 .. n - 1 : gsStack'[i] = gsStack[i]
  BY <1>1, FrontIs DEF Current
<1>3. 1 .. n - 1 \subseteq 1 .. n /\ n \notin 1 .. n - 1 /\ \A i \in 1 .. n : i \in 1 .. n - 1 \/ i = n
  BY <1>2
<1>4. \A i, j \in 1 .. n - 1 : gsStack'[i] = gsStack'[j] => i = j
  BY <1>1, <1>2, <1>3
<1>5. Current \notin Range(gsStack')
  BY <1>1, <1>2, <1>3 DEF Range
<1>6. Range(gsStack) = Range(gsStack') \cup {Current}
  <2>1. \A x \in Range(gsStack) : x \in Range(gsStack') \/ x = Current
    BY <1>1, <1>2, <1>3 DEF Range
  <2>2. \A x \in Range(gsStack') : x \in Range(gsStack)
    BY <1>1, <1>2, <1>3 DEF Range
  <2>3. Current \in Range(gsStack)
    BY <1>1, <1>2 DEF Range
  <2> QED BY <2>1, <2>2, <2>3
<1>7. gsParent' \in [GameStates -> GameStates \cup {NoState}] /\ \A x \in GameStates \ {Current} : gsParent'[x] = gsParent[x]
  BY DEF StatesInv, StackInv
<1>8. ParentsInv'
  <2> SUFFICES ASSUME NEW k \in 1 .. n - 1, gsParent'[gsStack[k]] # NoState
               PROVE  Below(gsStack', gsParent'[gsStack[k]], gsStack[k])
    BY <1>2 DEF ParentsInv, Range
  <2> DEFINE x == gsStack[k]
  <2>1. k \in 1 .. n /\ x \in GameStates \ {Current} /\ x \in Range(gsStack)
    BY <1>1, <1>2, <1>3 DEF Range
  <2>2. gsParent'[x] = gsParent[x] /\ Below(gsStack, gsParent[x], x)
    BY <1>7, <2>1 DEF StatesInv, ParentsInv
  <2>3. PICK i \in 1 .. n : gsStack[i] = gsParent[x] /\ \A j \in 1 .. i : gsStack[j] # x
    BY <1>1, <2>2 DEF Below
  <2>4. i < k
    BY <2>3
  <2>5. i \in 1 .. n - 1 /\ \A j \in 1 .. i : j \in 1 .. n - 1
    BY <2>4
  <2>6. gsStack'[i] = gsParent[x] /\ \A j \in 1 .. i : gsStack'[j] # x
    BY <1>2, <2>3, <2>5
  <2> QED BY <1>2, <2>2, <2>5, <2>6 DEF Below
<1> QED BY <1>2, <1>4, <1>5, <1>6, <1>7, <1>8

LEMMA PopStep == ASSUME StatesInv, Pop PROVE StatesInv'
<1> DEFINE n == Len(gsStack)
           below == gsStack[n - 1]
<1>1. /\ gsStack \in Seq(GameStates) /\ n \in Nat /\ n > 1 /\ gsPhase # "destroy" /\ DOMAIN gsStack = 1 .. n
      /\ gsStack' = Front(gsStack)
      /\ gsTold' = [gsTold EXCEPT ![Current] = "none", ![below] = "reenter"]
      /\ gsParent' = [gsParent EXCEPT ![Current] = NoState]
      /\ gsSkewed' = gsSkewed \ {Current, below}
      /\ gsCalls' = Append(gsCalls, [call |-> "reenter", state |-> below, at |-> "last"])
      /\ gsPhase' = gsPhase
  BY DEF Pop, MayPop, MayEnter, StatesInv, StackInv
<1>2. gsCalls = <<>> \/ (Len(gsCalls) = 1 /\ gsCalls[1].call = "phase" /\ gsCalls[1].at = "last")
  <2>1. gsCalls = <<>> \/ (Len(gsCalls) = 1 /\ Innermost.call = "phase" /\ Innermost.at = "last")
    BY DEF Pop, MayPop
  <2>2. Len(gsCalls) = 1 => gsCalls # <<>>
    OBVIOUS
  <2>3. Len(gsCalls) = 1 => Innermost = gsCalls[1]
    BY <2>2 DEF Innermost, Last
  <2> QED BY <2>1, <2>3
<1>3. \A k \in DOMAIN gsCalls : gsCalls[k].call = "phase" /\ gsCalls[k].at = "last"
  <2>1. DOMAIN gsCalls = 1 .. Len(gsCalls)
    BY DEF StatesInv, CallsInv
  <2> QED BY <1>2, <2>1
<1>4. Constructing = {}
  BY <1>3 DEF Constructing
<1>5. n - 1 \in 1 .. n /\ n \in 1 .. n /\ below \in GameStates /\ gsStack # <<>>
  BY <1>1
<1>6. CallsInv' /\ Constructing' = {}
  <2>1. PICK c \in Calls : c = [call |-> "reenter", state |-> below, at |-> "last"]
    BY <1>5 DEF Calls
  <2>2. c.call = "reenter" /\ c.at = "last" /\ gsCalls' = Append(gsCalls, c)
    BY <1>1, <2>1
  <2>3. CallsInv /\ \A k \in DOMAIN gsCalls : gsCalls[k].at = "first" => gsCalls[k].state \in Range(gsStack')
    BY <1>3 DEF StatesInv
  <2>4. CallsInv' /\ Constructing' = Constructing \cup (IF c.call = "construct" THEN {c.state} ELSE {})
    BY <1>1, <2>2, <2>3, CallPushed
  <2> QED BY <1>4, <2>2, <2>4
<1>7. /\ Current = gsStack[n] /\ Current \in GameStates /\ Range(gsStack) = Range(gsStack') \cup {Current} /\ Current \notin Range(gsStack')
      /\ gsStack' \in Seq(GameStates) /\ DOMAIN gsStack' = 1 .. n - 1 /\ Len(gsStack') = n - 1
      /\ (\A i \in 1 .. n - 1 : gsStack'[i] = gsStack[i]) /\ \A i, j \in DOMAIN gsStack' : gsStack'[i] = gsStack'[j] => i = j
      /\ gsParent' \in [GameStates -> GameStates \cup {NoState}] /\ ParentsInv'
  BY <1>1, <1>4, <1>5, <1>6, TopGone
<1> HIDE DEF n, below
<1>8. n - 1 \in 1 .. n - 1 /\ \A i \in 1 .. n - 1 : i \in 1 .. n
  BY <1>1
<1>9. below = gsStack'[n - 1] /\ below \in Range(gsStack') /\ below # Current
  <2>1. below = gsStack'[n - 1]
    BY <1>7, <1>8 DEF below
  <2> QED BY <1>7, <1>8, <2>1 DEF Range
<1>10. /\ gsTold' \in [GameStates -> Hooks] /\ gsTold'[Current] = "none" /\ gsTold'[below] = "reenter"
       /\ \A x \in GameStates \ {Current, below} : gsTold'[x] = gsTold[x]
  <2>1. gsTold \in [GameStates -> Hooks]
    BY DEF StatesInv, StackInv
  <2> QED BY <1>1, <1>5, <1>7, <1>9, <2>1 DEF Hooks
<1>11. StackInv'
  <2>1. ASSUME NEW x \in GameStates PROVE gsTold'[x] # "none" <=> x \in Range(gsStack')
    <3>1. CASE x = Current
      BY <1>7, <1>10, <3>1
    <3>2. CASE x = below
      BY <1>9, <1>10, <3>2
    <3>3. CASE x # Current /\ x # below
      BY <1>7, <1>10, <3>3 DEF StatesInv, StackInv
    <3> QED BY <3>1, <3>2, <3>3
  <2> QED BY <1>6, <1>7, <1>10, <2>1 DEF StackInv
<1>12. HooksInv'
  <2> SUFFICES ASSUME NEW i \in 1 .. n - 1, gsStack'[i] \notin gsSkewed'
               PROVE  gsTold'[gsStack'[i]] = "leave_push" <=> i # n - 1
    BY <1>6, <1>7 DEF HooksInv
  <2>1. CASE i = n - 1
    BY <1>9, <1>10, <2>1
  <2>2. CASE i # n - 1
    <3>1. gsStack'[i] = gsStack[i] /\ i \in 1 .. n /\ i # n /\ gsStack[i] \in GameStates
      BY <1>1, <1>7, <1>8
    <3>2. gsStack[i] # Current /\ gsStack[i] # below
      BY <1>7, <1>8, <1>9, <2>2, <3>1 DEF Range
    <3>3. gsStack[i] \notin gsSkewed
      BY <1>1, <3>1, <3>2
    <3>4. gsTold[gsStack[i]] = "leave_push"
      BY <1>1, <3>1, <3>3 DEF StatesInv, HooksInv, n
    <3> QED BY <1>10, <2>2, <3>1, <3>2, <3>4
  <2> QED BY <2>1, <2>2
<1> QED BY <1>6, <1>7, <1>11, <1>12 DEF StatesInv

LEMMA DestroyStateStep == ASSUME StatesInv, DestroyState PROVE StatesInv'
<1> DEFINE n == Len(gsStack)
<1>1. /\ gsStack \in Seq(GameStates) /\ n \in Nat /\ gsPhase = "destroy" /\ gsStack # <<>> /\ gsCalls = <<>>
      /\ gsStack' = Front(gsStack) /\ gsTold' = [gsTold EXCEPT ![Current] = "none"]
      /\ gsParent' = [gsParent EXCEPT ![Current] = NoState] /\ UNCHANGED <<gsCalls, gsPhase>>
  BY DEF DestroyState, StatesInv, StackInv, CallsInv
<1>2. Constructing = {} /\ Constructing' = {}
  BY <1>1 DEF Constructing
<1>3. /\ Current = gsStack[n] /\ Current \in GameStates /\ Range(gsStack) = Range(gsStack') \cup {Current} /\ Current \notin Range(gsStack')
      /\ gsStack' \in Seq(GameStates) /\ DOMAIN gsStack' = 1 .. n - 1 /\ Len(gsStack') = n - 1
      /\ (\A i \in 1 .. n - 1 : gsStack'[i] = gsStack[i]) /\ \A i, j \in DOMAIN gsStack' : gsStack'[i] = gsStack'[j] => i = j
      /\ gsParent' \in [GameStates -> GameStates \cup {NoState}] /\ ParentsInv'
  BY <1>1, <1>2, TopGone
<1> HIDE DEF n
<1>4. gsTold' \in [GameStates -> Hooks] /\ gsTold'[Current] = "none" /\ \A x \in GameStates \ {Current} : gsTold'[x] = gsTold[x]
  <2>1. gsTold \in [GameStates -> Hooks]
    BY DEF StatesInv, StackInv
  <2> QED BY <1>1, <1>3, <2>1 DEF Hooks
<1>5. StackInv'
  <2>1. ASSUME NEW x \in GameStates PROVE gsTold'[x] # "none" <=> x \in Range(gsStack')
    <3>1. CASE x = Current
      BY <1>3, <1>4, <3>1
    <3>2. CASE x # Current
      BY <1>3, <1>4, <3>2 DEF StatesInv, StackInv
    <3> QED BY <3>1, <3>2
  <2> QED BY <1>2, <1>3, <1>4, <2>1 DEF StackInv
<1>6. CallsInv'
  BY <1>1 DEF CallsInv
<1>7. HooksInv'
  BY <1>1 DEF HooksInv
<1> QED BY <1>3, <1>5, <1>6, <1>7 DEF StatesInv

\* The calls that come and go by themselves.
LEMMA CallsStep ==
  ASSUME StatesInv, Reentered \/ CallState \/ StateGoesOn \/ StateReturns
  PROVE  StatesInv'
<1>0. UNCHANGED stateVars /\ UNCHANGED <<gsStack, gsParent, gsTold, gsSkewed>> /\ CallsInv /\ gsCalls \in Seq(Calls)
      /\ DOMAIN gsCalls = 1 .. Len(gsCalls) /\ Len(gsCalls) \in Nat
  BY DEF Reentered, CallState, StateGoesOn, StateReturns, stateVars, StatesInv, CallsInv
<1>1. CASE Reentered
  <2>1. gsCalls' = Front(gsCalls) /\ gsCalls # <<>> /\ Innermost = Last(gsCalls) /\ Last(gsCalls).call = "reenter" /\ gsPhase' = gsPhase
    BY <1>1 DEF Reentered, Innermost
  <2>2. gsPhase # "destroy"
    BY <1>0, <2>1 DEF CallsInv
  <2>3. CallsInv' /\ Constructing' = Constructing \ (IF Last(gsCalls).call = "construct" THEN {Last(gsCalls).state} ELSE {})
    BY <1>0, <2>1, <2>2, CallPopped
  <2>4. Constructing' = Constructing
    BY <2>1, <2>3
  <2> QED BY <1>0, <2>1, <2>3, <2>4, StatesKept
<1>2. CASE CallState
  <2>1. gsCalls = <<>> /\ gsPhase = "pre" /\ gsPhase' = "state"
        /\ gsCalls' = IF Current = NoState THEN <<>> ELSE <<[call |-> "phase", state |-> Current, at |-> "first"]>>
    BY <1>2 DEF CallState
  <2>2. CASE Current = NoState
    <3>1. gsCalls' = <<>>
      BY <2>1, <2>2
    <3>2. CallsInv' /\ Constructing' = Constructing
      BY <2>1, <3>1 DEF CallsInv, Constructing
    <3> QED BY <1>0, <2>1, <3>2, StatesKept
  <2>3. CASE Current # NoState
    <3>1. PICK c : c = [call |-> "phase", state |-> Current, at |-> "first"]
      OBVIOUS
    <3>2. gsCalls' = <<c>> /\ c.call = "phase" /\ c.at = "first" /\ c.state = Current
      BY <2>1, <2>3, <3>1
    <3>3. Current \in GameStates /\ Current \in Range(gsStack)
      <4>1. gsStack # <<>> /\ gsStack \in Seq(GameStates)
        BY <2>3 DEF Current, StatesInv, StackInv
      <4>2. Current = gsStack[Len(gsStack)] /\ Current \in GameStates /\ Len(gsStack) \in Nat \ {0}
        BY <4>1, FrontIs DEF Current
      <4>3. Len(gsStack) \in DOMAIN gsStack
        BY <4>1, <4>2
      <4> QED BY <4>2, <4>3 DEF Range
    <3>4. <<c>> \in Seq(Calls) /\ DOMAIN <<c>> = {1} /\ <<c>>[1] = c
      BY <3>1, <3>3 DEF Calls
    <3>5. CallsInv'
      BY <1>0, <2>1, <3>2, <3>3, <3>4 DEF CallsInv
    <3>6. Constructing' = {} /\ Constructing = {}
      BY <2>1, <3>2, <3>4 DEF Constructing
    <3> QED BY <1>0, <2>1, <3>5, <3>6, StatesKept
  <2> QED BY <2>2, <2>3
<1>3. ASSUME gsCalls # <<>>, Innermost.call = "phase"
      PROVE  Len(gsCalls) = 1 /\ Innermost = gsCalls[1] /\ DOMAIN gsCalls = {1} /\ gsCalls[1] \in Calls /\ gsCalls[1].call = "phase"
  <2>1. Len(gsCalls) \in 1 .. Len(gsCalls) /\ Innermost = gsCalls[Len(gsCalls)]
    <3>1. Innermost = Last(gsCalls)
      BY <1>3 DEF Innermost
    <3>2. Len(gsCalls) \in Nat \ {0} /\ Last(gsCalls) = gsCalls[Len(gsCalls)]
      BY <1>0, <1>3, FrontIs
    <3> QED BY <3>1, <3>2
  <2>2. Len(gsCalls) = 1
    BY <1>0, <1>3, <2>1 DEF CallsInv
  <2> QED BY <1>0, <1>3, <2>1, <2>2
<1>4. CASE StateGoesOn
  <2>1. gsCalls # <<>> /\ Innermost.call = "phase" /\ gsCalls' = [gsCalls EXCEPT ![Len(gsCalls)] = [gsCalls[Len(gsCalls)] EXCEPT !.at = "last"]]
        /\ gsPhase' = gsPhase
    BY <1>4 DEF StateGoesOn
  <2>2. Len(gsCalls) = 1 /\ DOMAIN gsCalls = {1} /\ gsCalls[1] \in Calls /\ gsCalls[1].call = "phase"
    BY <1>3, <2>1
  <2>3. PICK c : c = [gsCalls[1] EXCEPT !.at = "last"]
    OBVIOUS
  <2>4. c \in Calls /\ c.call = "phase" /\ c.at = "last"
    BY <2>2, <2>3 DEF Calls
  <2>5. gsCalls' = [gsCalls EXCEPT ![1] = c]
    BY <2>1, <2>2, <2>3
  <2>6. gsCalls' \in Seq(Calls) /\ DOMAIN gsCalls' = {1} /\ gsCalls'[1] = c
    <3>1. 1 \in 1 .. Len(gsCalls)
      BY <2>2
    <3>2. [gsCalls EXCEPT ![1] = c] \in Seq(Calls)
      BY <1>0, <2>4, <3>1, ExceptSeq
    <3> QED BY <2>2, <2>5, <3>2
  <2>7. gsPhase # "destroy"
    BY <1>0, <2>1 DEF CallsInv
  <2>8. CallsInv'
    BY <2>1, <2>4, <2>6, <2>7 DEF CallsInv
  <2>9. Constructing' = {} /\ Constructing = {}
    BY <2>2, <2>4, <2>6 DEF Constructing
  <2> QED BY <1>0, <2>1, <2>8, <2>9, StatesKept
<1>5. CASE StateReturns
  <2>1. gsCalls # <<>> /\ Innermost.call = "phase" /\ gsCalls' = <<>> /\ gsPhase' = gsPhase
    BY <1>5 DEF StateReturns
  <2>2. DOMAIN gsCalls = {1} /\ gsCalls[1].call = "phase"
    BY <1>3, <2>1
  <2>3. CallsInv'
    BY <2>1 DEF CallsInv
  <2>4. Constructing' = {} /\ Constructing = {}
    BY <2>1, <2>2 DEF Constructing
  <2> QED BY <1>0, <2>1, <2>3, <2>4, StatesKept
<1> QED BY <1>1, <1>2, <1>4, <1>5

(***************************************************************************)
(* The phases of a frame                                                   *)
(***************************************************************************)

Falling == [y \in Systems |-> -PostOrder[y]]

\* The two orders have the systems, each once, as long as a state or a frame may use them.
SystemsInv ==
  /\ gsSystems \in Seq(Systems) /\ gsPre \in Seq(Systems) /\ gsPost \in Seq(Systems)
  /\ Len(gsPost) = Len(gsPre) /\ InOrder(gsPre, PreOrder) /\ InOrder(gsPost, Falling)
  /\ gsPhase # "destroy" \/ gsStack # <<>> =>
       Len(gsSystems) = Len(gsPre) /\ Range(gsPre) = Range(gsSystems) /\ Range(gsPost) = Range(gsSystems)

CallsMade == {"pre", "state", "post"} \X (Systems \cup GameStates \cup {NoState})

\* What ran is a beginning of the one order, then the state, then a beginning of the other.
RanInv ==
  /\ gsRan \in Seq(CallsMade)
  /\ gsPhase = "pre" => Len(gsRan) <= Len(gsPre)
  /\ gsPhase = "state" => Len(gsRan) = Len(gsPre) + 1
  /\ gsPhase = "post" => Len(gsRan) \in Len(gsPre) + 1 .. 2 * Len(gsPre) + 1
  /\ gsPhase \in {"state", "post"} => gsRan[Len(gsPre) + 1][1] = "state"
  /\ gsPhase \in {"pre", "state", "post"} =>
       \A k \in 1 .. Len(gsRan) :
         /\ k <= Len(gsPre) => gsRan[k] = <<"pre", gsPre[k]>>
         /\ k > Len(gsPre) + 1 => gsRan[k] = <<"post", gsPost[k - (Len(gsPre) + 1)]>>

GsInv == StatesInv /\ SystemsInv /\ RanInv

LEMMA GsInitially == GsInit => GsInv
<1> SUFFICES ASSUME GsInit PROVE GsInv
  OBVIOUS
<1>1. /\ gsSystems = <<>> /\ gsPre = <<>> /\ gsPost = <<>> /\ gsStack = <<>> /\ gsCalls = <<>> /\ gsPhase = "setup" /\ gsRan = <<>>
      /\ gsParent = [s \in GameStates |-> NoState] /\ gsTold = [s \in GameStates |-> "none"]
  BY DEF GsInit
<1>2. \A S : <<>> \in Seq(S)
  OBVIOUS
<1>3. Range(<<>>) = {} /\ DOMAIN <<>> = {} /\ Len(<<>>) = 0
  BY DEF Range
<1>4. Constructing = {}
  BY <1>1, <1>3 DEF Constructing
<1>5. CallsInv
  BY <1>1, <1>2, <1>3 DEF CallsInv
<1>6. StackInv
  <2>1. gsParent \in [GameStates -> GameStates \cup {NoState}] /\ gsTold \in [GameStates -> Hooks] /\ \A s \in GameStates : gsTold[s] = "none"
    BY <1>1 DEF Hooks
  <2> QED BY <1>1, <1>2, <1>3, <1>4, <2>1 DEF StackInv
<1>7. ParentsInv /\ HooksInv
  BY <1>1, <1>3, <1>4 DEF ParentsInv, HooksInv
<1>8. SystemsInv
  BY <1>1, <1>2, <1>3 DEF SystemsInv, InOrder
<1>9. RanInv
  BY <1>1, <1>2 DEF RanInv
<1> QED BY <1>5, <1>6, <1>7, <1>8, <1>9 DEF GsInv, StatesInv

LEMMA AddSystemStep == ASSUME GsInv, NEW y \in Systems, AddSystem(y) PROVE GsInv'
<1> DEFINE byPre == {i \in DOMAIN gsPre : ~(PreOrder[gsPre[i]] > PreOrder[y])}
           byPost == {i \in DOMAIN gsPost : ~(PostOrder[gsPost[i]] < PostOrder[y])}
<1>1. /\ gsPhase = "setup" /\ y \notin Range(gsSystems) /\ gsSystems' = Append(gsSystems, y)
      /\ gsPre' = WithNew(gsPre, y, Cardinality(byPre)) /\ gsPost' = WithNew(gsPost, y, Cardinality(byPost))
      /\ UNCHANGED <<stateVars, gsCalls, gsPhase, gsRan>>
  BY DEF AddSystem, Sorted, WithNew
<1>2. /\ gsSystems \in Seq(Systems) /\ gsPre \in Seq(Systems) /\ gsPost \in Seq(Systems)
      /\ Len(gsPost) = Len(gsPre) /\ InOrder(gsPre, PreOrder) /\ InOrder(gsPost, Falling)
      /\ Len(gsSystems) = Len(gsPre) /\ Range(gsPre) = Range(gsSystems) /\ Range(gsPost) = Range(gsSystems)
  BY <1>1 DEF GsInv, SystemsInv
<1>3. PreOrder \in [Systems -> Int] /\ PostOrder \in [Systems -> Nat] /\ Falling \in [Systems -> Int]
  BY GameStatesAssumption DEF Falling
<1>4. byPost = {i \in DOMAIN gsPost : ~(Falling[gsPost[i]] > Falling[y])}
  <2>1. \A i \in DOMAIN gsPost : gsPost[i] \in Systems
    BY <1>2
  <2>2. \A a, b \in Systems : PostOrder[a] < PostOrder[b] <=> Falling[a] > Falling[b]
    BY <1>3 DEF Falling
  <2> QED BY <2>1, <2>2
<1>11. byPre = {i \in DOMAIN gsPre : ~(PreOrder[gsPre[i]] > PreOrder[y])} /\ y \notin Range(gsPre) /\ y \notin Range(gsPost)
  BY <1>1, <1>2
<1> HIDE DEF byPre, byPost
<1>5. gsPre' \in Seq(Systems) /\ Len(gsPre') = Len(gsPre) + 1 /\ InOrder(gsPre', PreOrder) /\ Range(gsPre') = Range(gsPre) \cup {y}
  <2>1. PICK k : k = Cardinality(NotAfter(gsPre, y, PreOrder)) /\ gsPre' = WithNew(gsPre, y, k)
    BY <1>1, <1>4, <1>11 DEF NotAfter
  <2>2. gsPre \in Seq(Systems) /\ y \in Systems /\ PreOrder \in [Systems -> Int] /\ InOrder(gsPre, PreOrder) /\ y \notin Range(gsPre)
    BY <1>2, <1>3, <1>11
  <2>3. /\ WithNew(gsPre, y, k) \in Seq(Systems) /\ Len(WithNew(gsPre, y, k)) = Len(gsPre) + 1
        /\ InOrder(WithNew(gsPre, y, k), PreOrder) /\ Range(WithNew(gsPre, y, k)) = Range(gsPre) \cup {y}
    BY <2>1, <2>2, SortedIs
  <2> QED BY <2>1, <2>3
<1>6. gsPost' \in Seq(Systems) /\ Len(gsPost') = Len(gsPost) + 1 /\ InOrder(gsPost', Falling) /\ Range(gsPost') = Range(gsPost) \cup {y}
  <2>1. PICK k : k = Cardinality(NotAfter(gsPost, y, Falling)) /\ gsPost' = WithNew(gsPost, y, k)
    BY <1>1, <1>4, <1>11 DEF NotAfter
  <2>2. gsPost \in Seq(Systems) /\ y \in Systems /\ Falling \in [Systems -> Int] /\ InOrder(gsPost, Falling) /\ y \notin Range(gsPost)
    BY <1>2, <1>3, <1>11
  <2>3. /\ WithNew(gsPost, y, k) \in Seq(Systems) /\ Len(WithNew(gsPost, y, k)) = Len(gsPost) + 1
        /\ InOrder(WithNew(gsPost, y, k), Falling) /\ Range(WithNew(gsPost, y, k)) = Range(gsPost) \cup {y}
    BY <2>1, <2>2, SortedIs
  <2> QED BY <2>1, <2>3
<1>7. gsSystems' \in Seq(Systems) /\ Len(gsSystems') = Len(gsSystems) + 1 /\ Range(gsSystems') = Range(gsSystems) \cup {y}
  <2>1. PICK n \in Nat : n = Len(gsSystems)
    BY <1>2
  <2>2. /\ Append(gsSystems, y) \in Seq(Systems) /\ Len(Append(gsSystems, y)) = n + 1
        /\ Range(Append(gsSystems, y)) = Range(gsSystems) \cup {y}
    BY <1>2, <2>1, AppendedIs
  <2> QED BY <1>1, <2>1, <2>2
<1>8. SystemsInv'
  BY <1>2, <1>5, <1>6, <1>7 DEF SystemsInv
<1>9. RanInv'
  BY <1>1 DEF GsInv, RanInv
<1>10. StatesInv'
  <2>1. UNCHANGED <<gsStack, gsCalls, gsPhase>>
    BY <1>1 DEF stateVars
  <2>2. CallsInv'
    BY <2>1 DEF GsInv, StatesInv, CallsInv
  <2>3. Constructing' = Constructing
    BY <2>1 DEF Constructing
  <2> QED BY <1>1, <2>2, <2>3, StatesKept DEF GsInv
<1> QED BY <1>8, <1>9, <1>10 DEF GsInv

\* What has run in the phase is counted right.
LEMMA RanInPhaseIs ==
  ASSUME GsInv
  PROVE  /\ gsPhase = "pre" => RanInPhase = Len(gsRan)
         /\ gsPhase = "post" => RanInPhase = Len(gsRan) - (Len(gsPre) + 1)
<1>1. PICK n, r \in Nat : n = Len(gsPre) /\ r = Len(gsRan) /\ DOMAIN gsRan = 1 .. r
  BY DEF GsInv, SystemsInv, RanInv
<1>2. CASE gsPhase = "pre"
  <2>1. \A k \in 1 .. r : gsRan[k][1] = "pre"
    BY <1>1, <1>2 DEF GsInv, RanInv
  <2>2. {k \in DOMAIN gsRan : gsRan[k][1] = gsPhase} = 1 .. r
    BY <1>1, <1>2, <2>1
  <2>3. Cardinality(1 .. r) = IF 1 > r THEN 0 ELSE r - 1 + 1
    BY FS_Interval
  <2>4. Cardinality(1 .. r) = r
    BY <2>3
  <2> QED BY <1>1, <1>2, <2>2, <2>4 DEF RanInPhase
<1>3. CASE gsPhase = "post"
  <2>1. r >= n + 1 /\ gsRan[n + 1][1] = "state"
    BY <1>1, <1>3 DEF GsInv, RanInv
  <2>2. \A k \in 1 .. r : gsRan[k][1] = "post" <=> k > n + 1
    <3> TAKE k \in 1 .. r
    <3>1. (k <= n => gsRan[k] = <<"pre", gsPre[k]>>) /\ (k > n + 1 => gsRan[k] = <<"post", gsPost[k - (n + 1)]>>)
      BY <1>1, <1>3 DEF GsInv, RanInv
    <3>2. k <= n => gsRan[k][1] = "pre"
      BY <3>1
    <3>3. k > n + 1 => gsRan[k][1] = "post"
      BY <3>1
    <3> QED BY <2>1, <3>2, <3>3
  <2>3. {k \in DOMAIN gsRan : gsRan[k][1] = gsPhase} = n + 2 .. r
    BY <1>1, <1>3, <2>2
  <2>4. Cardinality(n + 2 .. r) = IF n + 2 > r THEN 0 ELSE r - (n + 2) + 1
    BY FS_Interval
  <2>5. Cardinality(n + 2 .. r) = r - (n + 1)
    BY <2>1, <2>4
  <2> QED BY <1>1, <1>3, <2>3, <2>5 DEF RanInPhase
<1> QED BY <1>2, <1>3

LEMMA RunSystemStep ==
  ASSUME GsInv, (gsPhase = "pre" /\ RunSystem(gsPre)) \/ (gsPhase = "post" /\ RunSystem(gsPost))
  PROVE  RanInv'
<1>1. PICK n, r \in Nat : n = Len(gsPre) /\ r = Len(gsRan)
  BY DEF GsInv, SystemsInv, RanInv
<1>2. n = Len(gsPost) /\ gsPre \in Seq(Systems) /\ gsPost \in Seq(Systems) /\ gsRan \in Seq(CallsMade)
  BY <1>1 DEF GsInv, SystemsInv, RanInv
<1>3. UNCHANGED <<gsPre, gsPost, gsPhase>>
  BY DEF RunSystem, engineVars
<1>4. CASE gsPhase = "pre"
  <2>1. r < n /\ gsRan' = Append(gsRan, <<"pre", gsPre[r + 1]>>)
    BY <1>1, <1>4, RanInPhaseIs DEF RunSystem
  <2>2. PICK c : c = <<"pre", gsPre[r + 1]>>
    OBVIOUS
  <2>3. c \in CallsMade
    <3>1. gsPre[r + 1] \in Systems
      <4>1. r + 1 \in 1 .. Len(gsPre)
        BY <1>1, <2>1
      <4> QED BY <1>2, <4>1, ElementOfSeq
    <3> QED BY <2>2, <3>1 DEF CallsMade
  <2>4. /\ gsRan' \in Seq(CallsMade) /\ Len(gsRan') = r + 1 /\ gsRan'[r + 1] = c /\ (\A i \in 1 .. r : gsRan'[i] = gsRan[i])
        /\ \A i \in 1 .. r + 1 : i \in 1 .. r \/ i = r + 1
    BY <1>1, <1>2, <2>1, <2>2, <2>3, AppendedIs
  <2>5. \A k \in 1 .. r : k <= n => gsRan[k] = <<"pre", gsPre[k]>>
    BY <1>1, <1>4 DEF GsInv, RanInv
  <2>6. \A k \in 1 .. r + 1 : k <= n /\ gsRan'[k] = <<"pre", gsPre[k]>>
    BY <2>1, <2>2, <2>4, <2>5
  <2> QED BY <1>1, <1>3, <1>4, <2>1, <2>4, <2>6 DEF RanInv
<1>5. CASE gsPhase = "post"
  <2>0. r \in n + 1 .. 2 * n + 1 /\ gsRan[n + 1][1] = "state"
    BY <1>1, <1>5 DEF GsInv, RanInv
  <2>1. RanInPhase = r - (n + 1) /\ RanInPhase < n /\ gsRan' = Append(gsRan, <<"post", gsPost[RanInPhase + 1]>>)
    BY <1>1, <1>2, <1>5, RanInPhaseIs DEF RunSystem
  <2>2. PICK c : c = <<"post", gsPost[r - n]>>
    OBVIOUS
  <2>7. RanInPhase + 1 = r - n /\ r - n \in 1 .. n /\ r + 1 - (n + 1) = r - n
    BY <2>0, <2>1
  <2>3. c \in CallsMade
    <3>1. gsPost[r - n] \in Systems
      BY <1>2, <2>7
    <3> QED BY <2>2, <3>1 DEF CallsMade
  <2>4. /\ gsRan' \in Seq(CallsMade) /\ Len(gsRan') = r + 1 /\ gsRan'[r + 1] = c /\ (\A i \in 1 .. r : gsRan'[i] = gsRan[i])
        /\ \A i \in 1 .. r + 1 : i \in 1 .. r \/ i = r + 1
    <3>1. gsRan' = Append(gsRan, c)
      BY <2>1, <2>2, <2>7
    <3> QED BY <1>1, <1>2, <2>3, <3>1, AppendedIs
  <2>5. \A k \in 1 .. r : (k <= n => gsRan[k] = <<"pre", gsPre[k]>>) /\ (k > n + 1 => gsRan[k] = <<"post", gsPost[k - (n + 1)]>>)
    BY <1>1, <1>5 DEF GsInv, RanInv
  <2>6. \A k \in 1 .. r + 1 : (k <= n => gsRan'[k] = <<"pre", gsPre[k]>>) /\ (k > n + 1 => gsRan'[k] = <<"post", gsPost[k - (n + 1)]>>)
    <3> TAKE k \in 1 .. r + 1
    <3>1. CASE k \in 1 .. r
      BY <2>4, <2>5, <3>1
    <3>2. CASE k = r + 1
      BY <2>0, <2>2, <2>4, <2>7, <3>2
    <3> QED BY <2>4, <3>1, <3>2
  <2>8. gsRan'[n + 1][1] = "state" /\ r + 1 \in n + 1 .. 2 * n + 1
    BY <2>0, <2>4, <2>7
  <2> QED BY <1>1, <1>3, <1>5, <2>4, <2>6, <2>8 DEF RanInv
<1> QED BY <1>4, <1>5

LEMMA CallStateRan == ASSUME GsInv, CallState PROVE RanInv'
<1>1. PICK n, r \in Nat : n = Len(gsPre) /\ r = Len(gsRan)
  BY DEF GsInv, SystemsInv, RanInv
<1>2. /\ gsPhase = "pre" /\ gsPhase' = "state" /\ UNCHANGED <<gsPre, gsPost>>
      /\ gsRan' = Append(gsRan, <<"state", Current>>) /\ gsRan \in Seq(CallsMade)
  BY DEF CallState, engineVars, GsInv, RanInv
<1>3. r = n
  BY <1>1, <1>2, RanInPhaseIs DEF CallState, AllRan
<1>4. Current \in GameStates \cup {NoState}
  <2>1. gsStack \in Seq(GameStates)
    BY DEF GsInv, StatesInv, StackInv
  <2> QED BY <2>1, FrontIs DEF Current
<1>5. PICK c : c = <<"state", Current>>
  OBVIOUS
<1>6. c \in CallsMade /\ c[1] = "state"
  BY <1>4, <1>5 DEF CallsMade
<1>7. /\ gsRan' \in Seq(CallsMade) /\ Len(gsRan') = r + 1 /\ gsRan'[r + 1] = c /\ (\A i \in 1 .. r : gsRan'[i] = gsRan[i])
      /\ \A i \in 1 .. r + 1 : i \in 1 .. r \/ i = r + 1
  BY <1>1, <1>2, <1>5, <1>6, AppendedIs
<1>8. \A k \in 1 .. r : k <= n => gsRan[k] = <<"pre", gsPre[k]>>
  BY <1>1, <1>2 DEF GsInv, RanInv
<1>9. \A k \in 1 .. r + 1 : (k <= n => gsRan'[k] = <<"pre", gsPre[k]>>) /\ ~(k > n + 1)
  BY <1>3, <1>7, <1>8
<1> QED BY <1>1, <1>2, <1>3, <1>6, <1>7, <1>9 DEF RanInv

LEMMA SystemsKept ==
  ASSUME SystemsInv, UNCHANGED engineVars, gsPhase' # "destroy" \/ gsStack' # <<>> => gsPhase # "destroy" \/ gsStack # <<>>
  PROVE  SystemsInv'
<1>1. UNCHANGED <<gsSystems, gsPre, gsPost>>
  BY DEF engineVars
<1> QED BY <1>1 DEF SystemsInv

LEMMA RanKept == ASSUME RanInv, UNCHANGED <<gsPre, gsPost, gsRan, gsPhase>> PROVE RanInv'
<1> QED BY DEF RanInv

\* Steps in which no state comes, goes or is called.
LEMMA PhaseStep ==
  ASSUME StatesInv, UNCHANGED <<stateVars, gsCalls>>, gsPhase' # "destroy" => gsPhase # "destroy", gsPhase' = "destroy" => gsCalls = <<>>
  PROVE  StatesInv'
<1>1. UNCHANGED <<gsStack, gsCalls>> /\ UNCHANGED stateVars
  BY DEF stateVars
<1>2. CallsInv'
  BY <1>1 DEF StatesInv, CallsInv
<1>3. Constructing' = Constructing
  BY <1>1 DEF Constructing
<1> QED BY <1>1, <1>2, <1>3, StatesKept

LEMMA GsStep == GsInv /\ [GsNext]_gsVars => GsInv'
<1> SUFFICES ASSUME GsInv, [GsNext]_gsVars PROVE GsInv'
  OBVIOUS
<1>0. StatesInv /\ SystemsInv /\ RanInv
  BY DEF GsInv
<1>1. ASSUME NEW s \in GameStates, Enter(s) PROVE GsInv'
  <2>1. UNCHANGED engineVars /\ UNCHANGED <<gsRan, gsPhase>> /\ gsPhase # "destroy"
    BY <1>1 DEF Enter, MayEnter
  <2>2. UNCHANGED <<gsPre, gsPost>>
    BY <2>1 DEF engineVars
  <2> QED BY <1>0, <1>1, <2>1, <2>2, EnterGameStateStep, SystemsKept, RanKept DEF GsInv
<1>2. ASSUME Constructed \/ StateThrows PROVE GsInv'
  <2>1. UNCHANGED engineVars /\ UNCHANGED <<gsRan, gsPhase>> /\ Innermost.call = "construct"
    BY <1>2 DEF Constructed, StateThrows
  <2>2. UNCHANGED <<gsPre, gsPost>> /\ gsPhase # "destroy"
    BY <1>0, <2>1, InnermostConstruct DEF engineVars
  <2> QED BY <1>0, <1>2, <2>1, <2>2, ConstructedStep, StateThrowsStep, SystemsKept, RanKept DEF GsInv
<1>3. ASSUME Pop PROVE GsInv'
  <2>1. UNCHANGED engineVars /\ UNCHANGED <<gsRan, gsPhase>> /\ gsPhase # "destroy"
    BY <1>3 DEF Pop, MayPop, MayEnter
  <2>2. UNCHANGED <<gsPre, gsPost>>
    BY <2>1 DEF engineVars
  <2> QED BY <1>0, <1>3, <2>1, <2>2, PopStep, SystemsKept, RanKept DEF GsInv
<1>4. ASSUME Reentered \/ StateGoesOn \/ StateReturns PROVE GsInv'
  <2>1. UNCHANGED engineVars /\ UNCHANGED <<gsRan, gsPhase>> /\ UNCHANGED stateVars
    BY <1>4 DEF Reentered, StateGoesOn, StateReturns
  <2>2. UNCHANGED <<gsPre, gsPost, gsStack>>
    BY <2>1 DEF engineVars, stateVars
  <2> QED BY <1>0, <1>4, <2>1, <2>2, CallsStep, SystemsKept, RanKept DEF GsInv
<1>5. ASSUME (gsPhase = "pre" /\ RunSystem(gsPre)) \/ (gsPhase = "post" /\ RunSystem(gsPost)) PROVE GsInv'
  <2>1. UNCHANGED engineVars /\ UNCHANGED <<stateVars, gsCalls>> /\ UNCHANGED gsPhase /\ gsPhase # "destroy"
    BY <1>5 DEF RunSystem
  <2>2. RanInv'
    BY <1>5, RunSystemStep
  <2> QED BY <1>0, <2>1, <2>2, PhaseStep, SystemsKept DEF GsInv
<1>6. ASSUME BeginPhase PROVE GsInv'
  <2>1. UNCHANGED engineVars /\ UNCHANGED <<stateVars, gsCalls>> /\ gsPhase' = "pre" /\ gsPhase = "setup" /\ gsRan' = <<>>
    BY <1>6 DEF BeginPhase
  <2>2. RanInv'
    <3>1. <<>> \in Seq(CallsMade) /\ Len(<<>>) = 0 /\ 1 .. 0 = {}
      OBVIOUS
    <3>2. UNCHANGED gsPre /\ Len(gsPre) \in Nat
      BY <1>0, <2>1 DEF SystemsInv, engineVars
    <3> QED BY <2>1, <3>1, <3>2 DEF RanInv
  <2> QED BY <1>0, <2>1, <2>2, PhaseStep, SystemsKept DEF GsInv
<1>7. ASSUME CallState PROVE GsInv'
  <2>1. UNCHANGED engineVars /\ gsPhase = "pre"
    BY <1>7 DEF CallState
  <2> QED BY <1>0, <1>7, <2>1, CallsStep, CallStateRan, SystemsKept DEF GsInv
<1>8. ASSUME SystemsAfter PROVE GsInv'
  <2>1. UNCHANGED engineVars /\ UNCHANGED <<stateVars, gsCalls>> /\ gsPhase' = "post" /\ gsPhase = "state" /\ gsRan' = gsRan
    BY <1>8 DEF SystemsAfter
  <2>2. RanInv'
    <3>1. UNCHANGED <<gsPre, gsPost>> /\ Len(gsPre) \in Nat
      BY <1>0, <2>1 DEF SystemsInv, engineVars
    <3>2. Len(gsRan) = Len(gsPre) + 1
      BY <1>0, <2>1 DEF RanInv
    <3>3. Len(gsRan) \in Len(gsPre) + 1 .. 2 * Len(gsPre) + 1
      BY <3>1, <3>2
    <3> QED BY <1>0, <2>1, <3>1, <3>3 DEF RanInv
  <2> QED BY <1>0, <2>1, <2>2, PhaseStep, SystemsKept DEF GsInv
<1>9. ASSUME EndPhase \/ BeginDestroy PROVE GsInv'
  <2>1. UNCHANGED engineVars /\ UNCHANGED <<stateVars, gsCalls>> /\ gsPhase' \in {"setup", "destroy"} /\ gsPhase \in {"setup", "post"}
        /\ gsRan' = gsRan /\ gsCalls = <<>>
    BY <1>9 DEF EndPhase, BeginDestroy, PhaseOver
  <2>2. RanInv'
    BY <1>0, <2>1 DEF RanInv
  <2> QED BY <1>0, <2>1, <2>2, PhaseStep, SystemsKept DEF GsInv
<1>10. ASSUME DestroyState PROVE GsInv'
  <2>1. UNCHANGED engineVars /\ UNCHANGED <<gsRan, gsPhase>> /\ gsStack # <<>>
    BY <1>10 DEF DestroyState
  <2>2. UNCHANGED <<gsPre, gsPost>>
    BY <2>1 DEF engineVars
  <2> QED BY <1>0, <1>10, <2>1, <2>2, DestroyStateStep, SystemsKept, RanKept DEF GsInv
<1>11. ASSUME DestroySystem PROVE GsInv'
  <2>1. /\ gsPhase = "destroy" /\ gsStack = <<>> /\ gsSystems # <<>> /\ gsSystems' = Front(gsSystems)
        /\ UNCHANGED <<gsPre, gsPost, gsRan, gsPhase>> /\ UNCHANGED <<stateVars, gsCalls>>
    BY <1>11 DEF DestroySystem
  <2>2. gsStack' = <<>>
    BY <2>1 DEF stateVars
  <2>3. gsSystems' \in Seq(Systems)
    BY <1>0, <2>1, FrontIs DEF SystemsInv
  <2>4. SystemsInv'
    BY <1>0, <2>1, <2>2, <2>3 DEF SystemsInv
  <2>5. gsCalls = <<>>
    BY <1>0, <2>1 DEF StatesInv, CallsInv
  <2>6. StatesInv'
    BY <1>0, <2>1, <2>5, PhaseStep
  <2>7. RanInv'
    BY <1>0, <2>1, RanKept
  <2> QED BY <2>4, <2>6, <2>7 DEF GsInv
<1>12. ASSUME UNCHANGED gsVars PROVE GsInv'
  <2>1. UNCHANGED engineVars /\ UNCHANGED <<stateVars, gsCalls>> /\ UNCHANGED <<gsPhase, gsRan>>
    BY <1>12 DEF gsVars
  <2>2. UNCHANGED <<gsPre, gsPost, gsStack>>
    BY <2>1 DEF engineVars, stateVars
  <2>3. gsPhase = "destroy" => gsCalls = <<>>
    BY <1>0 DEF StatesInv, CallsInv
  <2> QED BY <1>0, <2>1, <2>2, <2>3, PhaseStep, SystemsKept, RanKept DEF GsInv
<1> QED BY <1>1, <1>2, <1>3, <1>4, <1>5, <1>6, <1>7, <1>8, <1>9, <1>10, <1>11, <1>12, AddSystemStep DEF GsNext

LEMMA GsInvIsSafe == GsInv => GsSafe
<1> SUFFICES ASSUME GsInv PROVE GsSafe
  OBVIOUS
<1>0. CallsInv /\ StackInv /\ ParentsInv /\ HooksInv /\ SystemsInv /\ RanInv
  BY DEF GsInv, StatesInv
<1>1. Alive = Range(gsStack) \cup Constructing
  BY DEF Alive, Constructing
<1>2. GsTypeOK
  BY <1>0, <1>1 DEF GsTypeOK, CallsInv, StackInv
<1>3. ParentsBelow
  BY <1>0, <1>1 DEF ParentsBelow, ParentsInv, Below
<1>4. HooksTellPlace
  <2> SUFFICES ASSUME gsPhase # "destroy", NEW i \in DOMAIN gsStack, gsStack[i] \notin gsSkewed
               PROVE  gsTold[gsStack[i]] = "leave_push" <=>
                        \/ i # Len(gsStack)
                        \/ \E k \in DOMAIN gsCalls : gsCalls[k].call = "construct" /\ gsParent[gsCalls[k].state] = gsStack[i]
    BY DEF HooksTellPlace
  <2>1. (\E c \in Constructing : gsParent[c] = gsStack[i]) <=>
          \E k \in DOMAIN gsCalls : gsCalls[k].call = "construct" /\ gsParent[gsCalls[k].state] = gsStack[i]
    BY DEF Constructing
  <2> QED BY <1>0, <2>1 DEF HooksInv
<1>5. SystemsOutliveStates
  <2> SUFFICES ASSUME gsPhase = "destroy", Alive # {} PROVE Len(gsSystems) = Len(gsPre)
    BY DEF SystemsOutliveStates
  <2>1. gsCalls = <<>>
    BY <1>0 DEF CallsInv
  <2>2. Constructing = {}
    BY <2>1 DEF Constructing
  <2>3. gsStack # <<>>
    BY <1>1, <2>2 DEF Range
  <2> QED BY <1>0, <2>3 DEF SystemsInv
<1>6. SystemsAroundState
  <2> SUFFICES ASSUME PhaseOver
               PROVE  LET n == Len(gsSystems)
                          after(k) == gsRan[n + 1 + k]
                      IN /\ Len(gsRan) = 2 * n + 1 /\ gsRan[n + 1][1] = "state"
                         /\ \A k \in 1 .. n : gsRan[k][1] = "pre" /\ after(k)[1] = "post"
                         /\ {gsRan[k][2] : k \in 1 .. n} = Range(gsSystems) /\ {after(k)[2] : k \in 1 .. n} = Range(gsSystems)
                         /\ \A j, k \in 1 .. n : j < k =>
                              PreOrder[gsRan[j][2]] <= PreOrder[gsRan[k][2]] /\ PostOrder[after(j)[2]] >= PostOrder[after(k)[2]]
    BY DEF SystemsAroundState
  <2>0. gsPhase = "post" /\ RanInPhase = Len(gsPost)
    BY DEF PhaseOver, AllRan
  <2>1. PICK n \in Nat : n = Len(gsPre) /\ DOMAIN gsPre = 1 .. n
    BY <1>0 DEF SystemsInv
  <2>2. /\ n = Len(gsSystems) /\ Range(gsPre) = Range(gsSystems) /\ Range(gsPost) = Range(gsSystems) /\ n = Len(gsPost)
        /\ DOMAIN gsPost = 1 .. n /\ gsPre \in Seq(Systems) /\ gsPost \in Seq(Systems)
    BY <1>0, <2>0, <2>1 DEF SystemsInv
  <2>3. Len(gsRan) = 2 * n + 1
    <3>1. Len(gsRan) \in Nat
      BY <1>0 DEF RanInv
    <3>2. RanInPhase = Len(gsRan) - (n + 1)
      BY <2>0, <2>1, RanInPhaseIs
    <3> QED BY <2>0, <2>2, <3>1, <3>2
  <2>4. gsRan[n + 1][1] = "state"
    BY <1>0, <2>0, <2>1 DEF RanInv
  <2>5. \A k \in 1 .. n : gsRan[k] = <<"pre", gsPre[k]>> /\ gsRan[n + 1 + k] = <<"post", gsPost[k]>>
    <3> TAKE k \in 1 .. n
    <3>1. k \in 1 .. 2 * n + 1 /\ k <= n /\ n + 1 + k \in 1 .. 2 * n + 1 /\ n + 1 + k > n + 1 /\ (n + 1 + k) - (n + 1) = k
      OBVIOUS
    <3>2. gsRan[k] = <<"pre", gsPre[k]>>
      BY <1>0, <2>0, <2>1, <2>3, <3>1 DEF RanInv
    <3>3. gsRan[n + 1 + k] = <<"post", gsPost[(n + 1 + k) - (n + 1)]>>
      BY <1>0, <2>0, <2>1, <2>3, <3>1 DEF RanInv
    <3> QED BY <3>1, <3>2, <3>3
  <2>6. \A k \in 1 .. n : /\ gsRan[k][1] = "pre" /\ gsRan[k][2] = gsPre[k]
                          /\ gsRan[n + 1 + k][1] = "post" /\ gsRan[n + 1 + k][2] = gsPost[k]
    BY <2>5
  <2>7. {gsRan[k][2] : k \in 1 .. n} = Range(gsSystems)
    <3>1. Range(gsPre) = {gsPre[k] : k \in 1 .. n}
      BY <2>1 DEF Range
    <3>2. {gsRan[k][2] : k \in 1 .. n} = {gsPre[k] : k \in 1 .. n}
      BY <2>6
    <3> QED BY <2>2, <3>1, <3>2
  <2>8. {gsRan[n + 1 + k][2] : k \in 1 .. n} = Range(gsSystems)
    <3>1. Range(gsPost) = {gsPost[k] : k \in 1 .. n}
      BY <2>2 DEF Range
    <3>2. {gsRan[n + 1 + k][2] : k \in 1 .. n} = {gsPost[k] : k \in 1 .. n}
      <4> DEFINE after(k) == gsRan[n + 1 + k][2]
      <4>1. \A k \in 1 .. n : after(k) = gsPost[k]
        BY <2>6
      <4> HIDE DEF after
      <4>2. {after(k) : k \in 1 .. n} = {gsPost[k] : k \in 1 .. n}
        BY <4>1
      <4> QED BY <4>2 DEF after
    <3> QED BY <2>2, <3>1, <3>2
  <2>9. ASSUME NEW j \in 1 .. n, NEW k \in 1 .. n, j < k
        PROVE  PreOrder[gsRan[j][2]] <= PreOrder[gsRan[k][2]] /\ PostOrder[gsRan[n + 1 + j][2]] >= PostOrder[gsRan[n + 1 + k][2]]
    <3>1. PreOrder[gsPre[j]] <= PreOrder[gsPre[k]]
      BY <1>0, <2>1, <2>9 DEF SystemsInv, InOrder
    <3>2. Falling[gsPost[j]] <= Falling[gsPost[k]]
      BY <1>0, <2>2, <2>9 DEF SystemsInv, InOrder
    <3>3. gsPost[j] \in Systems /\ gsPost[k] \in Systems
      BY <2>2
    <3>4. \A a, b \in Systems : Falling[a] <= Falling[b] => PostOrder[a] >= PostOrder[b]
      BY GameStatesAssumption DEF Falling
    <3>5. PostOrder[gsPost[j]] >= PostOrder[gsPost[k]]
      BY <3>2, <3>3, <3>4
    <3> QED BY <2>6, <3>1, <3>5
  <2> QED BY <2>2, <2>3, <2>4, <2>6, <2>7, <2>8, <2>9
<1> QED BY <1>2, <1>3, <1>4, <1>5, <1>6 DEF GsSafe

LEMMA GsInvariance == GsSpec => []GsInv
<1> QED BY GsInitially, GsStep, PTL DEF GsSpec

(***************************************************************************)
(* The library, its windows and callbacks                                  *)
(***************************************************************************)

\* A list without some ids keeps the others, each as often as before and at most once when it was once.
LEMMA WithoutIdsIs ==
  ASSUME NEW S, NEW list \in Seq(S), NEW ids
  PROVE  /\ WithoutIds(list, ids) \in Seq(S)
         /\ ToSet(WithoutIds(list, ids)) = ToSet(list) \ ids
         /\ IsInjective(list) => IsInjective(WithoutIds(list, ids))
<1> DEFINE L == Len(list)
           X == Seq(S)
           G == [n \in 1 .. L |-> [x \in X |-> IF list[n] \in ids THEN x ELSE Append(x, list[n])]]
           W == CHOOSE g : g = [k \in 0 .. Len(list) |->
                                  IF k = 0 THEN <<>> ELSE IF list[k] \in ids THEN g[k - 1] ELSE Append(g[k - 1], list[k])]
<1> HIDE DEF G, W, X
<1>1. L \in Nat /\ \A k \in 1 .. L : list[k] \in S
  OBVIOUS
<1>2. G \in [1 .. L -> [X -> X]]
  <2>1. ASSUME NEW n \in 1 .. L, NEW x \in X PROVE (IF list[n] \in ids THEN x ELSE Append(x, list[n])) \in X
    BY <1>1, AppendProperties DEF X
  <2> QED BY <2>1 DEF G
<1>3. PICK g \in [0 .. L -> X] : g[0] = <<>> /\ \A n \in 1 .. L : g[n] = G[n][g[n - 1]]
  <2> HIDE DEF L
  <2>1. PICK x \in X : x = <<>>
    <3>1. <<>> \in Seq(S)
      OBVIOUS
    <3> QED BY <3>1 DEF X
  <2>2. \E g \in [0 .. L -> X] : Follows(g, x, L, G)
    <3>1. x \in X /\ L \in Nat /\ G \in [1 .. L -> [X -> X]]
      BY <1>1, <1>2
    <3> HIDE DEF G
    <3> QED BY <3>1, BoundedRecursion, Zenon
  <2> QED BY <2>1, <2>2, Zenon DEF Follows
<1>4. \A n \in 1 .. L : g[n - 1] \in X /\ g[n] = IF list[n] \in ids THEN g[n - 1] ELSE Append(g[n - 1], list[n])
  <2> TAKE n \in 1 .. L
  <2>1. g[n - 1] \in X
    BY <1>1, <1>3
  <2>2. G[n][g[n - 1]] = IF list[n] \in ids THEN g[n - 1] ELSE Append(g[n - 1], list[n])
    BY <2>1 DEF G
  <2> QED BY <1>3, <2>1, <2>2
<1> DEFINE E(h, k) == IF k = 0 THEN <<>> ELSE IF list[k] \in ids THEN h[k - 1] ELSE Append(h[k - 1], list[k])
<1>5. g = [k \in 0 .. Len(list) |-> E(g, k)]
  <2>1. ASSUME NEW n \in 0 .. Len(list), n # 0 PROVE n \in 1 .. L
    BY <1>1, <2>1
  <2>2. \A n \in 0 .. Len(list) : g[n] = E(g, n)
    BY <1>3, <1>4, <2>1
  <2>3. g = [n \in 0 .. Len(list) |-> g[n]]
    BY <1>3
  <2> HIDE DEF E
  <2> QED BY <2>2, <2>3
<1>6. W = [k \in 0 .. Len(list) |-> E(W, k)]
  BY <1>5 DEF W
<1>7. WithoutIds(list, ids) = W[L]
  BY DEF WithoutIds, W
<1>8. W[0] = <<>> /\ \A k \in 1 .. L : W[k] = IF list[k] \in ids THEN W[k - 1] ELSE Append(W[k - 1], list[k])
  <2>1. \A k \in 0 .. L : W[k] = E(W, k)
    <3> HIDE DEF E
    <3> QED BY <1>6
  <2>2. 0 \in 0 .. L /\ \A k \in 1 .. L : k \in 0 .. L /\ k # 0
    BY <1>1
  <2> QED BY <2>1, <2>2
<1> DEFINE Kept(k) == /\ W[k] \in Seq(S)
                      /\ \A x : (\E i \in 1 .. Len(W[k]) : W[k][i] = x) <=> (\E i \in 1 .. k : list[i] = x) /\ x \notin ids
                      /\ IsInjective(list) => \A i, j \in 1 .. Len(W[k]) : W[k][i] = W[k][j] => i = j
           T == {k \in Nat : k <= L => Kept(k)}
<1>9. 0 \in T
  <2>1. W[0] = <<>> /\ 1 .. Len(<<>>) = {} /\ 1 .. 0 = {} /\ <<>> \in Seq(S)
    BY <1>8
  <2> QED BY <2>1
<1>10. ASSUME NEW k \in Nat, k \in T PROVE k + 1 \in T
  <2> SUFFICES ASSUME k + 1 <= L PROVE Kept(k + 1)
    OBVIOUS
  <2>1. k + 1 \in 1 .. L /\ (k + 1) - 1 = k /\ Kept(k) /\ list[k + 1] \in S
    BY <1>1, <1>10
  <2>2. W[k + 1] = IF list[k + 1] \in ids THEN W[k] ELSE Append(W[k], list[k + 1])
    BY <1>8, <2>1
  <2> HIDE DEF T, W, L
  <2>3. PICK w \in Seq(S) : w = W[k]
    BY <2>1
  <2>4. PICK n \in Nat : n = Len(w)
    BY <2>3
  <2>5. \A i \in 1 .. k + 1 : i \in 1 .. k \/ i = k + 1
    OBVIOUS
  <2>6. 1 .. k \subseteq 1 .. k + 1 /\ k + 1 \in 1 .. k + 1
    OBVIOUS
  <2>7. CASE list[k + 1] \in ids
    <3>1. \A x : (\E i \in 1 .. k + 1 : list[i] = x) /\ x \notin ids <=> (\E i \in 1 .. k : list[i] = x) /\ x \notin ids
      BY <2>5, <2>6, <2>7
    <3>2. W[k + 1] = W[k]
      BY <2>2, <2>7
    <3> QED BY <2>1, <3>1, <3>2
  <2>8. CASE list[k + 1] \notin ids
    <3>1. /\ W[k + 1] \in Seq(S) /\ Len(W[k + 1]) = n + 1
          /\ \A i \in 1 .. n : W[k + 1][i] = w[i]
          /\ W[k + 1][n + 1] = list[k + 1]
      BY <2>1, <2>2, <2>3, <2>4, <2>8, AppendProperties
    <3>2. \A i \in 1 .. n + 1 : i \in 1 .. n \/ i = n + 1
      OBVIOUS
    <3>3. 1 .. n \subseteq 1 .. n + 1 /\ n + 1 \in 1 .. n + 1
      OBVIOUS
    <3>4. \A x : (\E i \in 1 .. n : w[i] = x) <=> (\E i \in 1 .. k : list[i] = x) /\ x \notin ids
      BY <2>1, <2>3, <2>4
    <3>5. \A x : (\E i \in 1 .. n + 1 : W[k + 1][i] = x) <=> (\E i \in 1 .. n : w[i] = x) \/ x = list[k + 1]
      BY <3>1, <3>2, <3>3
    <3>6. \A x : (\E i \in 1 .. k + 1 : list[i] = x) <=> (\E i \in 1 .. k : list[i] = x) \/ x = list[k + 1]
      BY <2>5, <2>6
    <3>7. \A x : (\E i \in 1 .. n + 1 : W[k + 1][i] = x) <=> (\E i \in 1 .. k + 1 : list[i] = x) /\ x \notin ids
      BY <2>8, <3>4, <3>5, <3>6
    <3>8. ASSUME IsInjective(list), NEW i \in 1 .. n PROVE w[i] # list[k + 1]
      <4>1. PICK j \in 1 .. k : list[j] = w[i]
        BY <3>4
      <4>2. j # k + 1 /\ j \in 1 .. L /\ k + 1 \in 1 .. L
        BY <1>1, <2>1
      <4>3. DOMAIN list = 1 .. L
        BY DEF L
      <4> QED BY <3>8, <4>1, <4>2, <4>3 DEF IsInjective
    <3>9. ASSUME IsInjective(list), NEW i \in 1 .. n + 1, NEW j \in 1 .. n + 1, W[k + 1][i] = W[k + 1][j] PROVE i = j
      <4>1. \A a, b \in 1 .. n : w[a] = w[b] => a = b
        BY <2>1, <2>3, <2>4, <3>9
      <4>2. CASE i = n + 1
        BY <3>1, <3>2, <3>8, <3>9, <4>2
      <4>3. CASE j = n + 1
        BY <3>1, <3>2, <3>8, <3>9, <4>3
      <4> QED BY <3>1, <3>2, <3>9, <4>1, <4>2, <4>3
    <3> QED BY <3>1, <3>7, <3>9
  <2> QED BY <2>7, <2>8
<1>11. Kept(L)
  <2>1. L \in T
    <3> HIDE DEF T
    <3> QED BY <1>1, <1>9, <1>10, NatSets
  <2> QED BY <1>1, <2>1
<1>12. PICK w : w = WithoutIds(list, ids)
  OBVIOUS
<1>13. w \in Seq(S) /\ DOMAIN w = 1 .. Len(w) /\ DOMAIN list = 1 .. L
  BY <1>7, <1>11, <1>12
<1>14. \A x : (\E i \in DOMAIN w : w[i] = x) <=> (\E i \in DOMAIN list : list[i] = x) /\ x \notin ids
  BY <1>7, <1>11, <1>12, <1>13
<1>15. ToSet(w) = ToSet(list) \ ids
  BY <1>14 DEF ToSet
<1>16. IsInjective(list) => IsInjective(w)
  BY <1>7, <1>11, <1>12, <1>13 DEF IsInjective
<1> QED BY <1>12, <1>13, <1>15, <1>16

Owned    == UNION {gwInstances[i] : i \in DOMAIN gwInstances}
Underway == {gwPending[t].id : t \in GlfwThreads} \ {0}
Leaving  == {gwRemoving[t].id : t \in GlfwThreads} \ {0}

GwDispatches == {NoDispatch} \cup [on : {TRUE}, left : Seq(Nat), called : Seq(Nat), began : Seq(Nat), touched : SUBSET Nat]

GwTypes ==
  /\ IsFiniteSet(DOMAIN gwInstances) /\ gwInitialised \in BOOLEAN
  /\ gwNextId \in Nat \ {0}
  /\ \A i \in DOMAIN gwInstances : gwInstances[i] \subseteq 1 .. gwNextId - 1
  /\ gwFunctions \in Seq(Nat)
  /\ DOMAIN gwPending = GlfwThreads
  /\ gwDispatch \in [GlfwThreads -> GwDispatches]

\* An id under way has been taken for an instance that is there, by one thread.
UnderwayOwned ==
  /\ \A t \in GlfwThreads : gwPending[t].id # 0 =>
       gwPending[t].with \in DOMAIN gwInstances \cap GlfwInstances /\ gwPending[t].id \in gwInstances[gwPending[t].with]
  /\ \A t, u \in GlfwThreads : gwPending[t].id # 0 /\ gwPending[t].id = gwPending[u].id => t = u

\* An id that is being removed has been in the list, so it is not on its way there; the instance it is removed from is
\* there.
LeavingInv ==
  /\ DOMAIN gwRemoving = GlfwThreads
  /\ \A t \in GlfwThreads : gwRemoving[t].id # 0 => gwRemoving[t].with \in DOMAIN gwInstances
  /\ \A t \in GlfwThreads : gwRemoving[t].id \in 0 .. gwNextId - 1
  /\ \A t, u \in GlfwThreads : gwRemoving[t].id # 0 => gwRemoving[t].id # gwPending[u].id

\* A window has an instance, and a native window, with every event it was set for, while it is open.
WindowsWhole ==
  /\ DOMAIN gwWindows \subseteq GlfwWindowNames \cap DOMAIN gwInstances
  /\ \A w \in DOMAIN gwWindows : gwWindows[w] \in [stage : {"made", "open", "closed"}, callbacks : SUBSET WindowEvents]
  /\ DOMAIN gwNatives = {w \in DOMAIN gwWindows : gwWindows[w].stage = "open"}
  /\ \A w \in DOMAIN gwNatives : gwNatives[w] = RegisteredEvents

\* A dispatch has called what it does not have left.
DispatchInv ==
  \A t \in GlfwThreads : gwDispatch[t].on =>
    /\ IsInjective(gwDispatch[t].began)
    /\ gwDispatch[t].called \o gwDispatch[t].left = gwDispatch[t].began
    /\ ToSet(gwFunctions) \ gwDispatch[t].touched = ToSet(gwDispatch[t].began) \ gwDispatch[t].touched

LibraryInv ==
  /\ gwRefCount = Cardinality(DOMAIN gwInstances)
  /\ gwInitialised <=> DOMAIN gwInstances # {}

CallbacksInv == GwTypes /\ UnderwayOwned /\ LeavingInv /\ CallbacksOwned /\ DispatchInv
GwInv == CallbacksInv /\ LibraryInv /\ WindowsWhole /\ EventsReach

LEMMA GwInitially == GwInit => GwInv
<1> SUFFICES ASSUME GwInit PROVE GwInv
  OBVIOUS
<1>1. DOMAIN gwInstances = {} /\ DOMAIN gwWindows = {} /\ DOMAIN gwNatives = {} /\ gwFunctions = <<>> /\ gwNextId = 1
      /\ gwRefCount = 0 /\ gwInitialised = FALSE
  BY DEF GwInit
<1>2. /\ DOMAIN gwPending = GlfwThreads /\ \A t \in GlfwThreads : gwPending[t].id = 0
      /\ DOMAIN gwRemoving = GlfwThreads /\ \A t \in GlfwThreads : gwRemoving[t].id = 0
  BY DEF GwInit, NothingPending
<1>3. gwDispatch \in [GlfwThreads -> GwDispatches] /\ \A t \in GlfwThreads : gwDispatch[t].on = FALSE
  BY DEF GwInit, NoDispatch, GwDispatches
<1>4. GwTypes
  <2>1. <<>> \in Seq(Nat) /\ 1 \in Nat \ {0} /\ FALSE \in BOOLEAN
    OBVIOUS
  <2>2. IsFiniteSet(DOMAIN gwInstances) /\ \A i \in DOMAIN gwInstances : gwInstances[i] \subseteq 1 .. gwNextId - 1
    BY <1>1, FS_EmptySet
  <2> QED BY <1>1, <1>2, <1>3, <2>1, <2>2 DEF GwTypes
<1>5. UnderwayOwned /\ DispatchInv /\ LeavingInv
  <2>1. UnderwayOwned /\ DispatchInv
    BY <1>2, <1>3 DEF UnderwayOwned, DispatchInv
  <2>2. 0 \in 0 .. 1 - 1
    OBVIOUS
  <2> QED BY <1>1, <1>2, <2>1, <2>2 DEF LeavingInv
<1>6. CallbacksOwned
  BY <1>1, <1>2 DEF CallbacksOwned, IsInjective, ToSet
<1>7. LibraryInv /\ WindowsWhole
  BY <1>1, FS_EmptySet DEF LibraryInv, WindowsWhole
<1>8. EventsReach
  BY DEF GwInit, EventsReach
<1> QED BY <1>4, <1>5, <1>6, <1>7, <1>8 DEF GwInv, CallbacksInv

\* One more instance; the library is initialised for the first.
LEMMA ConstructInstanceStep ==
  ASSUME GwInv, NEW i, ConstructInstance(i), UNCHANGED <<gwFunctions, gwNextId, gwPending, gwRemoving, gwDispatch>>
  PROVE  CallbacksInv' /\ LibraryInv' /\ DOMAIN gwInstances' = DOMAIN gwInstances \cup {i}
<1>1. i \notin DOMAIN gwInstances /\ DOMAIN gwInstances' = DOMAIN gwInstances \cup {i} /\ gwInstances'[i] = {}
      /\ \A k \in DOMAIN gwInstances : gwInstances'[k] = gwInstances[k]
  BY DEF ConstructInstance, InstanceAlive
<1>2. IsFiniteSet(DOMAIN gwInstances') /\ Cardinality(DOMAIN gwInstances') = Cardinality(DOMAIN gwInstances) + 1
  BY <1>1, FS_AddElement DEF GwInv, CallbacksInv, GwTypes
<1>3. LibraryInv'
  <2>1. gwRefCount' = gwRefCount + 1 /\ gwInitialised' = (gwInitialised \/ gwRefCount = 0)
    BY DEF ConstructInstance
  <2>2. gwRefCount = 0 <=> DOMAIN gwInstances = {}
    BY FS_EmptySet DEF GwInv, CallbacksInv, GwTypes, LibraryInv
  <2>3. gwInitialised <=> DOMAIN gwInstances # {}
    BY DEF GwInv, LibraryInv
  <2>4. gwInitialised' /\ DOMAIN gwInstances' # {}
    BY <1>1, <2>1, <2>2, <2>3
  <2> QED BY <1>2, <2>1, <2>4 DEF GwInv, LibraryInv
<1>4. GwTypes'
  BY <1>1, <1>2 DEF GwInv, CallbacksInv, GwTypes, ConstructInstance
<1>5. Owned' = Owned /\ Underway' = Underway /\ Leaving' = Leaving
  BY <1>1 DEF Owned, Underway, Leaving
<1>6. CallbacksOwned'
  <2>1. \A j, k \in DOMAIN gwInstances' : j # k => gwInstances'[j] \cap gwInstances'[k] = {}
    BY <1>1 DEF GwInv, CallbacksInv, CallbacksOwned
  <2> QED BY <1>5, <2>1 DEF GwInv, CallbacksInv, CallbacksOwned, Owned, Underway, Leaving
<1>7. UnderwayOwned' /\ LeavingInv' /\ DispatchInv'
  BY <1>1 DEF GwInv, CallbacksInv, UnderwayOwned, LeavingInv, DispatchInv
<1> QED BY <1>1, <1>3, <1>4, <1>6, <1>7 DEF CallbacksInv

\* What is done to the list and told to the dispatches leaves what they began with and what was not touched.
LEMMA TouchKeeps ==
  ASSUME CallbacksInv, NEW ids \in SUBSET Nat, Touch(ids), NEW functions \in Seq(Nat), gwFunctions' = functions,
         ToSet(functions) \ ids = ToSet(gwFunctions) \ ids
  PROVE  gwDispatch' \in [GlfwThreads -> GwDispatches] /\ DispatchInv'
<1>1. gwDispatch \in [GlfwThreads -> GwDispatches]
  BY DEF CallbacksInv, GwTypes
<1>2. ASSUME NEW t \in GlfwThreads
      PROVE  /\ gwDispatch'[t] \in GwDispatches /\ gwDispatch'[t].on = gwDispatch[t].on
             /\ gwDispatch[t].on => /\ gwDispatch'[t].began = gwDispatch[t].began /\ gwDispatch'[t].called = gwDispatch[t].called
                                    /\ gwDispatch'[t].left = gwDispatch[t].left
                                    /\ gwDispatch'[t].touched = gwDispatch[t].touched \cup ids
  <2>1. gwDispatch'[t] = IF gwDispatch[t].on THEN [gwDispatch[t] EXCEPT !.touched = @ \cup ids] ELSE gwDispatch[t]
    BY <1>2 DEF Touch
  <2>2. CASE gwDispatch[t] = NoDispatch
    BY <2>1, <2>2 DEF GwDispatches, NoDispatch
  <2>3. CASE gwDispatch[t] \in [on : {TRUE}, left : Seq(Nat), called : Seq(Nat), began : Seq(Nat), touched : SUBSET Nat]
    <3>1. PICK d \in [on : {TRUE}, left : Seq(Nat), called : Seq(Nat), began : Seq(Nat), touched : SUBSET Nat] : d = gwDispatch[t]
      BY <2>3
    <3>2. gwDispatch'[t] = [d EXCEPT !.touched = d.touched \cup ids]
      BY <2>1, <3>1
    <3> QED BY <3>1, <3>2 DEF GwDispatches
  <2> QED BY <1>1, <2>2, <2>3 DEF GwDispatches
<1>3. gwDispatch' \in [GlfwThreads -> GwDispatches]
  BY <1>2 DEF Touch
<1>4. DispatchInv'
  BY <1>2 DEF CallbacksInv, DispatchInv
<1> QED BY <1>3, <1>4

\* An instance goes with its callbacks, and the library with the last one.
LEMMA DestroyInstanceStep ==
  ASSUME GwInv, NEW i, DestroyInstanceObject(i), UNCHANGED <<gwNextId, gwPending, gwRemoving>>
  PROVE  CallbacksInv' /\ LibraryInv' /\ DOMAIN gwInstances' = DOMAIN gwInstances \ {i}
<1>1. i \in DOMAIN gwInstances /\ DOMAIN gwInstances' = DOMAIN gwInstances \ {i}
      /\ \A k \in DOMAIN gwInstances \ {i} : gwInstances'[k] = gwInstances[k]
  BY DEF DestroyInstanceObject, InstanceAlive
<1>2. IsFiniteSet(DOMAIN gwInstances') /\ Cardinality(DOMAIN gwInstances') = Cardinality(DOMAIN gwInstances) - 1
  BY <1>1, FS_RemoveElement DEF GwInv, CallbacksInv, GwTypes
<1>3. LibraryInv'
  <2>1. gwRefCount' = gwRefCount - 1 /\ gwInitialised' = (gwInitialised /\ gwRefCount' # 0)
    BY DEF DestroyInstanceObject, ReleaseLibrary
  <2>2. Cardinality(DOMAIN gwInstances') = 0 <=> DOMAIN gwInstances' = {}
    BY <1>2, FS_EmptySet
  <2>3. gwInitialised /\ gwRefCount = Cardinality(DOMAIN gwInstances)
    BY <1>1 DEF GwInv, LibraryInv
  <2> QED BY <1>2, <2>1, <2>2, <2>3 DEF LibraryInv
<1> DEFINE ids == gwInstances[i]
<1>4. /\ gwFunctions' = WithoutIds(gwFunctions, ids) /\ Touch(ids) /\ gwFunctions \in Seq(Nat) /\ ids \in SUBSET Nat
      /\ IsInjective(gwFunctions)
  BY <1>1 DEF DestroyInstanceObject, GwInv, CallbacksInv, GwTypes, CallbacksOwned
<1> HIDE DEF ids
<1>5. gwFunctions' \in Seq(Nat) /\ ToSet(gwFunctions') = ToSet(gwFunctions) \ ids /\ IsInjective(gwFunctions')
  BY <1>4, WithoutIdsIs
<1>6. gwDispatch' \in [GlfwThreads -> GwDispatches] /\ DispatchInv'
  BY <1>4, <1>5, TouchKeeps DEF GwInv
<1>7. GwTypes'
  BY <1>1, <1>2, <1>3, <1>5, <1>6 DEF GwInv, CallbacksInv, GwTypes, DestroyInstanceObject, ReleaseLibrary
<1>8. UnderwayOwned'
  <2>1. \A t \in GlfwThreads : gwPending[t].id # 0 => gwPending[t].with # i
    BY DEF DestroyInstanceObject, UnusedInstances
  <2> QED BY <1>1, <2>1 DEF GwInv, CallbacksInv, UnderwayOwned
<1>11. LeavingInv'
  <2>1. \A t \in GlfwThreads : gwRemoving[t].id # 0 => gwRemoving[t].with # i
    BY DEF DestroyInstanceObject, UnusedInstances
  <2> QED BY <1>1, <2>1 DEF GwInv, CallbacksInv, LeavingInv
<1>9. Owned' = Owned \ ids /\ Underway' = Underway /\ Leaving' = Leaving
  <2>1. \A j, k \in DOMAIN gwInstances : j # k => gwInstances[j] \cap gwInstances[k] = {}
    BY DEF GwInv, CallbacksInv, CallbacksOwned
  <2> QED BY <1>1, <2>1 DEF Owned, Underway, Leaving, ids
<1>10. CallbacksOwned'
  <2>1. ToSet(gwFunctions) = Owned \ (Underway \cup Leaving)
    BY DEF GwInv, CallbacksInv, CallbacksOwned, Owned, Underway, Leaving
  <2>2. ToSet(gwFunctions') = Owned' \ (Underway' \cup Leaving')
    BY <1>5, <1>9, <2>1
  <2>3. \A j, k \in DOMAIN gwInstances' : j # k => gwInstances'[j] \cap gwInstances'[k] = {}
    BY <1>1 DEF GwInv, CallbacksInv, CallbacksOwned
  <2> QED BY <1>5, <2>2, <2>3 DEF CallbacksOwned, Owned, Underway, Leaving
<1> QED BY <1>1, <1>3, <1>6, <1>7, <1>8, <1>10, <1>11 DEF CallbacksInv

\* Steps that leave the instances and the windows where they are.
LEMMA WindowsKept ==
  ASSUME GwInv, DOMAIN gwInstances' = DOMAIN gwInstances,
         UNCHANGED <<gwRefCount, gwInitialised, gwWindows, gwNatives, gwReported>>
  PROVE  LibraryInv' /\ WindowsWhole' /\ EventsReach'
<1>1. WindowsWhole'
  BY DEF GwInv, WindowsWhole
<1> QED BY <1>1 DEF GwInv, LibraryInv, EventsReach

LEMMA TakeCallbackIdStep == ASSUME GwInv, NEW t \in GlfwThreads, NEW i \in GlfwInstances, TakeCallbackId(t, i) PROVE GwInv'
<1> DEFINE n == gwNextId
<1>1. /\ i \in DOMAIN gwInstances /\ DOMAIN gwInstances' = DOMAIN gwInstances
      /\ gwInstances'[i] = gwInstances[i] \cup {n}
      /\ \A k \in DOMAIN gwInstances \ {i} : gwInstances'[k] = gwInstances[k]
  BY DEF TakeCallbackId, InstanceAlive
<1>2. /\ gwPending[t].id = 0 /\ DOMAIN gwPending = GlfwThreads /\ DOMAIN gwPending' = GlfwThreads
      /\ gwPending'[t] = [id |-> n, with |-> i] /\ gwPending'[t].id = n /\ gwPending'[t].with = i
      /\ \A u \in GlfwThreads \ {t} : gwPending'[u] = gwPending[u]
  BY DEF TakeCallbackId, GwInv, CallbacksInv, GwTypes
<1>3. n \in Nat \ {0} /\ gwNextId' = n + 1 /\ \A k \in DOMAIN gwInstances : gwInstances[k] \subseteq 1 .. n - 1 /\ n \notin gwInstances[k]
  BY DEF TakeCallbackId, GwInv, CallbacksInv, GwTypes
<1>4. UNCHANGED <<gwFunctions, gwRemoving, gwDispatch, gwRefCount, gwInitialised, gwWindows, gwNatives, gwReported>>
  BY DEF TakeCallbackId
<1> HIDE DEF n
<1>5. GwTypes'
  <2>1. \A k \in DOMAIN gwInstances : gwInstances'[k] \subseteq 1 .. (n + 1) - 1
    BY <1>1, <1>3
  <2> QED BY <1>1, <1>2, <1>3, <1>4, <2>1 DEF GwInv, CallbacksInv, GwTypes
<1>6. UnderwayOwned'
  <2>1. \A u \in GlfwThreads : gwPending[u].id # 0 => gwPending[u].with \in DOMAIN gwInstances \cap GlfwInstances
                                                     /\ gwPending[u].id \in gwInstances[gwPending[u].with]
    BY DEF GwInv, CallbacksInv, UnderwayOwned
  <2>2. \A u \in GlfwThreads : gwPending[u].id # 0 => gwPending[u].id # n
    BY <1>3, <2>1
  <2>3. \A k \in DOMAIN gwInstances : gwInstances[k] \subseteq gwInstances'[k]
    BY <1>1
  <2>4. \A u, v \in GlfwThreads : gwPending[u].id # 0 /\ gwPending[u].id = gwPending[v].id => u = v
    BY DEF GwInv, CallbacksInv, UnderwayOwned
  <2>5. \A u \in GlfwThreads : gwPending'[u].id # 0 => gwPending'[u].with \in DOMAIN gwInstances' \cap GlfwInstances
                                                      /\ gwPending'[u].id \in gwInstances'[gwPending'[u].with]
    BY <1>1, <1>2, <2>1, <2>3
  <2>6. \A u, v \in GlfwThreads : gwPending'[u].id # 0 /\ gwPending'[u].id = gwPending'[v].id => u = v
    BY <1>2, <1>3, <2>2, <2>4
  <2> QED BY <2>5, <2>6 DEF UnderwayOwned
<1>7. Owned' = Owned \cup {n} /\ n \notin Owned
  BY <1>1, <1>3 DEF Owned
<1>11. Leaving' = Leaving /\ n \notin Leaving /\ LeavingInv'
  <2>1. \A u \in GlfwThreads : gwRemoving[u].id \in 0 .. n - 1
    BY DEF GwInv, CallbacksInv, LeavingInv, n
  <2>2. n \notin Leaving /\ Leaving' = Leaving
    BY <1>3, <1>4, <2>1 DEF Leaving
  <2>3. \A u \in GlfwThreads : gwRemoving'[u].id \in 0 .. gwNextId' - 1
    BY <1>3, <1>4, <2>1
  <2>4. \A u, w \in GlfwThreads : gwRemoving'[u].id # 0 => gwRemoving'[u].id # gwPending'[w].id
    <3>1. \A u \in GlfwThreads : gwRemoving[u].id # n
      BY <1>3, <2>1
    <3> QED BY <1>2, <1>4, <3>1 DEF GwInv, CallbacksInv, LeavingInv
  <2> QED BY <1>1, <1>4, <2>2, <2>3, <2>4 DEF GwInv, CallbacksInv, LeavingInv
<1>8. Underway' = Underway \cup {n}
  <2>1. Underway' \subseteq Underway \cup {n}
    BY <1>2 DEF Underway
  <2>2. n \in Underway' /\ Underway \subseteq Underway'
    BY <1>2, <1>3 DEF Underway
  <2> QED BY <2>1, <2>2
<1>9. CallbacksOwned'
  <2>1. ToSet(gwFunctions) = Owned \ (Underway \cup Leaving) /\ \A j, k \in DOMAIN gwInstances : j # k => gwInstances[j] \cap gwInstances[k] = {}
    BY DEF GwInv, CallbacksInv, CallbacksOwned, Owned, Underway, Leaving
  <2>2. ToSet(gwFunctions') = Owned' \ (Underway' \cup Leaving')
    BY <1>4, <1>7, <1>8, <1>11, <2>1
  <2>3. \A j, k \in DOMAIN gwInstances' : j # k => gwInstances'[j] \cap gwInstances'[k] = {}
    BY <1>1, <1>3, <2>1
  <2> QED BY <1>4, <2>2, <2>3 DEF GwInv, CallbacksInv, CallbacksOwned, Owned, Underway, Leaving
<1>10. DispatchInv'
  BY <1>4 DEF GwInv, CallbacksInv, DispatchInv
<1> QED BY <1>1, <1>4, <1>5, <1>6, <1>9, <1>10, <1>11, WindowsKept DEF GwInv, CallbacksInv

\* A list with one more that is new.
LEMMA OneAppended ==
  ASSUME NEW S, NEW s \in Seq(S), NEW x \in S, IsInjective(s), x \notin ToSet(s)
  PROVE  Append(s, x) \in Seq(S) /\ IsInjective(Append(s, x)) /\ ToSet(Append(s, x)) = ToSet(s) \cup {x}
<1>1. PICK n \in Nat : n = Len(s) /\ DOMAIN s = 1 .. n
  OBVIOUS
<1>2. PICK a : a = Append(s, x)
  OBVIOUS
<1>3. a \in Seq(S) /\ DOMAIN a = 1 .. n + 1 /\ a[n + 1] = x /\ \A i \in 1 .. n : a[i] = s[i]
  BY <1>1, <1>2, AppendProperties
<1>4. \A i \in 1 .. n + 1 : i \in 1 .. n \/ i = n + 1
  OBVIOUS
<1>5. 1 .. n \subseteq 1 .. n + 1 /\ n + 1 \in 1 .. n + 1
  OBVIOUS
<1>6. ToSet(a) = ToSet(s) \cup {x}
  BY <1>1, <1>3, <1>4, <1>5 DEF ToSet
<1>7. \A i \in 1 .. n : s[i] # x
  BY <1>1 DEF ToSet
<1>8. \A i, j \in 1 .. n : s[i] = s[j] => i = j
  BY <1>1 DEF IsInjective
<1>9. IsInjective(a)
  BY <1>3, <1>4, <1>7, <1>8 DEF IsInjective
<1> QED BY <1>2, <1>3, <1>6, <1>9

LEMMA PublishCallbackStep == ASSUME GwInv, NEW t \in GlfwThreads, PublishCallback(t) PROVE GwInv'
<1> DEFINE n == gwPending[t].id
<1>1. /\ DOMAIN gwPending = GlfwThreads /\ DOMAIN gwPending' = GlfwThreads /\ gwPending'[t].id = 0
      /\ \A u \in GlfwThreads \ {t} : gwPending'[u] = gwPending[u]
  BY DEF PublishCallback, NothingPending, GwInv, CallbacksInv, GwTypes
<1>2. n # 0 /\ gwPending[t].with \in DOMAIN gwInstances /\ n \in gwInstances[gwPending[t].with] /\ n \in Nat /\ n \in Owned
  <2>1. n # 0 /\ gwPending[t].with \in DOMAIN gwInstances /\ n \in gwInstances[gwPending[t].with]
    BY DEF PublishCallback, GwInv, CallbacksInv, UnderwayOwned
  <2>2. gwInstances[gwPending[t].with] \subseteq Nat
    BY <2>1 DEF GwInv, CallbacksInv, GwTypes
  <2> QED BY <2>1, <2>2 DEF Owned
<1>3. /\ gwFunctions' = Append(gwFunctions, n) /\ Touch({n})
      /\ UNCHANGED <<gwInstances, gwRefCount, gwInitialised, gwNextId, gwRemoving, gwWindows, gwNatives, gwReported>>
  BY DEF PublishCallback
<1>4. /\ gwFunctions \in Seq(Nat) /\ IsInjective(gwFunctions) /\ ToSet(gwFunctions) = Owned \ (Underway \cup Leaving) /\ n \in Underway
      /\ \A j, k \in DOMAIN gwInstances : j # k => gwInstances[j] \cap gwInstances[k] = {}
  BY <1>2 DEF GwInv, CallbacksInv, GwTypes, CallbacksOwned, Owned, Underway, Leaving
<1>11. Leaving' = Leaving /\ n \notin Leaving
  BY <1>2, <1>3 DEF Leaving, GwInv, CallbacksInv, LeavingInv
<1>10. \A u \in GlfwThreads \ {t} : gwPending[u].id # n
  BY <1>2 DEF GwInv, CallbacksInv, UnderwayOwned
<1> HIDE DEF n
<1>5. gwFunctions' \in Seq(Nat) /\ IsInjective(gwFunctions') /\ ToSet(gwFunctions') = ToSet(gwFunctions) \cup {n}
  BY <1>2, <1>3, <1>4, OneAppended
<1>6. gwDispatch' \in [GlfwThreads -> GwDispatches] /\ DispatchInv'
  <2>1. ToSet(gwFunctions') \ {n} = ToSet(gwFunctions) \ {n} /\ {n} \in SUBSET Nat
    BY <1>2, <1>5
  <2> QED BY <1>3, <1>5, <2>1, TouchKeeps DEF GwInv
<1>7. Underway' = Underway \ {n}
  <2>1. Underway' \subseteq Underway \ {n}
    BY <1>1, <1>10 DEF Underway
  <2>2. Underway \ {n} \subseteq Underway'
    BY <1>1 DEF Underway, n
  <2> QED BY <2>1, <2>2
<1>8. CallbacksOwned'
  <2>1. Owned' = Owned
    BY <1>3 DEF Owned
  <2>2. ToSet(gwFunctions') = Owned' \ (Underway' \cup Leaving')
    BY <1>2, <1>4, <1>5, <1>7, <1>11, <2>1
  <2> QED BY <1>3, <1>4, <1>5, <2>2 DEF CallbacksOwned, Owned, Underway, Leaving
<1>9. GwTypes' /\ UnderwayOwned' /\ LeavingInv'
  <2>3. LeavingInv'
    BY <1>1, <1>3 DEF GwInv, CallbacksInv, LeavingInv
  <2>1. GwTypes'
    BY <1>1, <1>3, <1>5, <1>6 DEF GwInv, CallbacksInv, GwTypes
  <2>2. UnderwayOwned'
    BY <1>1, <1>3 DEF GwInv, CallbacksInv, UnderwayOwned
  <2> QED BY <2>1, <2>2, <2>3
<1> QED BY <1>3, <1>6, <1>8, <1>9, WindowsKept DEF GwInv, CallbacksInv

\* The function leaves the list, its id stays with the instance.
LEMMA RemoveFunctionStep ==
  ASSUME GwInv, NEW t \in GlfwThreads, NEW i, NEW id \in 1 .. MaxCallbackIds, RemoveFunction(t, i, id) PROVE GwInv'
<1>1. /\ gwFunctions' = WithoutIds(gwFunctions, {id}) /\ Touch({id}) /\ id \in Nat /\ id # 0 /\ id < gwNextId /\ id \in ToSet(gwFunctions)
      /\ gwRemoving[t].id = 0
      /\ UNCHANGED <<gwInstances, gwRefCount, gwInitialised, gwNextId, gwPending, gwWindows, gwNatives, gwReported>>
  BY DEF RemoveFunction
<1>2. /\ DOMAIN gwRemoving' = GlfwThreads /\ gwRemoving'[t].id = id
      /\ \A u \in GlfwThreads \ {t} : gwRemoving'[u] = gwRemoving[u]
  BY DEF RemoveFunction, GwInv, CallbacksInv, LeavingInv
<1>3. gwFunctions \in Seq(Nat) /\ IsInjective(gwFunctions) /\ ToSet(gwFunctions) = Owned \ (Underway \cup Leaving) /\ gwNextId \in Nat
  BY DEF GwInv, CallbacksInv, GwTypes, CallbacksOwned, Owned, Underway, Leaving
<1>4. gwFunctions' \in Seq(Nat) /\ ToSet(gwFunctions') = ToSet(gwFunctions) \ {id} /\ IsInjective(gwFunctions')
  BY <1>1, <1>3, WithoutIdsIs
<1>5. gwDispatch' \in [GlfwThreads -> GwDispatches] /\ DispatchInv'
  <2>1. ToSet(gwFunctions') \ {id} = ToSet(gwFunctions) \ {id} /\ {id} \in SUBSET Nat
    BY <1>1, <1>4
  <2> QED BY <1>1, <1>4, <2>1, TouchKeeps DEF GwInv
<1>6. Owned' = Owned /\ Underway' = Underway /\ Leaving' = Leaving \cup {id}
  <2>1. Owned' = Owned /\ Underway' = Underway
    BY <1>1 DEF Owned, Underway
  <2>2. Leaving' \subseteq Leaving \cup {id}
    BY <1>2 DEF Leaving
  <2>3. id \in Leaving' /\ Leaving \subseteq Leaving'
    BY <1>1, <1>2 DEF Leaving
  <2> QED BY <2>1, <2>2, <2>3
<1>7. CallbacksOwned'
  <2>1. ToSet(gwFunctions') = Owned' \ (Underway' \cup Leaving')
    BY <1>3, <1>4, <1>6
  <2>2. \A j, k \in DOMAIN gwInstances' : j # k => gwInstances'[j] \cap gwInstances'[k] = {}
    BY <1>1 DEF GwInv, CallbacksInv, CallbacksOwned
  <2> QED BY <1>4, <2>1, <2>2 DEF CallbacksOwned, Owned, Underway, Leaving
<1>8. GwTypes' /\ UnderwayOwned'
  BY <1>1, <1>4, <1>5 DEF GwInv, CallbacksInv, GwTypes, UnderwayOwned
<1>9. LeavingInv'
  <2>1. \A u \in GlfwThreads : gwPending[u].id # id
    BY <1>1, <1>3 DEF Underway
  <2>2. id \in 0 .. gwNextId - 1
    BY <1>1, <1>3
  <2>3. i \in DOMAIN gwInstances /\ gwRemoving'[t].with = i
    BY DEF RemoveFunction, InstanceAlive, GwInv, CallbacksInv, LeavingInv
  <2> QED BY <1>1, <1>2, <2>1, <2>2, <2>3 DEF GwInv, CallbacksInv, LeavingInv
<1> QED BY <1>1, <1>5, <1>7, <1>8, <1>9, WindowsKept DEF GwInv, CallbacksInv

\* Then the instance forgets the id.
LEMMA RemoveIdStep == ASSUME GwInv, NEW t \in GlfwThreads, RemoveId(t) PROVE GwInv'
<1> DEFINE id == gwRemoving[t].id
           i == gwRemoving[t].with
<1>1. /\ id # 0 /\ i \in DOMAIN gwInstances /\ DOMAIN gwInstances' = DOMAIN gwInstances
      /\ gwInstances'[i] = gwInstances[i] \ {id} /\ id \in gwInstances[i]
      /\ \A k \in DOMAIN gwInstances \ {i} : gwInstances'[k] = gwInstances[k]
  <2>1. gwInstances' = [gwInstances EXCEPT ![i] = gwInstances[i] \ {id}] /\ id # 0 /\ id \in gwInstances[i] /\ i \in DOMAIN gwInstances
    BY DEF RemoveId, GwInv, CallbacksInv, LeavingInv
  <2> HIDE DEF id, i
  <2> QED BY <2>1
<1>2. /\ DOMAIN gwRemoving' = GlfwThreads /\ gwRemoving'[t].id = 0 /\ DOMAIN gwRemoving = GlfwThreads
      /\ \A u \in GlfwThreads \ {t} : gwRemoving'[u] = gwRemoving[u]
      /\ \A u \in GlfwThreads : gwPending[u].id # id
  BY <1>1 DEF RemoveId, NothingPending, GwInv, CallbacksInv, LeavingInv
<1>3. UNCHANGED <<gwRefCount, gwInitialised, gwFunctions, gwNextId, gwPending, gwDispatch, gwWindows, gwNatives, gwReported>>
  BY DEF RemoveId
<1>4. /\ IsInjective(gwFunctions) /\ ToSet(gwFunctions) = Owned \ (Underway \cup Leaving)
      /\ \A j, k \in DOMAIN gwInstances : j # k => gwInstances[j] \cap gwInstances[k] = {}
  BY DEF GwInv, CallbacksInv, CallbacksOwned, Owned, Underway, Leaving
<1>5. id \in Leaving
  BY <1>1 DEF Leaving
<1>6. Leaving \ {id} \subseteq Leaving' /\ Leaving' \subseteq Leaving
  <2>1. Leaving' \subseteq Leaving
    BY <1>2 DEF Leaving
  <2>2. ASSUME NEW u \in GlfwThreads, gwRemoving[u].id # 0, gwRemoving[u].id # id PROVE gwRemoving[u].id \in Leaving'
    BY <1>2, <2>2 DEF Leaving
  <2>3. Leaving \ {id} \subseteq Leaving'
    BY <2>2 DEF Leaving
  <2> QED BY <2>1, <2>3
<1> HIDE DEF id, i
<1>7. Owned' = Owned \ {id} /\ Underway' = Underway
  BY <1>1, <1>3, <1>4 DEF Owned, Underway
<1>8. CallbacksOwned'
  <2>1. ToSet(gwFunctions') = Owned' \ (Underway' \cup Leaving')
    BY <1>3, <1>4, <1>5, <1>6, <1>7
  <2>2. \A j, k \in DOMAIN gwInstances' : j # k => gwInstances'[j] \cap gwInstances'[k] = {}
    BY <1>1, <1>4
  <2> QED BY <1>3, <1>4, <2>1, <2>2 DEF CallbacksOwned, Owned, Underway, Leaving
<1>9. GwTypes'
  <2>1. \A k \in DOMAIN gwInstances : gwInstances'[k] \subseteq gwInstances[k]
    BY <1>1
  <2> QED BY <1>1, <1>3, <2>1 DEF GwInv, CallbacksInv, GwTypes
<1>10. UnderwayOwned' /\ DispatchInv'
  BY <1>1, <1>2, <1>3 DEF GwInv, CallbacksInv, UnderwayOwned, DispatchInv
<1>11. LeavingInv'
  <2>1. gwNextId \in Nat \ {0}
    BY DEF GwInv, CallbacksInv, GwTypes
  <2> QED BY <1>1, <1>2, <1>3, <2>1 DEF GwInv, CallbacksInv, LeavingInv
<1> QED BY <1>1, <1>3, <1>8, <1>9, <1>10, <1>11, WindowsKept DEF GwInv, CallbacksInv

\* What is taken from the front of one list and put at the end of another.
LEMMA OneMoved ==
  ASSUME NEW S, NEW c \in Seq(S), NEW l \in Seq(S), l # <<>>
  PROVE  Append(c, Head(l)) \in Seq(S) /\ Tail(l) \in Seq(S) /\ Append(c, Head(l)) \o Tail(l) = c \o l
<1>1. Head(l) \in S /\ Tail(l) \in Seq(S) /\ Len(Tail(l)) = Len(l) - 1 /\ Head(l) = l[1]
      /\ \A i \in 1 .. Len(Tail(l)) : Tail(l)[i] = l[i + 1]
  BY HeadTailProperties
<1>2. PICK h, t : h = <<Head(l)>> /\ t = Tail(l)
  OBVIOUS
<1>3. h \in Seq(S) /\ t \in Seq(S) /\ Len(h) = 1 /\ h[1] = l[1]
  BY <1>1, <1>2
<1>4. h \o t = l
  <2>1. PICK n \in Nat : Len(l) = n + 1 /\ Len(t) = n
    <3>1. Len(l) \in Nat /\ Len(l) # 0
      OBVIOUS
    <3>2. Len(l) - 1 \in Nat /\ Len(l) = (Len(l) - 1) + 1
      BY <3>1
    <3> QED BY <1>1, <1>2, <3>2
  <2>2. PICK a : a = h \o t
    OBVIOUS
  <2>3. a \in Seq(S) /\ Len(a) = 1 + n /\ \A i \in 1 .. 1 + n : a[i] = IF i <= 1 THEN h[i] ELSE t[i - 1]
    <3>1. /\ h \o t \in Seq(S) /\ Len(h \o t) = Len(h) + Len(t)
          /\ \A i \in 1 .. Len(h) + Len(t) : (h \o t)[i] = IF i <= Len(h) THEN h[i] ELSE t[i - Len(h)]
      BY <1>3, ConcatProperties
    <3> QED BY <1>3, <2>1, <2>2, <3>1
  <2>4. \A i \in 1 .. n + 1 : a[i] = l[i]
    <3> TAKE i \in 1 .. n + 1
    <3>1. CASE i = 1
      BY <1>3, <2>3, <3>1
    <3>2. CASE i # 1
      <4>1. i - 1 \in 1 .. n /\ (i - 1) + 1 = i /\ ~(i <= 1)
        BY <3>2
      <4>2. t[i - 1] = l[i]
        BY <1>1, <1>2, <2>1, <4>1
      <4> QED BY <2>3, <4>1, <4>2
    <3> QED BY <3>1, <3>2
  <2> QED BY <2>1, <2>2, <2>3, <2>4
<1>5. Append(c, Head(l)) \in Seq(S) /\ Append(c, Head(l)) = c \o h
  BY <1>1, <1>2, AppendProperties, AppendIsConcat
<1>6. (c \o h) \o t = c \o (h \o t)
  BY <1>3, ConcatAssociative
<1> QED BY <1>1, <1>2, <1>4, <1>5, <1>6

\* Steps of a dispatch.
LEMMA DispatchKept ==
  ASSUME GwInv, gwDispatch' \in [GlfwThreads -> GwDispatches], DispatchInv',
         UNCHANGED <<gwInstances, gwRefCount, gwInitialised, gwFunctions, gwNextId, gwPending, gwRemoving, gwWindows, gwNatives, gwReported>>
  PROVE  GwInv'
<1>1. GwTypes' /\ UnderwayOwned' /\ LeavingInv' /\ CallbacksOwned'
  BY DEF GwInv, CallbacksInv, GwTypes, UnderwayOwned, LeavingInv, CallbacksOwned
<1> QED BY <1>1, WindowsKept DEF GwInv, CallbacksInv

LEMMA DispatchStep ==
  ASSUME GwInv, NEW t \in GlfwThreads, BeginDispatch(t) \/ CallNext(t) \/ EndDispatch(t) PROVE GwInv'
<1>1. gwFunctions \in Seq(Nat) /\ IsInjective(gwFunctions) /\ gwDispatch \in [GlfwThreads -> GwDispatches] /\ DispatchInv
  BY DEF GwInv, CallbacksInv, GwTypes, CallbacksOwned
<1>2. CASE BeginDispatch(t)
  <2>1. PICK d : d = [on |-> TRUE, left |-> gwFunctions, called |-> <<>>, began |-> gwFunctions, touched |-> {}]
    OBVIOUS
  <2>2. gwDispatch' = [gwDispatch EXCEPT ![t] = d]
    BY <1>2, <2>1 DEF BeginDispatch
  <2>3. <<>> \in Seq(Nat) /\ <<>> \o gwFunctions = gwFunctions
    BY <1>1, ConcatEmptySeq
  <2>4. d \in GwDispatches /\ IsInjective(d.began) /\ d.called \o d.left = d.began
        /\ ToSet(gwFunctions) \ d.touched = ToSet(d.began) \ d.touched
    BY <1>1, <2>1, <2>3 DEF GwDispatches
  <2>5. UNCHANGED <<gwInstances, gwRefCount, gwInitialised, gwFunctions, gwNextId, gwPending, gwRemoving, gwWindows, gwNatives, gwReported>>
    BY <1>2 DEF BeginDispatch
  <2>6. gwDispatch' \in [GlfwThreads -> GwDispatches] /\ DispatchInv'
    BY <1>1, <2>2, <2>4, <2>5 DEF DispatchInv
  <2> QED BY <2>5, <2>6, DispatchKept
<1>3. CASE CallNext(t)
  <2>1. gwDispatch[t].on /\ gwDispatch[t].left # <<>> /\ gwDispatch[t] \in GwDispatches
    BY <1>1, <1>3 DEF CallNext
  <2>2. PICK d \in [on : {TRUE}, left : Seq(Nat), called : Seq(Nat), began : Seq(Nat), touched : SUBSET Nat] : d = gwDispatch[t]
    <3>1. gwDispatch[t] # NoDispatch
      BY <2>1 DEF NoDispatch
    <3> QED BY <2>1, <3>1 DEF GwDispatches
  <2>3. PICK called, left : called = Append(d.called, Head(d.left)) /\ left = Tail(d.left)
    OBVIOUS
  <2>4. gwDispatch' = [gwDispatch EXCEPT ![t] = [d EXCEPT !.called = called, !.left = left]]
    BY <1>3, <2>2, <2>3 DEF CallNext
  <2>5. called \in Seq(Nat) /\ left \in Seq(Nat) /\ called \o left = d.called \o d.left
    <3>1. PICK c, l \in Seq(Nat) : c = d.called /\ l = d.left /\ l # <<>>
      BY <2>1, <2>2
    <3> QED BY <2>3, <3>1, OneMoved
  <2>6. PICK e : e = [d EXCEPT !.called = called, !.left = left]
    OBVIOUS
  <2>7. e \in GwDispatches /\ e.called = called /\ e.left = left /\ e.began = d.began /\ e.touched = d.touched
    BY <2>2, <2>5, <2>6 DEF GwDispatches
  <2>8. UNCHANGED <<gwInstances, gwRefCount, gwInitialised, gwFunctions, gwNextId, gwPending, gwRemoving, gwWindows, gwNatives, gwReported>>
    BY <1>3 DEF CallNext
  <2>9. gwDispatch' = [gwDispatch EXCEPT ![t] = e]
    BY <2>4, <2>6
  <2>10. gwDispatch' \in [GlfwThreads -> GwDispatches]
    BY <1>1, <2>7, <2>9
  <2>11. DispatchInv'
    <3> SUFFICES ASSUME NEW u \in GlfwThreads, gwDispatch'[u].on
                 PROVE  /\ IsInjective(gwDispatch'[u].began) /\ gwDispatch'[u].called \o gwDispatch'[u].left = gwDispatch'[u].began
                        /\ ToSet(gwFunctions) \ gwDispatch'[u].touched = ToSet(gwDispatch'[u].began) \ gwDispatch'[u].touched
      BY <2>8 DEF DispatchInv
    <3>1. CASE u = t
      BY <1>1, <2>1, <2>2, <2>5, <2>7, <2>9, <3>1 DEF DispatchInv
    <3>2. CASE u # t
      BY <1>1, <2>9, <3>2 DEF DispatchInv
    <3> QED BY <3>1, <3>2
  <2> QED BY <2>8, <2>10, <2>11, DispatchKept
<1>4. CASE EndDispatch(t)
  <2>1. gwDispatch' = [gwDispatch EXCEPT ![t] = NoDispatch] /\ NoDispatch \in GwDispatches /\ NoDispatch.on = FALSE
    BY <1>4 DEF EndDispatch, GwDispatches, NoDispatch
  <2>2. UNCHANGED <<gwInstances, gwRefCount, gwInitialised, gwFunctions, gwNextId, gwPending, gwRemoving, gwWindows, gwNatives, gwReported>>
    BY <1>4 DEF EndDispatch
  <2>3. gwDispatch' \in [GlfwThreads -> GwDispatches] /\ DispatchInv'
    BY <1>1, <2>1, <2>2 DEF DispatchInv
  <2> QED BY <2>2, <2>3, DispatchKept
<1> QED BY <1>2, <1>3, <1>4

\* A window that is made, opened, closed and destroyed.
LEMMA OthersKept ==
  ASSUME GwInv, UNCHANGED <<gwInstances, gwRefCount, gwInitialised, gwFunctions, gwNextId, gwPending, gwRemoving, gwDispatch>>
  PROVE  CallbacksInv' /\ LibraryInv'
<1>1. GwTypes' /\ UnderwayOwned' /\ LeavingInv'
  BY DEF GwInv, CallbacksInv, GwTypes, UnderwayOwned, LeavingInv
<1>2. CallbacksOwned'
  BY DEF GwInv, CallbacksInv, CallbacksOwned
<1>3. DispatchInv'
  BY DEF GwInv, CallbacksInv, DispatchInv
<1> QED BY <1>1, <1>2, <1>3 DEF GwInv, CallbacksInv, LibraryInv

LEMMA WindowStep ==
  ASSUME GwInv, NEW w \in GlfwWindowNames,
         BeginWindow(w) \/ OpenWindow(w) \/ WindowFails(w) \/ CloseNative(w) \/ CloseInstance(w)
  PROVE  GwInv'
<1>0. WindowsWhole /\ gwReported' = gwReported
  BY DEF GwInv, BeginWindow, OpenWindow, WindowFails, CloseNative, CloseInstance
<1>1. EventsReach'
  BY <1>0 DEF GwInv, EventsReach
<1>2. CASE BeginWindow(w)
  <2>1. CallbacksInv' /\ LibraryInv' /\ DOMAIN gwInstances' = DOMAIN gwInstances \cup {w}
    BY <1>2, ConstructInstanceStep DEF BeginWindow
  <2>2. PICK new : new = [stage |-> "made", callbacks |-> {}]
    OBVIOUS
  <2>3. gwWindows' = [k \in DOMAIN gwWindows \cup {w} |-> IF k = w THEN new ELSE gwWindows[k]] /\ w \notin DOMAIN gwWindows
        /\ gwNatives' = gwNatives
    BY <1>2, <2>2 DEF BeginWindow
  <2>4. new \in [stage : {"made", "open", "closed"}, callbacks : SUBSET WindowEvents] /\ new.stage # "open"
    BY <2>2
  <2>5. WindowsWhole'
    BY <1>0, <2>1, <2>3, <2>4 DEF WindowsWhole
  <2> QED BY <1>1, <2>1, <2>5 DEF GwInv
<1>3. CASE OpenWindow(w)
  <2>1. /\ w \in DOMAIN gwWindows
        /\ gwWindows' = [gwWindows EXCEPT ![w] = [gwWindows[w] EXCEPT !.stage = "open"]]
        /\ gwNatives' = [k \in DOMAIN gwNatives \cup {w} |-> IF k = w THEN RegisteredEvents ELSE gwNatives[k]]
        /\ UNCHANGED <<gwInstances, gwRefCount, gwInitialised, gwFunctions, gwNextId, gwPending, gwRemoving, gwDispatch>>
    BY <1>3 DEF OpenWindow
  <2>2. PICK old \in [stage : {"made", "open", "closed"}, callbacks : SUBSET WindowEvents] : old = gwWindows[w]
    BY <1>0, <2>1 DEF WindowsWhole
  <2>3. PICK new : new = [old EXCEPT !.stage = "open"]
    OBVIOUS
  <2>4. new \in [stage : {"made", "open", "closed"}, callbacks : SUBSET WindowEvents] /\ new.stage = "open"
    BY <2>2, <2>3
  <2>5. gwWindows' = [gwWindows EXCEPT ![w] = new]
    BY <2>1, <2>2, <2>3
  <2>6. WindowsWhole'
    BY <1>0, <2>1, <2>4, <2>5 DEF WindowsWhole
  <2> QED BY <1>1, <2>1, <2>6, OthersKept DEF GwInv
<1>4. CASE WindowFails(w) \/ CloseInstance(w)
  <2>1. CallbacksInv' /\ LibraryInv' /\ DOMAIN gwInstances' = DOMAIN gwInstances \ {w}
    BY <1>4, DestroyInstanceStep DEF WindowFails, CloseInstance
  <2>2. gwWindows' = [k \in DOMAIN gwWindows \ {w} |-> gwWindows[k]] /\ gwWindows[w].stage # "open" /\ gwNatives' = gwNatives
    BY <1>4 DEF WindowFails, CloseInstance
  <2>3. DOMAIN gwWindows' = DOMAIN gwWindows \ {w} /\ \A k \in DOMAIN gwWindows' : gwWindows'[k] = gwWindows[k]
    BY <2>2
  <2>4. DOMAIN gwNatives' = {k \in DOMAIN gwWindows' : gwWindows'[k].stage = "open"}
    BY <1>0, <2>2, <2>3 DEF WindowsWhole
  <2>5. WindowsWhole'
    BY <1>0, <2>1, <2>2, <2>3, <2>4 DEF WindowsWhole
  <2> QED BY <1>1, <2>1, <2>5 DEF GwInv
<1>5. CASE CloseNative(w)
  <2>1. PICK new : new = [stage |-> "closed", callbacks |-> {}]
    OBVIOUS
  <2>2. /\ gwWindows' = [gwWindows EXCEPT ![w] = new] /\ gwNatives' = [k \in DOMAIN gwNatives \ {w} |-> gwNatives[k]]
        /\ UNCHANGED <<gwInstances, gwRefCount, gwInitialised, gwFunctions, gwNextId, gwPending, gwRemoving, gwDispatch>>
    BY <1>5, <2>1 DEF CloseNative
  <2>3. new \in [stage : {"made", "open", "closed"}, callbacks : SUBSET WindowEvents] /\ new.stage # "open"
    BY <2>1
  <2>4. WindowsWhole'
    BY <1>0, <2>2, <2>3 DEF WindowsWhole
  <2> QED BY <1>1, <2>2, <2>4, OthersKept DEF GwInv
<1> QED BY <1>2, <1>3, <1>4, <1>5

LEMMA EventStep ==
  ASSUME GwInv, NEW w \in GlfwWindowNames, NEW e \in WindowEvents, SetWindowCallback(w, e) \/ WindowEvent(w, e)
  PROVE  GwInv'
<1>0. UNCHANGED <<gwInstances, gwRefCount, gwInitialised, gwFunctions, gwNextId, gwPending, gwRemoving, gwDispatch, gwNatives>> /\ WindowsWhole
  BY DEF GwInv, SetWindowCallback, WindowEvent
<1>1. CallbacksInv' /\ LibraryInv'
  BY <1>0, OthersKept
<1>2. CASE SetWindowCallback(w, e)
  <2>1. gwReported' = gwReported /\ gwWindows' = [gwWindows EXCEPT ![w] = [gwWindows[w] EXCEPT !.callbacks = gwWindows[w].callbacks \cup {e}]]
        /\ w \in DOMAIN gwWindows
    BY <1>2 DEF SetWindowCallback
  <2>2. PICK old \in [stage : {"made", "open", "closed"}, callbacks : SUBSET WindowEvents] : old = gwWindows[w]
    BY <1>0, <2>1 DEF WindowsWhole
  <2>3. PICK new : new = [old EXCEPT !.callbacks = old.callbacks \cup {e}]
    OBVIOUS
  <2>4. new \in [stage : {"made", "open", "closed"}, callbacks : SUBSET WindowEvents] /\ new.stage = old.stage
    BY <2>2, <2>3
  <2>5. gwWindows' = [gwWindows EXCEPT ![w] = new]
    BY <2>1, <2>2, <2>3
  <2>6. WindowsWhole'
    BY <1>0, <2>1, <2>2, <2>4, <2>5 DEF WindowsWhole
  <2> QED BY <1>1, <2>1, <2>6 DEF GwInv, EventsReach
<1>3. CASE WindowEvent(w, e)
  <2>1. gwWindows' = gwWindows
    BY <1>3 DEF WindowEvent
  <2>2. WindowsWhole'
    BY <1>0, <2>1 DEF WindowsWhole
  <2>3. gwNatives[w] = RegisteredEvents
    BY <1>0, <1>3 DEF WindowsWhole, WindowEvent
  <2>4. gwReported'.kind = e /\ gwReported'.set = (e \in gwWindows[w].callbacks)
        /\ gwReported'.called = (e \in gwNatives[w] /\ e \in gwWindows[w].callbacks)
    BY <1>3 DEF WindowEvent
  <2>5. e # "drop" => e \in RegisteredEvents
    BY DEF RegisteredEvents
  <2>6. EventsReach'
    BY <2>3, <2>4, <2>5 DEF EventsReach
  <2> QED BY <1>1, <2>2, <2>6 DEF GwInv
<1> QED BY <1>2, <1>3

LEMMA GwStep == GwInv /\ [GwNext]_gwVars => GwInv'
<1> SUFFICES ASSUME GwInv, [GwNext]_gwVars PROVE GwInv'
  OBVIOUS
<1>0. GwTypes /\ UnderwayOwned /\ CallbacksOwned /\ DispatchInv /\ WindowsWhole /\ EventsReach
  BY DEF GwInv, CallbacksInv
<1>1. ASSUME NEW i \in GlfwInstances, CreateInstance(i) PROVE GwInv'
  <2>1. CallbacksInv' /\ LibraryInv' /\ DOMAIN gwInstances' = DOMAIN gwInstances \cup {i}
    BY <1>1, ConstructInstanceStep DEF CreateInstance
  <2>2. WindowsWhole' /\ EventsReach'
    BY <1>0, <1>1, <2>1 DEF WindowsWhole, EventsReach, CreateInstance
  <2> QED BY <2>1, <2>2 DEF GwInv
<1>2. ASSUME NEW i \in GlfwInstances, DestroyInstance(i) PROVE GwInv'
  <2>1. CallbacksInv' /\ LibraryInv' /\ DOMAIN gwInstances' = DOMAIN gwInstances \ {i}
    BY <1>2, DestroyInstanceStep DEF DestroyInstance
  <2>2. i \notin GlfwWindowNames
    BY GlfwAssumption
  <2>3. WindowsWhole' /\ EventsReach'
    BY <1>0, <1>2, <2>1, <2>2 DEF WindowsWhole, EventsReach, DestroyInstance
  <2> QED BY <2>1, <2>3 DEF GwInv
<1>3. ASSUME UNCHANGED gwVars \/ \E t \in GlfwThreads : EraseEnd(t) PROVE GwInv'
  <2>1. UNCHANGED <<gwInstances, gwRefCount, gwInitialised, gwFunctions, gwNextId, gwPending, gwRemoving, gwDispatch, gwWindows, gwNatives, gwReported>>
    BY <1>3 DEF gwVars, EraseEnd
  <2>2. WindowsWhole' /\ EventsReach'
    BY <1>0, <2>1 DEF WindowsWhole, EventsReach
  <2> QED BY <2>1, <2>2, OthersKept DEF GwInv
<1> QED BY <1>1, <1>2, <1>3, TakeCallbackIdStep, PublishCallbackStep, RemoveFunctionStep, RemoveIdStep, DispatchStep, WindowStep,
        EventStep DEF GwNext, GwOperation

\* A value that has a name has it by the first entry, and the name leads back, if names mean one value.
LEMMA FirstNames ==
  ASSUME NEW entries, DOMAIN entries \subseteq Nat,
         \A j, k \in DOMAIN entries : entries[j][2] = entries[k][2] => entries[j][1] = entries[k][1],
         NEW k \in DOMAIN entries, NEW u
  PROVE  /\ ValueOf(entries, NameOf(entries, entries[k][1]), u) = entries[k][1]
         /\ \E m \in DOMAIN entries : entries[m][1] = entries[k][1] /\ NameOf(entries, entries[k][1]) = entries[m][2]
<1> DEFINE v == entries[k][1]
           named == {j \in DOMAIN entries : entries[j][1] = v}
           name == NameOf(entries, v)
<1>1. PICK m \in named : \A j \in named : m <= j
  <2>1. named \in SUBSET Nat /\ named # {}
    OBVIOUS
  <2> HIDE DEF named
  <2> QED BY <2>1, LeastElement
<1>2. PICK f \in named : name = entries[f][2]
  <2>1. name = entries[CHOOSE j \in named : \A i \in named : j <= i][2]
    BY <1>1 DEF NameOf
  <2>2. (CHOOSE j \in named : \A i \in named : j <= i) \in named
    <3> HIDE DEF named
    <3> QED BY <1>1
  <2> HIDE DEF named
  <2> QED BY <2>1, <2>2
<1> DEFINE kept == {j \in DOMAIN entries : entries[j][2] = name /\ NameOf(entries, entries[j][1]) = name}
<1>3. f \in kept
  BY <1>2
<1>4. ValueOf(entries, name, u) = entries[CHOOSE j \in kept : TRUE][1]
  BY <1>3 DEF ValueOf
<1> HIDE DEF name
<1>5. \A j \in kept : entries[j][1] = v
  BY <1>2
<1>6. (CHOOSE j \in kept : TRUE) \in kept
  <2> HIDE DEF kept
  <2> QED BY <1>3
<1> HIDE DEF kept
<1>7. ValueOf(entries, name, u) = v
  BY <1>4, <1>5, <1>6
<1> QED BY <1>2, <1>7 DEF name

LEMMA NamesAreInverse == NamesInverse
<1>1. DOMAIN MouseButtons = 1 .. 11 /\ DOMAIN KeysListed = 1 .. 5
  BY DEF MouseButtons, KeysListed
<1>2. \A j, k \in 1 .. 11 : MouseButtons[j][2] = MouseButtons[k][2] => MouseButtons[j][1] = MouseButtons[k][1]
  BY DEF MouseButtons
<1>3. \A j, k \in 1 .. 5 : KeysListed[j][2] = KeysListed[k][2] => j = k
  BY DEF KeysListed
<1>4. \A j, k \in 1 .. 5 : KeysListed[j][1] = KeysListed[k][1] => j = k
  BY DEF KeysListed
<1>5. ASSUME NEW k \in DOMAIN MouseButtons
      PROVE  ValueOf(MouseButtons, NameOf(MouseButtons, MouseButtons[k][1]), -1) = MouseButtons[k][1]
  <2>1. DOMAIN MouseButtons \subseteq Nat
    BY <1>1
  <2>2. \A i, j \in DOMAIN MouseButtons : MouseButtons[i][2] = MouseButtons[j][2] => MouseButtons[i][1] = MouseButtons[j][1]
    BY <1>1, <1>2
  <2>3. /\ ValueOf(MouseButtons, NameOf(MouseButtons, MouseButtons[k][1]), -1) = MouseButtons[k][1]
        /\ \E m \in DOMAIN MouseButtons : MouseButtons[m][1] = MouseButtons[k][1]
                                         /\ NameOf(MouseButtons, MouseButtons[k][1]) = MouseButtons[m][2]
    BY <2>1, <2>2, FirstNames
  <2> QED BY <2>3
<1>6. ASSUME NEW k \in DOMAIN KeysListed PROVE ValueOf(KeysListed, KeysListed[k][2], -1) = KeysListed[k][1]
  <2>1. DOMAIN KeysListed \subseteq Nat
    BY <1>1
  <2>2. /\ ValueOf(KeysListed, NameOf(KeysListed, KeysListed[k][1]), -1) = KeysListed[k][1]
        /\ \E m \in DOMAIN KeysListed : KeysListed[m][1] = KeysListed[k][1] /\ NameOf(KeysListed, KeysListed[k][1]) = KeysListed[m][2]
    BY <1>1, <1>3, <2>1, FirstNames
  <2>3. NameOf(KeysListed, KeysListed[k][1]) = KeysListed[k][2]
    BY <1>1, <1>4, <2>2
  <2> QED BY <2>2, <2>3
<1> QED BY <1>5, <1>6 DEF NamesInverse

LEMMA GwInvIsSafe == GwInv => WindowsSafe
<1> SUFFICES ASSUME GwInv PROVE WindowsSafe
  OBVIOUS
<1>1. LibraryLives
  BY DEF GwInv, LibraryInv, WindowsWhole, LibraryLives
<1>2. DispatchExact
  <2> SUFFICES ASSUME NEW t \in GlfwThreads, gwDispatch[t].on PROVE IsInjective(gwDispatch[t].called)
    BY DEF GwInv, CallbacksInv, DispatchInv, DispatchExact
  <2>1. gwDispatch[t] # NoDispatch /\ gwDispatch[t] \in GwDispatches
    BY DEF GwInv, CallbacksInv, GwTypes, NoDispatch
  <2>2. PICK c, l \in Seq(Nat) : c = gwDispatch[t].called /\ l = gwDispatch[t].left
    BY <2>1 DEF GwDispatches
  <2>3. IsInjective(c \o l)
    BY <2>2 DEF GwInv, CallbacksInv, DispatchInv
  <2>4. c \o l \in Seq(Nat) /\ Len(c \o l) = Len(c) + Len(l) /\ Len(c) \in Nat /\ Len(l) \in Nat
        /\ \A i \in 1 .. Len(c) + Len(l) : (c \o l)[i] = IF i <= Len(c) THEN c[i] ELSE l[i - Len(c)]
    BY ConcatProperties
  <2>5. PICK m, n \in Nat : m = Len(c) /\ n = Len(l)
    OBVIOUS
  <2>6. PICK a : a = c \o l
    OBVIOUS
  <2>7. \A i \in 1 .. m : i \in 1 .. m + n /\ i <= m
    OBVIOUS
  <2>8. DOMAIN c = 1 .. m /\ DOMAIN a = 1 .. m + n /\ \A i \in 1 .. m : a[i] = c[i]
    BY <2>4, <2>5, <2>6, <2>7
  <2>9. IsInjective(c)
    BY <2>3, <2>6, <2>7, <2>8 DEF IsInjective
  <2> QED BY <2>2, <2>9
<1> QED BY <1>1, <1>2, NamesAreInverse DEF GwInv, CallbacksInv, WindowsSafe

LEMMA GwInvariance == GwSpec => []GwInv
<1> QED BY GwInitially, GwStep, PTL DEF GwSpec

(***************************************************************************)
(* Input from frame to frame                                               *)
(***************************************************************************)

Velocities == Int \cup {NotANumber}
MouseStates == [position : Int, velocity : Velocities, acceleration : Velocities]

InTypes ==
  /\ inDelta \in {0, 1} \X {0, 1}
  /\ inMouse \in MouseStates /\ inLastMouse \in MouseStates
  /\ inCurrent \subseteq InputKeys
  /\ DOMAIN inTasks = Flyers /\ DOMAIN inFlyers = Flyers
  /\ \A f \in Flyers : "pitch" \in DOMAIN inFlyers[f] /\ inFlyers[f].pitch \in Int
  /\ inStack \in Seq({"first person", "menu"}) /\ Len(inStack) > 0

\* Flyers are at work in frames that took time, and only in those.
TasksInFrame ==
  /\ inPhase = "processing" => inDelta[1] = 1
  /\ inPhase # "processing" => \A f \in Flyers : inTasks[f] = IdleTask

\* What was answered is in the cache.
AnswersCached == \A a \in inAnswers : a[1] \in DOMAIN inCache /\ inCache[a[1]] = a[2]

InInv == InTypes /\ TasksInFrame /\ AnswersCached /\ HistoryExact /\ MouseHeals /\ CursorGrabbed

LEMMA InInitially == InInit => InInv
<1> SUFFICES ASSUME InInit PROVE InInv
  OBVIOUS
<1>1. PICK p \in CursorPlaces :
        inMouse = MouseAt(p) /\ inLastMouse = MouseAt(p) /\ inPolled = <<[keys |-> {}, place |-> p], [keys |-> {}, place |-> p]>>
  BY DEF InInit
<1>2. p \in Int /\ 0 # NotANumber /\ 1 # NotANumber
  BY InputAssumption
<1>3. MouseAt(p) \in MouseStates /\ MouseAt(p).velocity = 0 /\ MouseAt(p).acceleration = 0 /\ MouseAt(p).position = p
  BY <1>2 DEF MouseAt, MouseStates, Velocities
<1>4. /\ <<"first person">> \in Seq({"first person", "menu"}) /\ Len(<<"first person">>) > 0
      /\ <<"first person">>[Len(<<"first person">>)] = "first person"
  OBVIOUS
<1>0. inDelta = <<1, 1>> /\ inDelta[1] = 1 /\ inDelta[2] = 1
  BY DEF InInit
<1>5. InTypes
  <2>1. inDelta \in {0, 1} \X {0, 1}
    BY <1>0
  <2>2. inStack \in Seq({"first person", "menu"}) /\ Len(inStack) > 0
    BY <1>4 DEF InInit
  <2>3. DOMAIN inTasks = Flyers /\ DOMAIN inFlyers = Flyers /\ \A f \in Flyers : "pitch" \in DOMAIN inFlyers[f] /\ inFlyers[f].pitch \in Int
    <3>1. DOMAIN [pitch |-> 0, moved |-> Still] = {"pitch", "moved"} /\ [pitch |-> 0, moved |-> Still].pitch = 0
      OBVIOUS
    <3>2. PICK still : still = [pitch |-> 0, moved |-> Still]
      OBVIOUS
    <3>3. inFlyers = [f \in Flyers |-> still] /\ inTasks = [f \in Flyers |-> IdleTask]
      BY <3>2 DEF InInit
    <3> QED BY <3>1, <3>2, <3>3
  <2> QED BY <1>1, <1>3, <2>1, <2>2, <2>3 DEF InInit, InTypes
<1>6. HistoryExact
  BY <1>1, <1>3 DEF InInit, HistoryExact
<1>7. MouseHeals
  BY <1>0, <1>1, <1>2, <1>3 DEF MouseHeals
<1>8. CursorGrabbed
  BY <1>4 DEF InInit, CursorGrabbed, ModeOf
<1>9. TasksInFrame /\ AnswersCached
  BY DEF InInit, TasksInFrame, AnswersCached
<1> QED BY <1>5, <1>6, <1>7, <1>8, <1>9 DEF InInv

\* A velocity is no number just when a frame took no time, an acceleration when one of two did.
LEMMA PreprocessStep ==
  ASSUME InInv, NEW delta \in {0, 1}, NEW pressed \in SUBSET InputKeys, NEW place \in CursorPlaces, NEW close \in BOOLEAN,
         Preprocess(delta, pressed, place, close)
  PROVE  InInv'
<1>1. inPhase = "between" /\ inPhase' = "polled"
  BY DEF Preprocess
<1> DEFINE velocity == Per(place - inMouse.position, delta)
           acceleration == PerTime(Difference(velocity, inMouse.velocity), delta)
<1>2. /\ inDelta' = <<delta, inDelta[1]>> /\ inDelta[1] \in {0, 1}
      /\ inMouse' = [position |-> place, velocity |-> velocity, acceleration |-> acceleration]
      /\ inLastMouse' = inMouse /\ inLast' = inCurrent /\ inCurrent' = pressed
      /\ inPolled' = <<[keys |-> pressed, place |-> place], inPolled[1]>>
  BY DEF Preprocess, InInv, InTypes
<1>3. place \in Int /\ NotANumber \notin Int /\ inMouse.position \in Int /\ inMouse.velocity \in Velocities
  BY InputAssumption DEF InInv, InTypes, MouseStates
<1>4. velocity \in Velocities /\ (velocity = NotANumber <=> delta = 0)
  BY <1>3 DEF Per, Velocities
<1>5. inMouse.velocity = NotANumber <=> inDelta[1] = 0
  BY DEF InInv, MouseHeals
<1> HIDE DEF velocity
<1>6. Difference(velocity, inMouse.velocity) \in Velocities
      /\ (Difference(velocity, inMouse.velocity) = NotANumber <=> velocity = NotANumber \/ inMouse.velocity = NotANumber)
  BY <1>3, <1>4 DEF Difference, Velocities
<1>7. acceleration \in Velocities /\ (acceleration = NotANumber <=> delta = 0 \/ inDelta[1] = 0)
  BY <1>3, <1>4, <1>5, <1>6 DEF PerTime, Per, Velocities
<1> HIDE DEF acceleration
<1>8. UNCHANGED <<inCache, inTasks, inFlyers, inAnswers, inStack, inCursorMode>>
  BY DEF Preprocess
<1>9. inMouse' \in MouseStates
  BY <1>2, <1>3, <1>4, <1>7 DEF MouseStates
<1>10. InTypes'
  BY <1>2, <1>8, <1>9 DEF InInv, InTypes
<1>11. TasksInFrame' /\ AnswersCached' /\ CursorGrabbed'
  BY <1>1, <1>8 DEF InInv, TasksInFrame, AnswersCached, CursorGrabbed
<1>12. HistoryExact'
  BY <1>2 DEF InInv, HistoryExact
<1>13. inDelta'[1] = delta /\ inDelta'[2] = inDelta[1] /\ inMouse'.velocity = velocity /\ inMouse'.acceleration = acceleration
  BY <1>2
<1>14. MouseHeals'
  BY <1>4, <1>7, <1>13 DEF MouseHeals
<1> QED BY <1>10, <1>11, <1>12, <1>14 DEF InInv

LEMMA ProcessStep == ASSUME InInv, Process PROVE InInv'
<1>1. inDelta[1] \in {0, 1} /\ UNCHANGED <<inDelta, inCurrent, inLast, inMouse, inLastMouse, inCache, inFlyers, inAnswers,
                                           inStack, inCursorMode, inPolled>>
  BY DEF Process, InInv, InTypes
<1>2. DOMAIN inTasks' = Flyers /\ TasksInFrame'
  <2>1. CASE inStack[Len(inStack)] = "first person" /\ WorthProcessing
    <3>1. inPhase' = "processing" /\ inTasks' = [f \in Flyers |-> [at |-> 1, stage |-> "mouse", velocity |-> Still]]
      BY <2>1 DEF Process
    <3>2. inDelta'[1] = 1
      <4>1. inDelta' = inDelta /\ inDelta[1] \in {0, 1}
        BY <1>1
      <4>2. inDelta[1] > 0
        BY <2>1 DEF WorthProcessing
      <4> QED BY <4>1, <4>2
    <3> QED BY <3>1, <3>2 DEF TasksInFrame
  <2>2. CASE ~(inStack[Len(inStack)] = "first person" /\ WorthProcessing)
    <3>1. inPhase' = "between" /\ inTasks' = inTasks /\ inPhase = "polled"
      BY <2>2 DEF Process
    <3> QED BY <3>1 DEF InInv, InTypes, TasksInFrame
  <2> QED BY <2>1, <2>2
<1>3. InTypes'
  BY <1>1, <1>2 DEF InInv, InTypes
<1>4. AnswersCached' /\ HistoryExact' /\ MouseHeals' /\ CursorGrabbed'
  BY <1>1 DEF InInv, AnswersCached, HistoryExact, MouseHeals, CursorGrabbed
<1> QED BY <1>2, <1>3, <1>4 DEF InInv

\* A task that is at work is at work in a frame.
LEMMA AtWork ==
  ASSUME InInv, NEW f \in Flyers, NEW stage, Task(f, stage)
  PROVE  inPhase = "processing" /\ inDelta[1] = 1
BY DEF InInv, TasksInFrame, Task, IdleTask

\* What the steps of flyers leave alone.
LEMMA FlyerKeeps ==
  ASSUME InInv, FlyerStep, DOMAIN inTasks' = Flyers, DOMAIN inFlyers' = Flyers,
         \A f \in Flyers : "pitch" \in DOMAIN inFlyers'[f] /\ inFlyers'[f].pitch \in Int,
         TasksInFrame', AnswersCached'
  PROVE  InInv'
<1>1. UNCHANGED <<inDelta, inCurrent, inLast, inMouse, inLastMouse, inStack, inCursorMode, inPolled>>
  BY DEF FlyerStep
<1>2. InTypes'
  BY <1>1 DEF InInv, InTypes
<1>3. HistoryExact' /\ MouseHeals' /\ CursorGrabbed'
  BY <1>1 DEF InInv, HistoryExact, MouseHeals, CursorGrabbed
<1> QED BY <1>2, <1>3 DEF InInv

\* In a frame that took time the mouse has a velocity that is a number.
LEMMA ProcessMouseStep == ASSUME InInv, NEW f \in Flyers, ProcessMouse(f) PROVE InInv'
<1>1. inPhase = "processing" /\ inDelta[1] = 1
  BY AtWork DEF ProcessMouse
<1>2. inMouse.velocity \in Int
  <2>1. inMouse.velocity \in Velocities
    BY DEF InInv, InTypes, MouseStates
  <2>2. inMouse.velocity # NotANumber
    BY <1>1 DEF InInv, MouseHeals
  <2> QED BY <2>1, <2>2 DEF Velocities
<1>3. \A g \in Flyers : "pitch" \in DOMAIN inFlyers[g] /\ inFlyers[g].pitch \in Int
  BY DEF InInv, InTypes
<1>4. Pitched(inFlyers[f].pitch, inMouse.velocity, f \in InvertedFlyers) \in Int
  BY <1>2, <1>3, InputAssumption DEF Pitched
<1> DEFINE p == Pitched(inFlyers[f].pitch, inMouse.velocity, f \in InvertedFlyers)
<1>5. inFlyers' = [inFlyers EXCEPT ![f] = [inFlyers[f] EXCEPT !.pitch = p]]
  BY DEF ProcessMouse
<1> HIDE DEF p
<1>6. DOMAIN inFlyers = Flyers
  BY DEF InInv, InTypes
<1>7. p \in Int
  BY <1>4 DEF p
<1>8. DOMAIN inFlyers' = Flyers /\ \A g \in Flyers : "pitch" \in DOMAIN inFlyers'[g] /\ inFlyers'[g].pitch \in Int
  BY <1>3, <1>5, <1>6, <1>7
<1>9. DOMAIN inTasks' = Flyers /\ inPhase' = inPhase /\ inDelta' = inDelta /\ inCache' = inCache /\ inAnswers' = inAnswers /\ FlyerStep
  BY DEF ProcessMouse, InInv, InTypes, FlyerStep
<1>10. TasksInFrame' /\ AnswersCached'
  BY <1>1, <1>9 DEF InInv, TasksInFrame, AnswersCached
<1> QED BY <1>8, <1>9, <1>10, FlyerKeeps

LEMMA LookUpKeyStep == ASSUME InInv, NEW f \in Flyers, LookUpKey(f) PROVE InInv'
<1>1. inPhase = "processing" /\ inDelta[1] = 1
  BY AtWork DEF LookUpKey
<1>2. /\ DOMAIN inTasks' = Flyers /\ inPhase' = inPhase /\ inDelta' = inDelta /\ inCache' = inCache
      /\ inFlyers' = inFlyers /\ FlyerStep
  BY DEF LookUpKey, Answer, InInv, InTypes, FlyerStep
<1>3. AnswersCached'
  <2>1. CASE NameAsked(f) \in DOMAIN inCache
    <3>1. inAnswers' = inAnswers \cup {<<NameAsked(f), inCache[NameAsked(f)]>>}
      BY <2>1 DEF LookUpKey, Answer
    <3> QED BY <1>2, <2>1, <3>1 DEF InInv, AnswersCached
  <2>2. CASE NameAsked(f) \notin DOMAIN inCache
    BY <1>2, <2>2 DEF LookUpKey, InInv, AnswersCached
  <2> QED BY <2>1, <2>2
<1>4. TasksInFrame'
  BY <1>1, <1>2 DEF TasksInFrame
<1> QED BY <1>2, <1>3, <1>4, FlyerKeeps DEF InInv, InTypes

\* Whoever comes second finds the name in the cache, whatever the configuration says by then.
LEMMA ResolveKeyStep == ASSUME InInv, NEW f \in Flyers, ResolveKey(f) PROVE InInv'
<1>1. inPhase = "processing" /\ inDelta[1] = 1
  BY AtWork DEF ResolveKey
<1>2. /\ DOMAIN inTasks' = Flyers /\ inPhase' = inPhase /\ inDelta' = inDelta
      /\ inFlyers' = inFlyers /\ FlyerStep
  BY DEF ResolveKey, Answer, InInv, InTypes, FlyerStep
<1>3. \E key : /\ NameAsked(f) \in DOMAIN inCache => key = inCache[NameAsked(f)]
               /\ inCache' = [n \in DOMAIN inCache \cup {NameAsked(f)} |-> IF n = NameAsked(f) THEN key ELSE inCache[n]]
               /\ inAnswers' = inAnswers \cup {<<NameAsked(f), key>>}
  BY DEF ResolveKey, Answer
<1>4. AnswersCached'
  BY <1>3 DEF InInv, AnswersCached
<1>5. TasksInFrame'
  BY <1>1, <1>2 DEF TasksInFrame
<1> QED BY <1>2, <1>4, <1>5, FlyerKeeps DEF InInv, InTypes

LEMMA ProcessKeyboardStep == ASSUME InInv, NEW f \in Flyers, ProcessKeyboard(f) PROVE InInv'
<1>1. inPhase = "processing" /\ inDelta[1] = 1
  BY AtWork DEF ProcessKeyboard
<1>2. /\ inTasks' = [inTasks EXCEPT ![f] = IdleTask] /\ DOMAIN inTasks = Flyers /\ inDelta' = inDelta
      /\ inCache' = inCache /\ inAnswers' = inAnswers /\ FlyerStep
      /\ inPhase' = IF \A g \in Flyers \ {f} : inTasks[g] = IdleTask THEN "between" ELSE inPhase
  BY DEF ProcessKeyboard, InInv, InTypes, FlyerStep
<1>3. TasksInFrame' /\ AnswersCached'
  BY <1>1, <1>2 DEF InInv, TasksInFrame, AnswersCached
<1>4. \A g \in Flyers : "pitch" \in DOMAIN inFlyers[g] /\ inFlyers[g].pitch \in Int
  BY DEF InInv, InTypes
<1>5. inFlyers' = [inFlyers EXCEPT ![f] = [inFlyers[f] EXCEPT !.moved = inTasks[f].velocity]] /\ DOMAIN inFlyers = Flyers
  BY DEF ProcessKeyboard, InInv, InTypes
<1>6. DOMAIN inFlyers' = Flyers /\ \A g \in Flyers : "pitch" \in DOMAIN inFlyers'[g] /\ inFlyers'[g].pitch \in Int
  BY <1>4, <1>5
<1> QED BY <1>2, <1>3, <1>6, FlyerKeeps

\* Sequences with one more on top, and the first alone.
LEMMA OnTop ==
  ASSUME NEW S, NEW s \in Seq(S), NEW x \in S
  PROVE  Append(s, x) \in Seq(S) /\ Append(s, x)[Len(Append(s, x))] = x /\ Len(Append(s, x)) > 0
<1>1. Len(s) \in Nat
  OBVIOUS
<1>2. Append(s, x) \in Seq(S) /\ Len(Append(s, x)) = Len(s) + 1 /\ Append(s, x)[Len(s) + 1] = x
  BY AppendProperties
<1> QED BY <1>1, <1>2

LEMMA OnlyFirst ==
  ASSUME NEW S, NEW s \in Seq(S), Len(s) > 0
  PROVE  SubSeq(s, 1, 1) \in Seq(S) /\ Len(SubSeq(s, 1, 1)) = 1 /\ SubSeq(s, 1, 1)[1] = s[1]
<1>1. Len(s) \in Nat /\ 1 \in 1 .. Len(s) + 1 /\ 1 \in 0 .. Len(s) /\ 1 \in 1 .. 1 - 1 + 1
  OBVIOUS
<1> QED BY <1>1, SubSeqProperties

LEMMA EnterStateStep == ASSUME InInv, NEW state \in {"first person", "menu"}, EnterState(state) PROVE InInv'
<1>1. inStack' = Append(inStack, state) /\ inCursorMode' = ModeOf(state) /\ inStack \in Seq({"first person", "menu"})
  BY DEF EnterState, InInv, InTypes
<1>2. inStack' \in Seq({"first person", "menu"}) /\ inStack'[Len(inStack')] = state /\ Len(inStack') > 0
  <2>1. PICK S : S = {"first person", "menu"}
    OBVIOUS
  <2>2. inStack \in Seq(S) /\ state \in S
    BY <1>1, <2>1
  <2>3. Append(inStack, state) \in Seq(S) /\ Append(inStack, state)[Len(Append(inStack, state))] = state /\ Len(Append(inStack, state)) > 0
    BY <2>2, OnTop
  <2> QED BY <1>1, <2>1, <2>3
<1>3. UNCHANGED <<inPhase, inDelta, inCurrent, inLast, inMouse, inLastMouse, inCache, inTasks, inFlyers, inAnswers, inPolled>>
  BY DEF EnterState
<1>4. InTypes'
  BY <1>2, <1>3 DEF InInv, InTypes
<1> QED BY <1>1, <1>2, <1>3, <1>4 DEF InInv, TasksInFrame, AnswersCached, HistoryExact, MouseHeals, CursorGrabbed

LEMMA LeaveStateStep == ASSUME InInv, LeaveState PROVE InInv'
<1>1. inStack' = SubSeq(inStack, 1, 1) /\ inCursorMode' = ModeOf(inStack[1]) /\ inStack \in Seq({"first person", "menu"}) /\ Len(inStack) = 2
  BY DEF LeaveState, InInv, InTypes
<1>2. inStack' \in Seq({"first person", "menu"}) /\ Len(inStack') = 1 /\ Len(inStack') > 0 /\ inStack'[1] = inStack[1]
  <2>1. PICK S : S = {"first person", "menu"}
    OBVIOUS
  <2>2. inStack \in Seq(S)
    BY <1>1, <2>1
  <2>3. Len(inStack) > 0
    <3>1. Len(inStack) = 2
      BY DEF LeaveState
    <3> QED BY <3>1
  <2>4. SubSeq(inStack, 1, 1) \in Seq(S) /\ Len(SubSeq(inStack, 1, 1)) = 1 /\ SubSeq(inStack, 1, 1)[1] = inStack[1]
    BY <2>2, <2>3, OnlyFirst
  <2>5. inStack' = SubSeq(inStack, 1, 1)
    BY DEF LeaveState
  <2>6. inStack' \in Seq(S) /\ Len(inStack') = 1 /\ inStack'[1] = inStack[1]
    BY ONLY <2>4, <2>5
  <2>7. \A k \in Nat : k = 1 => k > 0
    OBVIOUS
  <2>8. Len(inStack') > 0
    BY ONLY <2>6, <2>7
  <2> QED BY ONLY <2>1, <2>6, <2>8
<1>3. UNCHANGED <<inPhase, inDelta, inCurrent, inLast, inMouse, inLastMouse, inCache, inTasks, inFlyers, inAnswers, inPolled>>
  BY DEF LeaveState
<1>4. InTypes'
  BY <1>2, <1>3 DEF InInv, InTypes
<1> QED BY <1>1, <1>2, <1>3, <1>4 DEF InInv, TasksInFrame, AnswersCached, HistoryExact, MouseHeals, CursorGrabbed

LEMMA InInvariance == InSpec => []InInv
<1>1. InInv /\ [InNext]_inVars => InInv'
  <2> SUFFICES ASSUME InInv, [InNext]_inVars PROVE InInv'
    OBVIOUS
  <2>1. ASSUME NEW v \in DOMAIN inConfig, NEW value \in ConfigValues, ConfigureKey(v, value) PROVE InInv'
    <3>1. UNCHANGED <<inPhase, inDelta, inCurrent, inLast, inMouse, inLastMouse, inCache, inTasks, inFlyers, inAnswers, inStack, inCursorMode, inPolled>>
      BY <2>1 DEF ConfigureKey
    <3> QED BY <3>1 DEF InInv, InTypes, TasksInFrame, AnswersCached, HistoryExact, MouseHeals, CursorGrabbed
  <2>2. CASE UNCHANGED inVars
    BY <2>2 DEF inVars, InInv, InTypes, TasksInFrame, AnswersCached, HistoryExact, MouseHeals, CursorGrabbed
  <2> QED BY <2>1, <2>2, PreprocessStep, ProcessStep, ProcessMouseStep, LookUpKeyStep, ResolveKeyStep, ProcessKeyboardStep,
             EnterStateStep, LeaveStateStep DEF InNext
<1> QED BY <1>1, InInitially, PTL DEF InSpec

\* Whatever the configuration says, there is a mode with the index: modes is any list that is not empty.
LEMMA VideoModeThere ==
  ASSUME NEW T, NEW modes \in Seq(T), modes # <<>>, NEW value \in Int, NEW current
  PROVE  VideoModeIndex(value, modes, current) \in 0 .. Len(modes) - 1
<1> DEFINE same == {k \in DOMAIN modes : modes[k] = current}
<1>1. Len(modes) \in Nat /\ Len(modes) >= 1 /\ DOMAIN modes = 1 .. Len(modes)
  BY EmptySeq
<1>2. DefaultMode(modes, current) \in 0 .. Len(modes) - 1
  <2>1. CASE same = {}
    <3>1. DefaultMode(modes, current) = Len(modes) - 1
      BY <2>1 DEF DefaultMode
    <3> QED BY <1>1, <3>1
  <2>2. CASE same # {}
    <3>1. same \in SUBSET Nat
      BY <1>1
    <3> HIDE DEF same
    <3>2. \E k \in same : \A j \in same : k <= j
      BY <2>2, <3>1, LeastElement
    <3>3. (CHOOSE k \in same : \A j \in same : k <= j) \in same
      BY <3>2
    <3>4. DefaultMode(modes, current) = (CHOOSE k \in same : \A j \in same : k <= j) - 1
      BY <2>2 DEF DefaultMode, same
    <3>5. PICK k \in same : DefaultMode(modes, current) = k - 1
      BY <3>3, <3>4
    <3>6. k \in 1 .. Len(modes)
      BY <1>1 DEF same
    <3> QED BY <1>1, <3>5, <3>6
  <2> QED BY <2>1, <2>2
<1>3. CASE value < 0 \/ value >= Len(modes)
  BY <1>2, <1>3 DEF VideoModeIndex
<1>4. CASE ~(value < 0 \/ value >= Len(modes))
  BY <1>1, <1>4 DEF VideoModeIndex
<1> QED BY <1>3, <1>4

LEMMA ChoicesAlwaysThere == ChoicesThere
<1>1. ASSUME NEW value \in -2 .. 3, NEW n \in 1 .. 3 PROVE MonitorIndex(value, n) \in 0 .. n - 1
  BY DEF MonitorIndex
<1>2. ASSUME NEW value \in -2 .. 3, NEW n \in 1 .. 3, NEW current \in 1 .. 4
      PROVE  VideoModeIndex(value, [k \in 1 .. n |-> k], current) \in 0 .. n - 1
  <2> DEFINE modes == [k \in 1 .. n |-> k]
  <2>1. modes \in Seq(Nat) /\ Len(modes) = n /\ value \in Int
    OBVIOUS
  <2>2. modes # <<>>
    <3>1. Len(<<>>) = 0
      OBVIOUS
    <3> QED BY <2>1, <3>1
  <2> HIDE DEF modes
  <2>3. VideoModeIndex(value, modes, current) \in 0 .. Len(modes) - 1
    BY <2>1, <2>2, VideoModeThere
  <2> QED BY <2>1, <2>3 DEF modes
<1> QED BY <1>1, <1>2 DEF ChoicesThere

LEMMA InInvIsSafe == InInv => InputSafe
<1> SUFFICES ASSUME InInv PROVE InputSafe
  OBVIOUS
<1>1. FlyersNumeric
  BY InputAssumption DEF InInv, InTypes, FlyersNumeric
<1>2. NamesSettled
  BY DEF InInv, AnswersCached, NamesSettled
<1> QED BY <1>1, <1>2, ChoicesAlwaysThere DEF InInv, InputSafe

(***************************************************************************)
(* Movement patterns                                                       *)
(***************************************************************************)

Patterns == [version : Nat, calls : Nat]

\* What is registered has a version and was never called; an actuator with a name has a version.
AcInv ==
  /\ acVersion \in Nat
  /\ \A n \in DOMAIN acPatterns : acPatterns[n] \in Patterns /\ acPatterns[n].version > 0
  /\ \A c \in Actuators : acComponents[c].pattern \in Patterns
  /\ DOMAIN acComponents = Actuators
  /\ \A c \in Actuators : DOMAIN acComponents[c] = {"name", "pattern", "set"}
  /\ PatternsOwn

LEMMA NoActuatorIs ==
  /\ DOMAIN NoActuator = {"name", "pattern", "set"} /\ NoActuator.pattern \in Patterns
  /\ NoActuator.pattern.version = NoActuator.set /\ NoActuator.name = "" /\ NoActuator.set = 0
BY DEF NoActuator, NoPattern, Patterns

Named(r, n) ==
  /\ DOMAIN r = {"name", "pattern", "set"}
  /\ r.pattern.version = r.set /\ r.set # 0 /\ r.name = n /\ r.pattern \in Patterns

LEMMA NamedPattern ==
  \A p \in Patterns : p.version > 0 => \A n : Named([name |-> n, pattern |-> p, set |-> p.version], n)
<1> TAKE p \in Patterns
<1> HAVE p.version > 0
<1> TAKE n
<1>0. PICK r : r = [name |-> n, pattern |-> p, set |-> p.version]
  OBVIOUS
<1>1. p.version \in Nat /\ p.version # 0
  BY DEF Patterns
<1>2. r.pattern = p /\ r.set = p.version /\ r.name = n /\ DOMAIN r = {"name", "pattern", "set"}
  BY <1>0
<1>3. Named(r, n)
  BY <1>1, <1>2 DEF Named
<1> QED BY <1>0, <1>3

LEMMA AcInvariance == AcSpec => []AcInv
<1>1. AcInit => AcInv
  <2> SUFFICES ASSUME AcInit PROVE AcInv
    OBVIOUS
  <2>1. DOMAIN acPatterns = {} /\ acVersion \in Nat
    BY DEF AcInit
  <2>2. DOMAIN acComponents = Actuators /\ \A c \in Actuators : acComponents[c] = NoActuator
    BY DEF AcInit
  <2> QED BY <2>1, <2>2, NoActuatorIs DEF AcInv, PatternsOwn
<1>2. AcInv /\ [AcNext]_acVars => AcInv'
  <2> SUFFICES ASSUME AcInv, [AcNext]_acVars PROVE AcInv'
    OBVIOUS
  <2>1. ASSUME NEW n \in PatternNames, SetMovementPattern(n) PROVE AcInv'
    <3>1. /\ acVersion' = acVersion + 1 /\ acComponents' = acComponents
          /\ acPatterns' = [m \in DOMAIN acPatterns \cup {n} |-> IF m = n THEN [version |-> acVersion + 1, calls |-> 0] ELSE acPatterns[m]]
      BY <2>1 DEF SetMovementPattern
    <3>2. [version |-> acVersion + 1, calls |-> 0] \in Patterns /\ acVersion + 1 > 0 /\ acVersion + 1 \in Nat
      BY DEF AcInv, Patterns
    <3> QED BY <3>1, <3>2 DEF AcInv, PatternsOwn
  <2>2. ASSUME NEW n \in PatternNames, RemoveMovementPattern(n) PROVE AcInv'
    BY <2>2 DEF RemoveMovementPattern, AcInv, PatternsOwn
  <2>3. ASSUME NEW c \in Actuators, NEW n \in PatternNames \cup {""}, NamePattern(c, n) PROVE AcInv'
    <3> DEFINE named == IF n = "" THEN NoActuator ELSE [name |-> n, pattern |-> acPatterns[n], set |-> acPatterns[n].version]
    <3>1. acComponents' = [acComponents EXCEPT ![c] = named] /\ UNCHANGED <<acPatterns, acVersion>>
      BY <2>3 DEF NamePattern
    <3>2. /\ DOMAIN named = {"name", "pattern", "set"} /\ named.pattern \in Patterns
          /\ named.pattern.version = named.set /\ (named.name = "" <=> named.set = 0)
      <4>1. CASE n = ""
        <5>1. named = NoActuator
          BY <4>1
        <5> QED BY <5>1, NoActuatorIs
      <4>2. CASE n # ""
        <5>1. acPatterns[n] \in Patterns /\ acPatterns[n].version > 0 /\ acPatterns[n].version \in Nat
          BY <2>3, <4>2 DEF NamePattern, AcInv, Patterns
        <5>2. Named([name |-> n, pattern |-> acPatterns[n], set |-> acPatterns[n].version], n)
          BY <5>1, NamedPattern
        <5>3. named = [name |-> n, pattern |-> acPatterns[n], set |-> acPatterns[n].version]
          BY <4>2
        <5>4. Named(named, n)
          BY ONLY <5>2, <5>3
        <5> HIDE DEF named
        <5> QED BY <4>2, <5>4 DEF Named
      <4> QED BY <4>1, <4>2
    <3> HIDE DEF named
    <3> QED BY <3>1, <3>2 DEF AcInv, PatternsOwn
  <2>4. ASSUME ProcessActuators PROVE AcInv'
    <3> DEFINE called(c) == [acComponents[c].pattern EXCEPT !.calls = acComponents[c].pattern.calls + 1]
    <3>1. /\ acComponents' = [c \in Actuators |-> IF acComponents[c].pattern.version = 0 THEN acComponents[c]
                                                  ELSE [acComponents[c] EXCEPT !.pattern = called(c)]]
          /\ UNCHANGED <<acPatterns, acVersion>>
      BY <2>4 DEF ProcessActuators
    <3>2. ASSUME NEW c \in Actuators PROVE called(c) \in Patterns /\ called(c).version = acComponents[c].pattern.version
      BY DEF AcInv, Patterns
    <3> HIDE DEF called
    <3>3. ASSUME NEW c \in Actuators
          PROVE  /\ DOMAIN acComponents'[c] = {"name", "pattern", "set"} /\ acComponents'[c].pattern \in Patterns
                 /\ acComponents'[c].pattern.version = acComponents'[c].set /\ (acComponents'[c].name = "" <=> acComponents'[c].set = 0)
      BY <3>1, <3>2 DEF AcInv, PatternsOwn
    <3> QED BY <3>1, <3>3 DEF AcInv, PatternsOwn
  <2>5. CASE UNCHANGED acVars
    BY <2>5 DEF acVars, AcInv, PatternsOwn
  <2> QED BY <2>1, <2>2, <2>3, <2>4, <2>5 DEF AcNext
<1> QED BY <1>1, <1>2, PTL DEF AcSpec

\* Windows live while their library does, a report calls each callback once, frames see the input polled for them,
\* actuators keep the pattern their name had, and game states are told of every change, for any instances, windows,
\* threads, states, systems, flyers, keys and names.
THEOREM StatesAndInputCorrect == GsSpec /\ GwSpec /\ InSpec /\ AcSpec => []StatesAndInputSafe
<1>1. GsInv /\ GwInv /\ InInv /\ AcInv => StatesAndInputSafe
  BY GsInvIsSafe, GwInvIsSafe, InInvIsSafe DEF AcInv, StatesAndInputSafe
<1> QED BY <1>1, GsInvariance, GwInvariance, InInvariance, AcInvariance, PTL
=============================================================================
