-------------------------- MODULE GraphicsManager --------------------------
(***************************************************************************)
(* graphics_manager: named objects of several kinds, each kind with its    *)
(* own map, all behind one mutex (each action is one call), and the        *)
(* pipelines that are first noted and then compiled together. Objects      *)
(* refer to others by shared ownership: releasing a name takes the object  *)
(* from nobody who has it, so nothing is destroyed here. The frames that a *)
(* framebuffer makes of a framebuffer_config are modelled by their views.  *)
(* And pipeline_config with the pipelines that are made of it.             *)
(* One manager is modelled: two would share the static vector that holds   *)
(* what is being compiled, each under a mutex of its own.                  *)
(***************************************************************************)
EXTENDS Naturals, Sequences, FiniteSets

CONSTANTS ObjectNames, SimpleKinds, MaxObjects, FbConfigs, SwapchainImages, NoGraphicsObject

ASSUME GraphicsManagerAssumption ==
  /\ MaxObjects \in Nat /\ SwapchainImages \in Nat \ {0} /\ NoGraphicsObject \notin Nat
  /\ \A c \in FbConfigs : c.passes \in Seq(Seq(Nat)) /\ c.attachments \in Seq({"swapchain", "own"})
  /\ SimpleKinds \cap {"pipeline layout", "render pass", "pipeline config", "pipeline"} = {}

\* A pass lists an attachment once: of two places of the swapchain's only the first would get its image.
ASSUME AttachmentsListedOnce ==
  \A c \in FbConfigs : \A p \in DOMAIN c.passes : \A j, k \in DOMAIN c.passes[p] :
    c.passes[p][j] = c.passes[p][k] => j = k

VARIABLES
  gmNamed,          \* the maps: for each kind the names that have an entry, and what it holds
  gmObjects,        \* the objects ever made: [kind, uses, config]
  gmPending,        \* pending_pipeline_configs_
  gmPromised,       \* what each name stands for since a call returned it
  gmLost,           \* names whose compilation was lost
  gmFrames          \* the frames of the framebuffer made last, and its config

gmVars == <<gmNamed, gmObjects, gmPending, gmPromised, gmLost, gmFrames>>

NamedKinds    == {"set layout", "framebuffer config", "subpass graph"} \cup SimpleKinds
ComposedKinds == {"pipeline layout", "render pass"}
ObjectKinds   == NamedKinds \cup ComposedKinds \cup {"pipeline config", "pipeline"}
Parts(kind) ==
  CASE kind = "pipeline layout" -> {"set layout"}
    [] kind = "render pass"     -> {"subpass graph", "framebuffer config"}

GmInit ==
  /\ gmNamed = [kind \in ObjectKinds |-> <<>>]
  /\ gmObjects = <<>> /\ gmPending = <<>>
  /\ gmPromised = [kind \in ObjectKinds |-> <<>>] /\ gmLost = {}
  /\ gmFrames = [config |-> NoGraphicsObject, passes |-> <<>>]

At(map, n) == IF n \in DOMAIN map THEN map[n] ELSE NoGraphicsObject
With(map, n, id) == [m \in DOMAIN map \cup {n} |-> IF m = n THEN id ELSE map[m]]
Without(map, n) == [m \in DOMAIN map \ {n} |-> map[m]]
NewId == Len(gmObjects) + 1

(***************************************************************************)
(* create_*, release_*, find_*                                             *)
(***************************************************************************)

\* What an entry holds becomes the new object; a name in use throws before.
EnterObject(kind, n, object) ==
  /\ gmObjects' = Append(gmObjects, object)
  /\ gmNamed' = [gmNamed EXCEPT ![kind] = With(@, n, NewId)]
  /\ gmPromised' = [gmPromised EXCEPT ![kind] = With(@, n, NewId)]

\* The entry is made before the object: when that throws it stays, and holds nothing.
LeaveEmpty(kind, n) ==
  /\ gmNamed' = [gmNamed EXCEPT ![kind] = With(@, n, NoGraphicsObject)]
  /\ UNCHANGED <<gmObjects, gmPromised>>

MutantNameFree(kind, n) == TRUE

NameFree(kind, n) == At(gmNamed[kind], n) = NoGraphicsObject

Create(kind, n) ==
  /\ NameFree(kind, n) /\ Len(gmObjects) < MaxObjects
  /\ \E c \in IF kind = "framebuffer config" THEN FbConfigs ELSE {NoGraphicsObject} :
       EnterObject(kind, n, [kind |-> kind, uses |-> {}, config |-> c])
  /\ UNCHANGED <<gmPending, gmLost, gmFrames>>

CreationThrows(kind, n) ==
  /\ NameFree(kind, n)
  /\ LeaveEmpty(kind, n)
  /\ UNCHANGED <<gmPending, gmLost, gmFrames>>

\* create_pipeline_layout, create_render_pass of objects that the caller has, named still or not.
CreateOfObjects(kind, n, uses) ==
  /\ NameFree(kind, n) /\ Len(gmObjects) < MaxObjects
  /\ {gmObjects[u].kind : u \in uses} = Parts(kind) /\ Cardinality(uses) = Cardinality(Parts(kind))
  /\ EnterObject(kind, n, [kind |-> kind, uses |-> uses, config |-> NoGraphicsObject])
  /\ UNCHANGED <<gmPending, gmLost, gmFrames>>

\* create_pipeline_layout_by_names, create_render_pass by names: a part that is missing, or whose entry
\* holds nothing, throws when the entry of the new object has been made.
Missing(kind, n) == \E part \in Parts(kind) : At(gmNamed[part], n) = NoGraphicsObject

CreateByNames(kind, n, m) ==
  /\ NameFree(kind, n) /\ Len(gmObjects) < MaxObjects
  /\ IF Missing(kind, m) THEN LeaveEmpty(kind, n)
     ELSE EnterObject(kind, n, [kind |-> kind, uses |-> {gmNamed[part][m] : part \in Parts(kind)}, config |-> NoGraphicsObject])
  /\ UNCHANGED <<gmPending, gmLost, gmFrames>>

\* release_*: a pipeline goes with its config.
Release(kind, n) ==
  /\ kind \notin {"pipeline", "pipeline config"} /\ n \in DOMAIN gmNamed[kind]
  /\ gmNamed' = [gmNamed EXCEPT ![kind] = Without(@, n)]
  /\ gmPromised' = [gmPromised EXCEPT ![kind] = Without(@, n)]
  /\ UNCHANGED <<gmObjects, gmPending, gmLost, gmFrames>>

ReleasePipelineAndConfig(n) ==
  LET both == {"pipeline", "pipeline config"}
  IN /\ \E kind \in both : n \in DOMAIN gmNamed[kind]
     /\ gmNamed' = [kind \in ObjectKinds |-> IF kind \in both THEN Without(gmNamed[kind], n) ELSE gmNamed[kind]]
     /\ gmPromised' = [kind \in ObjectKinds |-> IF kind \in both THEN Without(gmPromised[kind], n) ELSE gmPromised[kind]]
     /\ UNCHANGED <<gmObjects, gmPending, gmLost, gmFrames>>

\* A name that has an empty entry is answered like one that has none.
Find(kind, n) == At(gmNamed[kind], n)

(***************************************************************************)
(* Pipelines                                                               *)
(***************************************************************************)

\* The config is the user's: it is made here with the pass it is to be compatible with.
AddPendingPipeline(n, pass) ==
  /\ n \notin DOMAIN gmNamed["pipeline"] /\ n \notin DOMAIN gmNamed["pipeline config"]
  /\ \A k \in DOMAIN gmPending : gmPending[k].name # n
  /\ gmObjects[pass].kind = "render pass" /\ Len(gmObjects) < MaxObjects
  /\ gmObjects' = Append(gmObjects, [kind |-> "pipeline config", uses |-> {pass}, config |-> NoGraphicsObject])
  /\ gmPending' = Append(gmPending, [name |-> n, config |-> NewId])
  /\ gmLost' = gmLost \ {n}
  /\ UNCHANGED <<gmNamed, gmPromised, gmFrames>>

Tasks(name) == {k \in DOMAIN gmPending : gmPending[k].name = name}

\* All at once: each becomes a pipeline under its name, with its config.
CompilePendingPipelines ==
  /\ gmPending # <<>>
  /\ LET names   == {gmPending[k].name : k \in DOMAIN gmPending}
         Task(n) == CHOOSE k \in DOMAIN gmPending : gmPending[k].name = n
         Registered(maps) ==
           [maps EXCEPT !["pipeline"] = [n \in DOMAIN @ \cup names |-> IF n \in names THEN Len(gmObjects) + Task(n) ELSE @[n]],
                        !["pipeline config"] = [n \in DOMAIN @ \cup names |-> IF n \in names THEN gmPending[Task(n)].config ELSE @[n]]]
     IN /\ gmObjects' = gmObjects \o [k \in DOMAIN gmPending |-> [kind |-> "pipeline", uses |-> {}, config |-> NoGraphicsObject]]
        /\ gmNamed' = Registered(gmNamed)
        /\ gmPromised' = Registered(gmPromised)
  /\ gmPending' = <<>>
  /\ UNCHANGED <<gmLost, gmFrames>>

\* One that does not compile takes the others with it, and their names are free again.
CompileThrows ==
  /\ gmPending # <<>>
  /\ gmLost' = gmLost \cup {gmPending[k].name : k \in DOMAIN gmPending}
  /\ gmPending' = <<>>
  /\ UNCHANGED <<gmNamed, gmObjects, gmPromised, gmFrames>>

(***************************************************************************)
(* Framebuffers                                                            *)
(***************************************************************************)

Swapchain(config, a) == config.attachments[a] = "swapchain"
Attachment(a) == <<"attachment", a>>
ImageView(i) == <<"image", i>>

\* The views of a pass: the first use of a swapchain image shows the image of the frame.
Views(config, used, image) ==
  LET shown == {k \in DOMAIN used : Swapchain(config, used[k])}
  IN [k \in DOMAIN used |-> IF k \in shown /\ \A j \in shown : k <= j THEN ImageView(image) ELSE Attachment(used[k])]

\* As many frames as the swapchain has images, or one when the pass does not draw to it.
FramesOf(config, used) ==
  [i \in 1 .. (IF \E k \in DOMAIN used : Swapchain(config, used[k]) THEN SwapchainImages ELSE 1) |-> Views(config, used, i)]

\* More than one swapchain attachment, or a pass that uses one that is not there, throws.
MakeFramebuffer(id) ==
  /\ gmObjects[id].kind = "framebuffer config"
  /\ LET c == gmObjects[id].config
     IN /\ Cardinality({a \in DOMAIN c.attachments : Swapchain(c, a)}) <= 1
        /\ \A p \in DOMAIN c.passes : \A k \in DOMAIN c.passes[p] : c.passes[p][k] \in DOMAIN c.attachments
        /\ gmFrames' = [config |-> id, passes |-> [p \in DOMAIN c.passes |-> FramesOf(c, c.passes[p])]]
  /\ UNCHANGED <<gmNamed, gmObjects, gmPending, gmPromised, gmLost>>

GmNext ==
  \/ \E n \in ObjectNames :
       \/ \E kind \in NamedKinds : Create(kind, n) \/ CreationThrows(kind, n)
       \/ \E kind \in ComposedKinds :
            \/ CreationThrows(kind, n)
            \/ \E uses \in SUBSET DOMAIN gmObjects : CreateOfObjects(kind, n, uses)
            \/ \E m \in ObjectNames : CreateByNames(kind, n, m)
       \/ \E kind \in ObjectKinds : Release(kind, n)
       \/ ReleasePipelineAndConfig(n)
       \/ \E pass \in DOMAIN gmObjects : AddPendingPipeline(n, pass)
  \/ CompilePendingPipelines \/ CompileThrows
  \/ \E id \in DOMAIN gmObjects : MakeFramebuffer(id)

GmSpec == GmInit /\ [][GmNext]_gmVars

(***************************************************************************)
(* Properties                                                              *)
(***************************************************************************)

\* An entry is of its map's kind, and an object made of named parts has them all, of the right kinds.
ObjectsWhole ==
  /\ \A kind \in ObjectKinds : \A n \in DOMAIN gmNamed[kind] :
       gmNamed[kind][n] # NoGraphicsObject => gmObjects[gmNamed[kind][n]].kind = kind
  /\ \A i \in DOMAIN gmObjects : gmObjects[i].kind \in ComposedKinds =>
       {gmObjects[u].kind : u \in gmObjects[i].uses \ {NoGraphicsObject}} = Parts(gmObjects[i].kind)

\* From the call that returned an object until the call that releases its name, the name stands for it:
\* a second creation under it, a failed one, or a compilation changes nothing.
NamesKept ==
  \A kind \in ObjectKinds : \A n \in DOMAIN gmPromised[kind] :
    Find(kind, n) = gmPromised[kind][n]

\* A pipeline is registered with its config. A name is noted, registered or lost, in one place at a time.
PipelinesPaired ==
  /\ DOMAIN gmNamed["pipeline"] = DOMAIN gmNamed["pipeline config"]
  /\ \A n \in DOMAIN gmNamed["pipeline"] : gmNamed["pipeline"][n] # NoGraphicsObject /\ Tasks(n) = {} /\ n \notin gmLost
  /\ \A n \in ObjectNames : Cardinality(Tasks(n)) <= 1

\* The frame with the index of an image shows that image where the pass uses the swapchain, and its own
\* attachment in every other place.
FramesShowTheirImage ==
  gmFrames.config # NoGraphicsObject =>
    LET c == gmObjects[gmFrames.config].config
    IN \A p \in DOMAIN c.passes :
         LET used == c.passes[p]
         IN (\E k \in DOMAIN used : Swapchain(c, used[k])) =>
              \A i \in 1 .. SwapchainImages : \A k \in DOMAIN used :
                gmFrames.passes[p][i][k] =
                  IF Swapchain(c, used[k]) THEN <<"image", i>> ELSE <<"attachment", used[k]>>

GmSafe == ObjectsWhole /\ NamesKept /\ PipelinesPaired /\ FramesShowTheirImage

-----------------------------------------------------------------------------
(* pipeline_config, pipeline                                               *)

\* A config owns arrays (of vertex inputs, viewports, blend states, dynamic states, and the
\* specialization data of its shader stages) and keeps structures that point into them beside them;
\* configs are copied as a whole, with those pointers.  Of an array its length is kept, of a pointer
\* whether it leads to the array of its own object as that is now.  States without an array are left
\* out; configs have their layout, render pass and shader modules.
CONSTANTS
  PipelineObjects, \* pipeline_config objects
  StateLists,      \* states with an array
  OptionalLists,   \* those in a boost::optional
  MaxStages, MaxItems,  \* bounds: of stages, of the length of an array
  NoList

ASSUME PipelineAssumption == OptionalLists \subseteq StateLists /\ MaxItems \in Nat

VARIABLES
  pcConfigs,   \* the live configs
  pcCreated    \* what the device was given for the pipelines of the last creation

pcVars == <<pcConfigs, pcCreated>>

\* A pointer is "own": to the array of this object as it is; "elsewhere": to that of another, or what it was before; or "null".
NewConfig == [lists   |-> [l \in StateLists |-> IF l \in OptionalLists THEN NoList ELSE 0],
              derived |-> [l \in StateLists |-> "null"],
              stages  |-> <<>>]

PcInit ==
  /\ pcConfigs = [c \in {} |-> NewConfig]
  /\ pcCreated = <<>>

Live(c) == c \in DOMAIN pcConfigs

WithConfig(c, config) ==
  /\ pcConfigs' = [d \in DOMAIN pcConfigs \cup {c} |-> IF d = c THEN config ELSE pcConfigs[d]]
  /\ pcCreated' = <<>>

\* A pointer to what has changed, or that was copied along with what it points to.
Outdated(pointer) == IF pointer = "own" THEN "elsewhere" ELSE pointer

-----------------------------------------------------------------------------
(* Objects                                                                 *)

Construct(c) == ~Live(c) /\ WithConfig(c, NewConfig)

Destroy(c) ==
  /\ Live(c)
  /\ pcConfigs' = [d \in DOMAIN pcConfigs \ {c} |-> pcConfigs[d]]
  /\ pcCreated' = <<>>

\* The arrays are copied, what points to them as it is.
Copied(config) ==
  [config EXCEPT !.derived = [l \in StateLists |-> Outdated(config.derived[l])],
                 !.stages = [s \in DOMAIN config.stages |-> [config.stages[s] EXCEPT !.info = Outdated(config.stages[s].info)]]]

\* Construction and assignment; configs have a destructor and so no moves: what looks like one is this.
CopyConfig(c, d) == c # d /\ Live(d) /\ WithConfig(c, Copied(pcConfigs[d]))

-----------------------------------------------------------------------------
(* States                                                                  *)

\* The arrays of a state are reached through the config: added to (in place or into a new block), cleared, and an
\* optional state is set or reset; what was derived before does not know of it.
ChangeState(c, l, length) ==
  /\ Live(c) /\ length # pcConfigs[c].lists[l]
  /\ WithConfig(c, [pcConfigs[c] EXCEPT !.lists[l] = length, !.derived[l] = Outdated(@)])

AddItem(c, l) == Live(c) /\ pcConfigs[c].lists[l] \in 0 .. MaxItems - 1 /\ ChangeState(c, l, pcConfigs[c].lists[l] + 1)
ClearItems(c, l) == Live(c) /\ pcConfigs[c].lists[l] # NoList /\ ChangeState(c, l, 0)
SetState(c, l) == Live(c) /\ pcConfigs[c].lists[l] = NoList /\ ChangeState(c, l, 0)
ResetState(c, l) == l \in OptionalLists /\ ChangeState(c, l, NoList)

\* A stage is constructed with or without specialization data: its info does not point to the data yet.
AddStage(c, data) ==
  /\ Live(c) /\ Len(pcConfigs[c].stages) < MaxStages
  /\ WithConfig(c, [pcConfigs[c] EXCEPT !.stages = Append(@, [data |-> data, info |-> "null"])])

ClearStages(c) ==
  /\ Live(c) /\ pcConfigs[c].stages # <<>>
  /\ WithConfig(c, [pcConfigs[c] EXCEPT !.stages = <<>>])

\* update_specialization_info
WithInfo(stage) == [stage EXCEPT !.info = "own"]

\* specialization_data, add_specialization_map_entry, clear_specialization_map update the info.
Specialize(c, s, data) ==
  /\ Live(c) /\ s \in DOMAIN pcConfigs[c].stages
  /\ WithConfig(c, [pcConfigs[c] EXCEPT !.stages[s] = WithInfo([@ EXCEPT !.data = data])])

-----------------------------------------------------------------------------
(* Pipelines                                                               *)

\* create_info of a shader stage, which shows the info only if there is data.
StageCreateInfo(stage) == IF stage.data = 0 THEN "null" ELSE stage.info

\* generate_create_info_structure: the structures beside the arrays point to them again, those of missing states go.
Generated(config) ==
  [config EXCEPT !.derived = [l \in StateLists |-> IF config.lists[l] = NoList THEN "null" ELSE "own"],
                 !.stages = [s \in DOMAIN config.stages |-> WithInfo(config.stages[s])]]

Generate(c) == Live(c) /\ WithConfig(c, Generated(pcConfigs[c]))

\* What the device follows: a structure for each state that is there, which is derived, and the stages.
GivenToDevice(config) ==
  [lists  |-> config.lists,
   states |-> [l \in StateLists |-> IF config.lists[l] = NoList THEN "null" ELSE config.derived[l]],
   data   |-> [s \in DOMAIN config.stages |-> config.stages[s].data],
   stages |-> [s \in DOMAIN config.stages |-> StageCreateInfo(config.stages[s])]]

\* create_pipeline, create_pipelines: from copies that are made for it, which are generated and then used.
CreatePipelines(configs) ==
  /\ \A k \in DOMAIN configs : Live(configs[k])
  /\ pcCreated' = [k \in DOMAIN configs |-> GivenToDevice(Generated(Copied(pcConfigs[configs[k]])))]
  /\ UNCHANGED pcConfigs

PcNext ==
  \/ \E c \in PipelineObjects :
       \/ Construct(c) \/ Destroy(c) \/ ClearStages(c) \/ Generate(c)
       \/ \E d \in PipelineObjects : CopyConfig(c, d)
       \/ \E l \in StateLists : AddItem(c, l) \/ ClearItems(c, l) \/ SetState(c, l) \/ ResetState(c, l)
       \/ \E n \in 0 .. MaxItems : AddStage(c, n) \/ \E s \in 1 .. MaxStages : Specialize(c, s, n)
  \/ \E c, d \in PipelineObjects : CreatePipelines(<<c>>) \/ CreatePipelines(<<c, d>>)

PcSpec == PcInit /\ [][PcNext]_pcVars

-----------------------------------------------------------------------------
(* Properties                                                              *)

\* The device never follows a pointer into what a config was copied from, or what it was before it was
\* edited: it sees each state that is set and each stage with data, and nothing for the others.
PipelineConfigsSafe ==
  \A k \in DOMAIN pcCreated :
    LET given == pcCreated[k] IN
      /\ \A l \in StateLists : given.states[l] = IF given.lists[l] = NoList THEN "null" ELSE "own"
      /\ \A s \in DOMAIN given.data : given.stages[s] = IF given.data[s] = 0 THEN "null" ELSE "own"

\* Named objects stay whole, and the pipelines among them are what their configs say.
ManagedObjectsSafe == GmSafe /\ PipelineConfigsSafe
=============================================================================
