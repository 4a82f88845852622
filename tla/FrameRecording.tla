--------------------------- MODULE FrameRecording ---------------------------
(***************************************************************************)
(* How the renderer records a frame: renderer_system opens one command     *)
(* buffer per thread, renderer_state collects the meshes of all static     *)
(* model components that are ready, sorts them, and threads record ranges  *)
(* of them, each into its own buffer, binding a material or a mesh only    *)
(* where it changes. Meanwhile models finish loading, and their callbacks  *)
(* change the components. The buffers of one image are modelled; that they *)
(* are not used while the device still has them is in RenderFrames, and    *)
(* that threads get different slots in SmallContainers.                    *)
(***************************************************************************)
EXTENDS Integers, Sequences, FiniteSets, SequencesExt

CONSTANTS
  ModelComponents, RecordThreads,
  MeshesOf,        \* the meshes of each model, in their order
  MaterialName,    \* the material of each mesh
  DrawRank,        \* the order of the addresses of materials and meshes
  Cameras,         \* sequences of the names of cameras there may be
  Preferences,     \* camera_preferences_
  MaxForwardLights,
  MaxNotifying,    \* bound: callbacks of a component that have not yet notified when another load begins
  NoModel

ASSUME FrameRecordingAssumption ==
  /\ {MaxForwardLights, MaxNotifying} \subseteq Nat
  /\ \A m \in DOMAIN MeshesOf : \A mesh \in ToSet(MeshesOf[m]) : mesh \in DOMAIN MaterialName /\ mesh \in DOMAIN DrawRank

VARIABLES
  frComponent,    \* per component: model_, materials_ and pending_callbacks_; alive until destroyed
  frLoading,      \* the model a load of the component is under way for
  frNotifying,    \* how many callbacks have left the mutex and not yet notified
  frReadyNow,     \* the materials that are ready
  frPhase,        \* where the frame is
  frTodo,         \* the components that are not asked yet
  frCursor,       \* the component that is asked, and how far: the reads are not one step
  frTasks,        \* the buffer of the task reducer
  frCollected,    \* history: the tasks as they were collected
  frTorn,         \* history: components whose model was replaced while the frame was reading them
  frScene,        \* the camera and the number of lights
  frCommands      \* the command buffer of each thread

frVars == <<frComponent, frLoading, frNotifying, frReadyNow, frPhase, frTodo, frCursor, frTasks, frCollected, frTorn, frScene, frCommands>>
loadVars == <<frComponent, frLoading, frNotifying, frReadyNow>>
collectVars == <<frPhase, frTodo, frCursor, frTasks, frCollected, frScene, frCommands>>
passVars == <<collectVars, frTorn>>

Materials == {MaterialName[mesh] : mesh \in DOMAIN MaterialName}
MaterialsFor(model) == [i \in DOMAIN MeshesOf[model] |-> MaterialName[MeshesOf[model][i]]]
NoCursor == [component |-> NoModel, index |-> 0, mesh |-> NoModel, at |-> "nothing"]
NoScene == [camera |-> NoModel, lights |-> 0]

FrInit ==
  /\ frComponent = [c \in ModelComponents |-> [model |-> NoModel, materials |-> <<>>, pending |-> FALSE, alive |-> TRUE]]
  /\ frLoading = [c \in ModelComponents |-> NoModel]
  /\ frNotifying = [c \in ModelComponents |-> 0]
  /\ frReadyNow = {}
  /\ frPhase = "process" /\ frTodo = {} /\ frCursor = NoCursor /\ frTasks = <<>> /\ frCollected = <<>> /\ frTorn = {}
  /\ frScene = NoScene /\ frCommands = [t \in RecordThreads |-> <<>>]

(***************************************************************************)
(* static_model_component                                                  *)
(***************************************************************************)

\* model_name("") and model_name(m): the caller waits for the callbacks of an earlier load.  A model that is there
\* stays until the new one is loaded.
NameModel(c, m) ==
  /\ frPhase = "process" /\ frComponent[c].alive /\ ~frComponent[c].pending
  /\ frNotifying[c] < MaxNotifying
  /\ frComponent' = [frComponent EXCEPT ![c].pending = TRUE]
  /\ frLoading' = [frLoading EXCEPT ![c] = m]
  /\ UNCHANGED <<frNotifying, frReadyNow, passVars>>

NameNothing(c) ==
  /\ frPhase = "process" /\ frComponent[c].alive /\ ~frComponent[c].pending
  /\ frComponent' = [frComponent EXCEPT ![c].model = NoModel, ![c].materials = <<>>]
  /\ UNCHANGED <<frLoading, frNotifying, frReadyNow, passVars>>

\* The completion handler, on a thread of the asset manager: everything is stored in one locked region, and
\* the notification follows it.
ModelLoaded(c) ==
  /\ frLoading[c] # NoModel
  /\ frComponent' = [frComponent EXCEPT ![c].model = frLoading[c], ![c].materials = MaterialsFor(frLoading[c]),
                                        ![c].pending = FALSE]
  /\ frLoading' = [frLoading EXCEPT ![c] = NoModel]
  /\ frNotifying' = [frNotifying EXCEPT ![c] = @ + 1]
  /\ frTorn' = IF frCursor.component = c THEN frTorn \cup {c} ELSE frTorn
  /\ UNCHANGED <<frReadyNow, collectVars>>

\* The error handler keeps what was there.
ModelFails(c) ==
  /\ frLoading[c] # NoModel
  /\ frComponent' = [frComponent EXCEPT ![c].pending = FALSE]
  /\ frLoading' = [frLoading EXCEPT ![c] = NoModel]
  /\ frNotifying' = [frNotifying EXCEPT ![c] = @ + 1]
  /\ UNCHANGED <<frReadyNow, passVars>>

NotifyCallers(c) ==
  /\ frNotifying[c] > 0
  /\ frNotifying' = [frNotifying EXCEPT ![c] = @ - 1]
  /\ UNCHANGED <<frComponent, frLoading, frReadyNow, passVars>>

MaterialReady(m) ==
  /\ m \notin frReadyNow
  /\ frReadyNow' = frReadyNow \cup {m}
  /\ UNCHANGED <<frComponent, frLoading, frNotifying, passVars>>

\* The destructor waits until no callbacks are pending.
DestroyComponent(c) ==
  /\ frPhase = "process" /\ frComponent[c].alive /\ ~frComponent[c].pending
  /\ frComponent' = [frComponent EXCEPT ![c] = [model |-> NoModel, materials |-> <<>>, pending |-> FALSE, alive |-> FALSE]]
  /\ UNCHANGED <<frLoading, frNotifying, frReadyNow, passVars>>

ComponentReady(c) ==
  frComponent[c].model # NoModel /\ \A i \in DOMAIN frComponent[c].materials : frComponent[c].materials[i] \in frReadyNow

(***************************************************************************)
(* Collecting                                                              *)
(***************************************************************************)

\* Every buffer is begun anew, and the descriptors of the last frame of the image are given up.
Prerender ==
  /\ frPhase = "process" /\ frPhase' = "render"
  /\ frCommands' = [t \in RecordThreads |-> <<>>]
  /\ UNCHANGED <<loadVars, frTorn, frTodo, frCursor, frTasks, frCollected, frScene>>

PlaceOf(name) == IF Contains(Preferences, name) THEN CHOOSE i \in DOMAIN Preferences : Preferences[i] = name /\ \A j \in 1 .. i - 1 : Preferences[j] # name
                 ELSE Len(Preferences) + 1

\* The first after preference_sort, which is stable.
Preferred(cameras) ==
  cameras[CHOOSE i \in DOMAIN cameras : \A j \in DOMAIN cameras :
            PlaceOf(cameras[i]) < PlaceOf(cameras[j]) \/ (PlaceOf(cameras[i]) = PlaceOf(cameras[j]) /\ i <= j)]

\* collect_scene_uniforms leaves the lights beyond the maximum out.
SceneOf(cameras, lights) ==
  [camera |-> Preferred(cameras), lights |-> IF lights < MaxForwardLights THEN lights ELSE MaxForwardLights]

\* Without a camera nothing is recorded. Otherwise each buffer starts with the pipeline and the scene.
BeginScene(cameras, lights) ==
  /\ frPhase = "render"
  /\ IF cameras = <<>>
     THEN frPhase' = "post" /\ UNCHANGED <<frScene, frTodo, frCommands>>
     ELSE /\ frPhase' = "collect"
          /\ frScene' = SceneOf(cameras, lights)
          /\ frTodo' = {c \in ModelComponents : frComponent[c].alive}
          /\ frCommands' = [t \in RecordThreads |-> <<<<"pipeline">>, <<"scene", SceneOf(cameras, lights)>>>>]
  /\ UNCHANGED <<loadVars, frTorn, frCursor, frTasks, frCollected>>

\* task_reducer: each component is asked whether it is ready; then for each mesh for the number of its meshes, for the
\* mesh and for the material, under the mutex each but not together.  What was there last time may have been replaced:
\* an index that is not there any more is undefined.  (The assertions that compare the two numbers before are left out:
\* where they are compiled in, they end the program in some of these cases.)
AskComponent(c) ==
  /\ frPhase = "collect" /\ frCursor = NoCursor /\ c \in frTodo
  /\ frTodo' = frTodo \ {c}
  /\ frCursor' = IF ComponentReady(c) THEN [component |-> c, index |-> 1, mesh |-> NoModel, at |-> "count"] ELSE NoCursor
  /\ UNCHANGED <<loadVars, frTorn, frPhase, frTasks, frCollected, frScene, frCommands>>

AskedMeshes == MeshesOf[frComponent[frCursor.component].model]
AskedMaterials == frComponent[frCursor.component].materials

ReadCount ==
  /\ frCursor.at = "count"
  /\ frCursor' = IF frCursor.index > Len(AskedMeshes) THEN NoCursor ELSE [frCursor EXCEPT !.at = "mesh"]
  /\ UNCHANGED <<loadVars, frTorn, frPhase, frTodo, frTasks, frCollected, frScene, frCommands>>

ReadMesh ==
  /\ frCursor.at = "mesh" /\ frCursor.index \in DOMAIN AskedMeshes
  /\ frCursor' = [frCursor EXCEPT !.mesh = AskedMeshes[frCursor.index], !.at = "material"]
  /\ UNCHANGED <<loadVars, frTorn, frPhase, frTodo, frTasks, frCollected, frScene, frCommands>>

ReadMaterial ==
  /\ frCursor.at = "material" /\ frCursor.index \in DOMAIN AskedMaterials
  /\ LET task == [owner |-> frCursor.component, mesh |-> frCursor.mesh, material |-> AskedMaterials[frCursor.index]]
     IN frTasks' = Append(frTasks, task) /\ frCollected' = Append(frCollected, task)
  /\ frCursor' = [frCursor EXCEPT !.index = @ + 1, !.mesh = NoModel, !.at = "count"]
  /\ UNCHANGED <<loadVars, frTorn, frPhase, frTodo, frScene, frCommands>>

\* Nothing more is said of the frame then.
ReadBeyond ==
  /\ \/ frCursor.at = "mesh" /\ frCursor.index \notin DOMAIN AskedMeshes
     \/ frCursor.at = "material" /\ frCursor.index \notin DOMAIN AskedMaterials
  /\ frPhase' = "undefined" /\ frCursor' = NoCursor
  /\ UNCHANGED <<loadVars, frTorn, frTodo, frTasks, frCollected, frScene, frCommands>>

Before(a, b) ==
  \/ DrawRank[a.material] < DrawRank[b.material]
  \/ DrawRank[a.material] = DrawRank[b.material] /\ DrawRank[a.mesh] < DrawRank[b.mesh]

SortTasks ==
  /\ frPhase = "collect" /\ frTodo = {} /\ frCursor = NoCursor
  /\ frPhase' = "record"
  /\ frTasks' = SortSeq(frTasks, Before)
  /\ UNCHANGED <<loadVars, frTorn, frTodo, frCursor, frCollected, frScene, frCommands>>

(***************************************************************************)
(* Recording                                                               *)
(***************************************************************************)

MutantSameMaterial(a, b) == TRUE

SameMaterial(a, b) == a.material = b.material
SameMesh(a, b) == a.mesh = b.mesh

\* grouped_foreach: a group goes on as long as its first element, the key, equals the next one in this
\* grouping and in those around it; its key is bound when it starts.
Recorded(tasks) ==
  FoldLeft(LAMBDA s, task :
    LET material == s.keys = <<>> \/ ~SameMaterial(s.keys[1], task)
        mesh     == material \/ ~SameMesh(s.keys[2], task)
    IN [keys     |-> <<IF material THEN task ELSE s.keys[1], IF mesh THEN task ELSE s.keys[2]>>,
        commands |-> s.commands \o (IF material THEN <<<<"material", task.material>>>> ELSE <<>>)
                                \o (IF mesh THEN <<<<"mesh", task.mesh>>>> ELSE <<>>)
                                \o <<<<"draw", task>>>>],
    [keys |-> <<>>, commands |-> <<>>], tasks).commands

\* A thread takes a range of any length, perhaps after others.
RecordRange(t, n) ==
  /\ frPhase = "record" /\ n \in 1 .. Len(frTasks)
  /\ frCommands' = [frCommands EXCEPT ![t] = @ \o Recorded(SubSeq(frTasks, 1, n))]
  /\ frTasks' = SubSeq(frTasks, n + 1, Len(frTasks))
  /\ UNCHANGED <<loadVars, frTorn, frPhase, frTodo, frCursor, frCollected, frScene>>

\* The threads are joined, and the primary buffer executes all the others.
EndRecording ==
  /\ frPhase = "record" /\ frTasks = <<>> /\ frPhase' = "post"
  /\ UNCHANGED <<loadVars, frTorn, frTodo, frCursor, frTasks, frCollected, frScene, frCommands>>

Postrender ==
  /\ frPhase = "post" /\ frPhase' = "process"
  /\ frCollected' = <<>> /\ frTorn' = {} /\ frScene' = NoScene /\ frCommands' = [t \in RecordThreads |-> <<>>]
  /\ UNCHANGED <<loadVars, frTodo, frCursor, frTasks>>

FrNext ==
  \/ \E c \in ModelComponents :
       \/ \E m \in DOMAIN MeshesOf : NameModel(c, m)
       \/ NameNothing(c) \/ ModelLoaded(c) \/ ModelFails(c) \/ NotifyCallers(c) \/ DestroyComponent(c)
       \/ AskComponent(c)
  \/ \E m \in Materials : MaterialReady(m)
  \/ Prerender \/ EndRecording \/ Postrender
  \/ \E cameras \in Cameras : \E lights \in {1, MaxForwardLights + 1} : BeginScene(cameras, lights)
  \/ ReadCount \/ ReadMesh \/ ReadMaterial \/ ReadBeyond \/ SortTasks
  \/ \E t \in RecordThreads : \E n \in 1 .. Len(frTasks) : RecordRange(t, n)

(***************************************************************************)
(* Properties                                                              *)
(***************************************************************************)

\* What the device does with a buffer: it draws with what is bound in this buffer.
Executed(commands) ==
  FoldLeft(LAMBDA s, command :
    IF command[1] = "draw" THEN [s EXCEPT !.draws = Append(@, [with |-> s.bound, task |-> command[2]])]
    ELSE [s EXCEPT !.bound = [@ EXCEPT ![command[1]] = command]],
    [bound |-> [pipeline |-> <<>>, scene |-> <<>>, material |-> <<>>, mesh |-> <<>>], draws |-> <<>>], commands).draws

\* When the frame is recorded each mesh of each component that was ready is drawn once, by one thread, in a
\* buffer where the pipeline, the scene, its own material and its own mesh are bound.
DrawnOnce ==
  frPhase = "post" =>
    LET draws == [t \in RecordThreads |-> Executed(frCommands[t])]
        Times(task) == {<<t, i>> \in RecordThreads \X (1 .. Len(frCollected)) : i <= Len(draws[t]) /\ draws[t][i].task = task}
    IN /\ \A i \in DOMAIN frCollected : Cardinality(Times(frCollected[i])) = 1
       /\ \A t \in RecordThreads : \A i \in DOMAIN draws[t] :
            draws[t][i].with = [pipeline |-> <<"pipeline">>, scene |-> <<"scene", frScene>>,
                                material |-> <<"material", draws[t][i].task.material>>, mesh |-> <<"mesh", draws[t][i].task.mesh>>]

\* What is collected belongs together, and is ready, though loads finish and replace models meanwhile; but for a
\* component whose model was replaced between the questions of one frame, as its answers are then of two models.  Where
\* they do not even have the same number of meshes, the frame reads beyond the shorter one.
CollectedMatches ==
  /\ \A i \in DOMAIN frCollected :
       LET task == frCollected[i]
       IN task.owner \notin frTorn =>
            /\ task.material = MaterialName[task.mesh] /\ task.material \in frReadyNow
            /\ \A j \in DOMAIN frCollected : frCollected[j].owner = task.owner /\ i < j => frCollected[j].mesh # task.mesh
  /\ frPhase = "undefined" => frTorn # {}

\* Without a scene nothing is recorded, not even the state of the last frame.
SceneOrNothing == frScene = NoScene => \A t \in RecordThreads : frCommands[t] = <<>>

RecordingSafe == DrawnOnce /\ CollectedMatches /\ SceneOrNothing

\* "has to block on destruction for pending callbacks to avoid use after destruction": what the destructor
\* waits for is said before the callback is done with the component.
NoCallbackAfterDestruction == \A c \in ModelComponents : ~frComponent[c].alive => frNotifying[c] = 0
=============================================================================
