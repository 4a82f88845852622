------------------------------- MODULE Images -------------------------------
(***************************************************************************)
(* graphics::image: images of every dimension with their native image and  *)
(* memory, views of parts of them, and the layout that an image object     *)
(* keeps while commands are recorded that will change the layout of the    *)
(* native image when they are executed.  Creating and binding are calls of *)
(* the device and of the memory manager, which may fail; formats, usage    *)
(* and tiling are handed through and left out.                             *)
(***************************************************************************)
EXTENDS Integers, Sequences, FiniteSets, SequencesExt

CONSTANTS
  ImageVariables,  \* variables of the program that hold an image
  ViewVariables,   \* or a view
  ImageShapes,     \* what a program asks for: kind, aspect, extent (width, height, depth), layers, whether all
                   \* levels are wanted, whether the content is there before, and whether destruction is queued
  ImageLayouts,    \* layouts a program transitions to
  MaxRecorded,     \* bound: barriers that are recorded and not executed
  MaxNatives,      \* bound: native images at once, those that views or the queue still name included
  NoNativeImage

VARIABLES
  imImages,     \* the image objects
  imViews,      \* the view objects
  imNatives,    \* native images: size, layers, levels and the memory they are bound to
  imLayout,     \* the layout a native image is in
  imMemories,   \* memory in use
  imQueue,      \* the slot of the destruction queue, in order
  imRecorded    \* barriers that are recorded and not executed, in order

imVars == <<imImages, imViews, imNatives, imLayout, imMemories, imQueue, imRecorded>>

RemainingParts == -1   \* VK_REMAINING_ARRAY_LAYERS, VK_REMAINING_MIP_LEVELS

\* A moved object has no native image, but what describes it.
NoImage == [native |-> NoNativeImage, memory |-> NoNativeImage]
NoView  == [of |-> NoNativeImage]

ImInit ==
  /\ imImages = [i \in ImageVariables |-> NoImage]
  /\ imViews = [v \in ViewVariables |-> NoView]
  /\ imNatives = [n \in {} |-> NoImage]
  /\ imLayout = [n \in {} |-> "undefined"]
  /\ imMemories = {}
  /\ imQueue = <<>>
  /\ imRecorded = <<>>

Natives == 1 .. MaxNatives
HasNative(i) == imImages[i].native # NoNativeImage
HasView(v) == imViews[v].of # NoNativeImage

-----------------------------------------------------------------------------
(* Sizes and types                                                         *)

\* The class templates there are: dimension and whether there are layers.
ImageKinds == {"1d", "2d", "3d", "cube"} \X {FALSE} \cup {"1d", "2d", "cube"} \X {TRUE}
ImageAspects == {"color", "depth", "stencil", "depth_stencil"}

ASSUME ImagesAssumption ==
  /\ \A s \in ImageShapes :
       /\ s.kind \in ImageKinds /\ s.aspect \in ImageAspects /\ s.extent \in (Nat \ {0}) \X (Nat \ {0}) \X (Nat \ {0})
       /\ s.layers \in Nat \ {0} /\ (s.kind[1] = "cube" => s.extent[1] = s.extent[2])
       /\ {s.full, s.preinitialized, s.queued} \subseteq BOOLEAN
  /\ "undefined" \notin ImageLayouts /\ "preinitialized" \notin ImageLayouts
  /\ MaxRecorded \in Nat /\ MaxNatives \in Nat

\* image_size: from an extent, of which a kind takes the dimensions that it has; a cube has six faces.
UnlayeredSize(dim, e) ==
  [width |-> e[1],
   height |-> IF dim = "1d" THEN 1 ELSE e[2],
   depth |-> IF dim = "3d" THEN e[3] ELSE 1,
   layers |-> IF dim = "cube" THEN 6 ELSE 1]
LayeredSize(dim, e, layers) ==
  [UnlayeredSize(dim, e) EXCEPT !.layers = IF dim = "cube" THEN layers * 6 ELSE layers]
SizeOf(kind, e, layers) == IF kind[2] THEN LayeredSize(kind[1], e, layers) ELSE UnlayeredSize(kind[1], e)

\* image_view_type_mapper
ViewType(kind) == kind

\* default_aspect_flags
AspectFlags(mode) == IF mode = "depth_stencil" THEN {"depth", "stencil"} ELSE {mode}

\* full_mip_levels: 1 + floor(log2(the largest component)).
Largest3(s) == CHOOSE m \in {s.width, s.height, s.depth} : \A k \in {s.width, s.height, s.depth} : k <= m
full_mip_levels(s) == 1 + (CHOOSE k \in 0 .. Largest3(s) : 2 ^ k <= Largest3(s) /\ Largest3(s) < 2 ^ (k + 1))

-----------------------------------------------------------------------------
(* Image objects                                                           *)

Described(shape, s, mips, layout) ==
  [kind |-> shape.kind, aspect |-> shape.aspect, size |-> s, mips |-> mips, queued |-> shape.queued, layout |-> layout]

\* base_image: the native image is made, memory is allocated for it and bound.
CreateImage(i, shape) ==
  /\ ~HasNative(i)
  /\ \E n \in Natives \ (DOMAIN imNatives \cup {imViews[v].of : v \in ViewVariables}) :
       LET s == SizeOf(shape.kind, shape.extent, shape.layers)
           mips == IF shape.full THEN full_mip_levels(s) ELSE 1
           layout == IF shape.preinitialized THEN "preinitialized" ELSE "undefined"
       IN /\ n \notin imMemories
          /\ imImages' = [imImages EXCEPT ![i] = [native |-> n, memory |-> n, is |-> Described(shape, s, mips, layout)]]
          /\ imNatives' = [k \in DOMAIN imNatives \cup {n} |->
                             IF k = n THEN [size |-> s, mips |-> mips, memory |-> n] ELSE imNatives[k]]
          /\ imLayout' = [k \in DOMAIN imLayout \cup {n} |-> IF k = n THEN layout ELSE imLayout[k]]
          /\ imMemories' = imMemories \cup {n}
  /\ UNCHANGED <<imViews, imQueue, imRecorded>>

\* queued_handle: what an object had goes to the queue, or at once if it was given none.
ReleaseImage(state, i) ==
  LET o == imImages[i] IN
    IF o.native = NoNativeImage THEN state
    ELSE IF o.is.queued THEN [state EXCEPT !.queue = @ \o <<<<"image", o.native>>, <<"memory", o.memory>>>>]
    ELSE [state EXCEPT !.natives = @ \ {o.native}, !.memories = @ \ {o.memory}]

\* The assignment moves the memory first, so the old memory is queued before the old image.
ReleaseAssigned(state, i) ==
  LET o == imImages[i] IN
    IF o.native = NoNativeImage THEN state
    ELSE IF o.is.queued THEN [state EXCEPT !.queue = @ \o <<<<"memory", o.memory>>, <<"image", o.native>>>>]
    ELSE [state EXCEPT !.natives = @ \ {o.native}, !.memories = @ \ {o.memory}]

ImageResources == [natives |-> DOMAIN imNatives, memories |-> imMemories, queue |-> imQueue]
BecomeImageResources(state) ==
  /\ imNatives' = [k \in state.natives |-> imNatives[k]]
  /\ imLayout' = [k \in state.natives |-> imLayout[k]]
  /\ imMemories' = state.memories
  /\ imQueue' = state.queue

\* Nothing that is recorded may refer to an image that goes at once.
Unrecorded(i) == HasNative(i) /\ ~imImages[i].is.queued => \A k \in DOMAIN imRecorded : imRecorded[k].native # imImages[i].native

\* Move construction, and move assignment from another object.
MoveImage(i, from) ==
  /\ i # from /\ HasNative(from) /\ Unrecorded(i)
  /\ imImages' = [imImages EXCEPT ![i] = imImages[from], ![from] = NoImage]
  /\ BecomeImageResources(ReleaseAssigned(ImageResources, i))
  /\ UNCHANGED <<imViews, imRecorded>>

\* Members are destroyed in reverse: the image, then its memory.
DestroyImage(i) ==
  /\ HasNative(i) /\ Unrecorded(i)
  /\ imImages' = [imImages EXCEPT ![i] = NoImage]
  /\ BecomeImageResources(ReleaseImage(ImageResources, i))
  /\ UNCHANGED <<imViews, imRecorded>>

\* The slot is emptied element by element once the device is done with what was recorded.
CleanupQueue ==
  /\ imQueue # <<>> /\ imRecorded = <<>>
  /\ LET e == Head(imQueue) IN
       BecomeImageResources([natives |-> IF e[1] = "image" THEN DOMAIN imNatives \ {e[2]} ELSE DOMAIN imNatives,
                        memories |-> IF e[1] = "memory" THEN imMemories \ {e[2]} ELSE imMemories,
                        queue |-> Tail(imQueue)])
  /\ UNCHANGED <<imImages, imViews, imRecorded>>

-----------------------------------------------------------------------------
(* Views                                                                   *)

\* base_image::create_view: the native view is of the rest of the image where that is asked for; the object says
\* that it has all the layers and levels then.
ViewOf(i, type, base, count, baseMip, mips) ==
  LET o == imImages[i] IN
    [of |-> o.native, type |-> type, aspects |-> AspectFlags(o.is.aspect),
     first |-> base, last |-> (IF count = RemainingParts THEN o.is.size.layers ELSE base + count) - 1,
     firstMip |-> baseMip, lastMip |-> (IF mips = RemainingParts THEN o.is.mips ELSE baseMip + mips) - 1,
     layers |-> IF count = RemainingParts THEN o.is.size.layers ELSE count,
     mips |-> IF mips = RemainingParts THEN o.is.mips ELSE mips]

SetView(v, view) ==
  /\ ~HasView(v)
  /\ imViews' = [imViews EXCEPT ![v] = view]
  /\ UNCHANGED <<imImages, imNatives, imLayout, imMemories, imQueue, imRecorded>>

KindOf(i) == imImages[i].is.kind
LayersOf(i) == imImages[i].is.size.layers

\* Levels and layers a caller may ask for (bound: one, all or the rest of the layers).
MipRanges(i) == {<<b, c>> \in (0 .. imImages[i].is.mips - 1) \X ({RemainingParts} \cup 1 .. imImages[i].is.mips) : b + c <= imImages[i].is.mips}
LayerRanges(i) == {<<b, c>> \in (0 .. LayersOf(i) - 1) \X {RemainingParts, 1, LayersOf(i)} : b + c <= LayersOf(i)}

\* Unlayered images, cubes among them: the whole image.
WholeView(v, i, m) ==
  /\ HasNative(i) /\ ~KindOf(i)[2]
  /\ SetView(v, ViewOf(i, ViewType(KindOf(i)), 0, IF KindOf(i)[1] = "cube" THEN 6 ELSE 1, m[1], m[2]))

\* Layered images: some layers; of layered cubes these are faces.
LayersView(v, i, l, m) ==
  /\ HasNative(i) /\ KindOf(i)[2]
  /\ KindOf(i)[1] = "cube" => l[1] % 6 = 0 /\ (l[2] = RemainingParts \/ l[2] % 6 = 0)
  /\ SetView(v, ViewOf(i, ViewType(KindOf(i)), l[1], l[2], m[1], m[2]))

\* create_single_view: one layer, seen as an unlayered image.
SingleView(v, i, layer, m) ==
  /\ HasNative(i) /\ KindOf(i)[2] /\ KindOf(i)[1] # "cube"
  /\ SetView(v, ViewOf(i, ViewType(<<KindOf(i)[1], FALSE>>), layer, 1, m[1], m[2]))

\* create_single_view of a layered cube: the layer is the face that the view begins with, not the cube.
SingleCubeView(v, i, layer, m) ==
  /\ HasNative(i) /\ KindOf(i) = <<"cube", TRUE>> /\ layer + 6 <= LayersOf(i)
  /\ SetView(v, ViewOf(i, ViewType(<<"cube", TRUE>>), layer, 6, m[1], m[2]))

\* create_face_view: any face of any of the cubes.
FaceView(v, i, face, m) ==
  /\ HasNative(i) /\ KindOf(i)[1] = "cube"
  /\ SetView(v, ViewOf(i, ViewType(<<"2d", FALSE>>), face, 1, m[1], m[2]))

\* create_faces_view: all faces of a cube, or some of those of a layered cube, as layers.
FacesView(v, i, l, m) ==
  /\ HasNative(i) /\ KindOf(i)[1] = "cube" /\ (~KindOf(i)[2] => l = <<0, 6>>)
  /\ SetView(v, ViewOf(i, ViewType(<<"2d", TRUE>>), l[1], l[2], m[1], m[2]))

\* A view goes before its image does.
DropView(v) ==
  /\ HasView(v)
  /\ imViews' = [imViews EXCEPT ![v] = NoView]
  /\ UNCHANGED <<imImages, imNatives, imLayout, imMemories, imQueue, imRecorded>>

-----------------------------------------------------------------------------
(* Layouts                                                                 *)

LayoutBarrier(i, old, new) == [native |-> imImages[i].native, old |-> old, new |-> new]

RecordBarrier(i, barrier, layout) ==
  /\ Len(imRecorded) < MaxRecorded
  /\ imRecorded' = Append(imRecorded, barrier)
  /\ imImages' = [imImages EXCEPT ![i].is.layout = layout]
  /\ UNCHANGED <<imViews, imNatives, imLayout, imMemories, imQueue>>

\* From the layout that is tracked, which becomes the new one at once.
generate_transition(i, layout) ==
  /\ HasNative(i)
  /\ RecordBarrier(i, LayoutBarrier(i, imImages[i].is.layout, layout), layout)

\* The caller records barriers of its own (generate_transition_native), as the transfer manager does, and says where they end.
set_layout_external(i, layout) ==
  /\ HasNative(i)
  /\ RecordBarrier(i, LayoutBarrier(i, "undefined", layout), layout)

mark_layout_undefined(i) ==
  /\ HasNative(i)
  /\ imImages' = [imImages EXCEPT ![i].is.layout = "undefined"]
  /\ UNCHANGED <<imViews, imNatives, imLayout, imMemories, imQueue, imRecorded>>

\* The device executes what was recorded, in order.
ExecuteBarrier ==
  /\ imRecorded # <<>>
  /\ imLayout' = [imLayout EXCEPT ![Head(imRecorded).native] = Head(imRecorded).new]
  /\ imRecorded' = Tail(imRecorded)
  /\ UNCHANGED <<imImages, imViews, imNatives, imMemories, imQueue>>

ImNext ==
  \/ \E i \in ImageVariables :
       \/ \E s \in ImageShapes : CreateImage(i, s)
       \/ \E j \in ImageVariables : MoveImage(i, j)
       \/ DestroyImage(i)
       \/ mark_layout_undefined(i)
       \/ \E l \in ImageLayouts : generate_transition(i, l) \/ set_layout_external(i, l)
  \/ CleanupQueue \/ ExecuteBarrier
  \/ \E v \in ViewVariables :
       \/ DropView(v)
       \/ \E i \in {j \in ImageVariables : HasNative(j)} : \E m \in MipRanges(i) :
            \/ WholeView(v, i, m)
            \/ \E l \in LayerRanges(i) : LayersView(v, i, l, m) \/ FacesView(v, i, l, m)
            \/ \E n \in 0 .. LayersOf(i) - 1 : SingleView(v, i, n, m) \/ SingleCubeView(v, i, n, m) \/ FaceView(v, i, n, m)

ImSpec == ImInit /\ [][ImNext]_imVars

-----------------------------------------------------------------------------
(* Properties                                                              *)

\* The layout that barriers up to the k-th leave the native image in.
LayoutAfter(n, k) ==
  LET changes == {j \in 1 .. k : imRecorded[j].native = n} IN
    IF changes = {} THEN imLayout[n] ELSE imRecorded[CHOOSE j \in changes : \A h \in changes : h <= j].new

\* What is recorded fits what will be: a barrier expects the layout the image will be in when it is its turn, or
\* none; so does the object, however images were moved in between.
LayoutsTracked ==
  /\ \A k \in DOMAIN imRecorded : imRecorded[k].old \in {"undefined", LayoutAfter(imRecorded[k].native, k - 1)}
  /\ \A i \in ImageVariables :
       HasNative(i) => imImages[i].is.layout \in {"undefined", LayoutAfter(imImages[i].native, Len(imRecorded))}

QueuedNatives(type) == {imQueue[k][2] : k \in {j \in DOMAIN imQueue : imQueue[j][1] = type}}
OwnedNatives(part) == {imImages[i][part] : i \in {j \in ImageVariables : HasNative(j)}}

\* Each native image and each memory has one object or one place in the queue, so each is given back once.
ResourcesOwned ==
  /\ \A i, j \in ImageVariables : i # j /\ HasNative(i) /\ HasNative(j) => imImages[i].native # imImages[j].native
  /\ IsInjective(imQueue)
  /\ OwnedNatives("native") \cap QueuedNatives("image") = {} /\ OwnedNatives("native") \cup QueuedNatives("image") = DOMAIN imNatives
  /\ OwnedNatives("memory") \cap QueuedNatives("memory") = {} /\ OwnedNatives("memory") \cup QueuedNatives("memory") = imMemories
  /\ \A i \in ImageVariables : HasNative(i) => imNatives[imImages[i].native].memory = imImages[i].memory

\* A view of an image that is there is within it, is described as it is if it begins at the first layer and level,
\* and a view as cubes has faces by the six.
ViewsFit ==
  \A v \in ViewVariables :
    HasView(v) /\ imViews[v].of \in OwnedNatives("native") =>
      LET w == imViews[v]  n == imNatives[w.of] IN
        /\ 0 <= w.first /\ w.first <= w.last /\ w.last < n.size.layers
        /\ 0 <= w.firstMip /\ w.firstMip <= w.lastMip /\ w.lastMip < n.mips
        /\ w.first = 0 => w.layers = w.last + 1
        /\ w.firstMip = 0 => w.mips = w.lastMip + 1
        /\ w.type[1] = "cube" => (w.last - w.first + 1) % 6 = 0
        /\ ~w.type[2] /\ w.type[1] # "cube" => w.first = w.last

\* A full chain of levels ends with the first level of one texel.
LevelsExact ==
  \A n \in DOMAIN imNatives :
    LET side(k) == Largest3(imNatives[n].size) \div (2 ^ (k - 1)) IN
      imNatives[n].mips > 1 => side(imNatives[n].mips) = 1 /\ side(imNatives[n].mips - 1) > 1

\* Images, their views, resources and layouts fit each other.
ImagesSafe == LayoutsTracked /\ ResourcesOwned /\ ViewsFit /\ LevelsExact
=============================================================================
