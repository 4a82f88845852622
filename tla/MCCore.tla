------------------------------- MODULE MCCore -------------------------------
(***************************************************************************)
(* Parts of the engine that do not meet, in one model: each behaviour is   *)
(* one of the part that the first state chooses.                           *)
(***************************************************************************)
EXTENDS UnorderedPool, Entities, GameStates, BufferPools, RingChunkPlacer,
        PackFiles, GraphicsManager, FrameRecording, SyncTools, Statistics,
        GlfwWindows, InputFrames, TLC

CONSTANTS k1, k2, v, y1, y2, ca, cb, m1, m2, s1, s2, s3

VARIABLE part

EitherComponent == {(k1 :> v) @@ (k2 :> NoValue), (k1 :> NoValue) @@ (k2 :> v)}

SameBefore == (y1 :> 1) @@ (y2 :> 1)
SecondAfter == (y1 :> 1) @@ (y2 :> 2)

SmallChunks == {1, 2, 3, 5, 7}

OneEach       == ("p1" :> ca) @@ ("p2" :> cb)
TwoOrThree    == (ca :> 2) @@ (cb :> 3)
OneCellLess   == (ca :> 1) @@ (cb :> 2)
WithSwapchain == {[attachments |-> <<"swapchain", "own">>, passes |-> <<<<1, 2>>, <<2, 1>>, <<2>>>>]}

TwoModels    == (m1 :> <<s1, s2>>) @@ (m2 :> <<s3>>)
MaterialOf   == (s1 :> k1) @@ (s2 :> k2) @@ (s3 :> k1)
SomeAddresses == (s1 :> 2) @@ (s2 :> 1) @@ (s3 :> 1) @@ (k1 :> 1) @@ (k2 :> 2)
NoneOrTwo    == {<<>>, <<"side", "main">>}
MainFirst    == <<"main", "front">>

OneTokenEach == (k1 :> s1) @@ (k2 :> s2) @@ ("monitor" :> s3)

KeyName(variable, default) == [variable |-> variable, default |-> default]
OneConfigured == (k1 :> <<KeyName("forward", "w"), KeyName(NoVariable, "w")>>) @@ (k2 :> <<KeyName("forward", "junk"), KeyName("forward", "w")>>)

\* Bounds: windows come and go next to one callback, two callbacks without a window.
OneCallback == gwNextId' <= 2
NoWindow    == DOMAIN gwWindows' = {}

coreVars == <<upVars, entVars, gsVars, bpVars, placerVars>>
fileVars == <<streamVars, packVars, gmVars, frVars>>
syncVars == <<mqVars, mnVars, cwVars, lfVars, lkVars, statVars, saveVars>>

platformVars == <<gwVars, inVars, acVars, pcVars>>

CoreInit ==
  /\ part \in {"unordered pool", "entities", "game states", "buffers", "ring", "stream", "pack", "graphics manager", "recording",
              "queue", "monitor", "versions", "functors", "locks", "statistics", "saving",
              "windows", "callbacks", "input", "actuators", "pipelines"}
  /\ UPoolInit
  /\ EntitiesInit
  /\ GsInit
  /\ BpInit /\ (part # "buffers" => bpCallbacks)
  /\ PlacerInit
  /\ StreamInit /\ (part # "stream" => stKind = "vector")
  /\ PackInit /\ (part # "pack" => pkKind = "pack")
  /\ GmInit /\ FrInit
  /\ MqInit /\ MnInit /\ CwInit /\ LfInit /\ LkInit
  /\ StatInit /\ SaveInit
  /\ GwInit /\ InInit /\ (part # "input" => inMouse.position = 0) /\ AcInit /\ PcInit

CoreNext ==
  /\ UNCHANGED part
  /\ \/ /\ UNCHANGED <<fileVars, syncVars, platformVars>>
        /\ \/ part = "unordered pool" /\ UPoolNext /\ UNCHANGED <<entVars, gsVars, bpVars, placerVars>>
           \/ part = "entities" /\ EntitiesNext /\ UNCHANGED <<upVars, gsVars, bpVars, placerVars>>
           \/ part = "game states" /\ GsNext /\ UNCHANGED <<upVars, entVars, bpVars, placerVars>>
           \/ part = "buffers" /\ BpNext /\ UNCHANGED <<upVars, entVars, gsVars, placerVars>>
           \/ part = "ring" /\ PlacerNext /\ UNCHANGED <<upVars, entVars, gsVars, bpVars>>
     \/ /\ UNCHANGED <<coreVars, syncVars, platformVars>>
        /\ \/ part = "stream" /\ StreamNext /\ UNCHANGED <<packVars, gmVars, frVars>>
           \/ part = "pack" /\ PackNext /\ UNCHANGED <<streamVars, gmVars, frVars>>
           \/ part = "graphics manager" /\ GmNext /\ UNCHANGED <<streamVars, packVars, frVars>>
           \/ part = "recording" /\ FrNext /\ UNCHANGED <<streamVars, packVars, gmVars>>
     \/ /\ UNCHANGED <<coreVars, fileVars, platformVars>>
        /\ \/ part = "queue" /\ MqNext /\ UNCHANGED <<mnVars, cwVars, lfVars, lkVars, statVars, saveVars>>
           \/ part = "monitor" /\ MnNext /\ UNCHANGED <<mqVars, cwVars, lfVars, lkVars, statVars, saveVars>>
           \/ part = "versions" /\ CwNext /\ UNCHANGED <<mqVars, mnVars, lfVars, lkVars, statVars, saveVars>>
           \/ part = "functors" /\ LfNext /\ UNCHANGED <<mqVars, mnVars, cwVars, lkVars, statVars, saveVars>>
           \/ part = "locks" /\ LkNext /\ UNCHANGED <<mqVars, mnVars, cwVars, lfVars, statVars, saveVars>>
           \/ part = "statistics" /\ StatNext /\ UNCHANGED <<mqVars, mnVars, cwVars, lfVars, lkVars, saveVars>>
           \/ part = "saving" /\ SaveNext /\ UNCHANGED <<mqVars, mnVars, cwVars, lfVars, lkVars, statVars>>
     \/ /\ UNCHANGED <<coreVars, fileVars, syncVars>>
        /\ \/ part = "windows" /\ GwNext /\ OneCallback /\ UNCHANGED <<inVars, acVars, pcVars>>
           \/ part = "callbacks" /\ GwNext /\ NoWindow /\ UNCHANGED <<inVars, acVars, pcVars>>
           \/ part = "input" /\ InNext /\ UNCHANGED <<gwVars, acVars, pcVars>>
           \/ part = "actuators" /\ AcNext /\ UNCHANGED <<gwVars, inVars, pcVars>>
           \/ part = "pipelines" /\ PcNext /\ UNCHANGED <<gwVars, inVars, acVars>>

CoreSpec == CoreInit /\ [][CoreNext]_<<part, coreVars, fileVars, syncVars, platformVars>>
=============================================================================
