---------------------------- MODULE MCRendering ----------------------------
EXTENDS Resource, Material, RenderFrames, DescriptorSets, TLC

CONSTANTS l1, l2, x1, x2

VARIABLE part

TwoTextures == <<x1, x2>>
Ranks == (l1 :> 1) @@ (l2 :> 2)

SetsAndImages(n, m) == [sets |-> n, image |-> m]
PerBlock   == SetsAndImages(2, 3)
SetLayouts == {SetsAndImages(1, 1), SetsAndImages(1, 2), SetsAndImages(2, 2)}

UniformValues == {[size |-> 3, alignment |-> 1], [size |-> 4, alignment |-> 4]}

Init ==
  /\ part \in {"resources", "materials", "frames",
              "descriptors", "uniforms", "amounts", "simple pool", "handles", "updaters"}
  /\ ResourceInit /\ (part # "resources" => kind = "polygon")
  /\ MaterialInit
  /\ IF part = "materials"
     THEN IF Ready = {} /\ hasEntry # {}
          THEN hasEntry = {l2} /\ texState[x1] # "error" /\ texState[x2] = "ready"
          ELSE texState[x2] = "absent"
     ELSE hasEntry = {} /\ (\A l \in Libraries : libState[l] = "loading") /\ \A x \in Textures : texState[x] = "absent"
  /\ FrameInit
  /\ DescInit /\ UniformInit /\ DrInit /\ SpInit /\ QhInit /\ UpdInit

descriptorVars == <<descVars, uniformVars, drVars, spVars, qhVars, updVars>>
vars == <<part, resVars, matVars, frameVars, descriptorVars>>

InResources(A) == part = "resources" /\ A /\ UNCHANGED <<part, matVars, frameVars, descriptorVars>>
InMaterials(A) == part = "materials" /\ ~Crashed /\ A /\ UNCHANGED <<part, resVars, frameVars, descriptorVars>>
InDescriptors ==
  /\ UNCHANGED <<part, resVars, matVars, frameVars>>
  /\ \/ part = "descriptors" /\ DescNext /\ UNCHANGED <<uniformVars, drVars, spVars, qhVars, updVars>>
     \/ part = "uniforms" /\ UniformNext /\ UNCHANGED <<descVars, drVars, spVars, qhVars, updVars>>
     \/ part = "amounts" /\ DrNext /\ UNCHANGED <<descVars, uniformVars, spVars, qhVars, updVars>>
     \/ part = "simple pool" /\ SpNext /\ UNCHANGED <<descVars, uniformVars, drVars, qhVars, updVars>>
     \/ part = "handles" /\ QhNext /\ UNCHANGED <<descVars, uniformVars, drVars, spVars, updVars>>
     \/ part = "updaters" /\ UpdNext /\ UNCHANGED <<descVars, uniformVars, drVars, spVars, qhVars>>

Next ==
  \/ InResources(ResourceNext)
  \/ InMaterials(MaterialNext)
  \/ part = "frames" /\ FrameNext /\ UNCHANGED <<part, resVars, matVars, descriptorVars>>
  \/ InDescriptors

\* Each thread runs on; libraries and textures end, as they promise.
Fairness ==
  /\ \A c \in Clients : WF_vars(InResources(ClientStep(c)))
  /\ WF_vars(InResources(AssetStep)) /\ WF_vars(InResources(FrameStep))
  /\ \A t \in MatThreads : WF_vars(InMaterials(MaterialStep(t)))
  /\ \A l \in Libraries : WF_vars(InMaterials(LibraryEnds(l)))
  /\ \A x \in Textures : WF_vars(InMaterials(TextureEnds(x) \/ AnswerTexture(x)))

Spec == Init /\ [][Next]_vars /\ Fairness
=============================================================================
