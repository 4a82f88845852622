SPECIFICATION Spec
CONSTANTS
  Clients = {c1, c2}
  AssetThread = asset
  FrameThread = frame
  NoThread = nothread
  Kinds = {"polygon", "collision", "library", "texture", "model"}
  l1 = l1
  l2 = l2
  x1 = x1
  x2 = x2
  MatClients = {a, b}
  Libraries = {l1, l2}
  Textures = {x1, x2}
  TextureOf <- TwoTextures
  LibraryRank <- Ranks
  NobodyHolds = NobodyHolds
  FrameSlots = 3
  FrameObjects = {o1}
  MaxFrames = 4
  Threads = {t1, t2}
  Resources = {"sets", "image"}
  BlockResources <- PerBlock
  Layouts <- SetLayouts
  MaxSets = 4
  MaxPools = 3
  BufferSize = 12
  BufferBase = 2
  Values <- UniformValues
  Nobody = Nobody
  DescriptorTypes = {"image", "buffer"}
  OperandAmounts = {0, 1, 2}
  MaxAmount = 4
  MaxSimpleSets = 4
  QueuedHandles = {q1, q2}
  NativeObjects = {n1, n2, n3}
  NoNative = NoNative
  RingSlots = 2
  MaxUpdaters = 5
INVARIANT NeverDestroyedInFlight
CHECK_DEADLOCK FALSE
