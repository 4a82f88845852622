CONSTANTS
  t1 = t1
  t2 = t2
  None = None
  Threads = {t1, t2}
  MaxBlocks = 2
  BlockSize = 1
  MaxVersion <- Versions
  SerialIteration = TRUE
  PtrObjects = {o1, o2}
  SharedPlaces = {q1, q2}
  WeakPlaces = {w1, w2}
  NoTarget = NoTarget
  Arrays = {x1, x2}
  MaxArray = 2
  PadThreads = {t1, t2}
  MaxPads = 4
  SlotThreads = {t1, t2, t3}
  TotalSlots = 2
  SimpleObjects = {o1, o2}
  Nobody = Nobody
  ConfigThreads = {t1, t2}
  NameOrder <- TwoNames
  UserFiles <- TwoUserFiles
  DefaultFile <- DefaultNames
  TypeOf <- StringAndNumber
  DefaultOf <- AllOne
  Numbers = {"one", "two"}
  Words = {"junk"}
  MaxKeys = 1
  Documents <- TextDocuments
  Properties <- TextProperties
  UnboundTypes = {"walker"}
  Lowest = 0
  Highest = 1
  MaxInstances = 2
  RangeBlocks = 2
  RangeBlockSize = 2
  MaxRanges = 3
  MaxMeanwhile = 1
  IteratorNames = {i1, i2}
  ImageVariables = {i1, i2}
  ViewVariables = {w1}
  ImageShapes <- Pictures
  ImageLayouts = {"sampled"}
  MaxRecorded = 2
  MaxNatives = 2
  NoNativeImage = NoNativeImage
SYMMETRY ThreadPerms
SPECIFICATION ToolsSpec
INVARIANTS ObjectsSafe PointersSafe ArraysAndImagesSafe ConfigSafe EntityTextSafe
