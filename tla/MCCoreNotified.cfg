SPECIFICATION CoreSpec
CONSTANTS
  PoolThreads = {t1, t2}
  MaxPoolObjects = 3
  MaxLostEntries = 1
  NoEntry = NoEntry
  BlockEntries = 2
  MaxPoolBlocks = 2
  EntThreads = {e1, e2}
  NameSet = {n}
  k1 = k1
  k2 = k2
  v = v
  CompTypes = {k1, k2}
  CompValues = {v}
  NoValue = NoValue
  Configs <- EitherComponent
  MaxId = 2
  GameStates = {g1, g2, g3}
  y1 = y1
  y2 = y2
  Systems = {y1, y2}
  PreOrder <- SameBefore
  PostOrder <- SecondAfter
  NoState = NoState
  MaxCalls = 3
  MaxHolders = 3
  Nothing = Nothing
  PieceSizes = {1, 2}
  PieceAlignments = {2}
  FirstSize = 2
  MinSlots = 1
  PieceBase = 1
  HeaderPad = 0
  MaxPoolBuffers = 3
  MaxBufferSize = 4
  MaxLost = 1
  RingSize = 8
  ChunkSizes <- SmallChunks
  ChunkAlignments = {1}
  Word = 64
  MaxMarks = 3
  Base = 2
  LengthBytes = 2
  MaxStored = 4
  MaxReserve = 3
  StreamKinds = {"vector", "file", "buffer", "asset"}
  ca = ca
  cb = cb
  Paths = {"p1", "p2"}
  FirstDisk <- OneEach
  Contents = {ca, cb}
  ContentSize <- TwoOrThree
  CompressedSize <- OneCellLess
  MissingFile = MissingFile
  MetaCells = 1
  MaxElements = 2
  MaxChunk = 2
  PackReaders = {r1, r2}
  MaxSources = 2
  ObjectNames = {n1}
  SimpleKinds = {"shader"}
  MaxObjects = 4
  FbConfigs <- WithSwapchain
  SwapchainImages = 2
  NoGraphicsObject = NoGraphicsObject
  m1 = m1
  m2 = m2
  s1 = s1
  s2 = s2
  s3 = s3
  ModelComponents = {o1, o2}
  RecordThreads = {t1, t2}
  MeshesOf <- TwoModels
  MaterialName <- MaterialOf
  DrawRank <- SomeAddresses
  Cameras <- NoneOrTwo
  Preferences <- MainFirst
  MaxForwardLights = 1
  MaxNotifying = 1
  NoModel = NoModel
  QueueThreads = {t1, t2, t3}
  MaxMessages = 3
  MaxSpuriousWakes = 1
  MonitorThreads = {k1, k2}
  FirstValueIn <- OneTokenEach
  CowThreads = {t1, t2}
  Versions = {1, 2, 3, 4, 5, 6, 7}
  MaxWrites = 3
  Wrappers = {w1, w2, w3}
  Functors = {f1, f2}
  NoFunctor = NoFunctor
  LockHolders = {w1, w2, w3}
  Lockables = {f1, f2}
  NoLockable = NoLockable
  StatThreads = {t1, t2}
  Samples = {0, 1, 4, 8}
  Lower = 1
  Upper = 8
  Buckets = 2
  MaxSamples = 2
  MaxLines = 4
  GlfwInstances = {o1, o2}
  GlfwWindowNames = {w1}
  GlfwThreads = {t1, t2}
  MaxCallbackIds = 2
  Flyers = {k1, k2}
  FlyerNames <- OneConfigured
  InvertedFlyers = {k2}
  InputKeys = {"w"}
  ConfigValues = {"junk"}
  CursorPlaces = {0, 1}
  ControlCount = 2
  Actuators = {o1, o2}
  PatternNames = {"p", "q"}
  MaxPatternVersions = 3
  MaxPatternCalls = 2
  NotANumber = NotANumber
  UnknownKey = UnknownKey
  NoVariable = NoVariable
  PipelineObjects = {o1, o2}
  StateLists = {"blend"}
  OptionalLists = {"blend"}
  MaxStages = 1
  MaxItems = 1
  NoList = NoList
INVARIANT NoCallbackAfterDestruction
CHECK_DEADLOCK FALSE
