CONSTANTS
  n1 = n1
  n2 = n2
  o1 = o1
  o2 = o2
  c1 = c1
  c2 = c2
  c3 = c3
  w1 = w1
  w2 = w2
  None = None
  Names = {n1, n2}
  Objects = {o1, o2}
  Clients = {c1, c2, c3}
  Workers = {w1, w2}
  Operations <- ManyCalls
  LoaderOf <- UnitAndFile
  u1 = u1
  u2 = u2
  u3 = u3
  u4 = u4
  NoPosition = NoPosition
  Uploads <- FourUploads
  SizeOf <- MixedSizes
  AlignmentOf <- MixedAlignments
  InitialSize = 6
  Slack = 2
  RingSlots = 3
  Word = 64
SPECIFICATION ManagersSpec
INVARIANTS ManagerSafe TransfersSafe
PROPERTIES RequestsAnswered CompletedUnlessStuck
CHECK_DEADLOCK FALSE
