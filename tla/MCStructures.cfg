SPECIFICATION Spec
CONSTANTS
  BlockSize = 8
  MemoryTypes <- TwoMemoryTypes
  Requests <- MemoryRequests
  Handles = {h1, h2, h3}
  MaxBlocks = 2
  MaxKeep = 1
  Maps = {m1, m2}
  Keys = {1, 2, 3}
  Items = {x, y}
  DefaultItem = x
  MaxLen = 3
SYMMETRY Perms
INVARIANTS MemorySafe MapsSafe
PROPERTIES CleanupKeeps FlatKeepsValues DualIsFlat
CHECK_DEADLOCK FALSE
