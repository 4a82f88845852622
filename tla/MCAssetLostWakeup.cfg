CONSTANTS
  Worker = w
  NoThread = NoThread
  Registrants = {r1}
  SyncLoaders = {s1, s2}
  AsyncLoaders = {}
  Outcomes = {"ready", "error"}
  MaxSpurious = 0
SPECIFICATION FairSpec
PROPERTIES
  SyncLoadReturns
CHECK_DEADLOCK FALSE
