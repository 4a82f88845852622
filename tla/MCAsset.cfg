CONSTANTS
  Worker = w
  NoThread = NoThread
  Registrants = {r1, r2}
  SyncLoaders = {s1, s2}
  AsyncLoaders = {a1}
  Outcomes = {"ready", "error"}
  MaxSpurious = 1
SPECIFICATION FairSpec
INVARIANTS IInv
PROPERTIES ImplementsPromise HandlerEventuallyRuns SyncLoadReturnsOrFails
CHECK_DEADLOCK FALSE
