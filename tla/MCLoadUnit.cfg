CONSTANTS
  PinTask = pin
  PayloadTask = payload
  NoThread = NoThread
  SyncAssets = {s1}
  AsyncAssets = {a1}
  PinClients = {c1}
  MetaOutcomes = {"good", "missing", "corrupt"}
  PayloadOutcomes = {"good", "missing"}
  RelockOutcomes = {"blocks", "throws"}
SPECIFICATION FairSpec
INVARIANTS UnitSafe
PROPERTIES ImplementsPromise PinAnsweredUnlessCorrupt MetaWaitersReturn
CHECK_DEADLOCK FALSE
