SPECIFICATION MCSpec
CONSTANTS
  w1 = w1
  w2 = w2
  p1 = p1
  d1 = d1
  d2 = d2
  a1 = a1
  a2 = a2
  None = None
  DriverId = {d1}
  WorkerId = {w1, w2}
  AppProc = {p1}
  Addr = {a1, a2}
  workerAddress <- SameWorkers
  appAddress <- MCAppAddress
  appDriver <- MCAppDriver
  BootApps <- OneBootApp
  RecoveryMode = "ZOOKEEPER"
  ReportedState = {"RUNNING", "FINISHED"}
  MaxSubmit = 2
  MaxEpoch = 2
  MaxSelf = 1
INVARIANTS
  MasterTypeOK
  NoIdleWaiting
  WorkerIndexes
  AppIndexes
  PersistedMatchesRegistered
  PersistedDriversMatch
  PlacementIndexes
  RecoveryCompletes
PROPERTY KeepsLedger
VIEW MemoryView
CHECK_DEADLOCK FALSE
