SPECIFICATION GridSpec
CONSTRAINT Corner
SYMMETRY Alike
CONSTANTS
  w1 = w1
  w2 = w2
  p1 = p1
  p2 = p2
  d1 = d1
  d2 = d2
  a1 = a1
  a2 = a2
  b1 = b1
  m1 = m1
  m2 = m2
  c1 = c1
  c2 = c2
  None = None
  DriverId = {d1}
  WorkerId = {w1, w2}
  AppProc = {p1, p2}
  Addr = {a1, a2, b1}
  workerAddress <- ApartWorkers
  appAddress <- MCAppAddress
  appDriver <- MCAppDriver
  home <- MCHome
  machineOf <- OtherMachine
  BootApps <- NoBootApps
  RecoveryMode = "ZOOKEEPER"
  ReportedState = {"RUNNING", "FINISHED", "ERROR"}
  SparkState = {"RUNNING", "FINISHED"}
  Machine = {m1, m2}
  Client = {c1, c2}
  MaxSubmit = 2
  MaxEpoch = 2
  MaxAttempts = 2
  MaxAppAttempts = 2
  MaxInFlight = 1
  MaxBreaks = 1
  MaxKilled = 1
  MaxStops = 1
  MaxAge = 0
INVARIANTS
  GridTypeOK
  NoPhantomApp
  NoStrandedApp
  LaunchedOnce
  NoPhantomDriver
CHECK_DEADLOCK FALSE
