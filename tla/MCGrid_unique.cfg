SPECIFICATION GridSpec
CONSTANTS
  w1 = w1
  w2 = w2
  p1 = p1
  p2 = p2
  d1 = d1
  d2 = d2
  a1 = a1
  a2 = a2
  b1 = b1
  m1 = m1
  m2 = m2
  c1 = c1
  c2 = c2
  None = None
  DriverId = {d1}
  WorkerId = {w1}
  AppProc = {}
  Addr = {a1, b1}
  workerAddress <- SameWorkers
  appAddress <- MCAppAddress
  appDriver <- MCAppDriver
  home <- MCHome
  machineOf <- OtherMachine
  BootApps <- NoBootApps
  RecoveryMode = "ZOOKEEPER"
  ReportedState = {"RUNNING", "FINISHED", "ERROR"}
  SparkState = {"RUNNING", "FINISHED"}
  Machine = {m1, m2}
  Client = {c1}
  MaxSubmit = 3
  MaxEpoch = 1
  MaxAttempts = 2
  MaxAppAttempts = 2
  MaxInFlight = 2
  MaxBreaks = 0
  MaxKilled = 0
  MaxStops = 0
  MaxAge = 0
INVARIANTS
  UniqueDriver
CHECK_DEADLOCK FALSE
