SPECIFICATION FairJdbcSpec
CONSTRAINT Corner
CONSTANTS
  c1 = c1
  c2 = c2
  s1 = s1
  s2 = s2
  k1 = k1
  None = None
  Stmt = {s1, s2, k1}
  Conn = {c1, c2}
  Batch <- MCBatch
  MbCommand = {k1}
  SparkCommand = {s2}
  rowsOf <- MCRows
  MaxRequests = 5
  MaxLapses = 1
  MaxBreaks = 1
PROPERTY BrokenCallsEnd
INVARIANTS
  JdbcTypeOK
  NoWaiterForgotten
  OwnRows
  ResultExact
  ClosedForGood
CHECK_DEADLOCK FALSE
