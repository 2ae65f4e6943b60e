SPECIFICATION PushdownSpec
CONSTANTS
  presto = presto
  mysql = mysql
  kudu = kudu
  hive = hive
  Spark = Spark
  Unknown = Unknown
  System = {Spark, presto, mysql, kudu, hive}
  Pushdownable = {Spark, presto, mysql, kudu}
  equals <- MCEquals
  MaxNodes = 4
  Plan <- MCPlan
  MaxCost = 10
INVARIANTS
  PushdownTypeOK
  TreeExact
  PointsExact
CHECK_DEADLOCK FALSE
