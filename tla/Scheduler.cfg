SPECIFICATION SchedulerSpec
CONSTANTS
  t1 = t1
  t2 = t2
  db1 = db1
  Tables <- TwoTables
  NoTable = NoTable
  Features = {}
  Schema <- SameSchema
  Positions <- SomePositions
  StartPositions <- SomePositions
  MaxRetry = 1
  MaxRuns = 2
INVARIANTS
  SchedulerInv
  LiveOnlyAfterSnapshot
  GlobalMinCovers
CHECK_DEADLOCK FALSE
