SPECIFICATION PipeSpec
CONSTANTS
  t1 = t1
  t2 = t2
  db1 = db1
  Tables <- OneTable
  NoTable = NoTable
  Schema <- OneSchema
  Features = {}
  Environments = {{"restart"}}
  Positions <- Nowhere
  StartPositions <- Nowhere
  MaxRetry = 1
  MaxRuns = 2
  MaxEvents = 2
  MaxReplays = 1
  ChanCap = 1
INVARIANT RestartLosesNothing
CHECK_DEADLOCK FALSE
