SPECIFICATION PipeSpec
CONSTANTS
  t1 = t1
  t2 = t2
  db1 = db1
  Tables <- OneTable
  NoTable = NoTable
  Schema <- OneSchema
  Features = {}
  Environments = {{"cancel"}}
  Positions <- Nowhere
  StartPositions <- Nowhere
  MaxRetry = 0
  MaxRuns = 1
  MaxEvents = 2
  MaxReplays = 1
  ChanCap = 1
PROPERTY CaughtUpMeansAllApplied
CHECK_DEADLOCK FALSE
