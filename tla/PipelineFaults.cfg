SPECIFICATION PipeSpec
CONSTANTS
  t1 = t1
  t2 = t2
  db1 = db1
  Tables <- OneTable
  NoTable = NoTable
  Schema <- OneSchema
  Features = {}
  Environments = {{"restart", "ioerr", "cancel", "stop", "closed"}, {"api", "pause", "snaperr", "readd"}}
  Positions <- Nowhere
  StartPositions <- Nowhere
  MaxRetry = 1
  MaxRuns = 2
  MaxEvents = 2
  MaxReplays = 2
  ChanCap = 1
INVARIANTS
  PipeTypeOK
  StreamingHasNoGap
  SnapshottingCachesAll
  RestartClearsCache
PROPERTIES
  StreamingWritesInOrder
  QuietAfterStop
CHECK_DEADLOCK FALSE
