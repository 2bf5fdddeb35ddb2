SPECIFICATION TaskSpec
CONSTANTS
  Clients <- TwoClients
  MaxOps = 4
  MaxEvents = 2
  MaxRuns = 2
INVARIANTS
  TaskTypeOK
  NoWriteToStoppedSinks
  PauseHolds
  DeletedIsGone
  RunningIsServed
PROPERTY StopReturns
CHECK_DEADLOCK FALSE
