SPECIFICATION DDLSpec
CONSTANTS
  Logs <- OneFailing
  MaxFaults = 6
  MaxCrashes = 0
  ReadAhead = 1
  SyncerParses = FALSE
INVARIANT RetriesBounded
CHECK_DEADLOCK FALSE
