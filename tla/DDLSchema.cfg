SPECIFICATION DDLSpec
CONSTANTS
  Logs <- SomeLogs
  MaxFaults = 1
  MaxCrashes = 1
  ReadAhead = 1
  SyncerParses = TRUE
INVARIANTS
  DDLTypeOK
  TablesFollowTarget

  
CHECK_DEADLOCK FALSE
