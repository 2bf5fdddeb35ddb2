SPECIFICATION ServicesSpec
CONSTANTS
  SinkKinds = {"mysql", "oracle", "mongo", "es", "single"}
  Callers = {1, 2}
  MaxSinkEvents = 2
  MaxSinkBatch = 2
  MaxBulkRetries = 1
  MaxStops = 2
  MaxFlushes = 1
  SourceKinds = {"mysql", "mongo", "postgres"}
  MaxLog = 2
  MaxRows = 2
  MaxWide = 3
  MaxStarts = 2
  MaxSets = 1
  PollKinds = {"oracle", "sqlserver"}
  Instances = {"a", "b"}
  MineBatch = 1
  MaxChanges = 2
  MaxRuns = 3
  Backends = {"memory", "file", "etcd"}
  Storages = {1, 2}
  OffsetKeys = {"a", "b"}
  MaxSaves = 3
  CacheTables = {"a", "b"}
  FileNames = {"x", "y"}
  SyncModes = {"every", "batch", "none"}
  MaxCached = 3
  MaxFiles = 2
  MaxFailures = 2
  ClusterNodes = {"n1", "n2"}
  ClusterTasks = {"t1"}
  MaxTasksPerNode = 10
  QueriesFail = TRUE
  MaxSessions = 3
  MaxExpired = 1
  SnapWorkers = {1, 2}
  ChunkSize = 3
  MaxInt = 3
  TaskQueueSize = 1
  EventBufferSize = 1
  MaxChunks = 7
  BufferCap = 2
  MaxPuts = 3
  MaxSeconds = 1
  MaxOpens = 3
  Managed = {"a", "b"}
  Requests = {1, 2}
  EventCap = 1
  MaxRequests = 4
  Guarded = {1, 2, 3}
  FailureThreshold = 2
  SuccessThreshold = 2
  MaxFailed = 4
  Waiters = {1, 2}
INVARIANTS
  ServicesTypeOK
  AckedIsStored PositionIsStored OpenTxHasWrite
  SkippedIsExcused
  PollSkipsNothing
  PositionNotLost
  CacheReadsBack
  ActsAsLeader
  EveryKeyInOneChunk BlockedByBacklog
  PutIsStored GivenInOrder
  ReaderAgrees
  ResumeReachesReader
PROPERTIES
  HalfOpenProbes
  LetGoWhenRunning
CHECK_DEADLOCK FALSE
