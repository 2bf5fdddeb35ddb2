---------------------------- MODULE MCServices ----------------------------
(***************************************************************************)
(* An instance for TLC of the components around the lifecycle pipeline.    *)
(* They are checked side by side: a behaviour picks one component in its   *)
(* initial state, and the others stay in one initial state of theirs.      *)
(***************************************************************************)
EXTENDS SinkConnectors, StreamSources, PollSources, OffsetStorage, CacheFiles,
        ClusterManager, SnapshotWorkers, PersistentBuffer, FlowControl, TableRequests

VARIABLE part

\* Where a component has several initial states, those not picked have one.
PickOne ==
  /\ part \in {"sink", "stream", "poll", "offset", "cache", "cluster", "snapshot", "buffer",
              "tables", "breaker", "pressure"}
  /\ sinkKind \in IF part = "sink" THEN SinkKinds ELSE {"mysql"}
  /\ useTx \in IF part = "sink" THEN BOOLEAN ELSE {FALSE}
  /\ srcKind \in IF part = "stream" THEN SourceKinds ELSE {"mysql"}
  /\ keeper \in IF part = "stream" THEN {"offsets", "store", "none"} ELSE {"offsets"}
  /\ pinned \in IF part = "stream" THEN BOOLEAN ELSE {FALSE}
  /\ pollKind \in IF part = "poll" THEN PollKinds ELSE {"oracle"}
  /\ backend \in IF part = "offset" THEN Backends ELSE {"memory"}
  /\ keyOf \in IF part = "offset" THEN [Storages -> OffsetKeys] ELSE {[t \in Storages |-> "a"]}
  /\ fileOf \in IF part = "cache" THEN [CacheTables -> FileNames]
               ELSE {[t \in CacheTables |-> "x"]}
  /\ syncMode \in IF part = "cache" THEN SyncModes ELSE {"none"}
  /\ minKey \in IF part = "snapshot" THEN KeyInts ELSE {0}
  /\ maxKey \in IF part = "snapshot" THEN minKey..MaxInt ELSE {0}
  /\ chunkable \in IF part = "snapshot" THEN BOOLEAN ELSE {FALSE}
  /\ syncTables \in IF part = "tables" THEN [Managed -> {"none", "active"}]
                   ELSE {[t \in Managed |-> "none"]}

ServicesInit ==
  /\ PickOne
  /\ SinkInit
  /\ StreamInit
  /\ PollInit
  /\ OffsetInit
  /\ CacheInit
  /\ ClusterInit
  /\ SnapInit
  /\ BufferInit
  /\ TableInit
  /\ FlowInit

\* All components but this one stay as they are.
OthersStay(p) ==
  /\ UNCHANGED part
  /\ IF p = "sink" THEN TRUE ELSE UNCHANGED sinkVars
  /\ IF p = "stream" THEN TRUE ELSE UNCHANGED srcVars
  /\ IF p = "poll" THEN TRUE ELSE UNCHANGED pollVars
  /\ IF p = "offset" THEN TRUE ELSE UNCHANGED offsetVars
  /\ IF p = "cache" THEN TRUE ELSE UNCHANGED cacheVars
  /\ IF p = "cluster" THEN TRUE ELSE UNCHANGED clusterVars
  /\ IF p = "snapshot" THEN TRUE ELSE UNCHANGED snapVars
  /\ IF p = "buffer" THEN TRUE ELSE UNCHANGED bufVars
  /\ IF p = "tables" THEN TRUE ELSE UNCHANGED tableVars
  /\ IF p = "flow" THEN TRUE ELSE UNCHANGED flowVars

ServicesNext ==
  \/ part = "sink" /\ SinkNext /\ OthersStay("sink")
  \/ part = "stream" /\ StreamNext /\ OthersStay("stream")
  \/ part = "poll" /\ PollNext /\ OthersStay("poll")
  \/ part = "offset" /\ OffsetNext /\ OthersStay("offset")
  \/ part = "cache" /\ CacheNext /\ OthersStay("cache")
  \/ part = "cluster" /\ ClusterNext /\ OthersStay("cluster")
  \/ part = "snapshot" /\ SnapNext /\ OthersStay("snapshot")
  \/ part = "buffer" /\ BufferNext /\ OthersStay("buffer")
  \/ part = "tables" /\ TableNext /\ OthersStay("tables")
  \/ part = "breaker" /\ BreakerNext /\ OthersStay("flow")
  \/ part = "pressure" /\ PressureNext /\ OthersStay("flow")

ServicesSpec ==
  ServicesInit /\ [][ServicesNext]_<<part, sinkVars, srcVars, pollVars, offsetVars, cacheVars, clusterVars, snapVars, bufVars, tableVars, flowVars>>

-----------------------------------------------------------------------------

\* The variables of every component keep their types and bounds: queues and channels
\* their capacity, counters their limits (see the type invariant of each module).
ServicesTypeOK ==
  /\ SinkTypeOK
  /\ StreamTypeOK
  /\ PollTypeOK
  /\ OffsetTypeOK
  /\ CacheTypeOK
  /\ ClusterTypeOK
  /\ SnapTypeOK
  /\ BufferTypeOK
  /\ TableTypeOK
  /\ FlowTypeOK
=============================================================================
