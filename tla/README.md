# Verification of datastream

This directory is a TLA+ model of datastream, the change-data-capture platform in `src/`: what it
promises about the tables it copies, from the source connectors to the sinks, checked by TLC on small
instances and, for the safety properties of every component but two named below, proved by TLAPS for
every instance. Every definition that models code is listed with the lines it stands for in
`PROJECT.json` ("map").

- [The system](#the-system): its parts, their state, how they interact, what is hard about them
- [Modules](#modules): which module models which part
- [Runs](#runs): what TLC checks, on which instances, and what it shows
- [Proofs](#proofs): what TLAPS proves, from what, along which argument
- [Where code and documents disagree](#where-code-and-documents-disagree)
- [What is not modelled](#what-is-not-modelled)

## The system

datastream reads the change log of a source database and writes the changes to sinks. There are two
paths from a source to its sinks:

1. **Task and pipeline** (`internal/pipeline`). The REST server and the command line create, start,
   stop, pause and delete *tasks*; a task owns a *pipeline*; a pipeline starts a source connector and
   a goroutine that hands each event to the sinks.
2. **Lifecycle pipeline** (`internal/lifecycle`). Each table has a *lifecycle*: it waits (pending),
   is copied (snapshotting), has the changes made meanwhile replayed from a cache file (catching_up)
   and is then followed directly (streaming); it may be paused or in error. A *scheduler* moves tables
   through their lifecycles, a *binlog consumer* routes each event by the state of its table, and a
   *replayer* empties the cache file.

| Part | State | Operations | Who else touches it |
|---|---|---|---|
| Table lifecycle (`source/table_lifecycle.go`) | state, previous state, snapshot and stream position, retry count | transition, error, reset, pause, resume, position update | everything below, through shared pointers |
| Snapshot scheduler (`lifecycle/snapshot_scheduler.go`) | one mutex over the store's lifecycles and the cache files | add table, snapshot complete or failed, caught up, restart of a table or schema, pause, resume, global minimum position | snapshot executor and skip-error handler write without the mutex |
| REST lifecycle handlers (`api/lifecycle.go`) | none of their own | restart, pause, resume, retry, skip error | read a lifecycle, act on it later |
| Lifecycle pipeline, binlog consumer (`lifecycle/pipeline_integration.go`, `binlog_consumer.go`) | stop channel, routing goroutine | start, stop, route a row, handle a DDL statement | reads lifecycles without the mutex |
| Catching-up replayer (`lifecycle/catching_up_replayer.go`) | reader goroutine, bounded channel | replay | the cache file may grow or be deleted under it |
| DDL handling (`binlog_consumer.go`, `store/mysql_store.go`, `schema/`) | definitions in memory, the `ddl_state` row, `schema_history` rows | apply, retry, recover | target database, crash |
| Task and pipeline (`pipeline/task.go`, `pipeline.go`) | status twice, stop, pause and resume channels, goroutine | start, stop, pause, resume, delete | concurrent clients |
| Cache files (`cache/`) | one record file per table | write, read, delete, truncate | consumer, replayer, scheduler |
| Source connectors (`source/*`) | connection, position, event and error channels | initialise, start, stop, save position, recover | offset storage, target store |
| Sinks (`sink/*`), concurrent writer | connections, transactions, worker queues | write, flush, retry, close | consumer, replayer, pipeline |
| Offset storage (`offset/`) | positions in memory, file or etcd | save, load, flush | connectors, crash |
| Cluster (`pipeline/cluster.go`, `coordinator/`) | node registry, elections, local tasks | heartbeat, elect, rebalance | other nodes, lease expiry |
| Buffers, backpressure, snapshot coordinator, table manager, discovery, circuit breaker | queues, watermarks, worker channels, table registry, breaker state | put, get, flush, replay; pause, resume; stop; add, remove; allow, record | their callers |
| Filters, routers, transforms, parsers, configuration, metrics, CLI | pure functions or I/O | | |

What is hard about it, and where each behaviour is modelled:

- *Interleavings of goroutines that share pointers.* The consumer reads a table's state and acts on it
  later; the scheduler holds its mutex over a state change followed by a file delete; two HTTP handlers
  read before they act. `SnapshotScheduler`, `LifecyclePipeline`.
- *A cache file that is written, read and deleted at once.* The reader stops at the end of file, may be
  left with an unlinked file, and closes two channels the replayer selects from. `LifecyclePipeline`; with
  torn records, failing syncs and power failures in `CacheFiles`.
- *Reports that arrive late*, from a snapshot or a replay that a restart has superseded, or from a call
  that a circuit breaker admitted before it opened. `LifecyclePipeline`, `FlowControl`.
- *Statements of several steps on the target*, each of which may fail, take effect and report failure,
  or be the last one before a crash. `DDLHandling`.
- *One transaction field for all callers* of a sink connector. `SinkConnectors`.
- *Positions that move before what they stand for is handed over*, and are saved by another goroutine,
  by another task, or not before a crash. `StreamSources`, `PollSources`, `OffsetStorage`.
- *Requests of several clients* whose critical sections interleave. `TaskPipeline`, `TableRequests`.
- *Leases that expire under a node that goes on*. `ClusterManager`.
- *Goroutines and bounded channels that wait for each other*. `SnapshotWorkers`, `ConcurrentWriter`.

`PROJECT.json` lists the hazards of the code at their lines, with the properties that are about them. For
many of them the code has no defence: then the hazard is one of the exceptions a property names, the
property shows that nothing *else* goes wrong, and the hazard's note says so. Two are outside every
property or run: the order of writes while a table catches up, and the liveness of a table whose replay failed.
The table [Further hazards](#further-hazards) has those beyond the forty.

### Correctness properties by component

- Lifecycle and scheduler: a paused table resumes into the phase it was paused in; no table is live
  before its latest snapshot completed; the global minimum position never passes what a table still needs.
- Consumer, cache, replayer: a streaming table has no gap and is written in order; a snapshotting table
  has everything cached; a restart leaves no stale cached events; nothing moves after Stop; every table ends up streaming, every event applied.
- DDL: rows meet the schema they were written in; memory follows the target through failures and
  crashes; retries are bounded.
- Task and pipeline: stopped sinks are not written to, a pause holds, a deleted task is gone, a running
  pipeline is served, Stop returns, nothing panics.
- Concurrent writer: changes of one row key reach the sink in the order they were accepted; Close
  returns when all are settled; a row ends with its last change.
- Sink connectors: what Write acknowledged is stored, the reported position stands for stored events,
  no transaction is left open.
- Source connectors: nothing that a stream has moved past, or a restart skips, was not handed over.
- Offset storage: a durable position is not lost. Cache files: what was written is read back, and
  nothing else.
- Cluster: who rebalances leads, and a task has one runner; tasks get assigned.
- Snapshot coordinator: every key in exactly one chunk; a worker is blocked only by a backlog. Buffer: what was put is stored, and
  given out in order. Table manager: the reader of its events agrees with it. Guards: one probe at a
  time; a reader is let go when and only when it may.

## Modules

| Module | Models | Depends on |
|---|---|---|
| `TableLifecycle` | `source/table_lifecycle.go`, `source/global_min_position.go`: each method an operator on a lifecycle record, with the guard that says when it returns an error | |
| `SnapshotScheduler` | `lifecycle/snapshot_scheduler.go`, the lifecycle store, the lifecycle handlers of `api/lifecycle.go` | extends `TableLifecycle` |
| `LifecyclePipeline` | `lifecycle/pipeline_integration.go`, the DML path of `binlog_consumer.go`, `catching_up_replayer.go`, concurrent use of the cache file | extends `SnapshotScheduler` and runs its actions as its own steps |
| `DDLHandling` | the DDL path of `binlog_consumer.go`, the `ddl_state` and `schema_history` rows of `store/mysql_store.go`, position saver and recovery of `source/mysql/connector.go` | extends `TableLifecycle` |
| `TaskPipeline` | `pipeline/task.go`, `pipeline/pipeline.go` | |
| `RowDelivery` | what the concurrent writer promises its caller: an abstract specification, no code of its own | |
| `ConcurrentWriter` | `sink/concurrent_writer.go`, `hash_dispatcher.go`, `row_identifier.go` | instantiates `RowDelivery` |
| `SinkConnectors` | `sink/{mysql,postgres,oracle,sqlserver,mongodb,elasticsearch,kafka,redis}/connector.go`, in five families | |
| `StreamSources` | `source/mysql`, `mongodb`, `postgres`: read loops, positions, savers | |
| `PollSources` | `source/oracle`, `sqlserver`: polls, readers, positions | |
| `OffsetStorage` | `offset/storage.go` with its three backends | |
| `CacheFiles` | `cache/local_backend.go` | |
| `ClusterManager` | `pipeline/cluster.go` over `coordinator/etcd.go` | |
| `SnapshotWorkers` | `source/snapshot_coordinator.go` | |
| `PersistentBuffer` | `pipeline/persistent_buffer.go`, `buffer.go` | |
| `TableRequests` | `source/table_manager.go`, `api/tables.go` | |
| `FlowControl` | `errors/circuit_breaker.go`, `pipeline/backpressure.go` | |
| `LifecyclePipelineProofs` | theorems about `SnapshotScheduler` and `LifecyclePipeline` | extends `LifecyclePipeline` |
| `TaskPipelineProofs` | theorems about `TaskPipeline` | extends it |
| `RecoveryProofs` | theorems about what is found after a crash: `CacheFiles`, `DDLHandling` | extends both |
| `ConcurrentWriterProofs` | theorems about `ConcurrentWriter`, its refinement of `RowDelivery` included | extends `ConcurrentWriter` |
| `SinkProofs` | theorems about the positions that are kept: `SinkConnectors`, `OffsetStorage` | extends both |
| `SourceProofs` | theorems about `StreamSources`, `PollSources` | extends both |
| `BufferProofs` | theorems about what lies between source and sink: `PersistentBuffer`, `SnapshotWorkers`, `FlowControl` | extends the three |
| `ServiceProofs` | theorems about `ClusterManager`, `TableRequests` | extends both |
| `MC...` | the constants of the runs; `MCServices` puts eleven components (ten modules) into one run | |

Definitions whose comment begins with "Plausible bug" are variants of the definition that follows
them. They are used only to see that a property notices the bug: with the variant in place of the
original, the run of `PROJECT.json` ("mutants") must fail.

### TableLifecycle and SnapshotScheduler

`lc[t]` is the lifecycle of table `t`: `state`, `prev`, `snap`, `strm`, `retry`, the fields that some
guard or the minimum reads. Positions are numbers in commit order and `NoPos` is Go's nil. `op` is the
scheduler's mutex together with the place of the method that holds it; a method with one write
(`AddTable`, `OnSnapshotComplete`, `OnSnapshotError`, `PauseTable`, `ResumeTable`) is one action. A
restart is several (`RestartTable` or `RestartSchema`, then per table `RestartRead`, `RestartSetError`,
`RestartReset`, `RestartClear`), and so is `OnCaughtUp` followed by its cache delete, because writers
without the mutex can come in between: the snapshot executor (`SnapshotStart`), the skip-error handler
(`skipTableError`, `SkipWritePrev`, `SkipWriteState`, which also models that the object it read may have
been replaced by `AddTable`) and the retry handler (`retryTableLifecycle`, `RetryRestart`).
A failing cache delete is a parameter of the action.

`hist` is a history variable that no guard reads. It says of the current life of a table whether its latest
snapshot completed (`earned`), an earlier one reported in its place (`stale`), an error was skipped
(`skipped`), a delete failed (`leaked`), a snapshot began without a position (`blind`), and from which position
the log is needed (`need`). `epoch` numbers the snapshots; a report carries the number of its own.

The executor that takes snapshots is not in the repository, nor is any non-test caller of the
scheduler; they are the environment, may act whenever the code lets them, and are marked external.
`Features` chooses which optional callers a run includes; it only limits the size of an instance.
`SchedulerInv` is the type invariant with the phase a paused table resumes into and the positions a
lifecycle records: the invariant that the proofs rest on, checked as one.

### LifecyclePipeline

The source log is a sequence of tables. `Route` takes the next event and reads the state of its table;
the write to cache or sink is a later step. The replayer and its reader are separate processes: the
reader follows the file, fills a channel of bounded capacity, and closes both its channels on end of
file, on a read error and on cancellation; the replayer's `select` takes any ready case, as Go's does.
Deleting the file while it is read leaves the reader with the unlinked file (`live`, `file`). The
error of `Route` is discarded, as in the code. `env` is the set of faults and operators of a behaviour,
chosen in the initial state from `Environments`: a run checks several environments side by side without
multiplying them.

`cause[t]` is a history variable: each way in which an event of `t` may have been lost since its last
snapshot began. It makes `StreamingHasNoGap` a statement about a *complete list* of causes:

| Cause | What happened |
|---|---|
| `discard` | the event arrived while the table was pending, paused or in error |
| `ioerr` | the cache or sink write failed; the error is dropped |
| `late` | the table left snapshotting between the consumer's look at its state and its cache write |
| `misreport` | `Replay` saw the closed channel before the error or the cancellation |
| `stale` | a replay begun before a restart reported for the table's next life (`OnCaughtUp` takes only a table ID) |
| `restart` | the restart's delete removed events the next snapshot had already cached |

Each entry is needed: without it TLC finds a gap. The late report of a *snapshot* loses no event by itself,
because the replay still empties the cache; what it breaks, a table that goes on before its rows are copied,
is the exception `stale` of `LiveOnlyAfterSnapshot`.

The routing goroutine also ends when the source closes its event channel (`"closed"` in `env`), which the
connectors in `src/` never do.

### DDLHandling

One table. A log entry is a row change or a statement; a definition is the sequence of statements that
made it, so two definitions are equal exactly when the same statements made them. Each operation on the
target is a step of its own and has two outcomes, what it reports and whether it took effect: a lost
reply is `~ok /\ eff`. `Crash` may fall between any two steps; `recoverFromStore` rebuilds the memory.
`SourceDef[n]` is the source's own definition after `n` entries, the reference that
`RowsMeetTheirSchema` compares the target with.

`schema_history` has two writers. The consumer writes its row after the statement has reached the target
(`SaveSchemaHistory`); the MySQL syncer writes one when it *reads* the statement (`ReadEvent`), up to `ReadAhead`
events earlier. Both kinds are rows of one table, and the recovery goes through them in order, whoever wrote them: a
history that ends with a row of the syncer brings back a definition the target does not have yet (cause
`ahead`). The syncer's branch needs a parser registered as "mysql", and nothing under `src/` registers
one; `SyncerParses` says whether there is one, and `DDLSchema` assumes so. In memory the two keep definitions of
their own (`tables`, `known`); if they shared one object, an ALTER would be applied twice. In the code nothing
connects them yet.

### TaskPipeline

A request is a sequence of critical sections: `op[c].pc` is its place. `Task` and `Pipeline` keep a
status each. `stopCh`, `pauseCh` and the numbered `resumeCh` say which channels are closed; a second
close is `panicked`. `run` is the sequence of goroutines ever started, each with the context of the
request that started it (the REST handler passes the request's own). A task may have no pipeline
(`pipe = "none"`), which is what the REST server creates today. `seen` holds history variables only.

### ConcurrentWriter and RowDelivery

An event is the row it found and the row it left, so inserts, updates in place, updates of the key and
deletes are all there; a table without keys (`~keyed`) sends every event by one table key. `chan`,
`buffer` and `batch` are what a worker has in hand: its channel, the slice it collects, the slice it is
writing. A call that fails has written a prefix of its batch; after the last retry the batch is given up
(`given`). `Close` closes the channels one by one while callers may be sending: a send on a closed channel
panics, as in Go. The context's cancellation is not an alternative of the worker's select in practice,
because `Close` cancels only after it has waited for the workers.

`RowDelivery` is the promise without workers, channels and batches: accepted events are settled, those of
one row key in order, and Close returns when all are. `Delivery` maps `queue` to the row keys of the
accepted events, `settled` to those no worker has in hand, and `phase` to the progress of Close;
`ImplementsRowDelivery` is the abstract specification, liveness included, as a property of the detailed
one.

### SinkConnectors

The router and the replayers write through one connector, so `Callers` run `Write`, `Flush` and `Stop`
concurrently. `tx` is the connector's field, `txs` the transactions ever begun; a statement goes to
whatever the field holds when it is executed. The five values of `sinkKind` are the families listed in
the module. A commit that fails may have taken effect. `acked` holds the events of calls that returned
nil, `mixed` the callers whose call met another one. `noEffect` holds the events that a connector acknowledges
without a trace in the database: truncate events and other kinds `Write` has no case for, DDL under the policy
"ignore", an UPDATE with nothing to set or of a row that is not there, a mongodb delete without an identity,
a kafka message sent with acks "none". Any event of any family may be one.

### StreamSources, PollSources, OffsetStorage

The log of the database has two positions per event, inside it and after it, because the connectors
disagree about which one they save. `heldPos`, `syncPos`, `walPos` and `slotPos` are the positions that the
connector, the syncer and the replication slot keep; `savedPos` is the durable one. `handed` is what was
put on the channel, `excused` what a listed cause lost. Events that are passed over are `Undecodable` for mysql
(a rows event of a type its switch does not know) and mongodb, `RowDropped` for postgres (a message that cannot be
parsed, an unknown relation). `NewPGOutputHandler` never sets the handler's context, so the first row that
postgres would send panics: `SendPanics` ends the process, and postgres hands nothing over. `PollSources` has
one reader per capture instance and the connector's position over them. `OffsetStorage` has several storages over one backend, each with
its map in memory: `Save` changes the map, the flush writes all of it, `Load` asks and stores in two steps.

### CacheFiles

Files have an identity apart from their names: a handle stays with the file it was opened on. A record
may be cut off by an error or a power failure; `synced` is how much of a file a power failure keeps.
`fileOf` maps two table IDs to one name when `sanitizeTableID` does.
`TruncateToLastComplete` has the two checksums as they are computed: the scan's covers other bytes of the
record (`local_backend.go:411`) than the writer's (`:110`), so no record passes and the file is emptied.

### ClusterManager

A key has a queue of candidates with leases, the first one leads: etcd's election, external. `at[n]` is
where the loop of a node's manager is: it looks, campaigns, leads, rebalances, or acquires a task, and the
lease may expire between any two of these. `pickLeastLoaded` starts from `MaxTasksPerNode + 1`, so a node may get
one task more than the constant says, and the tasks that find every node full are left out; with the one task
of the runs that bound is not reached, and the proof covers it. `QueriesFail` lets the leader's queries
fail (`Services`); `ClusterAssignment` has them succeed, so that its counterexample rests on nothing else.
A stopped manager does not release the cluster's leadership. `OtherCampaigns`, a campaign of the embedding
program, is what makes the election of a task non-empty: under `src/` only `acquireTask` campaigns for a task,
and only for one its node leads already.

### SnapshotWorkers, PersistentBuffer, TableRequests, FlowControl

`SnapshotWorkers` cuts a key range into chunks in integers up to `MaxInt`, with Go's wrap-around, and
runs generator, workers, result handler and Stop over bounded channels. `PersistentBuffer` numbers events;
the key of an event is the sequence number of its process and the second. A Replay reads a copy of the store as it
was when it began; Clear takes no lock and may fall in the middle of it. `TableRequests` changes tables
under the lock and sends its events after it; `view` is what a reader of the events makes of them.
`FlowControl` has the circuit breaker, whose callers report in any order, and the backpressure controller,
whose pause and resume leave one token each, for any number of readers. The controller's callbacks run
under its mutex and are registered by tests only; they are left out.

## Runs

Twelve runs; seven must pass, five must show a disagreement (see below). State counts are of distinct
states.

| Run | Specification and instance | Checks |
|---|---|---|
| `Scheduler` | one table with positions nil, 1, 2, two overlapping snapshots, one restart beyond the first and every API request; or two tables of one schema and the restart loop with failing deletes; 2.1 M | `SchedulerInv`, `LiveOnlyAfterSnapshot`, `GlobalMinCovers` |
| `PipelineFaults` | one table, two events, two snapshots and replays; I/O errors, cancellation, restarts, Stop, a source that closes its channel; or skip, retry, pause, re-registration, failing snapshots; 7.5 M | `PipeTypeOK`, `StreamingHasNoGap`, `SnapshottingCachesAll`, `RestartClearsCache`, `StreamingWritesInOrder`, `QuietAfterStop` |
| `PipelineLiveness` | two tables, two events, no faults, fair; 75 K | `EventuallyStreams`, `EventuallyApplied` |
| `DDLSchema` | every legal log of three entries and two of four, a syncer that reads one event ahead, one fault, one crash; 4.6 M | `DDLTypeOK`, `TablesFollowTarget`, `RowsMeetTheirSchema` |
| `TaskRequests` | two clients, four requests, two events, two goroutines; 1.2 M | `TaskTypeOK`, `NoWriteToStoppedSinks`, `PauseHolds`, `DeletedIsGone`, `RunningIsServed`, `StopReturns` |
| `WriterOrder` | two rows, two workers, three events, batches of two, one retry, two hashes, Close at any time, fair; 147 K; one caller (that the safety half holds for any number is proved) | `WriterTypeOK`, `RowHasLastChange`, `ImplementsRowDelivery` |
| `Services` | eleven components side by side: a behaviour picks one in its initial state and the others stand still; 3.3 M, two minutes | `ServicesTypeOK` and, per component, the properties of the table below |
| `PipelineHandover`, `PipelineCaughtUp`, `PipelineRestart`, `DDLRetries`, `ClusterAssignment` | small instances with just the actors the case needs | one documented statement each, violated |

What `Services` checks, and what the properties except (each exception was confirmed to be needed):

| Property | Says | Except |
|---|---|---|
| `AckedIsStored` | what `Write` returned nil for is in the database | events acknowledged without effect; documents that elasticsearch rejects; with transactions, a Write that met another call |
| `PositionIsStored` | `GetPosition` of a sink stands for stored events | events acknowledged without effect; elasticsearch; with transactions, before the commit, after one that failed, or for a Write that met another call |
| `OpenTxHasWrite` | an open transaction belongs to a running Write | a failed Write of mysql or postgres, an overlap, `Flush` |
| `SkippedIsExcused` | what a pushed source has moved past, or a restart skips, was handed over | start without a position, send timeout, an event passed over or a row dropped, position set by hand, the event in hand of mysql and mongodb, the slot of postgres after a wide message |
| `PollSkipsNothing` | the same of a polling source | `BatchSize` of LogMiner, unparsable change, one position for all CDC readers, a start without one from the lowest LSN the database still has, position set by hand |
| `PositionNotLost` | a durable position does not go back | stale copies in a flush, a shared key, failed read at the start, a Load that overtakes a Save |
| `CacheReadsBack` | what was written to a cache file is read back until its Delete, and nothing else | behind a torn record, unsynced at a power failure, truncation, a shared file name |
| `ActsAsLeader` | who rebalances leads; a task has one runner | lease expired since the look; lost session; stopped manager |
| `EveryKeyInOneChunk` | no key is given to two readers or left out of the chunks that are queued, in hand or answered; a chunk whose read failed counts as answered, the code only logs it | the loop variable overflows |
| `BlockedByBacklog` | a worker finds the result channel full only while more chunks are unanswered than the channel holds, so a Stop with no more than that left does not wait for ever for a send | the loop variable overflows |
| `PutIsStored`, `GivenInOrder` | a persistent buffer keeps what was put and gives it out in order | keys used again by a later process, Clear; a replay that is not the first thing a process does, or of several processes |
| `ReaderAgrees` | the reader of table events has the tables as the manager has them | request failed half way, cancelled, or overlapping; `UpdateTableStatus` |
| `HalfOpenProbes` | one probe at a time, enough of them before the circuit closes | a late report of an earlier call |
| `ResumeReachesReader`, `LetGoWhenRunning` | a reader goes on when, and only when, the controller runs | the one token went to another reader; a token left from an earlier resume |

**Bounds, and why they are enough.** Two snapshots of a table are the least in which one supersedes the
other, and one restart with retry count 1 the least in which a restart finds leftovers. Two events are
the least for "older and newer"; a reader channel of capacity 1 is both empty and full within two
events. Two tables are the least for which a minimum and a loop over a schema have something to choose;
tables share nothing but the mutex and the routing goroutine. Logs of four entries contain CREATE,
a failed or overtaken statement, a second statement and a row that meets the result. Two clients and
four requests contain every pair of requests in flight together, after a start and with a restart or a
second stop. In the services, two callers, storages, nodes, workers or readers are the least that can meet; three
calls of the breaker allow two probes and a straggler; two or three events allow a batch, a failure inside
it and what comes behind it; three-bit keys reach both ends of the integer range from every start;
three processes of the buffer allow two that use the same keys and one that replays both. Counters that
the code leaves unbounded (`retry`, snapshots, replays, requests, faults, crashes) are bounded by the
constants `Max...` in guards.

All configurations switch deadlock checking off: with a bounded log and bounded requests the system
really comes to rest. That Stop returns, tables stream and events arrive is checked as liveness.

**Fairness.** `PipelineLiveness` assumes weak fairness of the goroutines (router, reader, replayer), of
the scheduler's second step, of the snapshot executor (it starts and reports) and of the replay's
caller. The Go scheduler gives the first two; the last two are what a caller of the package has to
supply, and nothing is assumed of operators or faults. `TaskRequests` assumes that a request once made is
executed, with either outcome of the source's start, and that goroutines are scheduled; Go's `select`
picks among ready cases at random, so a goroutine whose stop channel is closed takes that case in the
end. No event, request or cancellation is owed by anyone. `WriterOrder` assumes that workers and a Close
that has begun are scheduled, and nothing of callers. `ClusterAssignment` assumes that the managers' loops go
on and that the lease and the registration of a process that is gone expire: more than the code gives,
and the task is still not assigned.

**What the passing runs show.** Snapshots of the one-table instance begin with a position or without one (nil,
which `TransitionTo` accepts). `GlobalMinCovers` and the positions in `SchedulerInv` hold under every interleaving
of the API requests for a table *all of whose snapshots began with a position*. The exception is needed: without
it, `PositionsCoverNeed` fails at the first snapshot without a position, and
`GlobalMinCovers` fails in two ways. A restart to an older position keeps the newer stream position, the
next snapshot begins without one, and once it completes `effectivePosition` answers the newer. Or a
table whose snapshots all began without a position reports progress while streaming and is put in
error by a late snapshot error: `effectivePosition` then answers nil.
`LiveOnlyAfterSnapshot` asks for the table's *latest* snapshot and excepts a skipped error and the late report
of a snapshot that a restart had superseded, which `OnSnapshotComplete` takes for the latest one's.
`RestartClearsCache` is checked on the composition; it excepts a restart whose own delete failed and a write of `Route`
that comes after the restart's delete (cause `late`). `StreamingHasNoGap` and
`SnapshottingCachesAll` hold with the six causes above and no other, under faults and under operators,
for tables whose error was not skipped (skipping gives up the position the table needed).
`TablesFollowTarget` excepts an overwritten row, a history that could not be loaded, a replayed DROP and a history that ends with a row of the syncer.
`RowsMeetTheirSchema` holds through any single fault and crash except through five causes (a first row that could not be saved, a row overwritten by the next
statement, a row that could not be read, a saved position that skipped or repeated a statement).
In `TaskRequests` the promises of Stop, Pause and Delete hold except through the races that the
properties name: a Start in flight together with a Stop or Delete, a Pause in the middle of a Start, a
Delete that finds the task in another status than running, a Start after a Stop, an ended context and
an ended source. The writer implements `RowDelivery`; a row may differ from its last change only when a batch
was given up or an event changed the key of the row, because the event then goes by its new key. Each
exception was confirmed to be needed by removing it.

## Proofs

Each theorem is about the model's specification for every value of its constants: any tables, workers,
callers, keys, sizes and bounds.

| Module | Theorem | States |
|---|---|---|
| `LifecyclePipelineProofs` | `TypeCorrect`, `PausedSafe` | `Spec => []TypeOK`, `Spec => []PausedResumesLive` |
| | `LiveSafe` | `Spec => []LiveOnlyAfterSnapshot` |
| | `InvariantSafe`, `GlobalMinSafe` | `Spec => []SchedulerInv`, `Spec => []GlobalMinCovers` |
| | `RestartSafe` | `PipeSpec => []RestartClearsCache` |
| | `PipeTypeCorrect` | `PipeSpec => []PipeTypeOK` |
| | `SnapshottingSafe`, `NoGapSafe` | `PipeSpec => []SnapshottingCachesAll`, `PipeSpec => []StreamingHasNoGap` |
| | `QuietSafe`, `OrderSafe` | `PipeSpec => QuietAfterStop`, `PipeSpec => StreamingWritesInOrder` |
| `TaskPipelineProofs` | `TaskTypeCorrect` | `TaskSpec => []TaskTypeOK` |
| | `StoppedSinksSafe`, `PauseSafe` | `TaskSpec => []NoWriteToStoppedSinks`, `TaskSpec => []PauseHolds` |
| | `DeleteSafe`, `ServedSafe` | `TaskSpec => []DeletedIsGone`, `TaskSpec => []RunningIsServed` |
| `RecoveryProofs` | `DDLTypeCorrect`, `FollowSafe` | `DDLSpec => []DDLTypeOK`, `DDLSpec => []TablesFollowTarget` |
| | `SchemaSafe` | `DDLSpec => RowsMeetTheirSchema` |
| | `ReadsBackSafe`, `CacheTypesHold` | `CacheSpec => []CacheReadsBack`, `CacheSpec => []CacheTypeOK` |
| `ConcurrentWriterProofs` | `RowSafe` | `WriterSafe => []RowHasLastChange` |
| | `WriterTypesHold` | `WriterSafe => []WriterTypeOK` |
| | `DeliverySafety` | `WriterSafe => Delivery!DeliverySafe`: the refinement, without its liveness |
| `SinkProofs` | `AckedSafe`, `PositionStoredSafe`, `OpenTxSafe` | `SinkSpec => []AckedIsStored`, `[]PositionIsStored`, `[]OpenTxHasWrite` |
| | `SinkTypesHold` | `SinkSpec => []SinkTypeOK` |
| | `PositionSafe`, `OffsetTypesHold` | `OffsetSpec => []PositionNotLost`, `OffsetSpec => []OffsetTypeOK` |
| `SourceProofs` | `SkippedSafe`, `PollSafe` | `StreamSpec => []SkippedIsExcused`, `PollSpec => []PollSkipsNothing` |
| | `StreamTypesHold`, `PollTypesHold` | `StreamSpec => []StreamTypeOK`, `PollSpec => []PollTypeOK` |
| `BufferProofs` | `StoredSafe`, `OrderlySafe` | `BufferSpec => []PutIsStored`, `BufferSpec => []GivenInOrder` |
| | `BufferTypesHold` | `BufferSpec => []BufferTypeOK` |
| | `KeysSafe`, `BacklogSafe` | `SnapSpec => []EveryKeyInOneChunk`, `SnapSpec => []BlockedByBacklog` |
| | `SnapTypesHold` | `SnapSpec => []SnapTypeOK` |
| | `BreakerSafe` | `BreakerSpec => HalfOpenProbes` |
| | `ResumeSafe`, `LetGoSafe` | `PressureSpec => []ResumeReachesReader`, `PressureSpec => LetGoWhenRunning` |
| | `FlowTypesHold` | `BreakerSpec => []FlowTypeOK`, `PressureSpec => []FlowTypeOK` |
| `ServiceProofs` | `LeaderSafe` | `ClusterSpec => []ActsAsLeader` |
| | `ClusterTypesHold` | `ClusterSpec => []ClusterTypeOK`, if there is a task |
| | `ReaderSafe`, `TableTypesHold` | `TableSpec => []ReaderAgrees`, `TableSpec => []TableTypeOK` |

Every action has a lemma or a step of its own; a `BY` names the backend (`Zenon`, `SMTT`) where only one of
them finds the proof, or finds it much faster.

*Assumptions*: the module's named ones (`TablesAssumption`: the marker for "no table" is not a table;
`PositionsAssumption`: positions are naturals or nil; `BoundsAssumption`, `WriterBounds`, `SinkBounds` and the
like: bounds are naturals, workers are numbered; `PollBounds` also that no capture instance bears the name of
the marker for "no reader"; `SnapBounds` that a chunk is not larger than the largest integer). Nothing is assumed of the positions snapshots
start with: a table one of whose snapshots started without one is an exception of the properties
themselves. `ClusterTypesHold` assumes
`ClusterTasks # {}`: the model gives a node a task it works on from the start, and there is none without
tasks.

*The scheduler.* `TypeOK` is not inductive alone: `Resume` moves the table to its previous state, which must
be a state. `TypeOK /\ PausedResumesLive` is inductive (`StepTypes`, `StepPaused`), and the others build on
it. `LiveOnlyAfterSnapshot` is then inductive as it stands (`StepLive`). `GlobalMinCovers` is
not inductive: it speaks of the position `effectivePosition` picks in the *present* state.
`PositionsCoverNeed` says the same of both recorded positions in every state, is inductive (`StepNeed`), and
implies it through `GlobalMinBelow`, a lemma about `ComputeGlobalMinPosition` that rests on the existence
of a least element (`LeastNat`). Each step lemma has one step per action of `Next`.

*The lifecycle pipeline.* Every step of the pipeline is a step of the scheduler, leaves it alone or appends the
event in hand to a cache file (`PipeIsScheduler`), so the scheduler's invariants carry over. `FlowInv` says
where events can be: the event in the router's hand is the last one it took, and everything in a cache file,
a reader's channel or the sink was taken before it; `OrderSafe` follows from it. `GapInv` says, phase by
phase, where the events are that an unharmed table is owed: in the cache file while it is snapshotting, in
the cache file or the sink while it is catching up, in the sink once it streams. The phase of a paused table
is the one it resumes into, which is why `PausedResumesLive` is part of the invariant. Catching up ends
when a replay is done, so `ReplayInv` says how far a replay *of the current snapshot* has come: what it has
read is in the sink or in its channel, and it is done only when it has read the whole file. A replay of an
earlier snapshot may still run; `replay[t].run` against `epoch[t]` keeps the two apart. `RestartClearsCache` needs
`RestartInv`: the mutex names no table while no table is being reset, the table being reset is not
pending, and no skip request makes a table pending (`StepRestartInv`, `StepClears`); and that a late write stays
recorded until the next snapshot begins (`CauseStays`).

*Tasks.* Each exception of a property is the hypothesis of one part of `TaskInv`. As long as no Start overlapped
a Stop or Delete, `OrderInv`: source and sinks are up while a goroutine lives or is about to be started,
there is at most one, and every place, status and answer that tells of a stop implies that none is left. As
long as no Pause fell into a Start, `ClashInv`: the channel Pause closes is open whenever the pipeline is, or
is about to be marked, running. `QuietInv` needs both: after the first write that follows a Pause no
goroutine can make another.

*Schema changes.* `FollowInv`: the target, the history and memory agree until the pending statement has reached
the target. What carries it through a crash is that the target then refuses the statement for good
(`WorkInv`), so a repeated statement does no harm, and that the replayed history ends in its last entry, which is
the target's definition or a row of the syncer (`SettledOr`).
`SchemaInv` relates the target to the source: it has the definition at the consumer's position, or the one
before the pending statement. Each holds without its own causes (`FollowSlips`, `SchemaSlips`), and the rows in
the cache file need one more (`CacheSlips`).

*The cache files.* A handle is on the file of its table's name unless another table with that name removed it
(`NamesInv`), and the events of a file are those that its tables wrote since their last Delete (`EventsInv`);
a torn record hides what follows it, which `AckedInv` accounts for in `gone`.

*The sources.* The properties speak of one position, but a connector holds several, copies one to another and may
start again from any of them. The invariant says the same of all: every change a position lies past was put
on the channel, is in hand, or is lost for a named cause (`Passed`, `Covered`). For the pollers `PollPlaces`
adds that, while a table is read, the changes up to the LSN it is read to are emitted, lost for a cause or
among those found.

*The concurrent writer.* `RowHasLastChange` looks at the end, when nothing of a row is in hand.
`WriterInv` says what holds on the way: what a worker has in hand are events of its own keys in the order
of acceptance, channel after buffer after batch, and every settled event comes before what its worker
still has in hand. Then the event a batch writes next is newer than anything its worker has written, and
`content` only grows along a row (`RowSafe`); and a step either leaves the settled events alone or settles
the oldest of a worker, which is a step of `RowDelivery` (`DeliverySafety`, one lemma per action).
`WriterTypeOK`, with the capacities of channels and buffers and the bound on retries, is inductive alone.

*The sink connectors.* The three properties need to know what a call finds in the shared field. `Solo`: a
Write with transactions that has met no other call is alone in the connector and the field holds the
transaction it began. `Direct`: without transactions, what a call is done with is stored. A step of one
call keeps both for the others because a call that enters marks everyone it meets (`Others`).

*The offset storage.* A flush writes the map, so `PositionNotLost` rests on what the map holds: `Fresh`, an
open storage that is alone with its key and has read nothing old holds a position at least as new as the
newest durable one.

*The table manager.* `ReaderAgrees` speaks of a table none of whose events is on its way. `Followed` says where
the event that brings the present status is: with its request, and the only one of the table there
(`ToSend`); the last one of the table in the channel (`Sent`); or taken, and the reader has the status
(`Seen`). A request that meets another one for the table would break "the only one", which is why such a
table is an exception.

*The buffer.* The keys of one process are in the order of its events (`BufKeysInv`), and what was given comes
before what is queued, and that before what is still to be replayed (`BufOrderInv`). A replay works on entries it
has read from a store that may be cleared meanwhile, so they have an order of their own (`ReplayKeysInv`); it takes
the least key, whose existence is `LeastOf`.

*The snapshot coordinator.* `EveryKeyInOneChunk` counts. The count over joined queues is the sum of the counts
(`WithConcat`), so a chunk that moves from one queue or worker to the next changes no sum. While the table is
cut, the keys below the loop variable are in one chunk each, and the loop variable is the first key plus a
multiple of the chunk size (`CutsInv`): it stays within the integers unless the last step passes `MaxInt`.
`BlockedByBacklog` counts chunks: a table is cut into at most `Chunks` of them (`CutBacklog`), and no step makes a chunk
be in two places (`BacklogInv`, `MoveBacklog`), also after Stop has cancelled.

*The cluster.* A session belongs to one node (`SessionsInv`), and a node that waits for a task has its session in
the queue and waits for all who were before it (`WaitInv`), so it is first when its wait ends.

*The guards.* The breaker counts reports, not probes. `ProbeInv` ties the two: while no earlier call has
reported in a half-open period, the count is that of the probes that succeeded and the flag is up while
one is out. For the controller the ghost variables that mark a stale token and an unserved reader are
related to the state in the same way.

*Types.* The type invariants of these components are more than types: they say that channels and queues keep to
their capacities, that positions stay within the log, that no more of a file is synced than it holds, that the
sessions in an election are alive and each stands once, that a closed circuit has counted fewer failures than
its threshold. Most are not inductive, because a bound rests on where a value came from: the synced part of a
file on what a power failure leaves of it (`TruncateEmpties`, `PowerFailsLeaves`), the position of a
streaming source on the widest message it can be in (`StreamLimits`), the number of probes that
succeeded on the breaker's own count (`FlowTypes`). Each theorem adds such bounds (`SinkLimits`,
`OffsetLimits`, `StreamLimits`, `PollLimits`, `CacheLimits`, `ClusterLimits`, `TableBounds`, `BufLimits`) to the
inductive invariant of its component; `SnapTypeOK` is inductive alone.

*Only model-checked*: all liveness, the fair part of `ImplementsRowDelivery` included
(TLAPS has no rules for `ENABLED` and fairness); `ServicesTypeOK` as it
stands, the conjunction of ten type invariants over the run that holds all components (each conjunct is proved for the
specification of its own component); what `ComputeGlobalMinPosition`,
`rebalanceCluster` and the schema along the log compute beyond the lemmas above (induction over sequences is
out of reach of the installed provers).

## Where code and documents disagree

Five runs end in a counterexample to a sentence of the repository; `PROJECT.json` ("findings") quotes it.

| Run | The code | The sentence |
|---|---|---|
| `PipelineHandover` | with no fault, an event routed to the cache as the table leaves snapshotting is lost | `docs/design/table-lifecycle-design.md:449` |
| `PipelineCaughtUp` | a cancelled or failed replay may report CaughtUp | `internal/lifecycle/catching_up_replayer.go:57` |
| `PipelineRestart` | the order position, state, cache opens the window it is meant to close | `docs/design/table-lifecycle-design.md:76` |
| `DDLRetries` | every attempt resets the retry count, so a failing statement is retried without end | `internal/lifecycle/binlog_consumer.go:22` |
| `ClusterAssignment` | the leader collects as unassigned only tasks it leads itself, so a task nobody leads stays so | `internal/pipeline/cluster.go:278` |

Further disagreements are visible in the models, as exceptions of a property that holds:

- a snapshot that a restart superseded completes its successor (`docs/design/table-lifecycle-design.md:630`);
  exception `stale` of `LiveOnlyAfterSnapshot`;
- `TruncateToLastComplete` empties every file (`internal/cache/local_backend.go:345` says it keeps the complete
  records); `CacheReadsBack`;
- `GetPosition` of a sink "returns the last committed position" and is set before the commit;
  `PositionIsStored`;
- LogMiner's position moves to the current SCN "so we don't miss anything" although the query was cut
  off at `BatchSize` rows; `PollSkipsNothing`.

## What is not modelled

`PROJECT.json` ("components") gives the reason for each part.

- *Generated code and text.* The DDL parsers (`pkg/parser`) are ANTLR output with visitors over its trees;
  they make up more than nine tenths of the lines under `src/`. Of the 30 thousand lines of Go outside
  them the map covers 4 300. Filters, routers, transforms,
  statement builders and value conversions are functions of one event over strings.
- *I/O without a protocol.* Configuration, command line, metrics, logging, HTTP encoding, the start and
  end of the process.
- *Small stateful helpers.* The dispatchers (a choice of sinks per event and a round-robin counter),
  `BatchBuffer` and `MemoryCoordinator` (a slice and a map under one mutex), the retry loop, the alerter
  and the rate limiter (a call and a clock), `hash_chunker.go` (SQL text).
- *Parts of modelled components.* `TaskManager.Create`, `Update` and `StopAll`; the initial snapshot of the
  connectors; the local file of the schema history (`schema/local_history.go`); the SQL of the target
  store's lifecycle and position tables; task and position records in etcd; database discovery (which
  reads the attribute "ddl_type", `source/database_discovery.go:200`, where the sources write "ddlType",
  `source/mysql/binlog_syncer.go:314`); two producers at one persistent buffer; the COPY writer of
  postgres. In every part, error texts, timestamps, statistics and counters that no guard reads.
- *The composition of everything.* `LifecyclePipeline` composes scheduler, consumer, cache and replayer;
  the services are checked each on its own, with the rest of the system as an environment that may do
  what the code lets it do. In the repository the parts are not connected either: nothing outside tests
  calls the lifecycle pipeline, the concurrent writer or the cluster manager yet.

### Further hazards

Hazards beyond those in `PROJECT.json`, with the property that covers them:

| Where | What can go wrong | Property |
|---|---|---|
| `source/mongodb/connector.go:128` | the position is loaded from one place and saved to another | `SkippedIsExcused` |
| `source/oracle/logminer.go:269` | the query is cut off, the position is not | `PollSkipsNothing` |
| `sink/concurrent_writer.go:272` | a batch is given up after the last retry and the next one is written | `RowHasLastChange` |
| `source/table_manager.go:149` | `AddTables` returns at the first table that exists: earlier ones are registered, their events never sent | `ReaderAgrees` |
| `offset/storage.go:139` | a saved position is durable only after the next flush | `PositionNotLost` |
| `cache/local_backend.go:159` | a batch is written record by record: an error in the middle leaves part of it | `CacheReadsBack` |
| `pipeline/persistent_buffer.go:112` | Put has persisted the event when the memory buffer refuses it | `PutIsStored` |
| `coordinator/etcd.go:75` | the session is made once and never again | `ActsAsLeader` |
| `schema/local_history.go:48` | a crash between length and data leaves a torn record, after which Recover always fails | none: not modelled |
