--------------------------- MODULE SnapshotWorkers ---------------------------
(***************************************************************************)
(* The snapshot coordinator (internal/source/snapshot_coordinator.go): one *)
(* goroutine cuts a table into chunks by its integer key and queues them,  *)
(* workers read them, one goroutine takes the results, and Stop cancels    *)
(* and waits for the workers.                                              *)
(*                                                                         *)
(* Keys are the integers from MinInt to MaxInt, with Go's wrap-around.  A  *)
(* chunk is its first and last key; what is read of it is left out.        *)
(***************************************************************************)
EXTENDS Integers, Sequences, FiniteSets

CONSTANTS
  SnapWorkers,       \* the workers
  ChunkSize,         \* keys per chunk
  MaxInt,            \* the largest key: 2^63 - 1 for int64
  TaskQueueSize,     \* capacity of taskCh
  EventBufferSize,   \* capacity of resultCh
  MaxChunks          \* bound: chunks that are cut before the model gives up

ASSUME SnapBounds ==
  /\ {ChunkSize, MaxInt, TaskQueueSize, EventBufferSize, MaxChunks} \subseteq Nat \ {0}
  /\ ChunkSize <= MaxInt

\* Two's complement.
MinInt == -MaxInt - 1

KeyInts == MinInt..MaxInt

VARIABLES
  minKey, maxKey,   \* the key range of the table
  chunkable,        \* GetKeyRange gives an integer range
  generator,        \* "chunking", "sending" or "closed"
  start,            \* loop variable of generateTableTasks
  tasks,            \* chunks that are cut and not queued
  taskCh,           \* chunks that are queued
  worker,           \* what each worker does
  holds,            \* the chunk each worker has
  resultCh,         \* chunks whose result waits
  handler,          \* the result goroutine runs
  completed,        \* CompletedTable
  handled,          \* ghost: chunks whose result was taken
  snapDone,         \* the context is cancelled
  snapStop          \* "no", "waiting" or "returned"

snapQueues == <<tasks, taskCh, resultCh, handled>>
snapVars == <<minKey, maxKey, chunkable, generator, start, worker, holds, handler,
              completed, snapDone, snapStop, snapQueues>>

Chunk == [from : KeyInts, to : KeyInts]

NoChunk == [from |-> 0, to |-> -1]

\* A sum as Go computes it.
Wrap(n) == ((n - MinInt) % (2 * MaxInt + 2)) + MinInt

-----------------------------------------------------------------------------

\* Plausible bug: the end of a chunk is the start of the next one.
CutChunkWide ==
  /\ generator = "chunking"
  /\ chunkable
  /\ start <= maxKey
  /\ Len(tasks) < MaxChunks
  /\ LET end == Wrap(start + ChunkSize)
     IN tasks' = Append(tasks, [from |-> start, to |-> IF end > maxKey THEN maxKey ELSE end])
  /\ start' = Wrap(start + ChunkSize)
  /\ UNCHANGED <<minKey, maxKey, chunkable, generator, taskCh, worker, holds, resultCh,
                 handler, completed, handled, snapDone, snapStop>>

\* generateTableTasks: one turn of the loop over the keys.
CutChunk ==
  /\ generator = "chunking"
  /\ chunkable
  /\ start <= maxKey
  /\ Len(tasks) < MaxChunks
  /\ LET end == Wrap(start + ChunkSize - 1)
     IN tasks' = Append(tasks, [from |-> start, to |-> IF end > maxKey THEN maxKey ELSE end])
  /\ start' = Wrap(start + ChunkSize)
  /\ UNCHANGED <<minKey, maxKey, chunkable, generator, taskCh, worker, holds, resultCh,
                 handler, completed, handled, snapDone, snapStop>>

\* Plausible bug: the loop runs once more and cuts an empty chunk.
ChunksCutTail ==
  /\ generator = "chunking"
  /\ \/ chunkable /\ start > maxKey /\ tasks' = Append(tasks, [from |-> start, to |-> maxKey])
     \/ ~chunkable /\ tasks' = <<[from |-> minKey, to |-> maxKey]>>
  /\ generator' = "sending"
  /\ UNCHANGED <<minKey, maxKey, chunkable, start, taskCh, worker, holds, resultCh,
                 handler, completed, handled, snapDone, snapStop>>

\* The loop ends, or the table is one task for want of a key range.
ChunksCut ==
  /\ generator = "chunking"
  /\ \/ chunkable /\ start > maxKey /\ tasks' = tasks
     \/ ~chunkable /\ tasks' = <<[from |-> minKey, to |-> maxKey]>>
  /\ generator' = "sending"
  /\ UNCHANGED <<minKey, maxKey, chunkable, start, taskCh, worker, holds, resultCh,
                 handler, completed, handled, snapDone, snapStop>>

\* generateTasks queues a chunk.
QueueTask ==
  /\ generator = "sending"
  /\ tasks # <<>>
  /\ Len(taskCh) < TaskQueueSize
  /\ taskCh' = Append(taskCh, Head(tasks))
  /\ tasks' = Tail(tasks)
  /\ UNCHANGED <<minKey, maxKey, chunkable, generator, start, worker, holds, resultCh,
                 handler, completed, handled, snapDone, snapStop>>

\* It closes taskCh after the last chunk, or when the context ends and leaves the
\* other chunks.
CloseTasks ==
  /\ generator = "sending"
  /\ tasks = <<>> \/ snapDone
  /\ generator' = "closed"
  /\ tasks' = <<>>
  /\ UNCHANGED <<minKey, maxKey, chunkable, start, taskCh, worker, holds, resultCh,
                 handler, completed, handled, snapDone, snapStop>>

\* A worker takes a chunk and reads it.
TakeTask(w) ==
  /\ worker[w] = "idle"
  /\ taskCh # <<>>
  /\ taskCh' = Tail(taskCh)
  /\ worker' = [worker EXCEPT ![w] = "send"]
  /\ holds' = [holds EXCEPT ![w] = Head(taskCh)]
  /\ UNCHANGED <<minKey, maxKey, chunkable, generator, start, tasks, resultCh, handler,
                 completed, handled, snapDone, snapStop>>

\* It sends the result, whatever the context says: a plain send.
SendResult(w) ==
  /\ worker[w] = "send"
  /\ Len(resultCh) < EventBufferSize
  /\ resultCh' = Append(resultCh, holds[w])
  /\ worker' = [worker EXCEPT ![w] = "idle"]
  /\ holds' = [holds EXCEPT ![w] = NoChunk]
  /\ UNCHANGED <<minKey, maxKey, chunkable, generator, start, tasks, taskCh, handler,
                 completed, handled, snapDone, snapStop>>

\* A worker ends when taskCh is closed and empty or the context ends.
WorkerEnds(w) ==
  /\ worker[w] = "idle"
  /\ snapDone \/ (generator = "closed" /\ taskCh = <<>>)
  /\ worker' = [worker EXCEPT ![w] = "gone"]
  /\ UNCHANGED <<minKey, maxKey, chunkable, generator, start, holds, handler, completed,
                 snapDone, snapStop, snapQueues>>

WorkerStep(w) == TakeTask(w) \/ SendResult(w) \/ WorkerEnds(w)

\* handleResults counts a chunk that was read and logs one that failed.
HandleResult ==
  /\ handler
  /\ resultCh # <<>>
  /\ resultCh' = Tail(resultCh)
  /\ handled' = Append(handled, Head(resultCh))
  /\ completed' \in {completed, completed + 1}
  /\ UNCHANGED <<minKey, maxKey, chunkable, generator, start, tasks, taskCh, worker, holds,
                 handler, snapDone, snapStop>>

\* The result goroutine leaves when the context ends, whatever waits.
HandlerEnds ==
  /\ handler
  /\ snapDone
  /\ handler' = FALSE
  /\ UNCHANGED <<minKey, maxKey, chunkable, generator, start, worker, holds, completed,
                 snapDone, snapStop, snapQueues>>

StopCoordinator ==
  /\ snapStop = "no"
  /\ snapDone' = TRUE
  /\ snapStop' = "waiting"
  /\ UNCHANGED <<minKey, maxKey, chunkable, generator, start, worker, holds, handler,
                 completed, snapQueues>>

StopCoordinatorReturns ==
  /\ snapStop = "waiting"
  /\ \A w \in SnapWorkers : worker[w] = "gone"
  /\ snapStop' = "returned"
  /\ UNCHANGED <<minKey, maxKey, chunkable, generator, start, worker, holds, handler,
                 completed, snapDone, snapQueues>>

-----------------------------------------------------------------------------

\* Start, with one table.
SnapInit ==
  /\ minKey \in KeyInts
  /\ maxKey \in minKey..MaxInt
  /\ chunkable \in BOOLEAN
  /\ generator = "chunking"
  /\ start = minKey
  /\ worker = [w \in SnapWorkers |-> "idle"]
  /\ holds = [w \in SnapWorkers |-> NoChunk]
  /\ handler = TRUE
  /\ completed = 0
  /\ snapDone = FALSE
  /\ snapStop = "no"
  /\ tasks = <<>> /\ taskCh = <<>> /\ resultCh = <<>> /\ handled = <<>>

SnapNext ==
  \/ CutChunk
  \/ ChunksCut
  \/ QueueTask
  \/ CloseTasks
  \/ \E w \in SnapWorkers : WorkerStep(w)
  \/ HandleResult
  \/ HandlerEnds
  \/ StopCoordinator
  \/ StopCoordinatorReturns

SnapSpec == SnapInit /\ [][SnapNext]_snapVars

-----------------------------------------------------------------------------

\* How many of the chunks in a queue have the key.
With(k, q) == Cardinality({i \in DOMAIN q : k \in q[i].from..q[i].to})

\* The loop variable leaves the integers before it passes the last key.
Overruns == minKey + ChunkSize * ((maxKey - minKey) \div ChunkSize + 1) > MaxInt

\* Type invariant: the queues keep to their capacity, and a worker holds a chunk
\* while it has a result to send.
SnapTypeOK ==
  /\ {minKey, maxKey, start} \subseteq KeyInts /\ chunkable \in BOOLEAN
  /\ generator \in {"chunking", "sending", "closed"}
  /\ worker \in [SnapWorkers -> {"idle", "send", "gone"}]
  /\ holds \in [SnapWorkers -> Chunk]
  /\ {tasks, taskCh, resultCh, handled} \subseteq Seq(Chunk)
  /\ Len(taskCh) <= TaskQueueSize /\ Len(resultCh) <= EventBufferSize
  /\ \A w \in SnapWorkers : worker[w] # "send" => holds[w] = NoChunk
  /\ handler \in BOOLEAN /\ snapDone \in BOOLEAN
  /\ completed \in 0..Len(handled)
  /\ snapStop \in {"no", "waiting", "returned"}

\* Once the table is cut, every key is in exactly one chunk, which is queued, with
\* a worker, or answered: no key is given to two readers and none is left out, until
\* Stop cancels, unless the loop over the keys overflows the integer.  Answered is not
\* read: a chunk whose read failed counts too, handleResults only logs it
\* (snapshot_coordinator.go generateTableTasks, generateTasks, Run, handleResults).
EveryKeyInOneChunk ==
  generator # "chunking" /\ ~snapDone /\ ~(chunkable /\ Overruns) =>
    \A k \in minKey..maxKey :
      With(k, tasks \o taskCh \o resultCh \o handled)
        + Cardinality({w \in SnapWorkers : k \in holds[w].from..holds[w].to}) = 1

\* The chunks of the table.
Chunks == IF chunkable THEN (maxKey - minKey) \div ChunkSize + 1 ELSE 1

\* A worker finds the result channel full only while more chunks are unanswered than
\* the channel holds, before and after Stop cancels and the goroutine that takes the
\* results leaves: a Stop that comes with no more than EventBufferSize chunks
\* unanswered does not wait for ever on a worker's send, unless the loop over the keys
\* overflows the integer (snapshot_coordinator.go:110 Run, generateTableTasks, Stop).
BlockedByBacklog ==
  \A w \in SnapWorkers :
    worker[w] = "send" /\ Len(resultCh) = EventBufferSize /\ ~(chunkable /\ Overruns) =>
      Chunks - Len(handled) > EventBufferSize
=============================================================================
