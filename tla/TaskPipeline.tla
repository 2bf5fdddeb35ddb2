---------------------------- MODULE TaskPipeline ----------------------------
(***************************************************************************)
(* One task and its pipeline: internal/pipeline/task.go over               *)
(* internal/pipeline/pipeline.go.                                          *)
(*                                                                         *)
(* Requests of several clients run concurrently.  Task and pipeline each   *)
(* have a mutex, but Start and Stop hold it only for the moment in which   *)
(* they read or write the status, so a request is a sequence of steps      *)
(* whose place op[c].pc records, and the requests interleave with each     *)
(* other and with the goroutines that run started.                         *)
(*                                                                         *)
(* The source is what the connectors make of it: Start refuses a source    *)
(* that is running, and events wait in one channel.  Statistics, metrics   *)
(* and timestamps are left out.                                            *)
(***************************************************************************)
EXTENDS Integers, FiniteSets, Sequences

CONSTANTS
  Clients,    \* concurrent callers
  MaxOps,     \* bound: requests in all
  MaxEvents,  \* bound: events of the source
  MaxRuns     \* bound: goroutines started

ASSUME TaskBounds == MaxOps \in Nat /\ MaxEvents \in Nat /\ MaxRuns \in Nat

VARIABLES
  exists,   \* the task manager knows the task
  mgr,      \* the client that holds the manager's mutex (Delete), or 0
  task,     \* the task's status
  pipe,     \* the pipeline's status, "none" for a task without one
  op,       \* the request each client is executing
  ops,      \* requests made
  stopCh,   \* stopCh is closed
  pauseCh,  \* pauseCh is closed
  resumeCh, \* the number of the current resumeCh
  resumed,  \* the numbers of the resume channels that were closed
  src,      \* the source is running
  closed,   \* the source has closed its channel of events
  sent,     \* events the source has put into its channel
  taken,    \* events the goroutines have taken out of it
  sinkUp,   \* Start of the sinks was called after their last Stop
  run,      \* the goroutines, in the order they were started
  panicked, \* a channel was closed twice
  seen      \* ghosts: what has overlapped, writes since Pause, writes to stopped sinks

manager == <<exists, mgr>>
chans == <<stopCh, pauseCh, resumeCh, resumed>>
feed == <<src, closed, sent, taken, sinkUp>>
pipeState == <<manager, task, pipe, chans>>
taskVars == <<pipeState, op, ops, feed, run, panicked, seen>>

NoOp == [kind |-> "none", pc |-> "idle"]

TaskStatus == {"created", "starting", "running", "paused", "stopping", "stopped", "error"}

OpType == [kind : {"none", "start", "stop", "delete"},
           pc : {"idle", "found", "pipe", "source", "state", "spawn", "update",
                 "close", "wait", "shut", "mark", "update2", "done", "failed", "noop"}]

RunType == [pc : {"loop", "check", "blocked", "write", "gone"}, waits : Nat,
            cancelled : BOOLEAN]

TaskTypeOK ==
  /\ exists \in BOOLEAN
  /\ mgr \in Clients \cup {0}
  /\ task \in TaskStatus
  /\ pipe \in TaskStatus \cup {"none"}
  /\ op \in [Clients -> OpType]
  /\ resumed \subseteq 0..(resumeCh - 1)
  /\ taken <= sent
  /\ run \in Seq(RunType)
  /\ seen \in [overlap : BOOLEAN, clash : BOOLEAN, since : Int, late : BOOLEAN,
               idleDelete : BOOLEAN]

TaskInit ==
  /\ exists = TRUE
  /\ mgr = 0
  /\ task = "created"
  /\ pipe \in {"created", "none"}
  /\ op = [c \in Clients |-> NoOp]
  /\ ops = 0
  /\ stopCh = FALSE
  /\ pauseCh = FALSE
  /\ resumeCh = 0
  /\ resumed = {}
  /\ src = FALSE
  /\ closed = FALSE
  /\ sent = 0
  /\ taken = 0
  /\ sinkUp = FALSE
  /\ run = <<>>
  /\ panicked = FALSE
  /\ seen = [overlap |-> FALSE, clash |-> FALSE, since |-> -1, late |-> FALSE,
             idleDelete |-> FALSE]

-----------------------------------------------------------------------------
\* A request finds the task under the manager's read lock.
Request(c) ==
  /\ ~panicked
  /\ exists
  /\ mgr = 0
  /\ op[c] = NoOp
  /\ ops < MaxOps
  /\ ops' = ops + 1

Goto(c, pc) == op' = [op EXCEPT ![c].pc = pc]
At(c, pc) == ~panicked /\ op[c].pc = pc

InFlight(kinds) == \E d \in Clients : op[d].kind \in kinds

-----------------------------------------------------------------------------
(* Task.Start and Pipeline.Start.                                          *)

Start(c) ==
  /\ Request(c)
  /\ op' = [op EXCEPT ![c] = [kind |-> "start", pc |-> "found"]]
  /\ seen' = [seen EXCEPT !.overlap = @ \/ InFlight({"stop", "delete"})]
  /\ UNCHANGED <<pipeState, feed, run, panicked>>

TaskStart(c) ==
  /\ At(c, "found") /\ op[c].kind = "start"
  /\ IF task = "running"
     THEN op' = [op EXCEPT ![c] = NoOp] /\ UNCHANGED task
     ELSE task' = "starting" /\ Goto(c, "pipe")
  /\ UNCHANGED <<manager, pipe, ops, chans, feed, run, panicked, seen>>

PipelineStart(c) ==
  /\ At(c, "pipe") /\ op[c].kind = "start"
  /\ IF pipe \in {"running", "none"}
     THEN Goto(c, "failed") /\ UNCHANGED <<pipe, seen>>
     ELSE /\ pipe' = "starting"
          /\ seen' = [seen EXCEPT !.since = -1]
          /\ Goto(c, "source")
  /\ UNCHANGED <<manager, task, ops, chans, feed, run, panicked>>

\* The source refuses to start twice and may fail; the sinks' errors are only logged.
StartSource(c, ok) ==
  /\ At(c, "source")
  /\ IF ok
     THEN ~src /\ src' = TRUE /\ sinkUp' = TRUE /\ Goto(c, "state") /\ UNCHANGED pipe
     ELSE pipe' = "error" /\ Goto(c, "failed") /\ UNCHANGED <<src, sinkUp>>
  /\ UNCHANGED <<manager, task, ops, chans, closed, sent, taken, run, panicked, seen>>

StartState(c) ==
  /\ At(c, "state")
  /\ pipe' = "running"
  /\ pauseCh' = FALSE
  /\ resumeCh' = resumeCh + 1
  /\ Goto(c, "spawn")
  /\ UNCHANGED <<manager, task, ops, stopCh, resumed, feed, run, panicked, seen>>

StartSpawn(c) ==
  /\ At(c, "spawn")
  /\ Len(run) < MaxRuns
  /\ run' = Append(run, [pc |-> "loop", waits |-> 0, cancelled |-> FALSE])
  /\ Goto(c, "update")
  /\ UNCHANGED <<pipeState, ops, feed, panicked, seen>>

\* updateState(stateRunning) once more, after the goroutine was started.
StartUpdate(c) ==
  /\ At(c, "update")
  /\ pipe' = "running"
  /\ Goto(c, "done")
  /\ UNCHANGED <<manager, task, ops, chans, feed, run, panicked, seen>>

\* Back in Task.Start, whose status says how the pipeline's Start ended.
StartReturn(c) ==
  /\ op[c].kind = "start"
  /\ At(c, "done") \/ At(c, "failed")
  /\ task' = IF op[c].pc = "done" THEN "running" ELSE "error"
  /\ op' = [op EXCEPT ![c] = NoOp]
  /\ UNCHANGED <<manager, pipe, ops, chans, feed, run, panicked, seen>>

-----------------------------------------------------------------------------
(* Task.Stop, Pipeline.Stop and TaskManager.Delete.                        *)

Stop(c) ==
  /\ Request(c)
  /\ op' = [op EXCEPT ![c] = [kind |-> "stop", pc |-> "found"]]
  /\ seen' = [seen EXCEPT !.overlap = @ \/ InFlight({"start"})]
  /\ UNCHANGED <<pipeState, feed, run, panicked>>

\* Delete keeps the manager's mutex and stops only a task that is "running"; deleting
\* the coordinator's record of the task may fail, which leaves the task in place.
Delete(c) ==
  /\ Request(c)
  /\ IF task = "running"
     THEN /\ mgr' = c
          /\ op' = [op EXCEPT ![c] = [kind |-> "delete", pc |-> "found"]]
          /\ seen' = [seen EXCEPT !.overlap = @ \/ InFlight({"start"})]
          /\ UNCHANGED exists
     ELSE /\ exists' \in BOOLEAN
          /\ seen' = [seen EXCEPT !.idleDelete = ~exists']
          /\ UNCHANGED <<mgr, op>>
  /\ UNCHANGED <<task, pipe, chans, feed, run, panicked>>

TaskStop(c) ==
  /\ At(c, "found") /\ op[c].kind \in {"stop", "delete"}
  /\ IF task = "stopped"
     THEN Goto(c, "noop") /\ UNCHANGED task
     ELSE task' = "stopping" /\ Goto(c, "pipe")
  /\ UNCHANGED <<manager, pipe, ops, chans, feed, run, panicked, seen>>

PipelineStop(c) ==
  /\ At(c, "pipe") /\ op[c].kind \in {"stop", "delete"}
  /\ IF pipe \in {"stopped", "none"}
     THEN Goto(c, "done") /\ UNCHANGED <<pipe, seen>>
     ELSE /\ pipe' = "stopping"
          /\ seen' = [seen EXCEPT !.since = -1]
          /\ Goto(c, "close")
  /\ UNCHANGED <<manager, task, ops, chans, feed, run, panicked>>

StopClose(c) ==
  /\ At(c, "close")
  /\ stopCh' = TRUE
  /\ Goto(c, "wait")
  /\ UNCHANGED <<manager, task, pipe, ops, pauseCh, resumeCh, resumed, feed, run, panicked, seen>>

\* Plausible bug: source and sinks are stopped without waiting for the goroutine.
StopWaitNot(c) ==
  /\ At(c, "wait")
  /\ Goto(c, "shut")
  /\ UNCHANGED <<pipeState, ops, feed, run, panicked, seen>>

StopWait(c) ==
  /\ At(c, "wait")
  /\ \A r \in DOMAIN run : run[r].pc = "gone"
  /\ Goto(c, "shut")
  /\ UNCHANGED <<pipeState, ops, feed, run, panicked, seen>>

\* Plausible bug: the sinks are stopped and the source is forgotten.
StopShutSinks(c) ==
  /\ At(c, "shut")
  /\ sinkUp' = FALSE
  /\ Goto(c, "mark")
  /\ UNCHANGED <<pipeState, ops, src, closed, sent, taken, run, panicked, seen>>

StopShut(c) ==
  /\ At(c, "shut")
  /\ src' = FALSE
  /\ sinkUp' = FALSE
  /\ Goto(c, "mark")
  /\ UNCHANGED <<pipeState, ops, closed, sent, taken, run, panicked, seen>>

\* The status is written twice, in two critical sections.
StopMark(c) ==
  /\ At(c, "mark") \/ At(c, "update2")
  /\ pipe' = "stopped"
  /\ Goto(c, IF op[c].pc = "mark" THEN "update2" ELSE "done")
  /\ UNCHANGED <<manager, task, ops, chans, feed, run, panicked, seen>>

StopReturn(c) ==
  /\ op[c].kind \in {"stop", "delete"}
  /\ At(c, "done") \/ At(c, "noop")
  /\ task' = IF op[c].pc = "done" THEN "stopped" ELSE task
  /\ op' = [op EXCEPT ![c] = NoOp]
  /\ IF op[c].kind = "delete" THEN exists' \in BOOLEAN /\ mgr' = 0 ELSE UNCHANGED manager
  /\ UNCHANGED <<pipe, ops, chans, feed, run, panicked, seen>>

-----------------------------------------------------------------------------
(* Pause and Resume: each holds the mutex from start to end.  Those of the *)
(* task only set its status; those of the pipeline stop the goroutine.     *)

TaskPause(c) ==
  /\ Request(c)
  /\ task = "running"
  /\ task' = "paused"
  /\ UNCHANGED <<manager, pipe, op, chans, feed, run, panicked, seen>>

TaskResume(c) ==
  /\ Request(c)
  /\ task = "paused"
  /\ task' = "running"
  /\ UNCHANGED <<manager, pipe, op, chans, feed, run, panicked, seen>>

\* Closing a channel that is closed panics.
Pause(c) ==
  /\ Request(c)
  /\ pipe = "running"
  /\ pipe' = "paused"
  /\ pauseCh' = TRUE
  /\ panicked' = pauseCh
  /\ seen' = [seen EXCEPT !.since = 0,
                          !.clash = @ \/ InFlight({"start"})]
  /\ UNCHANGED <<manager, task, op, stopCh, resumeCh, resumed, feed, run>>

Resume(c) ==
  /\ Request(c)
  /\ pipe = "paused"
  /\ pipe' = "running"
  /\ resumed' = resumed \cup {resumeCh}
  /\ pauseCh' = FALSE
  /\ resumeCh' = resumeCh + 1
  /\ seen' = [seen EXCEPT !.since = -1]
  /\ UNCHANGED <<manager, task, op, stopCh, feed, run, panicked>>

-----------------------------------------------------------------------------
(* The goroutine run, its source and its context.                          *)

Emit ==
  /\ ~panicked
  /\ src /\ ~closed
  /\ sent < MaxEvents
  /\ sent' = sent + 1
  /\ UNCHANGED <<pipeState, op, ops, src, closed, taken, sinkUp, run, panicked, seen>>

\* The source ends: a snapshot that is done, a connection that is lost.
CloseEvents ==
  /\ ~panicked
  /\ src /\ ~closed
  /\ closed' = TRUE
  /\ UNCHANGED <<pipeState, op, ops, src, sent, taken, sinkUp, run, panicked, seen>>

\* The context is the one Start was called with; it may end at any time.
Cancel(r) ==
  /\ ~panicked
  /\ run[r].pc # "gone" /\ ~run[r].cancelled
  /\ run' = [run EXCEPT ![r].cancelled = TRUE]
  /\ UNCHANGED <<pipeState, op, ops, feed, panicked, seen>>

\* Plausible bug: a receive that does not look whether there is an event.
RunTakeEmpty(r) ==
  /\ ~panicked
  /\ run[r].pc = "loop"
  /\ taken' = taken + 1
  /\ run' = [run EXCEPT ![r].pc = "check"]
  /\ UNCHANGED <<pipeState, op, ops, src, closed, sent, sinkUp, panicked, seen>>

\* The select of the loop: with several cases ready any of them is taken.
RunTake(r) ==
  /\ ~panicked
  /\ run[r].pc = "loop"
  /\ taken < sent
  /\ taken' = taken + 1
  /\ run' = [run EXCEPT ![r].pc = "check"]
  /\ UNCHANGED <<pipeState, op, ops, src, closed, sent, sinkUp, panicked, seen>>

\* Plausible bug: a goroutine that waits for Resume does not listen to stopCh.
RunExitLoopOnly(r) ==
  /\ ~panicked
  /\ run[r].pc = "loop"
  /\ stopCh \/ run[r].cancelled
  /\ run' = [run EXCEPT ![r].pc = "gone", ![r].waits = 0]
  /\ UNCHANGED <<pipeState, op, ops, feed, panicked, seen>>

\* From the loop, or from the wait for Resume: then the event in hand is dropped.
RunExit(r) ==
  /\ ~panicked
  /\ run[r].pc \in {"loop", "blocked"}
  /\ \/ stopCh
     \/ run[r].cancelled
     \/ run[r].pc = "loop" /\ closed /\ taken = sent
  /\ run' = [run EXCEPT ![r].pc = "gone", ![r].waits = 0]
  /\ UNCHANGED <<pipeState, op, ops, feed, panicked, seen>>

\* Plausible bug: the goroutine does not look at the status of the pipeline.
RunCheckNot(r) ==
  /\ ~panicked
  /\ run[r].pc = "check"
  /\ run' = [run EXCEPT ![r].pc = "write"]
  /\ UNCHANGED <<pipeState, op, ops, feed, panicked, seen>>

\* Plausible bug: a paused pipeline ends its goroutine, and Resume starts no other.
RunCheckLeaves(r) ==
  /\ ~panicked
  /\ run[r].pc = "check"
  /\ run' = [run EXCEPT ![r].pc = IF pipe = "paused" THEN "gone" ELSE "write"]
  /\ UNCHANGED <<pipeState, op, ops, feed, panicked, seen>>

RunCheck(r) ==
  /\ ~panicked
  /\ run[r].pc = "check"
  /\ run' = [run EXCEPT ![r].pc = IF pipe = "paused" THEN "blocked" ELSE "write",
                        ![r].waits = IF pipe = "paused" THEN resumeCh ELSE 0]
  /\ UNCHANGED <<pipeState, op, ops, feed, panicked, seen>>

RunResumed(r) ==
  /\ ~panicked
  /\ run[r].pc = "blocked"
  /\ run[r].waits \in resumed
  /\ run' = [run EXCEPT ![r].pc = "write", ![r].waits = 0]
  /\ UNCHANGED <<pipeState, op, ops, feed, panicked, seen>>

\* processEvent: the event goes to the sinks.
RunWrite(r) ==
  /\ ~panicked
  /\ run[r].pc = "write"
  /\ run' = [run EXCEPT ![r].pc = "loop"]
  /\ seen' = [seen EXCEPT !.since = IF @ >= 0 THEN @ + 1 ELSE @,
                          !.late = @ \/ ~sinkUp]
  /\ UNCHANGED <<pipeState, op, ops, feed, panicked>>

-----------------------------------------------------------------------------
RequestStep(c) ==
  \/ Start(c) \/ TaskStart(c) \/ PipelineStart(c) \/ (\E ok \in BOOLEAN : StartSource(c, ok))
  \/ StartState(c) \/ StartSpawn(c) \/ StartUpdate(c) \/ StartReturn(c)
  \/ Stop(c) \/ Delete(c) \/ TaskStop(c) \/ PipelineStop(c) \/ StopClose(c) \/ StopWait(c)
  \/ StopShut(c) \/ StopMark(c) \/ StopReturn(c)
  \/ TaskPause(c) \/ TaskResume(c) \/ Pause(c) \/ Resume(c)

RunStep(r) ==
  \/ Cancel(r) \/ RunTake(r) \/ RunExit(r) \/ RunCheck(r) \/ RunResumed(r) \/ RunWrite(r)

TaskNext ==
  \/ \E c \in Clients : RequestStep(c)
  \/ \E r \in DOMAIN run : RunStep(r)
  \/ Emit \/ CloseEvents

\* A request, once made, is executed, and a goroutine is scheduled; nobody owes a
\* request, an event, a cancellation or a failing source.
TaskFairness ==
  /\ \A c \in Clients :
       WF_taskVars(\/ TaskStart(c) \/ PipelineStart(c) \/ (\E ok \in BOOLEAN : StartSource(c, ok))
                   \/ StartState(c) \/ StartSpawn(c) \/ StartUpdate(c) \/ StartReturn(c)
                   \/ TaskStop(c) \/ PipelineStop(c) \/ StopClose(c) \/ StopWait(c)
                   \/ StopShut(c) \/ StopMark(c) \/ StopReturn(c))
  /\ \A r \in 1..MaxRuns :
       /\ WF_taskVars(r \in DOMAIN run /\ RunExit(r))
       /\ WF_taskVars(r \in DOMAIN run /\ (RunCheck(r) \/ RunResumed(r) \/ RunWrite(r)))

TaskSpec == TaskInit /\ [][TaskNext]_taskVars /\ TaskFairness

-----------------------------------------------------------------------------
(* Properties.                                                             *)

\* No event is written to sinks that Stop has stopped, unless a Start and a Stop were
\* in flight at the same time (Start then adds a goroutine that Stop does not wait for).
NoWriteToStoppedSinks == seen.late => seen.overlap

\* A paused pipeline is quiet: after Pause at most the one event that had already passed
\* the check is written, until Resume, Start or Stop, unless the Pause fell into a Start
\* (which then overwrites the status), or Start and Stop overlapped.  Pause closes its
\* channel once: a second close, which panics and takes the whole process down, also
\* needs a Pause that fell into a Start.
PauseHolds ==
  /\ seen.since <= 1 \/ seen.clash \/ seen.overlap
  /\ panicked => seen.clash

\* A deleted task leaves nothing behind: once Delete has returned and no request is in
\* flight, no goroutine runs and the source is stopped, unless Delete found the task
\* in another status than "running" (also "paused"), which it does not stop.
DeletedIsGone ==
  ~exists /\ ~seen.idleDelete /\ ~seen.overlap /\ (\A c \in Clients : op[c] = NoOp)
    => ~src /\ \A r \in DOMAIN run : run[r].pc = "gone"

\* A pipeline that says it is running or paused has a goroutine that will handle the
\* next event, once the requests have returned: the exceptions are a Start after a Stop
\* (stopCh stays closed, so the new goroutine ends at once), a context that has ended
\* and a source that has closed its channel; none of them changes the status.
RunningIsServed ==
  pipe \in {"running", "paused"} /\ (\A c \in Clients : op[c] = NoOp)
    => \/ \E r \in DOMAIN run : run[r].pc # "gone"
       \/ stopCh \/ closed \/ \E r \in DOMAIN run : run[r].cancelled

\* Stop always returns, also when the pipeline is paused, when several clients stop it
\* and when the goroutine has ended by itself.
StopReturns ==
  \A c \in Clients : op[c].kind \in {"stop", "delete"} ~> (op[c] = NoOp \/ panicked)
=============================================================================
