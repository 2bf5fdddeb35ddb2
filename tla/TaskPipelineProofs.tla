------------------------ MODULE TaskPipelineProofs ------------------------
(***************************************************************************)
(* Proofs about TaskPipeline: what the requests to a task guarantee, for   *)
(* any number of clients, requests, events and goroutines.                 *)
(***************************************************************************)
EXTENDS TaskPipeline, TLAPS

\* The places of Pipeline.Start after its first critical section, and those of
\* Pipeline.Stop.
Past == {"source", "state", "spawn", "update"}
Ending == {"close", "wait", "shut", "mark", "update2"}

AllGone == \A r \in DOMAIN run : run[r].pc = "gone"
Stopping(c) == op[c].kind \in {"stop", "delete"}

\* The types of the variables that TaskTypeOK leaves out.
TaskTypes ==
  /\ TaskTypeOK
  /\ stopCh \in BOOLEAN /\ pauseCh \in BOOLEAN /\ src \in BOOLEAN
  /\ closed \in BOOLEAN /\ sinkUp \in BOOLEAN /\ panicked \in BOOLEAN
  /\ ops \in Nat /\ resumeCh \in Nat /\ sent \in Nat /\ taken \in Nat

\* A place of Start or Stop belongs to a request of that kind, and a task without a
\* pipeline reaches none of the pipeline's.
RequestInv ==
  /\ \A c \in Clients :
       /\ op[c].pc \in Past \cup {"failed"} => op[c].kind = "start"
       /\ op[c].pc \in Ending \cup {"noop"} => Stopping(c)
       /\ op[c].pc \in Past \cup Ending => pipe # "none"
       /\ op[c].pc = "idle" <=> op[c].kind = "none"
  /\ pipe = "none" => ~src /\ run = <<>>

\* As long as no Start overlapped a Stop or Delete: source and sinks are up while a
\* goroutine lives or is about to be started, there is at most one such goroutine, and
\* every place, status and answer that tells of a stop implies that none is left.
OrderInv ==
  /\ \A c, d \in Clients : ~(op[c].kind = "start" /\ Stopping(d))
  /\ \A c \in Clients :
       /\ op[c].pc \in {"state", "spawn"} =>
            /\ src /\ sinkUp /\ AllGone
            /\ \A d \in Clients : op[d].pc \in {"state", "spawn"} => d = c
       /\ op[c].pc = "shut" => AllGone
       /\ (op[c].pc \in {"mark", "update2", "noop"} \/ (op[c].pc = "done" /\ Stopping(c)))
            => ~src /\ AllGone
       /\ op[c].pc \in Ending => pipe \in {"stopping", "stopped"}
  /\ \A r, q \in DOMAIN run :
       run[r].pc # "gone" => src /\ sinkUp /\ (run[q].pc # "gone" => q = r)
  /\ pipe = "stopped" => ~src /\ AllGone /\ \A c \in Clients : op[c].pc \notin Past
  /\ task = "stopped" =>
       ~src /\ AllGone /\ \A c \in Clients : op[c].kind = "start" => op[c].pc = "found"
  /\ ~exists /\ ~seen.idleDelete =>
       ~src /\ AllGone /\ \A c \in Clients : op[c].kind # "start"
  /\ ~seen.late

\* As long as no Pause fell into a Start: pauseCh is open whenever the pipeline is, or
\* is about to be marked, running, so no Pause closes it twice.
ClashInv ==
  /\ ~panicked
  /\ pipe = "running" => ~pauseCh
  /\ \A c \in Clients : op[c].pc \in {"spawn", "update"} => ~pauseCh

\* As long as neither happened: a pipeline counts writes since a Pause only while it is
\* paused, and after the first of them no goroutine can write another one.
QuietInv ==
  seen.since >= 0 =>
    /\ pipe = "paused"
    /\ \A c \in Clients : op[c].pc \notin Past
    /\ seen.since <= 1
    /\ seen.since = 1 =>
         \A r \in DOMAIN run : \/ run[r].pc \in {"loop", "check", "gone"}
                               \/ run[r].pc = "blocked" /\ run[r].waits \notin resumed

\* A goroutine ends only for one of three reasons, and a pipeline that is running or
\* paused has had one started or has a Start that is about to.
ServedInv ==
  /\ \A r \in DOMAIN run : run[r].pc = "gone" => stopCh \/ closed \/ run[r].cancelled
  /\ pipe \in {"running", "paused"} => run # <<>> \/ \E c \in Clients : op[c].pc = "spawn"
  /\ \A c \in Clients : op[c].pc = "update" => run # <<>>

TaskInv ==
  /\ TaskTypes
  /\ RequestInv
  /\ (~seen.overlap => OrderInv)
  /\ (~seen.clash => ClashInv)
  /\ (~seen.overlap /\ ~seen.clash => QuietInv)
  /\ ServedInv

-----------------------------------------------------------------------------
(* What a step does to the request of one client and to one goroutine.     *)

Kinds == {"none", "start", "stop", "delete"}
Places == {"idle", "found", "pipe", "source", "state", "spawn", "update",
           "close", "wait", "shut", "mark", "update2", "done", "failed", "noop"}
RunPlaces == {"loop", "check", "blocked", "write", "gone"}
SeenType == [overlap : BOOLEAN, clash : BOOLEAN, since : Int, late : BOOLEAN,
             idleDelete : BOOLEAN]

\* Client c's request is now of kind k and at place p, the others are where they were.
Moves(c, k, p) ==
  /\ op' \in [Clients -> OpType]
  /\ op'[c] = [kind |-> k, pc |-> p]
  /\ \A d \in Clients \ {c} : op'[d] = op[d]

\* Goroutine r is now at place p and waits for resume channel w, the others are where
\* they were.
RunMoves(r, p, w, x) ==
  /\ run' \in Seq(RunType)
  /\ DOMAIN run' = DOMAIN run
  /\ run'[r] \in RunType
  /\ run'[r].pc = p /\ run'[r].waits = w /\ run'[r].cancelled = x
  /\ \A q \in DOMAIN run \ {r} : run'[q] = run[q]

\* A step of a request to its next place keeps its kind.
LEMMA GotoMoves ==
  ASSUME op \in [Clients -> OpType], NEW c \in Clients, NEW p \in Places, Goto(c, p)
  PROVE Moves(c, op[c].kind, p)
<1>1. [op[c] EXCEPT !.pc = p] = [kind |-> op[c].kind, pc |-> p]
  BY DEF OpType
<1>2. [op[c] EXCEPT !.pc = p] \in OpType
  BY Zenon, <1>1 DEF OpType, Places
<1>3. op' = [op EXCEPT ![c] = [op[c] EXCEPT !.pc = p]]
  BY Zenon DEF Goto
<1> QED
  BY Zenon, <1>1, <1>2, <1>3 DEF Moves

\* The same for a request that begins or ends.
LEMMA SetMoves ==
  ASSUME op \in [Clients -> OpType], NEW c \in Clients, NEW k \in Kinds, NEW p \in Places,
         op' = [op EXCEPT ![c] = [kind |-> k, pc |-> p]]
  PROVE Moves(c, k, p)
<1>1. [kind |-> k, pc |-> p] \in OpType
  BY Zenon DEF OpType, Kinds, Places
<1> QED
  BY Zenon, <1>1 DEF Moves

\* The goroutines stay where they are, but for the one that moves.
LEMMA GoroutineMoves ==
  ASSUME run \in Seq(RunType), NEW r \in DOMAIN run, NEW s \in RunType,
         run' = [run EXCEPT ![r] = s]
  PROVE RunMoves(r, s.pc, s.waits, s.cancelled)
BY DEF RunMoves, RunType

\* What each step of a goroutine does to it.
LEMMA GoroutineEffect ==
  ASSUME TaskTypes, NEW r \in DOMAIN run
  PROVE /\ Cancel(r) => RunMoves(r, run[r].pc, run[r].waits, TRUE)
        /\ RunTake(r) => RunMoves(r, "check", run[r].waits, run[r].cancelled)
        /\ RunExit(r) => RunMoves(r, "gone", 0, run[r].cancelled)
        /\ RunCheck(r) =>
             RunMoves(r, IF pipe = "paused" THEN "blocked" ELSE "write",
                      IF pipe = "paused" THEN resumeCh ELSE 0, run[r].cancelled)
        /\ RunResumed(r) => RunMoves(r, "write", 0, run[r].cancelled)
        /\ RunWrite(r) => RunMoves(r, "loop", run[r].waits, run[r].cancelled)
<1>1. run \in Seq(RunType) /\ run[r] \in RunType /\ resumeCh \in Nat
  BY DEF TaskTypes, TaskTypeOK
<1>2. ASSUME NEW p \in RunPlaces, NEW w \in Nat,
             run' = [run EXCEPT ![r].pc = p, ![r].waits = w]
      PROVE RunMoves(r, p, w, run[r].cancelled)
  <2>1. PICK s : s = [run[r] EXCEPT !.pc = p, !.waits = w]
    BY Zenon
  <2>2. s \in RunType /\ s.pc = p /\ s.waits = w /\ s.cancelled = run[r].cancelled
    BY Zenon, <1>1, <2>1 DEF RunType, RunPlaces
  <2>3. run' = [run EXCEPT ![r] = s]
    BY Zenon, <1>1, <1>2, <2>1
  <2> QED
    BY Zenon, <1>1, <2>2, <2>3, GoroutineMoves
<1>3. ASSUME NEW p \in RunPlaces, run' = [run EXCEPT ![r].pc = p]
      PROVE RunMoves(r, p, run[r].waits, run[r].cancelled)
  <2>1. PICK s : s = [run[r] EXCEPT !.pc = p]
    BY Zenon
  <2>2. /\ s \in RunType /\ s.pc = p
        /\ s.waits = run[r].waits /\ s.cancelled = run[r].cancelled
    BY Zenon, <1>1, <2>1 DEF RunType, RunPlaces
  <2>3. run' = [run EXCEPT ![r] = s]
    BY Zenon, <1>1, <1>3, <2>1
  <2> QED
    BY Zenon, <1>1, <2>2, <2>3, GoroutineMoves
<1>4. ASSUME run' = [run EXCEPT ![r].cancelled = TRUE]
      PROVE RunMoves(r, run[r].pc, run[r].waits, TRUE)
  <2>1. PICK s : s = [run[r] EXCEPT !.cancelled = TRUE]
    BY Zenon
  <2>2. s \in RunType /\ s.pc = run[r].pc /\ s.waits = run[r].waits /\ s.cancelled = TRUE
    BY Zenon, <1>1, <2>1 DEF RunType
  <2>3. run' = [run EXCEPT ![r] = s]
    BY Zenon, <1>1, <1>4, <2>1
  <2> QED
    BY Zenon, <1>1, <2>2, <2>3, GoroutineMoves
<1>5. {"check", "gone", "write", "loop", "blocked"} \subseteq RunPlaces /\ 0 \in Nat
  BY Zenon DEF RunPlaces
<1>6. Cancel(r) => RunMoves(r, run[r].pc, run[r].waits, TRUE)
  BY ZenonT(30), <1>4 DEF Cancel
<1>7. /\ RunTake(r) => RunMoves(r, "check", run[r].waits, run[r].cancelled)
      /\ RunWrite(r) => RunMoves(r, "loop", run[r].waits, run[r].cancelled)
  BY Zenon, <1>3, <1>5 DEF RunTake, RunWrite
<1>8. /\ RunExit(r) => RunMoves(r, "gone", 0, run[r].cancelled)
      /\ RunResumed(r) => RunMoves(r, "write", 0, run[r].cancelled)
  BY Zenon, <1>2, <1>5 DEF RunExit, RunResumed
<1>9. RunCheck(r) =>
        RunMoves(r, IF pipe = "paused" THEN "blocked" ELSE "write",
                 IF pipe = "paused" THEN resumeCh ELSE 0, run[r].cancelled)
  BY Zenon, <1>1, <1>2, <1>5 DEF RunCheck
<1> QED
  BY Zenon, <1>6, <1>7, <1>8, <1>9

\* What Pause and a write note down.
LEMMA SeenEffect ==
  ASSUME TaskTypes
  PROVE /\ \A c \in Clients : Pause(c) =>
             /\ seen' \in SeenType
             /\ seen'.since = 0
             /\ seen'.clash <=> (seen.clash \/ InFlight({"start"}))
             /\ seen'.overlap = seen.overlap /\ seen'.late = seen.late
             /\ seen'.idleDelete = seen.idleDelete
        /\ \A r \in DOMAIN run : RunWrite(r) =>
             /\ seen' \in SeenType
             /\ seen'.since = IF seen.since >= 0 THEN seen.since + 1 ELSE seen.since
             /\ seen'.late <=> (seen.late \/ ~sinkUp)
             /\ seen'.overlap = seen.overlap /\ seen'.clash = seen.clash
             /\ seen'.idleDelete = seen.idleDelete
<1>1. seen \in SeenType
  BY Zenon DEF TaskTypes, TaskTypeOK, SeenType
<1>2. ASSUME NEW c \in Clients, Pause(c)
      PROVE /\ seen' \in SeenType
            /\ seen'.since = 0
            /\ seen'.clash <=> (seen.clash \/ InFlight({"start"}))
            /\ seen'.overlap = seen.overlap /\ seen'.late = seen.late
            /\ seen'.idleDelete = seen.idleDelete
  <2>1. PICK b \in BOOLEAN : b = (seen.clash \/ InFlight({"start"}))
    BY Zenon
  <2>2. PICK i \in Int : i = 0
    OBVIOUS
  <2>3. seen' = [seen EXCEPT !.since = i, !.clash = b]
    BY <1>2, <2>1, <2>2, Zenon DEF Pause
  <2>4. /\ seen' \in SeenType
        /\ seen'.since = i /\ seen'.clash = b
        /\ seen'.overlap = seen.overlap /\ seen'.late = seen.late
        /\ seen'.idleDelete = seen.idleDelete
    BY Zenon, <1>1, <2>3 DEF SeenType
  <2> QED
    BY Zenon, <2>1, <2>2, <2>4
<1>3. ASSUME NEW r \in DOMAIN run, RunWrite(r)
      PROVE /\ seen' \in SeenType
            /\ seen'.since = IF seen.since >= 0 THEN seen.since + 1 ELSE seen.since
            /\ seen'.late <=> (seen.late \/ ~sinkUp)
            /\ seen'.overlap = seen.overlap /\ seen'.clash = seen.clash
            /\ seen'.idleDelete = seen.idleDelete
  <2>1. PICK b \in BOOLEAN : b = (seen.late \/ ~sinkUp)
    BY Zenon
  <2>2. PICK i \in Int : i = IF seen.since >= 0 THEN seen.since + 1 ELSE seen.since
    BY <1>1 DEF SeenType
  <2>3. seen' = [seen EXCEPT !.since = i, !.late = b]
    BY <1>3, <2>1, <2>2, Zenon DEF RunWrite
  <2>4. /\ seen' \in SeenType
        /\ seen'.since = i /\ seen'.late = b
        /\ seen'.overlap = seen.overlap /\ seen'.clash = seen.clash
        /\ seen'.idleDelete = seen.idleDelete
    BY Zenon, <1>1, <2>3 DEF SeenType
  <2> QED
    BY Zenon, <2>1, <2>2, <2>4
<1> QED
  BY Zenon, <1>2, <1>3

\* Every step keeps the types.
LEMMA StepTaskTypes ==
  ASSUME TaskTypes, [TaskNext]_taskVars
  PROVE TaskTypes'
<1> USE DEF TaskTypes, TaskTypeOK, TaskStatus, taskVars, pipeState, manager, chans, feed, Request, At
<1>1. ASSUME NEW c \in Clients, Start(c)
      PROVE TaskTypes'
  <2>1. op' \in [Clients -> OpType]
    BY Zenon, <1>1 DEF Start, Goto, NoOp, OpType
  <2>2. seen' \in SeenType
    BY Zenon, <1>1 DEF Start, SeenType, InFlight
  <2> QED
    BY <1>1, <2>1, <2>2 DEF Start, SeenType
<1>2. ASSUME NEW c \in Clients, TaskStart(c)
      PROVE TaskTypes'
  <2>1. op' \in [Clients -> OpType]
    BY <1>2 DEF TaskStart, Goto, NoOp, OpType
  <2> QED
    BY <1>2, <2>1 DEF TaskStart
<1>3. ASSUME NEW c \in Clients, PipelineStart(c)
      PROVE TaskTypes'
  <2>1. op' \in [Clients -> OpType]
    BY <1>3 DEF PipelineStart, Goto, NoOp, OpType
  <2>2. seen' \in SeenType
    BY <1>3 DEF PipelineStart, SeenType, InFlight
  <2> QED
    BY <1>3, <2>1, <2>2 DEF PipelineStart, SeenType
<1>4. ASSUME NEW c \in Clients, NEW ok \in BOOLEAN, StartSource(c, ok)
      PROVE TaskTypes'
  <2>1. op' \in [Clients -> OpType]
    BY <1>4 DEF StartSource, Goto, OpType
  <2>2. src' \in BOOLEAN /\ sinkUp' \in BOOLEAN
    BY <1>4, Zenon DEF StartSource
  <2> QED
    BY <1>4, <2>1, <2>2 DEF StartSource
<1>5. ASSUME NEW c \in Clients, StartState(c)
      PROVE TaskTypes'
  <2>1. op' \in [Clients -> OpType]
    BY <1>5 DEF StartState, Goto, OpType
  <2>2. pauseCh' \in BOOLEAN
    BY <1>5, Zenon DEF StartState
  <2>3. resumeCh' \in Nat /\ resumed' \subseteq 0..(resumeCh' - 1)
    BY <1>5 DEF StartState
  <2> QED
    BY <1>5, <2>1, <2>2, <2>3 DEF StartState
<1>6. ASSUME NEW c \in Clients, StartSpawn(c)
      PROVE TaskTypes'
  <2>1. op' \in [Clients -> OpType]
    BY <1>6 DEF StartSpawn, Goto, OpType
  <2>2. [pc |-> "loop", waits |-> 0, cancelled |-> FALSE] \in RunType
    BY Zenon DEF RunType
  <2>3. run' \in Seq(RunType)
    BY <1>6, <2>2 DEF StartSpawn
  <2> QED
    BY <1>6, <2>1, <2>3 DEF StartSpawn
<1>7. ASSUME NEW c \in Clients, StartUpdate(c)
      PROVE TaskTypes'
  <2>1. op' \in [Clients -> OpType]
    BY <1>7 DEF StartUpdate, Goto, NoOp, OpType
  <2> QED
    BY <1>7, <2>1 DEF StartUpdate
<1>8. ASSUME NEW c \in Clients, StartReturn(c)
      PROVE TaskTypes'
  <2>1. op' \in [Clients -> OpType]
    BY Zenon, <1>8 DEF StartReturn, Goto, NoOp, OpType
  <2> QED
    BY <1>8, <2>1 DEF StartReturn
<1>9. ASSUME NEW c \in Clients, Stop(c)
      PROVE TaskTypes'
  <2>1. op' \in [Clients -> OpType]
    BY Zenon, <1>9 DEF Stop, Goto, NoOp, OpType
  <2>2. seen' \in SeenType
    BY Zenon, <1>9 DEF Stop, SeenType, InFlight
  <2> QED
    BY <1>9, <2>1, <2>2 DEF Stop, SeenType
<1>10. ASSUME NEW c \in Clients, Delete(c)
      PROVE TaskTypes'
  <2>1. op' \in [Clients -> OpType] /\ mgr' \in Clients \cup {0} /\ exists' \in BOOLEAN
    <3>1. CASE task = "running"
      BY <1>10, <3>1 DEF Delete, OpType
    <3>2. CASE task # "running"
      BY Zenon, <1>10, <3>2 DEF Delete, OpType
    <3> QED
      BY Zenon, <3>1, <3>2
  <2>2. seen' \in SeenType
    <3>1. CASE task = "running"
      BY Zenon, <1>10, <3>1 DEF Delete, SeenType, InFlight
    <3>2. CASE task # "running"
      BY Zenon, <1>10, <3>2 DEF Delete, SeenType
    <3> QED
      BY Zenon, <3>1, <3>2
  <2> QED
    BY <1>10, <2>1, <2>2 DEF Delete, SeenType
<1>11. ASSUME NEW c \in Clients, TaskStop(c)
      PROVE TaskTypes'
  <2>1. op' \in [Clients -> OpType]
    BY <1>11 DEF TaskStop, Goto, NoOp, OpType
  <2> QED
    BY <1>11, <2>1 DEF TaskStop
<1>12. ASSUME NEW c \in Clients, PipelineStop(c)
      PROVE TaskTypes'
  <2>1. op' \in [Clients -> OpType]
    BY <1>12 DEF PipelineStop, Goto, NoOp, OpType
  <2>2. seen' \in SeenType
    BY <1>12 DEF PipelineStop, SeenType, InFlight
  <2> QED
    BY <1>12, <2>1, <2>2 DEF PipelineStop, SeenType
<1>13. ASSUME NEW c \in Clients, StopClose(c)
      PROVE TaskTypes'
  <2>1. op' \in [Clients -> OpType]
    BY <1>13 DEF StopClose, Goto, NoOp, OpType
  <2> QED
    BY <1>13, <2>1 DEF StopClose
<1>14. ASSUME NEW c \in Clients, StopWait(c)
      PROVE TaskTypes'
  <2>1. op' \in [Clients -> OpType]
    BY <1>14 DEF StopWait, Goto, NoOp, OpType
  <2> QED
    BY <1>14, <2>1 DEF StopWait
<1>15. ASSUME NEW c \in Clients, StopShut(c)
      PROVE TaskTypes'
  <2>1. op' \in [Clients -> OpType]
    BY <1>15 DEF StopShut, Goto, OpType
  <2>2. src' \in BOOLEAN /\ sinkUp' \in BOOLEAN
    BY <1>15, Zenon DEF StopShut
  <2> QED
    BY <1>15, <2>1, <2>2 DEF StopShut
<1>16. ASSUME NEW c \in Clients, StopMark(c)
      PROVE TaskTypes'
  <2>1. op' \in [Clients -> OpType]
    BY <1>16 DEF StopMark, Goto, NoOp, OpType
  <2> QED
    BY <1>16, <2>1 DEF StopMark
<1>17. ASSUME NEW c \in Clients, StopReturn(c)
      PROVE TaskTypes'
  <2>1. op' \in [Clients -> OpType]
    BY Zenon, <1>17 DEF StopReturn, Goto, NoOp, OpType
  <2> QED
    BY <1>17, <2>1 DEF StopReturn
<1>18. ASSUME NEW c \in Clients, TaskPause(c)
      PROVE TaskTypes'
  BY <1>18 DEF TaskPause
<1>19. ASSUME NEW c \in Clients, TaskResume(c)
      PROVE TaskTypes'
  BY <1>19 DEF TaskResume
<1>20. ASSUME NEW c \in Clients, Pause(c)
      PROVE TaskTypes'
  <2>1. seen' \in SeenType
    BY Zenon, <1>20, SeenEffect
  <2>2. pauseCh' \in BOOLEAN /\ panicked' \in BOOLEAN
    BY <1>20, Zenon DEF Pause
  <2> QED
    BY <1>20, <2>1, <2>2 DEF Pause, SeenType
<1>21. ASSUME NEW c \in Clients, Resume(c)
      PROVE TaskTypes'
  <2>1. seen' \in SeenType
    BY <1>21 DEF Resume, SeenType
  <2>2. pauseCh' \in BOOLEAN
    BY <1>21, Zenon DEF Resume
  <2>3. resumeCh' \in Nat /\ resumed' \subseteq 0..(resumeCh' - 1)
    BY <1>21 DEF Resume
  <2> QED
    BY <1>21, <2>1, <2>2, <2>3 DEF Resume, SeenType
<1>22. ASSUME NEW r \in DOMAIN run, Cancel(r)
      PROVE TaskTypes'
  <2>1. run' \in Seq(RunType)
    BY Zenon, <1>22, GoroutineEffect DEF RunMoves
  <2> QED
    BY <1>22, <2>1 DEF Cancel
<1>23. ASSUME NEW r \in DOMAIN run, RunTake(r)
      PROVE TaskTypes'
  <2>1. run' \in Seq(RunType)
    BY Zenon, <1>23, GoroutineEffect DEF RunMoves
  <2> QED
    BY <1>23, <2>1 DEF RunTake
<1>24. ASSUME NEW r \in DOMAIN run, RunExit(r)
      PROVE TaskTypes'
  <2>1. run' \in Seq(RunType)
    BY Zenon, <1>24, GoroutineEffect DEF RunMoves
  <2> QED
    BY <1>24, <2>1 DEF RunExit
<1>25. ASSUME NEW r \in DOMAIN run, RunCheck(r)
      PROVE TaskTypes'
  <2>1. run' \in Seq(RunType)
    BY Zenon, <1>25, GoroutineEffect DEF RunMoves
  <2> QED
    BY <1>25, <2>1 DEF RunCheck
<1>26. ASSUME NEW r \in DOMAIN run, RunResumed(r)
      PROVE TaskTypes'
  <2>1. run' \in Seq(RunType)
    BY Zenon, <1>26, GoroutineEffect DEF RunMoves
  <2> QED
    BY <1>26, <2>1 DEF RunResumed
<1>27. ASSUME NEW r \in DOMAIN run, RunWrite(r)
      PROVE TaskTypes'
  <2>1. run' \in Seq(RunType)
    BY Zenon, <1>27, GoroutineEffect DEF RunMoves
  <2>2. seen' \in SeenType
    BY Zenon, <1>27, SeenEffect
  <2> QED
    BY <1>27, <2>1, <2>2 DEF RunWrite, SeenType
<1>28. ASSUME Emit
      PROVE TaskTypes'
  BY <1>28 DEF Emit
<1>29. ASSUME CloseEvents
      PROVE TaskTypes'
  BY <1>29 DEF CloseEvents
<1>30. ASSUME UNCHANGED taskVars
      PROVE TaskTypes'
  BY <1>30
<1> QED
  BY Zenon, <1>1, <1>2, <1>3, <1>4, <1>5, <1>6, <1>7, <1>8, <1>9, <1>10, <1>11, <1>12, <1>13,
     <1>14, <1>15, <1>16, <1>17, <1>18, <1>19, <1>20, <1>21, <1>22, <1>23, <1>24, <1>25,
     <1>26, <1>27, <1>28, <1>29, <1>30
  DEF TaskNext, RequestStep, RunStep

\* Every step keeps the places of the requests in order.
LEMMA StepRequest ==
  ASSUME TaskTypes, RequestInv, [TaskNext]_taskVars
  PROVE RequestInv'
<1> USE DEF TaskTypes, TaskTypeOK, OpType, RunType, TaskStatus, Goto, NoOp, RequestInv,
         Past, Ending, Stopping, taskVars, pipeState, manager, chans, feed,
         Request, At
<1>1. ASSUME NEW c \in Clients, Start(c)
      PROVE RequestInv'
  BY <1>1 DEF Start
<1>2. ASSUME NEW c \in Clients, TaskStart(c)
      PROVE RequestInv'
  <2>1. CASE task = "running"
    <3>1. Moves(c, "none", "idle")
      BY Zenon, <1>2, <2>1, GotoMoves, SetMoves DEF TaskStart, Kinds, Places
    <3>2. UNCHANGED <<pipe, src, run>>
      BY Zenon, <1>2, <2>1 DEF TaskStart
    <3> HIDE DEF TaskTypes, TaskTypeOK, NoOp, Goto, Request, At
    <3> QED
      BY <2>1, <3>1, <3>2 DEF Moves
  <2>2. CASE task # "running"
    <3>1. Moves(c, "start", "pipe")
      BY <1>2, <2>2, GotoMoves, SetMoves DEF TaskStart, Kinds, Places
    <3>2. UNCHANGED <<pipe, src, run>>
      BY Zenon, <1>2, <2>2 DEF TaskStart
    <3> HIDE DEF TaskTypes, TaskTypeOK, NoOp, Goto, Request, At
    <3> QED
      BY <2>2, <3>1, <3>2 DEF Moves
  <2> QED
    BY Zenon, <2>1, <2>2
<1>3. ASSUME NEW c \in Clients, PipelineStart(c)
      PROVE RequestInv'
  BY <1>3 DEF PipelineStart
<1>4. ASSUME NEW c \in Clients, NEW ok \in BOOLEAN, StartSource(c, ok)
      PROVE RequestInv'
  BY <1>4 DEF StartSource
<1>5. ASSUME NEW c \in Clients, StartState(c)
      PROVE RequestInv'
  BY <1>5 DEF StartState
<1>6. ASSUME NEW c \in Clients, StartSpawn(c)
      PROVE RequestInv'
  BY <1>6 DEF StartSpawn
<1>7. ASSUME NEW c \in Clients, StartUpdate(c)
      PROVE RequestInv'
  BY <1>7 DEF StartUpdate
<1>8. ASSUME NEW c \in Clients, StartReturn(c)
      PROVE RequestInv'
  BY <1>8 DEF StartReturn
<1>9. ASSUME NEW c \in Clients, Stop(c)
      PROVE RequestInv'
  BY <1>9 DEF Stop
<1>10. ASSUME NEW c \in Clients, Delete(c)
      PROVE RequestInv'
  <2>1. CASE task = "running"
    BY SMTT(30), <1>10, <2>1 DEF Delete
  <2>2. CASE task # "running"
    BY <1>10, <2>2 DEF Delete
  <2> QED
    BY Zenon, <2>1, <2>2
<1>11. ASSUME NEW c \in Clients, TaskStop(c)
      PROVE RequestInv'
  <2>1. CASE task = "stopped"
    BY <1>11, <2>1 DEF TaskStop
  <2>2. CASE task # "stopped"
    BY <1>11, <2>2 DEF TaskStop
  <2> QED
    BY Zenon, <2>1, <2>2
<1>12. ASSUME NEW c \in Clients, PipelineStop(c)
      PROVE RequestInv'
  <2>1. CASE pipe \in {"stopped", "none"}
    <3>1. Moves(c, op[c].kind, "done")
      BY Zenon, <1>12, <2>1, GotoMoves, SetMoves DEF PipelineStop, Kinds, Places
    <3>2. Stopping(c) /\ UNCHANGED <<pipe, src, run>>
      BY Zenon, <1>12, <2>1 DEF PipelineStop
    <3> HIDE DEF TaskTypes, TaskTypeOK, NoOp, Goto, Request, At
    <3> QED
      BY <2>1, <3>1, <3>2 DEF Moves
  <2>2. CASE pipe \notin {"stopped", "none"}
    <3>1. Moves(c, op[c].kind, "close")
      BY Zenon, <1>12, <2>2, GotoMoves, SetMoves DEF PipelineStop, Kinds, Places
    <3>2. Stopping(c) /\ pipe' = "stopping" /\ UNCHANGED <<src, run>>
      BY Zenon, <1>12, <2>2 DEF PipelineStop
    <3> HIDE DEF TaskTypes, TaskTypeOK, NoOp, Goto, Request, At
    <3> QED
      BY <2>2, <3>1, <3>2 DEF Moves
  <2> QED
    BY Zenon, <2>1, <2>2
<1>13. ASSUME NEW c \in Clients, StopClose(c)
      PROVE RequestInv'
  BY <1>13 DEF StopClose
<1>14. ASSUME NEW c \in Clients, StopWait(c)
      PROVE RequestInv'
  BY <1>14 DEF StopWait
<1>15. ASSUME NEW c \in Clients, StopShut(c)
      PROVE RequestInv'
  BY <1>15 DEF StopShut
<1>16. ASSUME NEW c \in Clients, StopMark(c)
      PROVE RequestInv'
  BY <1>16 DEF StopMark
<1>17. ASSUME NEW c \in Clients, StopReturn(c)
      PROVE RequestInv'
  BY <1>17 DEF StopReturn
<1>18. ASSUME NEW c \in Clients, TaskPause(c)
      PROVE RequestInv'
  BY Zenon, <1>18 DEF TaskPause
<1>19. ASSUME NEW c \in Clients, TaskResume(c)
      PROVE RequestInv'
  BY Zenon, <1>19 DEF TaskResume
<1>20. ASSUME NEW c \in Clients, Pause(c)
      PROVE RequestInv'
  BY Zenon, <1>20 DEF Pause
<1>21. ASSUME NEW c \in Clients, Resume(c)
      PROVE RequestInv'
  BY Zenon, <1>21 DEF Resume
<1>22. ASSUME NEW r \in DOMAIN run, Cancel(r)
      PROVE RequestInv'
  BY <1>22 DEF Cancel
<1>23. ASSUME NEW r \in DOMAIN run, RunTake(r)
      PROVE RequestInv'
  BY <1>23 DEF RunTake
<1>24. ASSUME NEW r \in DOMAIN run, RunExit(r)
      PROVE RequestInv'
  BY <1>24 DEF RunExit
<1>25. ASSUME NEW r \in DOMAIN run, RunCheck(r)
      PROVE RequestInv'
  BY <1>25 DEF RunCheck
<1>26. ASSUME NEW r \in DOMAIN run, RunResumed(r)
      PROVE RequestInv'
  BY <1>26 DEF RunResumed
<1>27. ASSUME NEW r \in DOMAIN run, RunWrite(r)
      PROVE RequestInv'
  BY <1>27 DEF RunWrite
<1>28. ASSUME Emit
      PROVE RequestInv'
  BY Zenon, <1>28 DEF Emit
<1>29. ASSUME CloseEvents
      PROVE RequestInv'
  BY Zenon, <1>29 DEF CloseEvents
<1>30. ASSUME UNCHANGED taskVars
      PROVE RequestInv'
  BY Zenon, <1>30
<1> HIDE DEF RequestInv, TaskTypes
<1> QED
  BY Zenon, <1>1, <1>2, <1>3, <1>4, <1>5, <1>6, <1>7, <1>8, <1>9, <1>10, <1>11, <1>12, <1>13,
     <1>14, <1>15, <1>16, <1>17, <1>18, <1>19, <1>20, <1>21, <1>22, <1>23, <1>24, <1>25,
     <1>26, <1>27, <1>28, <1>29, <1>30
  DEF TaskNext, RequestStep, RunStep

\* Every step keeps a pipeline that is running or paused served.
LEMMA StepServed ==
  ASSUME TaskTypes, RequestInv, ServedInv, [TaskNext]_taskVars
  PROVE ServedInv'
<1> USE DEF TaskTypes, TaskTypeOK, OpType, RunType, TaskStatus, Goto, NoOp, RequestInv,
         ServedInv, Past, Ending, taskVars, pipeState, manager, chans, feed,
         Request, At
<1>1. ASSUME NEW c \in Clients, Start(c)
      PROVE ServedInv'
  BY <1>1 DEF Start
<1>2. ASSUME NEW c \in Clients, TaskStart(c)
      PROVE ServedInv'
  BY <1>2 DEF TaskStart
<1>3. ASSUME NEW c \in Clients, PipelineStart(c)
      PROVE ServedInv'
  <2>1. CASE pipe \in {"running", "none"}
    BY <1>3, <2>1 DEF PipelineStart
  <2>2. CASE pipe \notin {"running", "none"}
    BY <1>3, <2>2 DEF PipelineStart
  <2> QED
    BY Zenon, <2>1, <2>2
<1>4. ASSUME NEW c \in Clients, NEW ok \in BOOLEAN, StartSource(c, ok)
      PROVE ServedInv'
  BY <1>4 DEF StartSource
<1>5. ASSUME NEW c \in Clients, StartState(c)
      PROVE ServedInv'
  BY <1>5 DEF StartState
<1>6. ASSUME NEW c \in Clients, StartSpawn(c)
      PROVE ServedInv'
  BY <1>6 DEF StartSpawn
<1>7. ASSUME NEW c \in Clients, StartUpdate(c)
      PROVE ServedInv'
  BY <1>7 DEF StartUpdate
<1>8. ASSUME NEW c \in Clients, StartReturn(c)
      PROVE ServedInv'
  BY <1>8 DEF StartReturn
<1>9. ASSUME NEW c \in Clients, Stop(c)
      PROVE ServedInv'
  BY <1>9 DEF Stop
<1>10. ASSUME NEW c \in Clients, Delete(c)
      PROVE ServedInv'
  <2>1. CASE task = "running"
    BY <1>10, <2>1 DEF Delete
  <2>2. CASE task # "running"
    BY <1>10, <2>2 DEF Delete
  <2> QED
    BY Zenon, <2>1, <2>2
<1>11. ASSUME NEW c \in Clients, TaskStop(c)
      PROVE ServedInv'
  BY <1>11 DEF TaskStop
<1>12. ASSUME NEW c \in Clients, PipelineStop(c)
      PROVE ServedInv'
  BY <1>12 DEF PipelineStop
<1>13. ASSUME NEW c \in Clients, StopClose(c)
      PROVE ServedInv'
  BY <1>13 DEF StopClose
<1>14. ASSUME NEW c \in Clients, StopWait(c)
      PROVE ServedInv'
  BY <1>14 DEF StopWait
<1>15. ASSUME NEW c \in Clients, StopShut(c)
      PROVE ServedInv'
  BY <1>15 DEF StopShut
<1>16. ASSUME NEW c \in Clients, StopMark(c)
      PROVE ServedInv'
  BY <1>16 DEF StopMark
<1>17. ASSUME NEW c \in Clients, StopReturn(c)
      PROVE ServedInv'
  BY <1>17 DEF StopReturn
<1>18. ASSUME NEW c \in Clients, TaskPause(c)
      PROVE ServedInv'
  BY Zenon, <1>18 DEF TaskPause
<1>19. ASSUME NEW c \in Clients, TaskResume(c)
      PROVE ServedInv'
  BY <1>19 DEF TaskResume
<1>20. ASSUME NEW c \in Clients, Pause(c)
      PROVE ServedInv'
  BY Zenon, <1>20 DEF Pause
<1>21. ASSUME NEW c \in Clients, Resume(c)
      PROVE ServedInv'
  BY Zenon, <1>21 DEF Resume
<1>22. ASSUME NEW r \in DOMAIN run, Cancel(r)
      PROVE ServedInv'
  BY <1>22 DEF Cancel
<1>23. ASSUME NEW r \in DOMAIN run, RunTake(r)
      PROVE ServedInv'
  BY <1>23 DEF RunTake
<1>24. ASSUME NEW r \in DOMAIN run, RunExit(r)
      PROVE ServedInv'
  BY <1>24 DEF RunExit
<1>25. ASSUME NEW r \in DOMAIN run, RunCheck(r)
      PROVE ServedInv'
  BY <1>25 DEF RunCheck
<1>26. ASSUME NEW r \in DOMAIN run, RunResumed(r)
      PROVE ServedInv'
  BY <1>26 DEF RunResumed
<1>27. ASSUME NEW r \in DOMAIN run, RunWrite(r)
      PROVE ServedInv'
  BY <1>27 DEF RunWrite
<1>28. ASSUME Emit
      PROVE ServedInv'
  BY Zenon, <1>28 DEF Emit
<1>29. ASSUME CloseEvents
      PROVE ServedInv'
  BY <1>29 DEF CloseEvents
<1>30. ASSUME UNCHANGED taskVars
      PROVE ServedInv'
  BY Zenon, <1>30
<1> HIDE DEF RequestInv, TaskTypes, ServedInv
<1> QED
  BY Zenon, <1>1, <1>2, <1>3, <1>4, <1>5, <1>6, <1>7, <1>8, <1>9, <1>10, <1>11, <1>12, <1>13,
     <1>14, <1>15, <1>16, <1>17, <1>18, <1>19, <1>20, <1>21, <1>22, <1>23, <1>24, <1>25,
     <1>26, <1>27, <1>28, <1>29, <1>30
  DEF TaskNext, RequestStep, RunStep

\* Every step keeps pauseCh open while the pipeline is running.
LEMMA StepClash ==
  ASSUME TaskTypes, RequestInv, ~seen.clash => ClashInv, [TaskNext]_taskVars
  PROVE (~seen.clash => ClashInv)'
<1> USE DEF TaskTypes, TaskTypeOK, OpType, RunType, TaskStatus, Goto, NoOp, RequestInv,
         ClashInv, Past, Ending, InFlight, taskVars, pipeState, manager,
         chans, feed, Request, At
<1>1. ASSUME NEW c \in Clients, Start(c)
      PROVE (~seen.clash => ClashInv)'
  BY <1>1 DEF Start
<1>2. ASSUME NEW c \in Clients, TaskStart(c)
      PROVE (~seen.clash => ClashInv)'
  <2>1. CASE task = "running"
    <3>1. Moves(c, "none", "idle")
      BY Zenon, <1>2, <2>1, GotoMoves, SetMoves DEF TaskStart, Kinds, Places
    <3>2. UNCHANGED <<pipe, panicked, pauseCh, seen>>
      BY Zenon, <1>2, <2>1 DEF TaskStart
    <3> HIDE DEF TaskTypes, TaskTypeOK, NoOp, Goto, Request, At
    <3> QED
      BY <2>1, <3>1, <3>2 DEF Moves
  <2>2. CASE task # "running"
    <3>1. Moves(c, "start", "pipe")
      BY <1>2, <2>2, GotoMoves, SetMoves DEF TaskStart, Kinds, Places
    <3>2. UNCHANGED <<pipe, panicked, pauseCh, seen>>
      BY Zenon, <1>2, <2>2 DEF TaskStart
    <3> HIDE DEF TaskTypes, TaskTypeOK, NoOp, Goto, Request, At
    <3> QED
      BY <2>2, <3>1, <3>2 DEF Moves
  <2> QED
    BY Zenon, <2>1, <2>2
<1>3. ASSUME NEW c \in Clients, PipelineStart(c)
      PROVE (~seen.clash => ClashInv)'
  <2>1. CASE pipe \in {"running", "none"}
    BY <1>3, <2>1 DEF PipelineStart
  <2>2. CASE pipe \notin {"running", "none"}
    BY <1>3, <2>2 DEF PipelineStart
  <2> QED
    BY Zenon, <2>1, <2>2
<1>4. ASSUME NEW c \in Clients, NEW ok \in BOOLEAN, StartSource(c, ok)
      PROVE (~seen.clash => ClashInv)'
  <2>1. CASE ok = TRUE
    <3>1. Moves(c, op[c].kind, "state")
      BY Zenon, <1>4, <2>1, GotoMoves, SetMoves DEF StartSource, Kinds, Places
    <3>2. UNCHANGED <<pipe, panicked, pauseCh, seen>>
      BY Zenon, <1>4, <2>1 DEF StartSource
    <3> HIDE DEF TaskTypes, TaskTypeOK, NoOp, Goto, Request, At
    <3> QED
      BY <2>1, <3>1, <3>2 DEF Moves
  <2>2. CASE ok = FALSE
    <3>1. Moves(c, op[c].kind, "failed")
      BY Zenon, <1>4, <2>2, GotoMoves, SetMoves DEF StartSource, Kinds, Places
    <3>2. pipe' = "error" /\ UNCHANGED <<panicked, pauseCh, seen>>
      BY Zenon, <1>4, <2>2 DEF StartSource
    <3> HIDE DEF TaskTypes, TaskTypeOK, NoOp, Goto, Request, At
    <3> QED
      BY <2>2, <3>1, <3>2 DEF Moves
  <2> QED
    BY Zenon, <2>1, <2>2
<1>5. ASSUME NEW c \in Clients, StartState(c)
      PROVE (~seen.clash => ClashInv)'
  BY Zenon, <1>5 DEF StartState
<1>6. ASSUME NEW c \in Clients, StartSpawn(c)
      PROVE (~seen.clash => ClashInv)'
  BY Zenon, <1>6 DEF StartSpawn
<1>7. ASSUME NEW c \in Clients, StartUpdate(c)
      PROVE (~seen.clash => ClashInv)'
  BY Zenon, <1>7 DEF StartUpdate
<1>8. ASSUME NEW c \in Clients, StartReturn(c)
      PROVE (~seen.clash => ClashInv)'
  BY Zenon, <1>8 DEF StartReturn
<1>9. ASSUME NEW c \in Clients, Stop(c)
      PROVE (~seen.clash => ClashInv)'
  BY <1>9 DEF Stop
<1>10. ASSUME NEW c \in Clients, Delete(c)
      PROVE (~seen.clash => ClashInv)'
  <2>1. CASE task = "running"
    <3>1. Moves(c, "delete", "found")
      BY Zenon, <1>10, <2>1, SetMoves DEF Delete, Kinds, Places
    <3>2. seen'.clash = seen.clash /\ UNCHANGED <<pipe, panicked, pauseCh>>
      BY <1>10, <2>1 DEF Delete
    <3> QED
      BY <3>1, <3>2 DEF Moves
  <2>2. CASE task # "running"
    BY <1>10, <2>2 DEF Delete
  <2> QED
    BY Zenon, <2>1, <2>2
<1>11. ASSUME NEW c \in Clients, TaskStop(c)
      PROVE (~seen.clash => ClashInv)'
  BY <1>11 DEF TaskStop
<1>12. ASSUME NEW c \in Clients, PipelineStop(c)
      PROVE (~seen.clash => ClashInv)'
  BY <1>12 DEF PipelineStop
<1>13. ASSUME NEW c \in Clients, StopClose(c)
      PROVE (~seen.clash => ClashInv)'
  BY <1>13 DEF StopClose
<1>14. ASSUME NEW c \in Clients, StopWait(c)
      PROVE (~seen.clash => ClashInv)'
  BY <1>14 DEF StopWait
<1>15. ASSUME NEW c \in Clients, StopShut(c)
      PROVE (~seen.clash => ClashInv)'
  BY <1>15 DEF StopShut
<1>16. ASSUME NEW c \in Clients, StopMark(c)
      PROVE (~seen.clash => ClashInv)'
  BY <1>16 DEF StopMark
<1>17. ASSUME NEW c \in Clients, StopReturn(c)
      PROVE (~seen.clash => ClashInv)'
  BY Zenon, <1>17 DEF StopReturn
<1>18. ASSUME NEW c \in Clients, TaskPause(c)
      PROVE (~seen.clash => ClashInv)'
  BY Zenon, <1>18 DEF TaskPause
<1>19. ASSUME NEW c \in Clients, TaskResume(c)
      PROVE (~seen.clash => ClashInv)'
  BY Zenon, <1>19 DEF TaskResume
<1>20. ASSUME NEW c \in Clients, Pause(c)
      PROVE (~seen.clash => ClashInv)'
  BY Zenon, <1>20 DEF Pause
<1>21. ASSUME NEW c \in Clients, Resume(c)
      PROVE (~seen.clash => ClashInv)'
  BY Zenon, <1>21 DEF Resume
<1>22. ASSUME NEW r \in DOMAIN run, Cancel(r)
      PROVE (~seen.clash => ClashInv)'
  BY Zenon, <1>22 DEF Cancel
<1>23. ASSUME NEW r \in DOMAIN run, RunTake(r)
      PROVE (~seen.clash => ClashInv)'
  BY Zenon, <1>23 DEF RunTake
<1>24. ASSUME NEW r \in DOMAIN run, RunExit(r)
      PROVE (~seen.clash => ClashInv)'
  BY Zenon, <1>24 DEF RunExit
<1>25. ASSUME NEW r \in DOMAIN run, RunCheck(r)
      PROVE (~seen.clash => ClashInv)'
  BY Zenon, <1>25 DEF RunCheck
<1>26. ASSUME NEW r \in DOMAIN run, RunResumed(r)
      PROVE (~seen.clash => ClashInv)'
  BY <1>26 DEF RunResumed
<1>27. ASSUME NEW r \in DOMAIN run, RunWrite(r)
      PROVE (~seen.clash => ClashInv)'
  BY Zenon, <1>27 DEF RunWrite
<1>28. ASSUME Emit
      PROVE (~seen.clash => ClashInv)'
  BY Zenon, <1>28 DEF Emit
<1>29. ASSUME CloseEvents
      PROVE (~seen.clash => ClashInv)'
  BY Zenon, <1>29 DEF CloseEvents
<1>30. ASSUME UNCHANGED taskVars
      PROVE (~seen.clash => ClashInv)'
  BY Zenon, <1>30
<1> HIDE DEF RequestInv, TaskTypes, ClashInv
<1> QED
  BY Zenon, <1>1, <1>2, <1>3, <1>4, <1>5, <1>6, <1>7, <1>8, <1>9, <1>10, <1>11, <1>12, <1>13,
     <1>14, <1>15, <1>16, <1>17, <1>18, <1>19, <1>20, <1>21, <1>22, <1>23, <1>24, <1>25,
     <1>26, <1>27, <1>28, <1>29, <1>30
  DEF TaskNext, RequestStep, RunStep

\* What a Start, Stop or Delete that begins notes down.
LEMMA OverlapEffect ==
  ASSUME TaskTypes, NEW kinds,
         seen' = [seen EXCEPT !.overlap = @ \/ InFlight(kinds)]
  PROVE /\ seen'.overlap <=> (seen.overlap \/ InFlight(kinds))
        /\ seen'.late = seen.late /\ seen'.idleDelete = seen.idleDelete
<1>1. seen \in SeenType
  BY Zenon DEF TaskTypes, TaskTypeOK, SeenType
<1>2. PICK b \in BOOLEAN : b = (seen.overlap \/ InFlight(kinds))
  BY Zenon
<1>3. seen' = [seen EXCEPT !.overlap = b]
  BY <1>2, Zenon
<1>4. seen'.overlap = b /\ seen'.late = seen.late /\ seen'.idleDelete = seen.idleDelete
  BY Zenon, <1>1, <1>3 DEF SeenType
<1> QED
  BY Zenon, <1>2, <1>4

\* A Start that begins either overlaps or finds no Stop or Delete in flight.
LEMMA OrderStart ==
  ASSUME TaskTypes, RequestInv, ~seen.overlap => OrderInv,
         NEW c \in Clients, Start(c)
  PROVE (~seen.overlap => OrderInv)'
<1>1. Moves(c, "start", "found")
  BY Zenon, GotoMoves, SetMoves DEF Start, Kinds, Places, NoOp, TaskTypes, TaskTypeOK
<1>2. /\ seen'.overlap <=> (seen.overlap \/ InFlight({"stop", "delete"}))
      /\ seen'.late = seen.late /\ seen'.idleDelete = seen.idleDelete
  BY Zenon, OverlapEffect DEF Start
<1>3. /\ op[c].kind = "none"
      /\ ~seen'.overlap => ~seen.overlap /\ \A d \in Clients : ~Stopping(d)
      /\ exists
      /\ UNCHANGED <<exists, task, pipe, src, sinkUp, run>>
  BY <1>2 DEF Start, TaskTypes, TaskTypeOK, OpType, NoOp, InFlight, Stopping,
         pipeState, manager, chans, feed, Request, At
<1> QED
  BY <1>1, <1>2, <1>3 DEF OrderInv, RequestInv, Moves, Stopping, AllGone, Past, Ending

\* Task.Start leaves the status "stopped" behind.
LEMMA OrderTaskStart ==
  ASSUME TaskTypes, RequestInv, ~seen.overlap => OrderInv,
         NEW c \in Clients, TaskStart(c)
  PROVE (~seen.overlap => OrderInv)'
<1>1. CASE task = "running"
  <2>1. Moves(c, "none", "idle")
    BY Zenon, <1>1, GotoMoves, SetMoves DEF TaskStart, Kinds, Places, NoOp, TaskTypes, TaskTypeOK
  <2>2. /\ op[c].kind = "start" /\ op[c].pc = "found"
        /\ UNCHANGED <<exists, task, pipe, src, sinkUp, run, seen>>
    BY Zenon, <1>1 DEF TaskStart, TaskTypes, TaskTypeOK, OpType, NoOp, InFlight, Stopping,
           pipeState, manager, chans, feed, Request, At
  <2> QED
    BY <1>1, <2>1, <2>2 DEF OrderInv, RequestInv, Moves, Stopping, AllGone, Past, Ending
<1>2. CASE task # "running"
  <2>1. Moves(c, "start", "pipe")
    BY <1>2, GotoMoves, SetMoves DEF TaskStart, Kinds, Places, NoOp, TaskTypes, TaskTypeOK
  <2>2. /\ op[c].kind = "start" /\ op[c].pc = "found"
        /\ task' = "starting"
        /\ UNCHANGED <<exists, pipe, src, sinkUp, run, seen>>
    BY Zenon, <1>2 DEF TaskStart, TaskTypes, TaskTypeOK, OpType, NoOp, InFlight, Stopping,
           pipeState, manager, chans, feed, Request, At
  <2> QED
    BY <1>2, <2>1, <2>2 DEF OrderInv, RequestInv, Moves, Stopping, AllGone, Past, Ending
<1> QED
  BY Zenon, <1>1, <1>2

\* Pipeline.Start leaves the status "stopped" behind.
LEMMA OrderPipelineStart ==
  ASSUME TaskTypes, RequestInv, ~seen.overlap => OrderInv,
         NEW c \in Clients, PipelineStart(c)
  PROVE (~seen.overlap => OrderInv)'
<1>1. CASE pipe \in {"running", "none"}
  <2>1. Moves(c, "start", "failed")
    BY <1>1, GotoMoves, SetMoves DEF PipelineStart, Kinds, Places, NoOp, TaskTypes, TaskTypeOK
  <2>2. /\ op[c].kind = "start" /\ op[c].pc = "pipe"
        /\ UNCHANGED <<exists, task, pipe, src, sinkUp, run, seen>>
    BY Zenon, <1>1 DEF PipelineStart, TaskTypes, TaskTypeOK, OpType, NoOp, InFlight, Stopping,
           pipeState, manager, chans, feed, Request, At
  <2> QED
    BY <1>1, <2>1, <2>2 DEF OrderInv, RequestInv, Moves, Stopping, AllGone, Past, Ending
<1>2. CASE pipe \notin {"running", "none"}
  <2>1. Moves(c, "start", "source")
    BY <1>2, GotoMoves, SetMoves DEF PipelineStart, Kinds, Places, NoOp, TaskTypes, TaskTypeOK
  <2>2. /\ op[c].kind = "start" /\ op[c].pc = "pipe"
        /\ pipe' = "starting"
        /\ seen'.overlap = seen.overlap /\ seen'.late = seen.late /\ seen'.idleDelete = seen.idleDelete
        /\ UNCHANGED <<exists, task, src, sinkUp, run>>
    BY Zenon, <1>2 DEF PipelineStart, TaskTypes, TaskTypeOK, OpType, NoOp, InFlight, Stopping,
           pipeState, manager, chans, feed, Request, At
  <2> QED
    BY <1>2, <2>1, <2>2 DEF OrderInv, RequestInv, Moves, Stopping, AllGone, Past, Ending
<1> QED
  BY Zenon, <1>1, <1>2

\* A source that starts was stopped, so no goroutine lives and no other Start is as far.
LEMMA OrderStartSource ==
  ASSUME TaskTypes, RequestInv, ~seen.overlap => OrderInv,
         NEW c \in Clients, NEW ok \in BOOLEAN, StartSource(c, ok)
  PROVE (~seen.overlap => OrderInv)'
<1>1. CASE ok = TRUE
  <2>1. Moves(c, op[c].kind, "state")
    BY Zenon, <1>1, GotoMoves, SetMoves DEF StartSource, Kinds, Places, NoOp, TaskTypes, TaskTypeOK
  <2>2. /\ op[c].pc = "source" /\ ~src
        /\ src' /\ sinkUp'
        /\ UNCHANGED <<exists, task, pipe, run, seen>>
    BY Zenon, <1>1 DEF StartSource, TaskTypes, TaskTypeOK, OpType, NoOp, InFlight, Stopping,
           pipeState, manager, chans, feed, Request, At
  <2> QED
    BY <1>1, <2>1, <2>2 DEF OrderInv, RequestInv, Moves, Stopping, AllGone, Past, Ending
<1>2. CASE ok = FALSE
  <2>1. Moves(c, op[c].kind, "failed")
    BY Zenon, <1>2, GotoMoves, SetMoves DEF StartSource, Kinds, Places, NoOp, TaskTypes, TaskTypeOK
  <2>2. /\ op[c].pc = "source"
        /\ pipe' = "error"
        /\ UNCHANGED <<exists, task, src, sinkUp, run, seen>>
    BY Zenon, <1>2 DEF StartSource, TaskTypes, TaskTypeOK, OpType, NoOp, InFlight, Stopping,
           pipeState, manager, chans, feed, Request, At
  <2> QED
    BY <1>2, <2>1, <2>2 DEF OrderInv, RequestInv, Moves, Stopping, AllGone, Past, Ending
<1> QED
  BY Zenon, <1>1, <1>2

\* A Stop that begins either overlaps or finds no Start in flight.
LEMMA OrderStop ==
  ASSUME TaskTypes, RequestInv, ~seen.overlap => OrderInv,
         NEW c \in Clients, Stop(c)
  PROVE (~seen.overlap => OrderInv)'
<1>1. Moves(c, "stop", "found")
  BY Zenon, GotoMoves, SetMoves DEF Stop, Kinds, Places, NoOp, TaskTypes, TaskTypeOK
<1>2. /\ seen'.overlap <=> (seen.overlap \/ InFlight({"start"}))
      /\ seen'.late = seen.late /\ seen'.idleDelete = seen.idleDelete
  BY Zenon, OverlapEffect DEF Stop
<1>3. /\ op[c].kind = "none"
      /\ ~seen'.overlap => ~seen.overlap /\ \A d \in Clients : op[d].kind # "start"
      /\ exists
      /\ UNCHANGED <<exists, task, pipe, src, sinkUp, run>>
  BY <1>2 DEF Stop, TaskTypes, TaskTypeOK, OpType, NoOp, InFlight, Stopping,
         pipeState, manager, chans, feed, Request, At
<1> QED
  BY SMTT(30), <1>1, <1>2, <1>3 DEF OrderInv, RequestInv, Moves, Stopping, AllGone, Past, Ending

\* A Delete that stops the task begins like a Stop; one that does not is noted.
LEMMA OrderDelete ==
  ASSUME TaskTypes, RequestInv, ~seen.overlap => OrderInv,
         NEW c \in Clients, Delete(c)
  PROVE (~seen.overlap => OrderInv)'
<1>1. CASE task = "running"
  <2>1. Moves(c, "delete", "found")
    BY Zenon, <1>1, GotoMoves, SetMoves DEF Delete, Kinds, Places, NoOp, TaskTypes, TaskTypeOK
  <2>2. /\ seen'.overlap <=> (seen.overlap \/ InFlight({"start"}))
        /\ seen'.late = seen.late /\ seen'.idleDelete = seen.idleDelete
    BY Zenon, <1>1, OverlapEffect DEF Delete
  <2>3. /\ op[c].kind = "none"
        /\ ~seen'.overlap => ~seen.overlap /\ \A d \in Clients : op[d].kind # "start"
        /\ exists
        /\ UNCHANGED <<exists, task, pipe, src, sinkUp, run>>
    BY SMTT(30), <1>1, <2>2 DEF Delete, TaskTypes, TaskTypeOK, OpType, NoOp, InFlight, Stopping,
           pipeState, manager, chans, feed, Request, At
  <2> QED
    BY <1>1, <2>1, <2>2, <2>3 DEF OrderInv, RequestInv, Moves, Stopping, AllGone, Past, Ending
<1>2. CASE task # "running"
  <2>1. /\ UNCHANGED <<op, task, pipe, src, sinkUp, run>>
        /\ seen'.overlap = seen.overlap /\ seen'.late = seen.late
        /\ ~exists' => seen'.idleDelete
    BY Zenon, <1>2 DEF Delete, TaskTypes, TaskTypeOK, pipeState, chans, feed
  <2> QED
    BY <2>1 DEF OrderInv, Stopping, AllGone
<1> QED
  BY Zenon, <1>1, <1>2

\* Task.Stop has nothing to do for a stopped task, which has no goroutine.
LEMMA OrderTaskStop ==
  ASSUME TaskTypes, RequestInv, ~seen.overlap => OrderInv,
         NEW c \in Clients, TaskStop(c)
  PROVE (~seen.overlap => OrderInv)'
<1>1. CASE task = "stopped"
  <2>1. Moves(c, op[c].kind, "noop")
    BY Zenon, <1>1, GotoMoves, SetMoves DEF TaskStop, Kinds, Places, NoOp, TaskTypes, TaskTypeOK
  <2>2. /\ Stopping(c) /\ op[c].pc = "found"
        /\ UNCHANGED <<exists, task, pipe, src, sinkUp, run, seen>>
    BY Zenon, <1>1 DEF TaskStop, TaskTypes, TaskTypeOK, OpType, NoOp, InFlight, Stopping,
           pipeState, manager, chans, feed, Request, At
  <2> QED
    BY <1>1, <2>1, <2>2 DEF OrderInv, RequestInv, Moves, Stopping, AllGone, Past, Ending
<1>2. CASE task # "stopped"
  <2>1. Moves(c, op[c].kind, "pipe")
    BY Zenon, <1>2, GotoMoves, SetMoves DEF TaskStop, Kinds, Places, NoOp, TaskTypes, TaskTypeOK
  <2>2. /\ Stopping(c) /\ op[c].pc = "found"
        /\ task' = "stopping"
        /\ UNCHANGED <<exists, pipe, src, sinkUp, run, seen>>
    BY Zenon, <1>2 DEF TaskStop, TaskTypes, TaskTypeOK, OpType, NoOp, InFlight, Stopping,
           pipeState, manager, chans, feed, Request, At
  <2> QED
    BY <1>2, <2>1, <2>2 DEF OrderInv, RequestInv, Moves, Stopping, AllGone, Past, Ending
<1> QED
  BY Zenon, <1>1, <1>2

\* Pipeline.Stop has nothing to do for a stopped pipeline, which has no goroutine.
LEMMA OrderPipelineStop ==
  ASSUME TaskTypes, RequestInv, ~seen.overlap => OrderInv,
         NEW c \in Clients, PipelineStop(c)
  PROVE (~seen.overlap => OrderInv)'
<1>1. CASE pipe \in {"stopped", "none"}
  <2>1. Moves(c, op[c].kind, "done")
    BY Zenon, <1>1, GotoMoves, SetMoves DEF PipelineStop, Kinds, Places, NoOp, TaskTypes, TaskTypeOK
  <2>2. /\ Stopping(c) /\ op[c].pc = "pipe"
        /\ UNCHANGED <<exists, task, pipe, src, sinkUp, run, seen>>
    BY Zenon, <1>1 DEF PipelineStop, TaskTypes, TaskTypeOK, OpType, NoOp, InFlight, Stopping,
           pipeState, manager, chans, feed, Request, At
  <2> QED
    BY <1>1, <2>1, <2>2 DEF OrderInv, RequestInv, Moves, Stopping, AllGone, Past, Ending
<1>2. CASE pipe \notin {"stopped", "none"}
  <2>1. Moves(c, op[c].kind, "close")
    BY Zenon, <1>2, GotoMoves, SetMoves DEF PipelineStop, Kinds, Places, NoOp, TaskTypes, TaskTypeOK
  <2>2. /\ Stopping(c) /\ op[c].pc = "pipe"
        /\ pipe' = "stopping"
        /\ seen'.overlap = seen.overlap /\ seen'.late = seen.late /\ seen'.idleDelete = seen.idleDelete
        /\ UNCHANGED <<exists, task, src, sinkUp, run>>
    BY Zenon, <1>2 DEF PipelineStop, TaskTypes, TaskTypeOK, OpType, NoOp, InFlight, Stopping,
           pipeState, manager, chans, feed, Request, At
  <2> QED
    BY <1>2, <2>1, <2>2 DEF OrderInv, RequestInv, Moves, Stopping, AllGone, Past, Ending
<1> QED
  BY Zenon, <1>1, <1>2

\* Every step keeps what a stop, and the absence of one, imply.
LEMMA StepOrder ==
  ASSUME TaskTypes, RequestInv, ~seen.overlap => OrderInv, [TaskNext]_taskVars
  PROVE (~seen.overlap => OrderInv)'
<1> USE DEF TaskTypes, TaskTypeOK, OpType, RunType, TaskStatus, Goto, NoOp, RequestInv,
         OrderInv, Past, Ending, Stopping, AllGone, InFlight, taskVars,
         pipeState, manager, chans, feed, Request, At
<1>1. ASSUME NEW c \in Clients, Start(c)
      PROVE (~seen.overlap => OrderInv)'
  BY Zenon, <1>1, OrderStart
<1>2. ASSUME NEW c \in Clients, TaskStart(c)
      PROVE (~seen.overlap => OrderInv)'
  BY Zenon, <1>2, OrderTaskStart
<1>3. ASSUME NEW c \in Clients, PipelineStart(c)
      PROVE (~seen.overlap => OrderInv)'
  BY Zenon, <1>3, OrderPipelineStart
<1>4. ASSUME NEW c \in Clients, NEW ok \in BOOLEAN, StartSource(c, ok)
      PROVE (~seen.overlap => OrderInv)'
  BY <1>4, OrderStartSource
<1>5. ASSUME NEW c \in Clients, StartState(c)
      PROVE (~seen.overlap => OrderInv)'
  BY <1>5 DEF StartState
<1>6. ASSUME NEW c \in Clients, StartSpawn(c)
      PROVE (~seen.overlap => OrderInv)'
  BY <1>6 DEF StartSpawn
<1>7. ASSUME NEW c \in Clients, StartUpdate(c)
      PROVE (~seen.overlap => OrderInv)'
  BY <1>7 DEF StartUpdate
<1>8. ASSUME NEW c \in Clients, StartReturn(c)
      PROVE (~seen.overlap => OrderInv)'
  BY <1>8 DEF StartReturn
<1>9. ASSUME NEW c \in Clients, Stop(c)
      PROVE (~seen.overlap => OrderInv)'
  BY Zenon, <1>9, OrderStop
<1>10. ASSUME NEW c \in Clients, Delete(c)
      PROVE (~seen.overlap => OrderInv)'
  BY Zenon, <1>10, OrderDelete
<1>11. ASSUME NEW c \in Clients, TaskStop(c)
      PROVE (~seen.overlap => OrderInv)'
  BY Zenon, <1>11, OrderTaskStop
<1>12. ASSUME NEW c \in Clients, PipelineStop(c)
      PROVE (~seen.overlap => OrderInv)'
  BY Zenon, <1>12, OrderPipelineStop
<1>13. ASSUME NEW c \in Clients, StopClose(c)
      PROVE (~seen.overlap => OrderInv)'
  BY <1>13 DEF StopClose
<1>14. ASSUME NEW c \in Clients, StopWait(c)
      PROVE (~seen.overlap => OrderInv)'
  BY <1>14 DEF StopWait
<1>15. ASSUME NEW c \in Clients, StopShut(c)
      PROVE (~seen.overlap => OrderInv)'
  BY <1>15 DEF StopShut
<1>16. ASSUME NEW c \in Clients, StopMark(c)
      PROVE (~seen.overlap => OrderInv)'
  BY <1>16 DEF StopMark
<1>17. ASSUME NEW c \in Clients, StopReturn(c)
      PROVE (~seen.overlap => OrderInv)'
  BY <1>17 DEF StopReturn
<1>18. ASSUME NEW c \in Clients, TaskPause(c)
      PROVE (~seen.overlap => OrderInv)'
  BY <1>18 DEF TaskPause
<1>19. ASSUME NEW c \in Clients, TaskResume(c)
      PROVE (~seen.overlap => OrderInv)'
  BY <1>19 DEF TaskResume
<1>20. ASSUME NEW c \in Clients, Pause(c)
      PROVE (~seen.overlap => OrderInv)'
  BY <1>20 DEF Pause
<1>21. ASSUME NEW c \in Clients, Resume(c)
      PROVE (~seen.overlap => OrderInv)'
  BY <1>21 DEF Resume
<1>22. ASSUME NEW r \in DOMAIN run, Cancel(r)
      PROVE (~seen.overlap => OrderInv)'
  BY <1>22 DEF Cancel
<1>23. ASSUME NEW r \in DOMAIN run, RunTake(r)
      PROVE (~seen.overlap => OrderInv)'
  BY <1>23 DEF RunTake
<1>24. ASSUME NEW r \in DOMAIN run, RunExit(r)
      PROVE (~seen.overlap => OrderInv)'
  BY <1>24 DEF RunExit
<1>25. ASSUME NEW r \in DOMAIN run, RunCheck(r)
      PROVE (~seen.overlap => OrderInv)'
  BY <1>25 DEF RunCheck
<1>26. ASSUME NEW r \in DOMAIN run, RunResumed(r)
      PROVE (~seen.overlap => OrderInv)'
  BY <1>26 DEF RunResumed
<1>27. ASSUME NEW r \in DOMAIN run, RunWrite(r)
      PROVE (~seen.overlap => OrderInv)'
  BY SMTT(30), <1>27 DEF RunWrite
<1>28. ASSUME Emit
      PROVE (~seen.overlap => OrderInv)'
  BY <1>28 DEF Emit
<1>29. ASSUME CloseEvents
      PROVE (~seen.overlap => OrderInv)'
  BY <1>29 DEF CloseEvents
<1>30. ASSUME UNCHANGED taskVars
      PROVE (~seen.overlap => OrderInv)'
  BY <1>30
<1> HIDE DEF RequestInv, TaskTypes, OrderInv
<1> QED
  BY Zenon, <1>1, <1>2, <1>3, <1>4, <1>5, <1>6, <1>7, <1>8, <1>9, <1>10, <1>11, <1>12, <1>13,
     <1>14, <1>15, <1>16, <1>17, <1>18, <1>19, <1>20, <1>21, <1>22, <1>23, <1>24, <1>25,
     <1>26, <1>27, <1>28, <1>29, <1>30
  DEF TaskNext, RequestStep, RunStep

\* Every step keeps a paused pipeline quiet.
LEMMA StepQuiet ==
  ASSUME TaskTypes, RequestInv,
         ~seen.overlap => OrderInv, ~seen.overlap /\ ~seen.clash => QuietInv, [TaskNext]_taskVars
  PROVE (~seen.overlap /\ ~seen.clash => QuietInv)'
<1> USE DEF TaskTypes, TaskTypeOK, OpType, RunType, TaskStatus, Goto, NoOp, RequestInv,
         OrderInv, QuietInv, Past, Ending, Stopping, AllGone, InFlight,
         taskVars, pipeState, manager, chans, feed, Request, At
<1>1. ASSUME NEW c \in Clients, Start(c)
      PROVE (~seen.overlap /\ ~seen.clash => QuietInv)'
  BY <1>1 DEF Start
<1>2. ASSUME NEW c \in Clients, TaskStart(c)
      PROVE (~seen.overlap /\ ~seen.clash => QuietInv)'
  BY <1>2 DEF TaskStart
<1>3. ASSUME NEW c \in Clients, PipelineStart(c)
      PROVE (~seen.overlap /\ ~seen.clash => QuietInv)'
  BY <1>3 DEF PipelineStart
<1>4. ASSUME NEW c \in Clients, NEW ok \in BOOLEAN, StartSource(c, ok)
      PROVE (~seen.overlap /\ ~seen.clash => QuietInv)'
  BY Zenon, <1>4 DEF StartSource
<1>5. ASSUME NEW c \in Clients, StartState(c)
      PROVE (~seen.overlap /\ ~seen.clash => QuietInv)'
  BY Zenon, <1>5 DEF StartState
<1>6. ASSUME NEW c \in Clients, StartSpawn(c)
      PROVE (~seen.overlap /\ ~seen.clash => QuietInv)'
  BY <1>6 DEF StartSpawn
<1>7. ASSUME NEW c \in Clients, StartUpdate(c)
      PROVE (~seen.overlap /\ ~seen.clash => QuietInv)'
  BY <1>7 DEF StartUpdate
<1>8. ASSUME NEW c \in Clients, StartReturn(c)
      PROVE (~seen.overlap /\ ~seen.clash => QuietInv)'
  BY <1>8 DEF StartReturn
<1>9. ASSUME NEW c \in Clients, Stop(c)
      PROVE (~seen.overlap /\ ~seen.clash => QuietInv)'
  BY <1>9 DEF Stop
<1>10. ASSUME NEW c \in Clients, Delete(c)
      PROVE (~seen.overlap /\ ~seen.clash => QuietInv)'
  <2>1. CASE task = "running"
    BY <1>10, <2>1 DEF Delete
  <2>2. CASE task # "running"
    BY <1>10, <2>2 DEF Delete
  <2> QED
    BY Zenon, <2>1, <2>2
<1>11. ASSUME NEW c \in Clients, TaskStop(c)
      PROVE (~seen.overlap /\ ~seen.clash => QuietInv)'
  BY <1>11 DEF TaskStop
<1>12. ASSUME NEW c \in Clients, PipelineStop(c)
      PROVE (~seen.overlap /\ ~seen.clash => QuietInv)'
  BY <1>12 DEF PipelineStop
<1>13. ASSUME NEW c \in Clients, StopClose(c)
      PROVE (~seen.overlap /\ ~seen.clash => QuietInv)'
  BY <1>13 DEF StopClose
<1>14. ASSUME NEW c \in Clients, StopWait(c)
      PROVE (~seen.overlap /\ ~seen.clash => QuietInv)'
  BY <1>14 DEF StopWait
<1>15. ASSUME NEW c \in Clients, StopShut(c)
      PROVE (~seen.overlap /\ ~seen.clash => QuietInv)'
  BY <1>15 DEF StopShut
<1>16. ASSUME NEW c \in Clients, StopMark(c)
      PROVE (~seen.overlap /\ ~seen.clash => QuietInv)'
  BY <1>16 DEF StopMark
<1>17. ASSUME NEW c \in Clients, StopReturn(c)
      PROVE (~seen.overlap /\ ~seen.clash => QuietInv)'
  BY <1>17 DEF StopReturn
<1>18. ASSUME NEW c \in Clients, TaskPause(c)
      PROVE (~seen.overlap /\ ~seen.clash => QuietInv)'
  BY Zenon, <1>18 DEF TaskPause
<1>19. ASSUME NEW c \in Clients, TaskResume(c)
      PROVE (~seen.overlap /\ ~seen.clash => QuietInv)'
  BY Zenon, <1>19 DEF TaskResume
<1>20. ASSUME NEW c \in Clients, Pause(c)
      PROVE (~seen.overlap /\ ~seen.clash => QuietInv)'
  <2>1. seen'.since = 0 /\ (seen'.clash <=> (seen.clash \/ InFlight({"start"})))
    BY Zenon, <1>20, SeenEffect
  <2>2. pipe' = "paused" /\ UNCHANGED op
    BY Zenon, <1>20 DEF Pause
  <2> QED
    BY <2>1, <2>2
<1>21. ASSUME NEW c \in Clients, Resume(c)
      PROVE (~seen.overlap /\ ~seen.clash => QuietInv)'
  BY <1>21 DEF Resume
<1>22. ASSUME NEW r \in DOMAIN run, Cancel(r)
      PROVE (~seen.overlap /\ ~seen.clash => QuietInv)'
  BY <1>22 DEF Cancel
<1>23. ASSUME NEW r \in DOMAIN run, RunTake(r)
      PROVE (~seen.overlap /\ ~seen.clash => QuietInv)'
  BY <1>23 DEF RunTake
<1>24. ASSUME NEW r \in DOMAIN run, RunExit(r)
      PROVE (~seen.overlap /\ ~seen.clash => QuietInv)'
  BY <1>24 DEF RunExit
<1>25. ASSUME NEW r \in DOMAIN run, RunCheck(r)
      PROVE (~seen.overlap /\ ~seen.clash => QuietInv)'
  BY <1>25 DEF RunCheck
<1>26. ASSUME NEW r \in DOMAIN run, RunResumed(r)
      PROVE (~seen.overlap /\ ~seen.clash => QuietInv)'
  BY <1>26 DEF RunResumed
<1>27. ASSUME NEW r \in DOMAIN run, RunWrite(r)
      PROVE (~seen.overlap /\ ~seen.clash => QuietInv)'
  <2>1. /\ seen'.since = IF seen.since >= 0 THEN seen.since + 1 ELSE seen.since
        /\ seen'.overlap = seen.overlap /\ seen'.clash = seen.clash
    BY <1>27, SeenEffect
  <2>2. /\ RunMoves(r, "loop", run[r].waits, run[r].cancelled)
        /\ run[r].pc = "write"
        /\ UNCHANGED <<pipe, op, resumed>>
    BY Zenon, <1>27, GoroutineEffect DEF RunWrite
  <2>3. seen.since \in Int
    BY Zenon
  <2>4. CASE ~seen.overlap /\ ~seen.clash /\ seen.since >= 0
    <3>1. QuietInv /\ run[r].pc = "write" /\ r \in DOMAIN run
      BY Zenon, <2>2, <2>4
    <3>2. OrderInv
      BY SMTT(30), <2>4
    <3> HIDE DEF TaskTypes, TaskTypeOK, RequestInv, NoOp, Goto, Request, At
    <3>3. \A q \in DOMAIN run : q # r => run[q].pc = "gone"
      BY <3>1, <3>2
    <3>4. pipe = "paused" /\ \A c \in Clients : op[c].pc \notin Past
      BY Zenon, <2>4, <3>1
    <3>5. seen.since = 0
      BY <2>3, <2>4, <3>1
    <3>6. seen'.since = 1
      BY <2>1, <3>5
    <3>7. \A q \in DOMAIN run' : run'[q].pc \in {"loop", "gone"}
      BY <2>2, <3>3 DEF RunMoves
    <3> QED
      BY <2>2, <3>4, <3>6, <3>7
  <2>5. CASE ~(~seen.overlap /\ ~seen.clash /\ seen.since >= 0)
    BY Zenon, <2>1, <2>3, <2>5
  <2> QED
    BY Zenon, <2>4, <2>5
<1>28. ASSUME Emit
      PROVE (~seen.overlap /\ ~seen.clash => QuietInv)'
  BY Zenon, <1>28 DEF Emit
<1>29. ASSUME CloseEvents
      PROVE (~seen.overlap /\ ~seen.clash => QuietInv)'
  BY Zenon, <1>29 DEF CloseEvents
<1>30. ASSUME UNCHANGED taskVars
      PROVE (~seen.overlap /\ ~seen.clash => QuietInv)'
  BY Zenon, <1>30
<1> HIDE DEF RequestInv, TaskTypes, OrderInv, QuietInv
<1> QED
  BY Zenon, <1>1, <1>2, <1>3, <1>4, <1>5, <1>6, <1>7, <1>8, <1>9, <1>10, <1>11, <1>12, <1>13,
     <1>14, <1>15, <1>16, <1>17, <1>18, <1>19, <1>20, <1>21, <1>22, <1>23, <1>24, <1>25,
     <1>26, <1>27, <1>28, <1>29, <1>30
  DEF TaskNext, RequestStep, RunStep

-----------------------------------------------------------------------------
(* The invariant and the properties that follow from it.                   *)

\* Nothing has been asked of a new task.
LEMMA TaskInvInit == TaskInit => TaskInv
<1> SUFFICES ASSUME TaskInit
             PROVE TaskInv
  BY Zenon
<1>1. TaskTypes
  <2>1. /\ exists \in BOOLEAN /\ stopCh \in BOOLEAN /\ pauseCh \in BOOLEAN /\ src \in BOOLEAN
        /\ closed \in BOOLEAN /\ sinkUp \in BOOLEAN /\ panicked \in BOOLEAN
    BY Zenon DEF TaskInit
  <2>2. op \in [Clients -> OpType]
    BY Zenon DEF TaskInit, OpType, NoOp
  <2>3. seen \in SeenType
    BY DEF TaskInit, SeenType
  <2>4. /\ mgr \in Clients \cup {0} /\ task \in TaskStatus /\ pipe \in TaskStatus \cup {"none"}
        /\ ops \in Nat /\ resumeCh \in Nat /\ sent \in Nat /\ taken \in Nat /\ taken <= sent
        /\ resumed \subseteq 0..(resumeCh - 1)
        /\ run \in Seq(RunType)
    BY DEF TaskInit, TaskStatus
  <2> QED
    BY Zenon, <2>1, <2>2, <2>3, <2>4 DEF TaskTypes, TaskTypeOK, SeenType
<1>2. /\ \A c \in Clients : op[c].pc = "idle" /\ op[c].kind = "none"
      /\ run = <<>> /\ DOMAIN run = {} /\ ~src /\ ~pauseCh /\ ~panicked
      /\ exists /\ task = "created" /\ pipe \in {"created", "none"}
      /\ seen.since < 0 /\ ~seen.late
  BY DEF TaskInit, NoOp
<1>3. RequestInv
  BY Zenon, <1>2 DEF RequestInv, Past, Ending, Stopping
<1>4. OrderInv
  BY Zenon, <1>2 DEF OrderInv, Past, Ending, Stopping, AllGone
<1>5. ClashInv
  BY Zenon, <1>2 DEF ClashInv
<1>6. QuietInv
  BY <1>2, <1>1 DEF QuietInv, TaskTypes, TaskTypeOK
<1>7. ServedInv
  BY Zenon, <1>2 DEF ServedInv
<1> QED
  BY Zenon, <1>1, <1>3, <1>4, <1>5, <1>6, <1>7 DEF TaskInv

\* Every step keeps the invariant.
LEMMA TaskInvStep == TaskInv /\ [TaskNext]_taskVars => TaskInv'
BY Zenon, StepTaskTypes, StepRequest, StepServed, StepClash, StepOrder, StepQuiet DEF TaskInv

\* So it holds throughout.
LEMMA TaskInvHolds == TaskSpec => []TaskInv
BY TaskInvInit, TaskInvStep, PTL DEF TaskSpec

\* Every variable keeps its type; no goroutine takes more events than the source sent.
THEOREM TaskTypeCorrect == TaskSpec => []TaskTypeOK
<1>1. TaskInv => TaskTypeOK
  BY Zenon DEF TaskInv, TaskTypes
<1> QED
  BY <1>1, TaskInvHolds, PTL

\* However many clients send requests, no event is written to sinks that Stop has
\* stopped unless a Start and a Stop were in flight at the same time.
THEOREM StoppedSinksSafe == TaskSpec => []NoWriteToStoppedSinks
<1>1. TaskInv => NoWriteToStoppedSinks
  BY Zenon DEF TaskInv, OrderInv, NoWriteToStoppedSinks
<1> QED
  BY <1>1, TaskInvHolds, PTL

\* However many goroutines and clients there are, Pause lets at most one event through
\* and closes its channel once, but for a Pause inside a Start or an overlapping Stop.
THEOREM PauseSafe == TaskSpec => []PauseHolds
<1>1. TaskInv => PauseHolds
  <2> SUFFICES ASSUME TaskInv
               PROVE PauseHolds
    BY Zenon
  <2>1. seen.since \in Int
    BY Zenon DEF TaskInv, TaskTypes, TaskTypeOK
  <2>2. ~seen.overlap /\ ~seen.clash => seen.since <= 1
    BY <2>1 DEF TaskInv, QuietInv
  <2>3. panicked => seen.clash
    BY Zenon DEF TaskInv, ClashInv
  <2> QED
    BY Zenon, <2>2, <2>3 DEF PauseHolds
<1> QED
  BY <1>1, TaskInvHolds, PTL

\* A task that Delete stopped and removed leaves no goroutine and no running source.
THEOREM DeleteSafe == TaskSpec => []DeletedIsGone
<1>1. TaskInv => DeletedIsGone
  BY Zenon DEF TaskInv, OrderInv, DeletedIsGone, AllGone
<1> QED
  BY <1>1, TaskInvHolds, PTL

\* A pipeline that says it is running or paused has a goroutine, or one of the three
\* reasons for which a goroutine ends: stopCh, its context, the closed source.
THEOREM ServedSafe == TaskSpec => []RunningIsServed
<1>1. TaskInv => RunningIsServed
  <2> SUFFICES ASSUME TaskInv, pipe \in {"running", "paused"}, \A c \in Clients : op[c] = NoOp
               PROVE \/ \E r \in DOMAIN run : run[r].pc # "gone"
                     \/ stopCh \/ closed \/ \E r \in DOMAIN run : run[r].cancelled
    BY Zenon DEF RunningIsServed
  <2>1. \A c \in Clients : op[c].pc # "spawn"
    BY DEF NoOp
  <2>2. run # <<>> /\ run \in Seq(RunType)
    BY Zenon, <2>1 DEF TaskInv, ServedInv, TaskTypes, TaskTypeOK
  <2>3. 1 \in DOMAIN run
    BY <2>2
  <2> QED
    BY Zenon, <2>3 DEF TaskInv, ServedInv
<1> QED
  BY <1>1, TaskInvHolds, PTL
=============================================================================
