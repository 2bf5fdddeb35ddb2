-------------------------- MODULE SnapshotScheduler --------------------------
(***************************************************************************)
(* internal/lifecycle/snapshot_scheduler.go, with the lifecycle handlers of*)
(* internal/api/lifecycle.go that work on the same store.                  *)
(*                                                                         *)
(* Every scheduler method holds the scheduler's mutex from start to end.   *)
(* The variable op is that mutex together with the program counter of the  *)
(* method that holds it, because other actors write the same lifecycle     *)
(* objects without it: the snapshot executor that moves a table to         *)
(* snapshotting, and the skip-error handler.  A method that does all its   *)
(* work in one write is one action; the restart methods and OnCaughtUp,    *)
(* which write, then delete the cache file, are several.                   *)
(*                                                                         *)
(* The store hands out pointers, so a write to a lifecycle is at once a    *)
(* write to the store.  AddTable stores a NEW object: a handler that read  *)
(* the old one keeps writing to it and puts it back when it saves, which   *)
(* is what the field obj of a skip request records.                        *)
(***************************************************************************)
EXTENDS TableLifecycle, Sequences

CONSTANTS
  Tables,          \* the tables of one task
  NoTable,         \* stands for "no table"
  Schema,          \* Schema[t] is the database table t belongs to
  Positions,       \* positions callers pass to AddTable, RestartTable, UpdateStreamPosition
  Features,        \* optional parts of the environment a run includes
  StartPositions,  \* positions the snapshot executor passes when it starts a snapshot
  MaxRetry,        \* bound: RetryCount of a table that may be restarted or registered anew
  MaxRuns          \* bound: snapshots started per table

ASSUME TablesAssumption == NoTable \notin Tables

ASSUME PositionsAssumption ==
  /\ Positions \subseteq Position
  /\ StartPositions \subseteq Position

ASSUME BoundsAssumption ==
  /\ MaxRetry \in Nat
  /\ MaxRuns \in Nat

VARIABLES
  registered,  \* tables the store has a lifecycle for
  lc,          \* their lifecycles
  cache,       \* per-table binlog cache file: the events in it (LifecyclePipeline fills it)
  op,          \* the scheduler's mutex and the method that holds it
  req,         \* one skip-error or retry request in flight per table
  epoch,       \* snapshots started per table
  runs,        \* snapshots that have not reported yet, by their number
  hist         \* what happened since the table was last registered or reset

schedVars == <<registered, lc, cache, op, req, epoch, runs, hist>>

Idle == [pc |-> "idle", todo |-> {}, cur |-> NoTable, pos |-> NoPos, force |-> FALSE]

OpType == [pc : {"idle", "read", "seterr", "reset", "clear", "drop"},
           todo : SUBSET Tables, cur : Tables \cup {NoTable},
           pos : Position, force : BOOLEAN]

\* obj is the detached object of a request, live while the store still holds it.
NoReq == [kind |-> "none", next |-> "pending", pos |-> NoPos, live |-> TRUE,
          obj |-> NewTableLifecycle(NoPos)]

ReqType == [kind : {"none", "skip", "skip2", "retry"},
            next : {"pending", "catching_up", "streaming"}, pos : Position,
            live : BOOLEAN, obj : Lifecycle]

\* earned: the latest snapshot of the table completed;  stale: an earlier one reported
\* in its place;  skipped: an operator skipped an error;  leaked: a cache delete failed;
\* blind: a snapshot began without a position;  need: the position the source log is
\* needed from.
HistType == [earned : BOOLEAN, stale : BOOLEAN, skipped : BOOLEAN, leaked : BOOLEAN,
             blind : BOOLEAN, need : Position]

NoHist == [earned |-> FALSE, stale |-> FALSE, skipped |-> FALSE, leaked |-> FALSE,
           blind |-> FALSE, need |-> NoPos]

\* One type invariant for the state of the scheduler and of its callers.
TypeOK ==
  /\ registered \subseteq Tables
  /\ lc \in [Tables -> Lifecycle]
  /\ cache \in [Tables -> Seq(Nat)]
  /\ op \in OpType
  /\ op.pc \in {"seterr", "reset", "clear", "drop"} => op.cur \in Tables
  /\ req \in [Tables -> ReqType]
  /\ epoch \in [Tables -> Nat]
  /\ runs \in [Tables -> SUBSET Nat]
  /\ hist \in [Tables -> HistType]

SchedInit ==
  /\ registered = {}
  /\ lc = [t \in Tables |-> NewTableLifecycle(NoPos)]
  /\ cache = [t \in Tables |-> <<>>]
  /\ op = Idle
  /\ req = [t \in Tables |-> NoReq]
  /\ epoch = [t \in Tables |-> 0]
  /\ runs = [t \in Tables |-> {}]
  /\ hist = [t \in Tables |-> NoHist]

Locked == op.pc # "idle"

-----------------------------------------------------------------------------
(* Methods of the scheduler that are one write.                            *)

\* Also registers a table that is already there, over whatever state it has.
AddTable(t, pos) ==
  /\ ~Locked
  /\ lc[t].retry <= MaxRetry
  /\ registered' = registered \cup {t}
  /\ lc' = [lc EXCEPT ![t] = NewTableLifecycle(pos)]
  /\ req' = IF t \in registered /\ req[t].kind \in {"skip", "skip2"} /\ req[t].live
            THEN [req EXCEPT ![t].live = FALSE, ![t].obj = lc[t]]
            ELSE req
  /\ hist' = [hist EXCEPT ![t] = NoHist]
  /\ UNCHANGED <<cache, op, epoch, runs>>

\* A snapshot run r of the table reports success; a run that reports to a table
\* which is not snapshotting gets an error back and changes nothing.  The method is
\* told the table and not the run: a run that a restart has superseded completes the
\* table's latest one.
OnSnapshotComplete(t, r) ==
  /\ ~Locked
  /\ t \in registered
  /\ r \in runs[t]
  /\ runs' = [runs EXCEPT ![t] = @ \ {r}]
  /\ \/ /\ CanTransition(lc[t], "catching_up")
        /\ lc' = [lc EXCEPT ![t] = TransitionTo(@, "catching_up", NoPos)]
        /\ hist' = [hist EXCEPT ![t].earned = @ \/ r = epoch[t], ![t].stale = @ \/ r # epoch[t]]
     \/ /\ ~CanTransition(lc[t], "catching_up")
        /\ UNCHANGED <<lc, hist>>
  /\ UNCHANGED <<registered, cache, op, req, epoch>>

OnSnapshotError(t, r) ==
  /\ ~Locked
  /\ t \in registered
  /\ r \in runs[t]
  /\ runs' = [runs EXCEPT ![t] = @ \ {r}]
  /\ lc' = [lc EXCEPT ![t] = SetError(@)]
  /\ UNCHANGED <<registered, cache, op, req, epoch, hist>>

PauseTable(t) ==
  /\ ~Locked
  /\ t \in registered
  /\ CanPause(lc[t])
  /\ lc' = [lc EXCEPT ![t] = Pause(@)]
  /\ UNCHANGED <<registered, cache, op, req, epoch, runs, hist>>

ResumeTable(t) ==
  /\ ~Locked
  /\ t \in registered
  /\ CanResume(lc[t])
  /\ lc' = [lc EXCEPT ![t] = Resume(@)]
  /\ UNCHANGED <<registered, cache, op, req, epoch, runs, hist>>

GetGlobalMinPosition == ComputeGlobalMinPosition({lc[t] : t \in registered})

-----------------------------------------------------------------------------
(* OnCaughtUp: the state first, then the cache file.                       *)

OnCaughtUp(t) ==
  /\ ~Locked
  /\ t \in registered
  /\ CanTransition(lc[t], "streaming")
  /\ lc' = [lc EXCEPT ![t] = TransitionTo(@, "streaming", NoPos)]
  /\ op' = [Idle EXCEPT !.pc = "drop", !.cur = t]
  /\ UNCHANGED <<registered, cache, req, epoch, runs, hist>>

OnCaughtUpDelete(ok) ==
  /\ op.pc = "drop"
  /\ cache' = IF ok THEN [cache EXCEPT ![op.cur] = <<>>] ELSE cache
  /\ hist' = IF ok THEN hist ELSE [hist EXCEPT ![op.cur].leaked = TRUE]
  /\ op' = Idle
  /\ UNCHANGED <<registered, lc, req, epoch, runs>>

-----------------------------------------------------------------------------
(* RestartTable and RestartSchema: the same loop body over one table or    *)
(* over the tables of a schema.                                            *)

RestartBegin(todo, pos, force) ==
  /\ ~Locked
  /\ todo # {}
  /\ todo \subseteq registered
  /\ \A t \in todo : lc[t].retry < MaxRetry
  /\ op' = [Idle EXCEPT !.pc = "read", !.todo = todo, !.pos = pos, !.force = force]
  /\ UNCHANGED <<registered, lc, cache, epoch, runs, hist>>

RestartTable(t, pos, force) == RestartBegin({t}, pos, force) /\ UNCHANGED req

RestartSchema(s, pos, force) ==
  RestartBegin({t \in registered : Schema[t] = s}, pos, force) /\ UNCHANGED req

\* The loop goes on with the tables left, or the method returns.
Continue(left) == IF left = {} THEN Idle ELSE [op EXCEPT !.pc = "read", !.todo = left, !.cur = NoTable]

RestartRead(t) ==
  /\ op.pc = "read"
  /\ t \in op.todo
  /\ op' = IF ~op.force /\ lc[t].state = "streaming"
           THEN Continue(op.todo \ {t})
           ELSE [op EXCEPT !.cur = t,
                           !.pc = IF lc[t].state # "error" THEN "seterr" ELSE "reset"]
  /\ UNCHANGED <<registered, lc, cache, req, epoch, runs, hist>>

RestartSetError ==
  /\ op.pc = "seterr"
  /\ lc' = [lc EXCEPT ![op.cur] = SetError(@)]
  /\ op' = [op EXCEPT !.pc = "reset"]
  /\ UNCHANGED <<registered, cache, req, epoch, runs, hist>>

RestartReset ==
  /\ op.pc = "reset"
  /\ \/ /\ CanReset(lc[op.cur])
        /\ lc' = [lc EXCEPT ![op.cur] = ResetToPending(@, op.pos)]
        /\ hist' = [hist EXCEPT ![op.cur] = NoHist]
        /\ op' = [op EXCEPT !.pc = "clear"]
     \/ /\ ~CanReset(lc[op.cur])
        /\ op' = Idle
        /\ UNCHANGED <<lc, hist>>
  /\ UNCHANGED <<registered, cache, req, epoch, runs>>

\* Plausible bug: only a forced restart deletes the cache file.
RestartClearForced(ok) ==
  /\ op.pc = "clear"
  /\ cache' = IF ok /\ op.force THEN [cache EXCEPT ![op.cur] = <<>>] ELSE cache
  /\ hist' = IF ok THEN hist ELSE [hist EXCEPT ![op.cur].leaked = TRUE]
  /\ op' = IF ok THEN Continue(op.todo \ {op.cur}) ELSE Idle
  /\ UNCHANGED <<registered, lc, req, epoch, runs>>

RestartClear(ok) ==
  /\ op.pc = "clear"
  /\ cache' = IF ok THEN [cache EXCEPT ![op.cur] = <<>>] ELSE cache
  /\ hist' = IF ok THEN hist ELSE [hist EXCEPT ![op.cur].leaked = TRUE]
  /\ op' = IF ok THEN Continue(op.todo \ {op.cur}) ELSE Idle
  /\ UNCHANGED <<registered, lc, req, epoch, runs>>

-----------------------------------------------------------------------------
(* API handlers that read the lifecycle before they act on it.             *)

\* skipTableError: checks the state and picks the next one ...
skipTableError(t) ==
  /\ req[t].kind = "none"
  /\ t \in registered
  /\ lc[t].state = "error"
  /\ req' = [req EXCEPT ![t] =
       [NoReq EXCEPT !.kind = "skip",
                     !.next = IF lc[t].prev \in {"pending", "snapshotting"}
                              THEN "catching_up" ELSE "streaming"]]
  /\ UNCHANGED <<registered, lc, cache, op, epoch, runs, hist>>

\* ... then assigns PreviousState and State one after the other, under no lock ...
SkipWritePrev(t) ==
  /\ req[t].kind = "skip"
  /\ IF req[t].live
     THEN /\ lc' = [lc EXCEPT ![t].prev = lc[t].state]
          /\ req' = [req EXCEPT ![t].kind = "skip2"]
     ELSE /\ req' = [req EXCEPT ![t].kind = "skip2", ![t].obj.prev = req[t].obj.state]
          /\ UNCHANGED lc
  /\ UNCHANGED <<registered, cache, op, epoch, runs, hist>>

\* ... and saves the object it read, which puts a replaced object back.
SkipWriteState(t) ==
  /\ req[t].kind = "skip2"
  /\ lc' = [lc EXCEPT ![t] =
       [(IF req[t].live THEN lc[t] ELSE req[t].obj) EXCEPT !.state = req[t].next]]
  /\ hist' = [hist EXCEPT ![t].skipped = TRUE]
  /\ req' = [req EXCEPT ![t] = NoReq]
  /\ UNCHANGED <<registered, cache, op, epoch, runs>>

\* retryTableLifecycle: checks the state and reads the snapshot position ...
retryTableLifecycle(t) ==
  /\ req[t].kind = "none"
  /\ t \in registered
  /\ lc[t].state = "error"
  /\ req' = [req EXCEPT ![t] = [NoReq EXCEPT !.kind = "retry", !.pos = lc[t].snap]]
  /\ UNCHANGED <<registered, lc, cache, op, epoch, runs, hist>>

\* ... then forces a restart from the position it read.
RetryRestart(t) ==
  /\ req[t].kind = "retry"
  /\ RestartBegin({t}, req[t].pos, TRUE)
  /\ req' = [req EXCEPT ![t] = NoReq]

-----------------------------------------------------------------------------
(* The environment: the snapshot executor, which starts a pending table's  *)
(* snapshot straight on the lifecycle object, and the reporter of          *)
(* streaming progress.                                                     *)

SnapshotStart(t, pos) ==
  /\ t \in registered
  /\ epoch[t] < MaxRuns
  /\ CanTransition(lc[t], "snapshotting")
  /\ lc' = [lc EXCEPT ![t] = TransitionTo(@, "snapshotting", pos)]
  /\ epoch' = [epoch EXCEPT ![t] = @ + 1]
  /\ runs' = [runs EXCEPT ![t] = @ \cup {epoch[t] + 1}]
  /\ hist' = [hist EXCEPT ![t].need = IF pos # NoPos THEN pos ELSE lc[t].snap,
                          ![t].blind = @ \/ pos = NoPos]
  /\ UNCHANGED <<registered, cache, op, req>>

ReportProgress(t, pos) ==
  /\ t \in registered
  /\ lc[t].state = "streaming"
  /\ pos > effectivePosition(lc[t])
  /\ lc' = [lc EXCEPT ![t] = UpdateStreamPosition(@, pos)]
  /\ hist' = [hist EXCEPT ![t].need = pos]
  /\ UNCHANGED <<registered, cache, op, req, epoch, runs>>

-----------------------------------------------------------------------------
ApiStep(t) ==
  \/ skipTableError(t)
  \/ SkipWritePrev(t)
  \/ SkipWriteState(t)
  \/ retryTableLifecycle(t)
  \/ RetryRestart(t)

RestartStep ==
  \/ \E t \in Tables : RestartRead(t)
  \/ RestartSetError
  \/ RestartReset
  \/ \E ok \in BOOLEAN : RestartClear(ok)
  \/ \E ok \in BOOLEAN : OnCaughtUpDelete(ok)

Next ==
  \/ \E t \in Tables, pos \in Positions :
       \/ (t \in registered => "readd" \in Features) /\ AddTable(t, pos)
       \/ \E force \in BOOLEAN : RestartTable(t, pos, force)
       \/ "progress" \in Features /\ ReportProgress(t, pos)
  \/ \E t \in Tables, pos \in Positions, force \in BOOLEAN : RestartSchema(Schema[t], pos, force)
  \/ \E t \in Tables, pos \in StartPositions : SnapshotStart(t, pos)
  \/ \E t \in Tables : \E r \in runs[t] : OnSnapshotComplete(t, r) \/ OnSnapshotError(t, r)
  \/ \E t \in Tables : OnCaughtUp(t)
  \/ "pause" \in Features /\ \E t \in Tables : PauseTable(t) \/ ResumeTable(t)
  \/ "api" \in Features /\ \E t \in Tables : ApiStep(t)
  \/ RestartStep

Spec == SchedInit /\ [][Next]_schedVars

-----------------------------------------------------------------------------
(* Properties.                                                             *)

\* A paused table resumes into a phase in which it receives events: PreviousState
\* is catching_up or streaming, so Resume never moves a table to a state it was
\* not paused from.  The one exception is the window between the two unlocked
\* assignments of a skip-error request that lost the race to a restart; the table
\* then remembers "paused" and Resume leaves it paused.
PausedResumesLive ==
  \A t \in registered :
    lc[t].state = "paused" =>
      \/ lc[t].prev \in {"catching_up", "streaming"}
      \/ lc[t].prev = "paused" /\ req[t].kind = "skip2" /\ req[t].live

\* Events reach the sink of a table only after its latest snapshot, begun since the table
\* was last registered or restarted, completed: no interleaving of restarts, pauses,
\* retries and failed snapshots lets it into catching_up, streaming or paused otherwise.
\* There are two exceptions: an operator skipped an error, and a snapshot that a restart
\* had superseded reported to OnSnapshotComplete, which cannot tell it from the latest.
LiveOnlyAfterSnapshot ==
  \A t \in registered :
    lc[t].state \in {"catching_up", "streaming", "paused"} =>
      hist[t].earned \/ hist[t].stale \/ hist[t].skipped

\* A table past pending knows the position it needs the source log from, and the two
\* positions its lifecycle records are known, in order and not beyond that position:
\* whichever of them effectivePosition picks in whatever state the table is moved to,
\* the log is kept from far enough back.  Two kinds of table are excepted: one whose
\* error was skipped, and one a snapshot of which began without a position, because
\* TransitionTo ignores a nil position and ResetToPending keeps the stream position.
PositionsCoverNeed ==
  \A t \in registered :
    ~hist[t].skipped /\ ~hist[t].blind =>
      /\ lc[t].state \in {"snapshotting", "catching_up", "streaming", "paused"}
           => hist[t].need # NoPos
      /\ hist[t].need # NoPos =>
           /\ lc[t].snap # NoPos
           /\ lc[t].strm # NoPos
           /\ lc[t].snap <= lc[t].strm
           /\ lc[t].strm <= hist[t].need

\* What the other properties rest on, and inductive together: the types, the phase a
\* paused table resumes into, and the recorded positions of a table, provided all its
\* snapshots began with a position (which TransitionTo does not enforce).
SchedulerInv == TypeOK /\ PausedResumesLive /\ PositionsCoverNeed

\* GlobalMinPosition never passes a position some table still needs the source log
\* from: the position its snapshot started at or, once it streams, the progress it
\* reported.  A table whose error was skipped gave up on that position, and for a table
\* with a snapshot that began without a position nothing is claimed: its recorded
\* positions may be nil or lie past what it needs.
GlobalMinCovers ==
  \A t \in registered :
    lc[t].state # "pending" /\ hist[t].need # NoPos /\ ~hist[t].skipped /\ ~hist[t].blind =>
      /\ GetGlobalMinPosition # NoPos
      /\ GetGlobalMinPosition <= hist[t].need
=============================================================================
