-------------------------- MODULE LifecyclePipeline --------------------------
(***************************************************************************)
(* The lifecycle pipeline put together: the routing goroutine of           *)
(* internal/lifecycle/pipeline_integration.go with the DML path of         *)
(* binlog_consumer.go, the cache files of internal/cache/local_backend.go, *)
(* catching_up_replayer.go, and the scheduler of module SnapshotScheduler. *)
(*                                                                         *)
(* The source log is a sequence of tables: entry e is a row change of      *)
(* table stream[e], and e is its position.  The routing goroutine takes    *)
(* the events in order.  It reads the lifecycle state of the table, then   *)
(* writes the event to the cache file or to the sink; it does not hold the *)
(* scheduler's mutex, so the table may change state between the two.       *)
(*                                                                         *)
(* A snapshot that starts at position p covers the events up to p, so the  *)
(* sink needs every later event of the table.                              *)
(***************************************************************************)
EXTENDS SnapshotScheduler

CONSTANTS
  Environments, \* sets of optional parts of the environment, of which a behaviour has one
  MaxEvents,   \* bound: events in the source log
  MaxReplays,  \* bound: replays started per table
  ChanCap      \* capacity of the channel between the cache reader and the replayer (64)

ASSUME PipelineBounds ==
  /\ MaxEvents \in Nat
  /\ MaxReplays \in Nat
  /\ ChanCap \in Nat \ {0}

VARIABLES
  env,      \* what the environment does: restarts, errors, cancellations, requests, Stop
  stream,   \* the source log
  cursor,   \* events the routing goroutine has taken
  router,   \* the routing goroutine
  replay,   \* per table: the replay and its cache reader
  replays,  \* replays started per table
  applied,  \* per table: events in the sink since the last snapshot started
  cause,    \* per table: what may have lost an event since then
  pl        \* Start and Stop of the pipeline

pipeVars == <<stream, cursor, router, replay, replays, applied, cause, pl>>
vars == <<schedVars, pipeVars>>

head == Len(stream)

Resting == [pc |-> "idle", ev |-> 0]

\* live: the reader's file is the table's cache file; after a delete the reader
\* keeps reading the unlinked file, whose contents file holds.
NoReplay == [pc |-> "idle", opened |-> FALSE, live |-> TRUE, file |-> <<>>, idx |-> 0, buf |-> <<>>,
             closed |-> FALSE, err |-> FALSE, cancelled |-> FALSE, run |-> 0]

ReplayType == [pc : {"idle", "run", "done", "failed"}, opened : BOOLEAN, live : BOOLEAN,
               file : Seq(Nat), idx : Nat, buf : Seq(Nat), closed : BOOLEAN, err : BOOLEAN,
               cancelled : BOOLEAN, run : Nat]

Causes == {"discard", "ioerr", "late", "misreport", "stale", "restart"}

PipeTypeOK ==
  /\ stream \in Seq(Tables)
  /\ cursor \in 0..head
  /\ router \in [pc : {"idle", "cache", "sink", "gone"}, ev : 0..head]
  /\ replay \in [Tables -> ReplayType]
  /\ replays \in [Tables -> Nat]
  /\ applied \in [Tables -> SUBSET (1..head)]
  /\ cause \in [Tables -> SUBSET Causes]
  /\ pl \in {"new", "running", "stopping", "waiting", "failed", "stopped"}

Init ==
  /\ SchedInit
  /\ env \in Environments
  /\ stream = <<>>
  /\ cursor = 0
  /\ router = Resting
  /\ replay = [t \in Tables |-> NoReplay]
  /\ replays = [t \in Tables |-> 0]
  /\ applied = [t \in Tables |-> {}]
  /\ cause = [t \in Tables |-> {}]
  /\ pl = "new"

Blame(t, c) == cause' = [cause EXCEPT ![t] = @ \cup {c}]

-----------------------------------------------------------------------------
(* The source, and Start and Stop of the pipeline.                         *)

Emit(t) ==
  /\ head < MaxEvents
  /\ stream' = Append(stream, t)
  /\ UNCHANGED <<schedVars, cursor, router, replay, replays, applied, cause, pl>>

Start ==
  /\ pl = "new"
  /\ pl' = "running"
  /\ UNCHANGED <<schedVars, stream, cursor, router, replay, replays, applied, cause>>

StopClose ==
  /\ pl = "running"
  /\ pl' = "stopping"
  /\ UNCHANGED <<schedVars, stream, cursor, router, replay, replays, applied, cause>>

\* An error of source.Stop ends Stop before it waits for the goroutine.
StopSource(ok) ==
  /\ pl = "stopping"
  /\ pl' = IF ok THEN "waiting" ELSE "failed"
  /\ UNCHANGED <<schedVars, stream, cursor, router, replay, replays, applied, cause>>

\* Plausible bug: the sinks are stopped without waiting for the goroutine.
StopSinksAtOnce ==
  /\ pl = "waiting"
  /\ pl' = "stopped"
  /\ UNCHANGED <<schedVars, stream, cursor, router, replay, replays, applied, cause>>

StopSinks ==
  /\ pl = "waiting"
  /\ router.pc = "gone"
  /\ pl' = "stopped"
  /\ UNCHANGED <<schedVars, stream, cursor, router, replay, replays, applied, cause>>

-----------------------------------------------------------------------------
(* routeEvents and Route.                                                  *)

\* Closing stopCh makes one case of the select ready; the other may be taken first.  The
\* goroutine also ends when the source has closed its channel and the events in it are
\* taken (no connector of the repository closes it).
RouteExit ==
  /\ router.pc = "idle"
  /\ \/ pl \in {"stopping", "waiting", "failed"}
     \/ "closed" \in env /\ pl # "new" /\ cursor = head
  /\ router' = [Resting EXCEPT !.pc = "gone"]
  /\ UNCHANGED <<schedVars, stream, cursor, replay, replays, applied, cause, pl>>

\* Plausible bug: a snapshotting table's events go straight to the sink.
RouteDestNoCache(t) ==
  IF t \in registered /\ lc[t].state \in {"snapshotting", "catching_up", "streaming"}
  THEN "sink" ELSE "discard"

RouteDest(t) ==
  CASE t \notin registered                              -> "discard"
    [] lc[t].state = "snapshotting"                     -> "cache"
    [] lc[t].state \in {"catching_up", "streaming"}     -> "sink"
    [] OTHER                                            -> "discard"

\* Plausible bug: the event that is handed on is the one after the event taken.
RouteOffByOne ==
  /\ router.pc = "idle"
  /\ pl # "new"
  /\ cursor < head
  /\ cursor' = cursor + 1
  /\ LET d == RouteDest(stream[cursor + 1])
     IN  router' = IF d = "discard" THEN router ELSE [pc |-> d, ev |-> cursor + 2]
  /\ UNCHANGED <<schedVars, stream, replay, replays, applied, cause, pl>>

\* Plausible bug: events are fanned out and overtake each other.
RouteUnordered ==
  /\ router.pc = "idle"
  /\ pl # "new"
  /\ cursor < head
  /\ cursor' = cursor + 1
  /\ \E e \in 1..head :
       LET d == RouteDest(stream[e])
       IN  router' = IF d = "discard" THEN router ELSE [pc |-> d, ev |-> e]
  /\ UNCHANGED <<schedVars, stream, replay, replays, applied, cause, pl>>

Route ==
  /\ router.pc = "idle"
  /\ pl # "new"
  /\ cursor < head
  /\ cursor' = cursor + 1
  /\ LET t == stream[cursor + 1]
         d == RouteDest(t)
     IN  IF d = "discard"
         THEN Blame(t, "discard") /\ UNCHANGED router
         ELSE router' = [pc |-> d, ev |-> cursor + 1] /\ UNCHANGED cause
  /\ UNCHANGED <<schedVars, stream, replay, replays, applied, pl>>

\* Route's error is dropped by routeEvents, so a failed write loses the event.
RouteCacheWrite(ok) ==
  /\ router.pc = "cache"
  /\ LET t == stream[router.ev]
     IN  /\ cache' = IF ok THEN [cache EXCEPT ![t] = Append(@, router.ev)] ELSE cache
         /\ cause' = [cause EXCEPT ![t] =
              @ \cup (IF ok THEN {} ELSE {"ioerr"})
                \cup (IF lc[t].state = "snapshotting" THEN {} ELSE {"late"})]
  /\ router' = Resting
  /\ UNCHANGED <<registered, lc, op, req, epoch, runs, hist>>
  /\ UNCHANGED <<stream, cursor, replay, replays, applied, pl>>

\* Plausible bug: the event is dropped on the way to the sink.
RouteSinkDrops(ok) ==
  /\ router.pc = "sink"
  /\ router' = Resting
  /\ UNCHANGED <<schedVars, stream, cursor, replay, replays, applied, cause, pl>>

RouteSinkWrite(ok) ==
  /\ router.pc = "sink"
  /\ LET t == stream[router.ev]
     IN  /\ applied' = IF ok THEN [applied EXCEPT ![t] = @ \cup {router.ev}] ELSE applied
         /\ IF ok THEN UNCHANGED cause ELSE Blame(t, "ioerr")
  /\ router' = Resting
  /\ UNCHANGED <<schedVars, stream, cursor, replay, replays, pl>>

-----------------------------------------------------------------------------
(* LocalBackend.Read: the goroutine that reads the cache file, and Replay, *)
(* which takes what it delivers.                                           *)

\* The caller replays a table that has entered catching_up, from the first record.
Replay(t) ==
  /\ replay[t].pc = "idle"
  /\ replays[t] < MaxReplays
  /\ t \in registered
  /\ lc[t].state = "catching_up"
  /\ replay' = [replay EXCEPT ![t] =
       [NoReplay EXCEPT !.pc = "run", !.run = epoch[t]]]
  /\ replays' = [replays EXCEPT ![t] = @ + 1]
  /\ UNCHANGED <<schedVars, stream, cursor, router, applied, cause, pl>>

ReadFile(t) == IF replay[t].live THEN cache[t] ELSE replay[t].file

Reading(t) == replay[t].pc = "run" /\ replay[t].opened /\ ~replay[t].closed

\* The reader opens the file after Replay has started; no file means no events.
ReadOpen(t) ==
  /\ replay[t].pc = "run"
  /\ ~replay[t].opened
  /\ ~replay[t].closed
  /\ replay' = IF cache[t] = <<>> THEN [replay EXCEPT ![t].closed = TRUE]
                                  ELSE [replay EXCEPT ![t].opened = TRUE]
  /\ UNCHANGED <<schedVars, stream, cursor, router, replays, applied, cause, pl>>

\* Plausible bug: the reader waits at the end of the file for more.
ReadForever(t) ==
  /\ Reading(t)
  /\ ~replay[t].cancelled
  /\ replay[t].idx < Len(ReadFile(t))
  /\ Len(replay[t].buf) < ChanCap
  /\ replay' = [replay EXCEPT ![t].idx = @ + 1,
                              ![t].buf = Append(@, ReadFile(t)[replay[t].idx + 1])]
  /\ UNCHANGED <<schedVars, stream, cursor, router, replays, applied, cause, pl>>

\* At the end of the file the reader stops for good and closes its channels.
Read(t) ==
  /\ Reading(t)
  /\ ~replay[t].cancelled
  /\ LET r == replay[t]
     IN  \/ /\ r.idx < Len(ReadFile(t))
            /\ Len(r.buf) < ChanCap
            /\ replay' = [replay EXCEPT ![t].idx = @ + 1,
                                        ![t].buf = Append(@, ReadFile(t)[r.idx + 1])]
         \/ /\ r.idx = Len(ReadFile(t))
            /\ replay' = [replay EXCEPT ![t].closed = TRUE]
  /\ UNCHANGED <<schedVars, stream, cursor, router, replays, applied, cause, pl>>

\* A torn or corrupt record: the error goes to the error channel, then both close.
ReadFails(t) ==
  /\ Reading(t)
  /\ replay[t].idx < Len(ReadFile(t))
  /\ replay' = [replay EXCEPT ![t].closed = TRUE, ![t].err = TRUE]
  /\ UNCHANGED <<schedVars, stream, cursor, router, replays, applied, cause, pl>>

\* A cancelled context closes the channels without an error.
ReadCancelled(t) ==
  /\ Reading(t)
  /\ replay[t].cancelled
  /\ replay' = [replay EXCEPT ![t].closed = TRUE]
  /\ UNCHANGED <<schedVars, stream, cursor, router, replays, applied, cause, pl>>

Cancel(t) ==
  /\ replay[t].pc = "run"
  /\ ~replay[t].cancelled
  /\ replay' = [replay EXCEPT ![t].cancelled = TRUE]
  /\ UNCHANGED <<schedVars, stream, cursor, router, replays, applied, cause, pl>>

\* The select of Replay, case Events: one event goes to the sink.
ReplayApply(t, ok) ==
  /\ replay[t].pc = "run"
  /\ replay[t].buf # <<>>
  /\ IF ok
     THEN /\ applied' = [applied EXCEPT ![t] = @ \cup {Head(replay[t].buf)}]
          /\ replay' = [replay EXCEPT ![t].buf = Tail(@)]
     ELSE /\ replay' = [replay EXCEPT ![t].pc = "failed"]
          /\ UNCHANGED applied
  /\ UNCHANGED <<schedVars, stream, cursor, router, replays, cause, pl>>

\* Cases ctx.Done and Err: Replay returns with CaughtUp false.
ReplayFails(t) ==
  /\ replay[t].pc = "run"
  /\ replay[t].cancelled \/ replay[t].err
  /\ replay' = [replay EXCEPT ![t].pc = "failed"]
  /\ UNCHANGED <<schedVars, stream, cursor, router, replays, applied, cause, pl>>

\* Plausible bug: the replay is over when the reader is, with events still buffered.
ReplayDoneEarly(t) ==
  /\ replay[t].pc = "run"
  /\ replay[t].closed
  /\ replay' = [replay EXCEPT ![t].pc = "done"]
  /\ IF replay[t].err \/ replay[t].cancelled THEN Blame(t, "misreport") ELSE UNCHANGED cause
  /\ UNCHANGED <<schedVars, stream, cursor, router, replays, applied, pl>>

\* Case Events, channel closed: CaughtUp is true, also when the error or the
\* cancellation that closed the channel is still waiting in another case.
ReplayDone(t) ==
  /\ replay[t].pc = "run"
  /\ replay[t].closed
  /\ replay[t].buf = <<>>
  /\ replay' = [replay EXCEPT ![t].pc = "done"]
  /\ IF replay[t].err \/ replay[t].cancelled THEN Blame(t, "misreport") ELSE UNCHANGED cause
  /\ UNCHANGED <<schedVars, stream, cursor, router, replays, applied, pl>>

\* The caller acts on the result: CaughtUp leads to OnCaughtUp (which may refuse), a
\* failure to another replay or to an error report.
CaughtUp(t) ==
  /\ replay[t].pc = "done"
  /\ \/ /\ OnCaughtUp(t)
        /\ IF replay[t].run # epoch[t] THEN Blame(t, "stale") ELSE UNCHANGED cause
     \/ /\ ~Locked
        /\ ~(t \in registered /\ CanTransition(lc[t], "streaming"))
        /\ UNCHANGED <<schedVars, cause>>
  /\ replay' = [replay EXCEPT ![t] = NoReplay]
  /\ UNCHANGED <<stream, cursor, router, replays, applied, pl>>

ReplayRetry(t) ==
  /\ replay[t].pc = "failed"
  /\ replay' = [replay EXCEPT ![t] = NoReplay]
  /\ UNCHANGED <<schedVars, stream, cursor, router, replays, applied, cause, pl>>

-----------------------------------------------------------------------------
(* The scheduler's steps, with what they do to readers and to the ghosts.  *)

\* A deleted file stays readable through the handle a reader has on it.
Unlink ==
  replay' = [t \in Tables |->
    IF cache'[t] = <<>> /\ cache[t] # <<>> /\ Reading(t) /\ replay[t].live
    THEN [replay[t] EXCEPT !.live = FALSE, !.file = cache[t]]
    ELSE replay[t]]

SnapshotBegins(t) ==
  /\ SnapshotStart(t, head)
  /\ applied' = [applied EXCEPT ![t] = {}]
  /\ cause' = [cause EXCEPT ![t] = {}]
  /\ UNCHANGED <<stream, cursor, router, replay, replays, pl>>

\* The delete of a restart may find that the next snapshot has already begun.
RestartDeletes(ok) ==
  /\ RestartClear(ok)
  /\ Unlink
  /\ IF ok /\ lc[op.cur].state # "pending" THEN Blame(op.cur, "restart") ELSE UNCHANGED cause
  /\ UNCHANGED <<stream, cursor, router, replays, applied, pl>>

CaughtUpDeletes(ok) ==
  /\ OnCaughtUpDelete(ok)
  /\ Unlink
  /\ UNCHANGED <<stream, cursor, router, replays, applied, cause, pl>>

SchedulerStep ==
  /\ \/ \E t \in Tables : (t \in registered => "readd" \in env) /\ AddTable(t, head)
     \/ \E t \in Tables : \E r \in runs[t] : OnSnapshotComplete(t, r)
     \/ /\ "snaperr" \in env
        /\ \E t \in Tables : \E r \in runs[t] : OnSnapshotError(t, r)
     \/ /\ "restart" \in env
        /\ \E t \in Tables, pos \in {NoPos, head}, force \in BOOLEAN :
             RestartTable(t, pos, force) \/ RestartSchema(Schema[t], pos, force)
     \/ "pause" \in env /\ \E t \in Tables : PauseTable(t) \/ ResumeTable(t)
     \/ "api" \in env /\ \E t \in Tables : ApiStep(t)
     \/ \E t \in Tables : RestartRead(t)
     \/ RestartSetError
     \/ RestartReset
  /\ UNCHANGED pipeVars

ReplayStep(t) ==
  \/ Replay(t)
  \/ ReadOpen(t)
  \/ Read(t)
  \/ "ioerr" \in env /\ ReadFails(t)
  \/ "cancel" \in env /\ Cancel(t)
  \/ ReadCancelled(t)
  \/ ReplayApply(t, TRUE)
  \/ "ioerr" \in env /\ ReplayApply(t, FALSE)
  \/ ReplayFails(t)
  \/ ReplayDone(t)
  \/ CaughtUp(t)
  \/ ReplayRetry(t)

RouterStep ==
  \/ Route
  \/ RouteCacheWrite(TRUE)
  \/ RouteSinkWrite(TRUE)
  \/ "ioerr" \in env /\ (RouteCacheWrite(FALSE) \/ RouteSinkWrite(FALSE))
  \/ RouteExit

PipelineStep ==
  \/ Start
  \/ "stop" \in env /\ (StopClose \/ \E ok \in BOOLEAN : StopSource(ok))
  \/ StopSinks

PipeNext ==
  \/ \E t \in Tables : Emit(t) \/ SnapshotBegins(t) \/ ReplayStep(t)
  \/ RestartDeletes(TRUE) \/ CaughtUpDeletes(TRUE)
  \/ "ioerr" \in env /\ (RestartDeletes(FALSE) \/ CaughtUpDeletes(FALSE))
  \/ RouterStep
  \/ PipelineStep
  \/ SchedulerStep

PipeSpec == Init /\ [][PipeNext /\ UNCHANGED env]_<<vars, env>>

-----------------------------------------------------------------------------
(* Properties.                                                             *)

\* The events of table t that the routing goroutine is done with and that came after
\* the snapshot of t started.
Due(t) == {e \in 1..cursor : stream[e] = t /\ e > lc[t].snap /\ ~(router.pc # "idle" /\ router.ev = e)}

\* A streaming table has no gap: every later event of the table is in the sink, unless
\* an event was discarded while the table was paused or in error, a write failed, or one
\* of the four windows below opened (late, misreport, stale, restart).  This is the
\* complete list of the ways in which cache, replay and hand-over can lose an event.
StreamingHasNoGap ==
  \A t \in registered :
    lc[t].state = "streaming" /\ cause[t] = {} /\ ~hist[t].skipped => Due(t) \subseteq applied[t]

\* Once a table streams and no replay of it is running, events reach the sink in log
\* order: Route never writes an event that is older than one already in the sink.
StreamingWritesInOrder ==
  [][\A t \in Tables :
       t \in registered /\ lc[t].state = "streaming" /\ replay[t].pc # "run"
         => \A e \in applied'[t] \ applied[t], f \in applied[t] : e > f]_vars

\* After Stop has returned without error, the routing goroutine writes nothing more.
QuietAfterStop ==
  [][pl = "stopped" => UNCHANGED <<router, cursor>>]_vars

\* The events of table t in its cache file.
Cached(t) == {cache[t][i] : i \in 1..Len(cache[t])}

\* A snapshotting table has every later event in its cache file, so that the replay will
\* find it, unless one of the recorded causes intervened.
SnapshottingCachesAll ==
  \A t \in registered :
    lc[t].state = "snapshotting" /\ cause[t] = {} /\ ~hist[t].skipped => Due(t) \subseteq Cached(t)

\* A restart leaves no cached events behind for the next snapshot: a pending table that
\* was restarted has an empty cache file, once the restart is over.  There are two
\* exceptions: the delete itself failed, and Route had looked at the table before the
\* restart and wrote to the file after it (cause late), since no lock spans the two.
RestartClearsCache ==
  \A t \in registered :
    /\ lc[t].state = "pending"
    /\ lc[t].retry > 0
    /\ op.cur # t
    /\ ~hist[t].leaked
    /\ "late" \notin cause[t]
    => cache[t] = <<>>

\* The hand-over guarantee of the design: with no fault and no operator action, a
\* streaming table has every later event in the sink.
NoGapGuarantee ==
  \A t \in registered : lc[t].state = "streaming" => Due(t) \subseteq applied[t]

\* What Replay documents: CaughtUp is reported only for a replay that applied all cached
\* events, never for one that was cancelled or hit an unreadable record.
CaughtUpMeansAllApplied ==
  [][\A t \in Tables :
       ReplayDone(t) =>
         ~((replay[t].cancelled \/ replay[t].err) /\ replay[t].idx < Len(ReadFile(t)))]_vars

\* What the restart order (position, state, cache last) is documented to prevent: no event
\* of a table that was restarted and is snapshotting again is missing from its cache.
RestartLosesNothing ==
  \A t \in registered : lc[t].state = "snapshotting" => Due(t) \subseteq Cached(t)

-----------------------------------------------------------------------------
(* Liveness.  Goroutines are scheduled, the snapshot executor and the      *)
(* caller of Replay make progress, and the scheduler's mutex is handed     *)
(* over; operators and faults owe nothing.                                 *)

Fairness ==
  /\ WF_vars(Start)
  /\ WF_vars(Route)
  /\ WF_vars(RouteCacheWrite(TRUE))
  /\ WF_vars(RouteSinkWrite(TRUE))
  /\ WF_vars(CaughtUpDeletes(TRUE))
  /\ \A t \in Tables :
       /\ WF_vars(SnapshotBegins(t))
       /\ WF_vars((\E r \in runs[t] : OnSnapshotComplete(t, r)) /\ UNCHANGED pipeVars)
       /\ WF_vars(Replay(t))
       /\ WF_vars(ReadOpen(t))
       /\ WF_vars(Read(t))
       /\ WF_vars(ReplayApply(t, TRUE))
       /\ WF_vars(ReplayDone(t))
       /\ WF_vars(CaughtUp(t))

FairSpec == PipeSpec /\ Fairness

\* Every registered table ends up streaming and stays there when nothing fails and no
\* operator intervenes: no table waits for another one, and the hand-over of a table is
\* not held up by the events that keep arriving for it.
EventuallyStreams ==
  \A t \in Tables : t \in registered ~> [](lc[t].state = "streaming")

\* Every event that is committed while its table is past pending is applied to the sink
\* in the end, or fell into the hand-over window.
EventuallyApplied ==
  \A e \in 1..MaxEvents : \A t \in Tables :
    (e <= head /\ stream[e] = t /\ t \in registered /\ lc[t].state # "pending" /\ e > lc[t].snap)
      ~> (e \in applied[t] \/ cause[t] # {})
=============================================================================
