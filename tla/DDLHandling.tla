----------------------------- MODULE DDLHandling -----------------------------
(***************************************************************************)
(* Schema changes of one table: the DDL path of                            *)
(* internal/lifecycle/binlog_consumer.go over the ddl_state and            *)
(* schema_history tables of internal/store/mysql_store.go, the in-memory   *)
(* definitions of internal/schema/tables.go, and the recovery of           *)
(* internal/source/mysql/connector.go after a crash.  The schema_history   *)
(* has two writers: handleDDL after it has executed a statement, and the   *)
(* syncer of internal/source/mysql/binlog_syncer.go, which writes its row  *)
(* when it reads the statement, before the consumer has taken it.          *)
(*                                                                         *)
(* A log entry is "create", "alter", "drop" or "dml".  A table definition  *)
(* is the sequence of the log indices of the statements it is made of,     *)
(* from its CREATE on; the empty sequence is "no such table".  Two         *)
(* definitions are equal exactly when the same statements made them.       *)
(*                                                                         *)
(* Each statement that reaches the target database is a step of its own,   *)
(* so a crash may fall between any two.  An operation on the target may    *)
(* fail without effect, or take effect and report failure (a lost reply).  *)
(***************************************************************************)
EXTENDS TableLifecycle, Sequences, Functions

CONSTANTS
  Logs,        \* the source logs of a run: sequences of the four kinds
  MaxFaults,   \* bound: operations on the target database that fail
  MaxCrashes,  \* bound: crashes
  ReadAhead,   \* how far the syncer may read ahead of the consumer (channel capacity)
  SyncerParses \* a parser is registered for the syncer (nothing under src registers "mysql")

ASSUME DDLBounds ==
  /\ Logs \subseteq Seq({"create", "alter", "drop", "dml"})
  /\ MaxFaults \in Nat /\ MaxCrashes \in Nat /\ ReadAhead \in Nat
  /\ SyncerParses \in BOOLEAN

VARIABLES
  log,       \* the source log
  read,      \* events the syncer has read
  known,     \* the syncer's definition
  cursor,    \* events the consumer has taken
  saved,     \* the position in offset storage
  tables,    \* the consumer's definition
  target,    \* the definition in the target database
  row,       \* the table's ddl_state row
  history,   \* the schema_history rows: a definition and the writer
  h,         \* the handler: program counter and the statement in hand
  lc,        \* the table's lifecycle
  cache,     \* the events in the table's cache file
  attempts,  \* per statement: how often handleDDL has started it
  faults,
  crashes,
  cause      \* what has separated the schemas of source, memory and target

store == <<row, history>>
ghosts == <<attempts, faults, crashes, cause>>
ddlVars == <<log, read, known, cursor, saved, tables, target, row, history, h, lc, cache,
             attempts, faults, crashes, cause>>

maxDDLRetries == 3

DDLs == {"create", "alter", "drop"}
Absent == <<>>
NoRow == [status |-> "none", ddl |-> 0, retry |-> 0]
HistoryRow(def, by) == [def |-> def, by |-> by]
AtRest == [pc |-> "idle", ddl |-> 0]

Causes == {"lost", "overwritten", "unread", "skipped", "redelivered",
           "unloaded", "dropnull", "ahead", "overtook"}

DDLTypeOK ==
  /\ read \in 0..Len(log)
  /\ known \in Seq(1..Len(log))
  /\ cursor \in 0..Len(log)
  /\ saved \in 0..Len(log)
  /\ tables \in Seq(1..Len(log))
  /\ target \in Seq(1..Len(log))
  /\ row \in [status : {"none", "applying", "failed"}, ddl : 0..Len(log), retry : 0..1]
  /\ history \in Seq([def : Seq(1..Len(log)), by : {"consumer", "syncer"}])
  /\ h \in [pc : {"idle", "retry", "exec", "history", "delete", "fail", "pause", "down"},
            ddl : 0..Len(log)]
  /\ lc \in Lifecycle
  /\ cache \in Seq(1..Len(log))
  /\ cause \subseteq Causes

-----------------------------------------------------------------------------
(* Definitions.                                                            *)

\* What a statement makes of a definition.
Change(def, i) ==
  CASE log[i] = "create" -> <<i>>
    [] log[i] = "alter"  -> Append(def, i)
    [] log[i] = "drop"   -> Absent
    [] OTHER             -> def

\* Parser.ApplyDDL refuses an ALTER of a table it has no definition of.
CanApplyDDL(def, i) == log[i] = "alter" => def # Absent

\* The target database refuses what a database refuses: a table created twice, a table
\* altered or dropped that does not exist, a column added twice.
Accepts(i) ==
  CASE log[i] = "create" -> target = Absent
    [] log[i] = "alter"  -> target # Absent /\ i \notin Range(target)
    [] OTHER             -> target # Absent

\* The source's own definition after its first n log entries.
SourceDef[n \in 0..Len(log)] == IF n = 0 THEN Absent ELSE Change(SourceDef[n - 1], n)

DDLInit ==
  /\ log \in Logs
  /\ read = 0
  /\ known = Absent
  /\ cursor = 0
  /\ saved = 0
  /\ tables = Absent
  /\ target = Absent
  /\ row = NoRow
  /\ history = <<>>
  /\ h = AtRest
  /\ lc = NewTableLifecycle(NoPos)
  /\ cache = <<>>
  /\ attempts = [i \in 1..Len(log) |-> 0]
  /\ faults = 0
  /\ crashes = 0
  /\ cause = {}

\* An operation on the target database: ok is what it reports, eff whether it took effect.
Outcome(ok, eff) ==
  /\ ok => eff
  /\ ok \/ faults < MaxFaults
  /\ faults' = IF ok THEN faults ELSE faults + 1

Blame(c, P) == cause' = IF P THEN cause \cup {c} ELSE cause

-----------------------------------------------------------------------------
(* handleDDL.                                                              *)

\* The upsert of the row as "applying" replaces whatever row was there, retry_count
\* included; when it fails handleDDL returns.
SaveApplying(i, ok, eff) ==
  /\ Outcome(ok, eff)
  /\ row' = IF eff THEN [status |-> "applying", ddl |-> i, retry |-> 0] ELSE row
  /\ h' = IF ok THEN [pc |-> "exec", ddl |-> i] ELSE AtRest
  /\ attempts' = [attempts EXCEPT ![i] = @ + 1]

\* A DDL event does not look at the ddl_state row.
RouteDDL(ok, eff) ==
  /\ h.pc = "idle"
  /\ cursor < read
  /\ log[cursor + 1] \in DDLs
  /\ cursor' = cursor + 1
  /\ SaveApplying(cursor + 1, ok, eff)
  /\ cause' = cause \cup (IF eff THEN {} ELSE {"lost"})
                    \cup (IF row.status = "none" THEN {} ELSE {"overwritten"})
  /\ UNCHANGED <<log, read, known, saved, tables, target, history, lc, cache, crashes>>

\* Plausible bug: the definition in memory changes before the target accepted it.
ExecDDLEager(ok, eff) ==
  /\ h.pc = "exec"
  /\ Outcome(ok, eff)
  /\ eff => Accepts(h.ddl)
  /\ target' = IF eff THEN Change(target, h.ddl) ELSE target
  /\ tables' = Change(tables, h.ddl)
  /\ h' = [h EXCEPT !.pc = IF ok THEN "history" ELSE "fail"]
  /\ Blame("overtook", eff /\ cache # <<>>)
  /\ UNCHANGED <<log, read, known, cursor, saved, store, lc, cache, attempts, crashes>>

\* ApplyDDL, the statement on the sink and, once that succeeded, the definition in
\* memory.  A statement the target refuses is a failure that costs no fault.
ExecDDL(ok, eff) ==
  /\ h.pc = "exec"
  /\ IF CanApplyDDL(tables, h.ddl) /\ Accepts(h.ddl)
     THEN Outcome(ok, eff)
     ELSE ~ok /\ ~eff /\ UNCHANGED faults
  /\ target' = IF eff THEN Change(target, h.ddl) ELSE target
  /\ tables' = IF ok THEN Change(tables, h.ddl) ELSE tables
  /\ h' = [h EXCEPT !.pc = IF ok THEN "history" ELSE "fail"]
  /\ Blame("overtook", eff /\ cache # <<>>)
  /\ UNCHANGED <<log, read, known, cursor, saved, store, lc, cache, attempts, crashes>>

\* inferChangeType calls a row DROP exactly when it has no table info, so only the info
\* is kept.  When the history row cannot be written the ddl_state row stays "applying".
SaveSchemaHistory(ok, eff) ==
  /\ h.pc = "history"
  /\ Outcome(ok, eff)
  /\ history' = IF eff THEN Append(history, HistoryRow(tables, "consumer")) ELSE history
  /\ h' = IF ok THEN [h EXCEPT !.pc = "delete"] ELSE AtRest
  /\ UNCHANGED <<log, read, known, cursor, saved, tables, target, row, lc, cache,
                 attempts, crashes, cause>>

DeleteDDLState(ok, eff) ==
  /\ h.pc = "delete"
  /\ Outcome(ok, eff)
  /\ row' = IF eff THEN NoRow ELSE row
  /\ h' = AtRest
  /\ UNCHANGED <<log, read, known, cursor, saved, tables, target, history, lc, cache,
                 attempts, crashes, cause>>

\* Plausible bug: a failure is counted twice.
handleDDLFailureTwice(load, ok, eff) ==
  /\ h.pc = "fail"
  /\ Outcome(ok, eff)
  /\ row' = IF eff THEN [status |-> "failed", ddl |-> h.ddl, retry |-> row.retry + 2] ELSE row
  /\ h' = IF ok THEN [h EXCEPT !.pc = "pause"] ELSE AtRest
  /\ UNCHANGED <<log, read, known, cursor, saved, tables, target, history, lc, cache,
                 attempts, crashes, cause>>

\* handleDDLFailure: the row with one more retry (from zero when it cannot be read) ...
handleDDLFailure(load, ok, eff) ==
  /\ h.pc = "fail"
  /\ Outcome(ok, eff)
  /\ row' = IF eff
            THEN [status |-> "failed", ddl |-> h.ddl, retry |-> (IF load THEN row.retry ELSE 0) + 1]
            ELSE row
  /\ h' = IF ok THEN [h EXCEPT !.pc = "pause"] ELSE AtRest
  /\ UNCHANGED <<log, read, known, cursor, saved, tables, target, history, lc, cache,
                 attempts, crashes, cause>>

\* ... then the pause, whose refusal is ignored.
FailurePause ==
  /\ h.pc = "pause"
  /\ lc' = IF CanPause(lc) THEN Pause(lc) ELSE lc
  /\ h' = AtRest
  /\ UNCHANGED <<log, read, known, cursor, saved, tables, target, store, cache, ghosts>>

-----------------------------------------------------------------------------
(* Route of a DML event, with checkDDLState in front.                      *)

TakeDML ==
  /\ h.pc = "idle"
  /\ cursor < read
  /\ log[cursor + 1] = "dml"
  /\ cursor' = cursor + 1
  /\ UNCHANGED <<log, read, known, saved, tables, target, store, attempts, crashes>>

Retryable == row.status = "failed" /\ row.retry < maxDDLRetries

\* The event is discarded: the row blocks the table.
DMLBlocked ==
  /\ TakeDML
  /\ row.status # "none" /\ ~Retryable
  /\ UNCHANGED <<h, lc, cache, faults, cause>>

\* The event is discarded and the failed statement tried again, on a resumed table.
DMLRetries ==
  /\ TakeDML
  /\ Retryable
  /\ lc' = IF CanResume(lc) THEN Resume(lc) ELSE lc
  /\ h' = [pc |-> "retry", ddl |-> row.ddl]
  /\ UNCHANGED <<cache, faults, cause>>

RetryDDL(ok, eff) ==
  /\ h.pc = "retry"
  /\ SaveApplying(h.ddl, ok, eff)
  /\ UNCHANGED <<log, read, known, cursor, saved, tables, target, history, lc, cache,
                 crashes, cause>>

\* Plausible bug: only a failed statement blocks the table, not one that is applying.
PassesFailedOnly(load) == load => row.status # "failed"

\* The event passes when there is no row, or when the row cannot be read.
Passes(load) == load => row.status = "none"

\* A failed read counts as a fault.
DMLPasses(load) ==
  /\ TakeDML
  /\ Passes(load)
  /\ load \/ faults < MaxFaults
  /\ faults' = IF load THEN faults ELSE faults + 1
  /\ Blame("unread", ~load /\ row.status # "none")
  /\ UNCHANGED <<h, lc>>

DMLCached(load) ==
  /\ DMLPasses(load)
  /\ lc.state = "snapshotting"
  /\ cache' = Append(cache, cursor + 1)

DMLToSink(load) ==
  /\ DMLPasses(load)
  /\ lc.state \in {"catching_up", "streaming"}
  /\ UNCHANGED cache

DMLDiscarded(load) ==
  /\ DMLPasses(load)
  /\ lc.state \notin {"snapshotting", "catching_up", "streaming"}
  /\ UNCHANGED cache

-----------------------------------------------------------------------------
(* The environment: the scheduler moves the table on, the replayer applies *)
(* cached events, operators pause and resume, the connector saves the      *)
(* position it has read, and the process crashes and recovers.             *)

Advance(new) ==
  /\ h.pc # "down"
  /\ new \in {"snapshotting", "catching_up", "streaming"} \ {lc.state}
  /\ CanTransition(lc, new)
  /\ new = "streaming" => cache = <<>>
  /\ lc' = TransitionTo(lc, new, NoPos)
  /\ UNCHANGED <<log, read, known, cursor, saved, tables, target, store, h, cache, ghosts>>

ReplayCached ==
  /\ h.pc # "down"
  /\ lc.state = "catching_up"
  /\ cache # <<>>
  /\ cache' = Tail(cache)
  /\ UNCHANGED <<log, read, known, cursor, saved, tables, target, store, h, lc, ghosts>>

PauseOrResume ==
  /\ h.pc # "down"
  /\ \/ CanPause(lc) /\ lc' = Pause(lc)
     \/ CanResume(lc) /\ lc' = Resume(lc)
  /\ UNCHANGED <<log, read, known, cursor, saved, tables, target, store, h, cache, ghosts>>

\* The syncer reads an event and puts it in the channel.  A statement changes its own
\* definition, and the changed definition is written as a row of the history; a failure
\* to write it is only logged.  The current position that is then saved in the target
\* store is read by nobody.
ReadEvent(ok, eff) ==
  /\ h.pc # "down"
  /\ read < Len(log) /\ read < cursor + ReadAhead
  /\ read' = read + 1
  /\ IF SyncerParses /\ log[read + 1] \in DDLs /\ CanApplyDDL(known, read + 1)
     THEN /\ Outcome(ok, eff)
          /\ known' = Change(known, read + 1)
          /\ history' = IF eff THEN Append(history, HistoryRow(known', "syncer")) ELSE history
     ELSE ok /\ eff /\ UNCHANGED <<known, history, faults>>
  /\ UNCHANGED <<log, cursor, saved, tables, target, row, h, lc, cache, attempts, crashes, cause>>

\* The position of the syncer, which may have read events the consumer has not taken.
runPositionSaver ==
  /\ h.pc # "down"
  /\ saved' = read /\ saved # read
  /\ UNCHANGED <<log, read, known, cursor, tables, target, store, h, lc, cache, ghosts>>

SkippedDDL == \E i \in (cursor + 1)..saved : log[i] \in DDLs
RedeliveredDDL == \E i \in (saved + 1)..cursor : log[i] \in DDLs

Crash ==
  /\ h.pc # "down"
  /\ crashes < MaxCrashes
  /\ crashes' = crashes + 1
  /\ h' = [AtRest EXCEPT !.pc = "down"]
  /\ tables' = Absent /\ known' = Absent
  /\ lc' = NewTableLifecycle(NoPos)
  /\ cause' = cause \cup (IF SkippedDDL THEN {"skipped"} ELSE {})
                    \cup (IF RedeliveredDDL THEN {"redelivered"} ELSE {})
  /\ cursor' = saved /\ read' = saved
  /\ UNCHANGED <<log, saved, target, store, cache, attempts, faults>>

\* The history row of a DROP holds a JSON null, which is read back as an empty table
\* without a name: it is put beside the table instead of removing it.
RecoverRow(def, info) == IF info = Absent THEN def ELSE info

\* The definition after the first n rows of the history have been read back, in order.
Recovered[n \in 0..Len(history)] ==
  IF n = 0 THEN Absent ELSE RecoverRow(Recovered[n - 1], history[n].def)

\* The history holds a DROP, and its last row was written when the statement was read.
HoldsDrop == \E i \in DOMAIN history : history[i].def = Absent
EndsAhead == history # <<>> /\ history[Len(history)].by = "syncer"

\* recoverFromStore: the history (load: it could be read), whoever wrote its rows, then a
\* row left "applying", which becomes "failed".  The consumer's definitions are rebuilt
\* from the same rows as the connector's.
recoverFromStore(load, ok, eff) ==
  /\ h.pc = "down"
  /\ ok => eff
  /\ row.status # "applying" => ok
  /\ faults' = faults + Cardinality({b \in {"load", "mark"} : IF b = "load" THEN ~load ELSE ~ok})
  /\ faults' <= MaxFaults
  /\ tables' = IF load THEN Recovered[Len(history)] ELSE Absent
  /\ known' = tables'
  /\ row' = IF row.status = "applying" /\ eff
            THEN [row EXCEPT !.status = "failed", !.retry = @ + 1] ELSE row
  /\ h' = AtRest
  /\ cause' = cause \cup (IF load THEN {} ELSE {"unloaded"})
                    \cup (IF load /\ HoldsDrop THEN {"dropnull"} ELSE {})
                    \cup (IF load /\ EndsAhead THEN {"ahead"} ELSE {})
  /\ UNCHANGED <<log, read, cursor, saved, target, history, lc, cache, attempts, crashes>>

-----------------------------------------------------------------------------
DDLStep(ok, eff) ==
  \/ RouteDDL(ok, eff)
  \/ RetryDDL(ok, eff)
  \/ ExecDDL(ok, eff)
  \/ SaveSchemaHistory(ok, eff)
  \/ DeleteDDLState(ok, eff)
  \/ \E load \in BOOLEAN : handleDDLFailure(load, ok, eff) \/ recoverFromStore(load, ok, eff)

DMLStep ==
  \/ DMLBlocked
  \/ DMLRetries
  \/ \E load \in BOOLEAN : DMLCached(load) \/ DMLToSink(load) \/ DMLDiscarded(load)

EnvStep ==
  \/ \E new \in States : Advance(new)
  \/ ReplayCached
  \/ PauseOrResume
  \/ \E ok, eff \in BOOLEAN : ReadEvent(ok, eff)
  \/ runPositionSaver
  \/ Crash

DDLNext ==
  \/ \E ok, eff \in BOOLEAN : DDLStep(ok, eff)
  \/ FailurePause
  \/ DMLStep
  \/ EnvStep

DDLSpec == DDLInit /\ [][DDLNext]_ddlVars

-----------------------------------------------------------------------------
(* Properties.                                                             *)

Without(cs) == cause \cap cs = {}

SchemaSlips == {"lost", "overwritten", "unread", "skipped", "redelivered"}

\* A row change is written to a target table that has the definition the source had when
\* the row changed: neither a failing statement, nor a crash between any two steps of
\* handleDDL, nor a retry lets a row through in another schema.  The exceptions are the
\* complete list of what can: a statement whose first row could not be saved (lost), a
\* second statement that replaced the row of a failed one (overwritten), a row that
\* could not be read (unread), and a saved position that skips or repeats a statement.
\* A replayed row, which was cached in an earlier schema, has one more: a statement that
\* was executed while rows were waiting in the cache (overtook), because DDL events are
\* never cached themselves.
RowsMeetTheirSchema ==
  [][/\ \A load \in BOOLEAN :
          DMLToSink(load) /\ Without(SchemaSlips)' => target = SourceDef[cursor + 1]
     /\ ReplayCached /\ Without(SchemaSlips \cup {"overtook"})
          => target = SourceDef[Head(cache)]]_ddlVars

\* The consumer's definition is the one in the target database whenever no statement is
\* pending: it follows the target step by step and is rebuilt from the history after a
\* crash, also when a statement took effect although it was reported as failed (it stays
\* pending), and although the syncer writes rows of statements the target has not seen:
\* the consumer's own row follows them.  The exceptions: a pending statement lost its row
\* to a later one, the history could not be loaded, it holds a DROP, which recovery does
\* not repeat, or it ends with a row of the syncer, so that recovery restores a definition
\* the target does not have yet (ahead).
TablesFollowTarget ==
  /\ h.pc = "idle"
  /\ row.status = "none"
  /\ Without({"overwritten", "unloaded", "dropnull", "ahead"})
  => tables = target

\* What the constant maxDDLRetries documents: a failing statement is retried at most
\* three times.
RetriesBounded ==
  \A i \in DOMAIN attempts : crashes = 0 => attempts[i] <= 1 + maxDDLRetries
=============================================================================
