---------------------------- MODULE StreamSources ----------------------------
(***************************************************************************)
(* The source connectors that are pushed changes (internal/source):        *)
(*   "mysql"     mysql and mariadb: a binlog syncer with its own position, *)
(*               copied to the offset storage by a saver every second      *)
(*   "mongo"     mongodb: a change stream with a resume token, kept in the *)
(*               target store, or in the offset storage without it         *)
(*   "postgres"  a replication slot; the position is the last commit       *)
(*                                                                         *)
(* The log of the database is a sequence of events; an event has the       *)
(* number of its row changes (0 for an XID event, an empty transaction).   *)
(* Event n ends at log position 2n; what lies inside it is at 2n - 1.  A   *)
(* change <<n, r>> is handed over when it is put on the channel Events().  *)
(* What the channel's reader does with it is modelled in the pipeline.     *)
(* The target store of mysql is left out: it is written, but the connector *)
(* starts from its flushed position only, which nothing writes.            *)
(***************************************************************************)
EXTENDS Integers, Sequences, FiniteSets, FiniteSetsExt

CONSTANTS
  SourceKinds,  \* the families to look at
  MaxLog,       \* bound: events in the log
  MaxRows,      \* bound: row changes of an event
  MaxWide,      \* bound: how far a wide row message of postgres reaches
  MaxStarts,    \* bound: processes started
  MaxSets       \* bound: calls of SetPosition

ASSUME SourceBounds ==
  /\ SourceKinds \subseteq {"mysql", "mongo", "postgres"}
  /\ {MaxLog, MaxRows, MaxWide, MaxStarts, MaxSets} \subseteq Nat

VARIABLES
  srcKind,   \* the family of the connector
  keeper,    \* where the position is kept: "offsets", "store" or "none"
  pinned,    \* the configuration names a start position (BinlogFile, ...)
  srcLog,    \* the row changes of each event of the database's log
  running,   \* the connector has been started and not stopped
  fetched,   \* events the database has sent on this connection
  left,      \* messages of the last of them that are still to be handled
  syncPos,   \* the position of the syncer, or of the handler
  heldPos,   \* mysql: the position field of the connector
  savedPos,  \* the position that is kept, 0 if there is none
  walPos,    \* postgres: currentLSNValue
  slotPos,   \* postgres: the position the slot has been told
  handed,    \* ghost: changes put on the channel
  excused,   \* ghost: changes whose loss has a named cause
  widePos,   \* ghost: the farthest a wide row message has taken walPos
  starts,    \* processes started
  sets       \* calls of SetPosition

srcConfig == <<srcKind, keeper, pinned>>
stream == <<fetched, left, syncPos, heldPos, walPos>>
srcGhosts == <<handed, excused, widePos>>
srcCounts == <<starts, sets>>
srcVars == <<srcConfig, srcLog, running, stream, savedPos, slotPos, srcGhosts, srcCounts>>

\* The changes of the events the log position p lies past.
Before(p) ==
  {c \in (1..Len(srcLog)) \X (1..MaxRows) : 2 * c[1] <= p /\ c[2] <= srcLog[c[1]]}

\* A transaction of postgres ends with a commit message.
Messages(n) == srcLog[n] + (IF srcKind = "postgres" THEN 1 ELSE 0)

RowsLeft == IF srcKind = "postgres" /\ left > 0 THEN left - 1 ELSE left

\* The changes of the event in hand that are not handed over.
InFlight ==
  IF RowsLeft = 0 THEN {}
  ELSE {<<fetched, r>> : r \in (srcLog[fetched] - RowsLeft + 1)..srcLog[fetched]}

\* The variables keep their types, and the messages of an event are left only
\* while the connector runs: Stop waits for the goroutine that reads the log.
StreamTypeOK ==
  /\ srcKind \in SourceKinds
  /\ keeper \in {"offsets", "store", "none"}
  /\ pinned \in BOOLEAN
  /\ srcLog \in Seq(0..MaxRows)
  /\ running \in BOOLEAN
  /\ {syncPos, heldPos, savedPos, walPos, slotPos, widePos} \subseteq 0..(2 * MaxLog + MaxWide)
  /\ fetched \in 0..(MaxLog + MaxWide)
  /\ left \in 0..(MaxRows + 1)
  /\ left > 0 => running /\ fetched \in DOMAIN srcLog /\ left <= Messages(fetched)
  /\ handed \cup excused \subseteq Before(2 * Len(srcLog))

StreamInit ==
  /\ srcKind \in SourceKinds
  /\ keeper \in IF srcKind = "mongo" THEN {"offsets", "store"} ELSE {"offsets", "none"}
  /\ pinned \in BOOLEAN
  /\ srcLog = <<>>
  /\ running = FALSE
  /\ fetched = 0
  /\ left = 0
  /\ syncPos = 0
  /\ heldPos = 0
  /\ savedPos = 0
  /\ walPos = 0
  /\ slotPos = 0
  /\ handed = {}
  /\ excused = {}
  /\ widePos = 0
  /\ starts = 0
  /\ sets = 0

-----------------------------------------------------------------------------
(* The database (external).                                                *)

LogGrows(rows) ==
  /\ Len(srcLog) < MaxLog
  /\ srcKind = "mongo" => rows = 1
  /\ srcLog' = Append(srcLog, rows)
  /\ UNCHANGED <<srcConfig, running, stream, savedPos, slotPos, srcGhosts, srcCounts>>

-----------------------------------------------------------------------------
(* Initialize and Start of a new process, its Stop and its crash.          *)

\* What Initialize loads; a failure is a warning.
LoadedPos(ok) == IF ok /\ keeper # "none" THEN savedPos ELSE 0

\* Where the stream is to start: the position of the configuration (here the
\* beginning of the log) or the loaded one, 0 if there is none.  For mongodb
\* the offset storage restores the position, not the resume token.
StartPos(ok) ==
  IF pinned \/ (srcKind = "mongo" /\ keeper = "offsets") THEN 0 ELSE LoadedPos(ok)

\* The server of postgres never goes back behind the slot.
StreamFrom(p) == IF srcKind = "postgres" THEN Max({p, slotPos}) ELSE p

StartSource(ok) ==
  /\ ~running
  /\ starts < MaxStarts
  /\ starts' = starts + 1
  /\ running' = TRUE
  /\ left' = 0
  /\ syncPos' = IF srcKind = "mongo" THEN LoadedPos(ok) ELSE StartPos(ok)
  /\ heldPos' = IF srcKind = "mysql" THEN StartPos(ok) ELSE 0
  /\ IF pinned \/ StartPos(ok) # 0
     THEN /\ fetched' = StreamFrom(StartPos(ok)) \div 2
          /\ walPos' = IF srcKind = "postgres" THEN StartPos(ok) ELSE 0
          /\ UNCHANGED excused
     ELSE \* The end of the log; mysql leaves the place to the server.
          \E n \in IF srcKind = "mysql" THEN 0..Len(srcLog)
                   ELSE {StreamFrom(2 * Len(srcLog)) \div 2} :
            /\ fetched' = n
            /\ walPos' = IF srcKind = "postgres" THEN 2 * Len(srcLog) ELSE 0
            /\ excused' = excused \cup (Before(2 * n) \ handed)
  /\ UNCHANGED <<srcConfig, srcLog, savedPos, slotPos, handed, widePos, sets>>

\* The goroutine that reads the log is gone; mysql and mongodb have moved the
\* position past what it had in hand.
Ended ==
  /\ running' = FALSE
  /\ fetched' = 0
  /\ left' = 0
  /\ syncPos' = 0
  /\ heldPos' = 0
  /\ walPos' = 0
  /\ excused' = IF srcKind = "postgres" THEN excused ELSE excused \cup InFlight

\* Mysql saves what its saver saw last.  Mongodb cannot interrupt a send.
StopSource ==
  /\ running
  /\ srcKind = "mongo" => left = 0
  /\ LET p == IF srcKind = "mysql" THEN heldPos ELSE syncPos
     IN savedPos' = IF keeper # "none" /\ p # 0 THEN p ELSE savedPos
  /\ Ended
  /\ UNCHANGED <<srcConfig, srcLog, slotPos, handed, widePos, srcCounts>>

CrashSource ==
  /\ running
  /\ Ended
  /\ UNCHANGED <<srcConfig, srcLog, savedPos, slotPos, handed, widePos, srcCounts>>

-----------------------------------------------------------------------------
(* The goroutine that reads the log.                                       *)

\* Plausible bug: postgres takes the final position of a transaction from its
\* begin message.
FetchAtBegin(save) ==
  /\ running
  /\ left = 0
  /\ fetched < Len(srcLog)
  /\ fetched' = fetched + 1
  /\ left' = Messages(fetched + 1)
  /\ syncPos' = 2 * (fetched + 1)
  /\ walPos' = IF srcKind = "postgres" THEN 2 * fetched + 1 ELSE walPos
  /\ savedPos' = IF save /\ keeper = "store" THEN 2 * (fetched + 1) ELSE savedPos
  /\ UNCHANGED <<srcConfig, srcLog, running, heldPos, slotPos, srcGhosts, srcCounts>>

\* The next event.  Mysql and mongodb set the position before they hand over
\* the changes; mongodb also saves it (saves may fail, which is a warning).
Fetch(save) ==
  /\ running
  /\ left = 0
  /\ fetched < Len(srcLog)
  /\ fetched' = fetched + 1
  /\ left' = Messages(fetched + 1)
  /\ syncPos' = IF srcKind = "postgres" THEN syncPos ELSE 2 * (fetched + 1)
  /\ walPos' = IF srcKind = "postgres" THEN 2 * fetched + 1 ELSE walPos
  /\ savedPos' = IF save /\ keeper = "store" THEN 2 * (fetched + 1) ELSE savedPos
  /\ UNCHANGED <<srcConfig, srcLog, running, heldPos, slotPos, srcGhosts, srcCounts>>

\* An event that is passed over: a change document of mongodb that cannot be
\* decoded or converted, a rows event of mysql of a type its switch does not
\* know.  The position moves with the next event.
Undecodable ==
  /\ running
  /\ srcKind # "postgres"
  /\ left = 0
  /\ fetched < Len(srcLog)
  /\ fetched' = fetched + 1
  /\ excused' = excused \cup ({<<fetched + 1, r>> : r \in 1..srcLog[fetched + 1]} \ handed)
  /\ UNCHANGED <<srcConfig, srcLog, running, left, syncPos, heldPos, walPos, savedPos, slotPos,
                 handed, widePos, srcCounts>>

\* The next change is put on the channel.
HandOver ==
  /\ running
  /\ srcKind # "postgres"
  /\ left > 0
  /\ handed' = handed \cup {<<fetched, srcLog[fetched] - left + 1>>}
  /\ left' = left - 1
  /\ UNCHANGED <<srcConfig, srcLog, running, fetched, syncPos, heldPos, walPos, savedPos, slotPos,
                 excused, widePos, srcCounts>>

\* The channel stays full for 5 seconds: the rest of the event is dropped.
SendTimesOut ==
  /\ running
  /\ srcKind # "postgres"
  /\ left > 0
  /\ left' = 0
  /\ excused' = excused \cup (InFlight \ handed)
  /\ UNCHANGED <<srcConfig, srcLog, running, fetched, syncPos, heldPos, walPos, savedPos, slotPos,
                 handed, widePos, srcCounts>>

\* A message of postgres sets currentLSNValue to its start plus the length of
\* its data, which may reach past the end of the transaction (width > 0).
Received(width) ==
  /\ running
  /\ srcKind = "postgres"
  /\ walPos' = 2 * fetched - 1 + width
  /\ widePos' = IF width = 0 THEN widePos ELSE Max({widePos, walPos'})

\* A message before the commit that hands nothing over: a begin, a known
\* relation, a row of a table that is not captured.
OtherMessage(width) ==
  /\ left > 0
  /\ Received(width)
  /\ UNCHANGED <<srcConfig, srcLog, running, fetched, left, syncPos, heldPos, savedPos, slotPos,
                 handed, excused, srcCounts>>

\* A row that cannot be parsed, or whose relation is unknown: run reports the
\* error and goes on.
RowDropped(width) ==
  /\ RowsLeft > 0
  /\ Received(width)
  /\ left' = left - 1
  /\ excused' = excused \cup ({<<fetched, srcLog[fetched] - RowsLeft + 1>>} \ handed)
  /\ UNCHANGED <<srcConfig, srcLog, running, fetched, syncPos, heldPos, savedPos, slotPos, handed,
                 srcCounts>>

\* Any other row of a captured table, and a relation that is new or changed:
\* NewPGOutputHandler leaves the handler's ctx nil, so the select of sendEvent,
\* or of applySchemaChange, panics and the process ends.
SendPanics ==
  /\ running
  /\ srcKind = "postgres"
  /\ RowsLeft > 0
  /\ Ended
  /\ UNCHANGED <<srcConfig, srcLog, savedPos, slotPos, handed, widePos, srcCounts>>

CommitMessage ==
  /\ running
  /\ srcKind = "postgres"
  /\ left = 1
  /\ left' = 0
  /\ syncPos' = 2 * fetched
  /\ walPos' = 2 * fetched
  /\ UNCHANGED <<srcConfig, srcLog, running, fetched, heldPos, savedPos, slotPos, srcGhosts, srcCounts>>

\* The server says how far it has sent.
Keepalive ==
  /\ running
  /\ srcKind = "postgres"
  /\ left = 0
  /\ walPos' = Max({walPos, 2 * fetched})
  /\ UNCHANGED <<srcConfig, srcLog, running, fetched, left, syncPos, heldPos, savedPos, slotPos,
                 srcGhosts, srcCounts>>

\* sendStandbyStatus, between two messages.
StandbyStatus ==
  /\ running
  /\ srcKind = "postgres"
  /\ slotPos' = Max({slotPos, walPos})
  /\ UNCHANGED <<srcConfig, srcLog, running, stream, savedPos, srcGhosts, srcCounts>>

-----------------------------------------------------------------------------
(* The position saver of mysql, and the operator.                          *)

SaverTick(save) ==
  /\ running
  /\ srcKind = "mysql"
  /\ syncPos # 0
  /\ heldPos' = syncPos
  /\ savedPos' = IF save /\ keeper = "offsets" THEN syncPos ELSE savedPos
  /\ UNCHANGED <<srcConfig, srcLog, running, fetched, left, syncPos, walPos, slotPos, srcGhosts,
                 srcCounts>>

SetPosition(n, save) ==
  /\ running
  /\ sets < MaxSets
  /\ sets' = sets + 1
  /\ IF srcKind = "mysql" THEN heldPos' = 2 * n /\ UNCHANGED syncPos
     ELSE syncPos' = 2 * n /\ UNCHANGED heldPos
  /\ walPos' = IF srcKind = "postgres" THEN 2 * n ELSE walPos
  /\ savedPos' = IF save /\ keeper # "none" THEN 2 * n ELSE savedPos
  /\ excused' = excused \cup (Before(2 * n) \ handed)
  /\ UNCHANGED <<srcConfig, srcLog, running, fetched, left, slotPos, handed, widePos, starts>>

-----------------------------------------------------------------------------
StreamNext ==
  \/ \E rows \in 0..MaxRows : LogGrows(rows)
  \/ \E ok \in BOOLEAN : StartSource(ok) \/ Fetch(ok) \/ SaverTick(ok)
  \/ StopSource \/ CrashSource
  \/ Undecodable \/ HandOver \/ SendTimesOut
  \/ \E width \in 0..MaxWide : OtherMessage(width) \/ RowDropped(width)
  \/ SendPanics \/ CommitMessage \/ Keepalive \/ StandbyStatus
  \/ \E n \in DOMAIN srcLog, ok \in BOOLEAN : SetPosition(n, ok)

StreamSpec == StreamInit /\ [][StreamNext]_srcVars

-----------------------------------------------------------------------------
(* Correctness.                                                            *)

\* Where a process that is started now would resume.
ResumePos == IF pinned \/ StartPos(TRUE) # 0 THEN StreamFrom(StartPos(TRUE)) ELSE 0

\* The log position the running stream has moved past.
PassedPos == IF left > 0 THEN 2 * fetched - 1 ELSE 2 * fetched

\* Every change the stream has moved past, or a restart would skip, was put on
\* the channel Events().  The exceptions are complete: a start without a
\* position (none was saved, it could not be loaded, or mongodb has it only in
\* the offset storage), a send that timed out, an event that is passed over or a
\* row that is dropped, a position the operator set; for mysql and mongodb the
\* event in hand, because its position is taken before it is sent
\* (binlog_syncer.go handleRowsEvent); for postgres, what a wide message makes
\* the slot skip.  Postgres puts no row on the channel: a row that is not
\* dropped ends the process, and a restart meets it again.
SkippedIsExcused ==
  \A c \in Before(Max({ResumePos, PassedPos})) :
    \/ c \in handed \cup excused
    \/ srcKind # "postgres" /\ c \in InFlight
    \/ 2 * c[1] <= widePos
=============================================================================
