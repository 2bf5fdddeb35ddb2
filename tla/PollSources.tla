----------------------------- MODULE PollSources -----------------------------
(***************************************************************************)
(* The source connectors that poll (internal/source):                      *)
(*   "oracle"     one LogMiner session over the whole log per poll         *)
(*   "sqlserver"  one CDC reader per capture instance, read one after the  *)
(*                other in the order of a Go map                           *)
(*                                                                         *)
(* The log of the database is a sequence of changes, each of one capture   *)
(* instance; change n has the SCN or LSN 2n, so that an LSN plus one is    *)
(* the LSN of no change.  A change is handed over when it is put on the    *)
(* channel Events().                                                       *)
(***************************************************************************)
EXTENDS Integers, Sequences, FiniteSets, FiniteSetsExt

CONSTANTS
  PollKinds,   \* the families to look at
  Instances,   \* capture instances, each with a reader
  MineBatch,   \* BatchSize of the LogMiner query
  MaxChanges,  \* bound: changes in the log
  MaxRuns      \* bound: processes started

ASSUME PollBounds ==
  /\ PollKinds \subseteq {"oracle", "sqlserver"}
  /\ {MineBatch, MaxChanges, MaxRuns} \subseteq Nat \ {0}
  /\ "none" \notin Instances

VARIABLES
  pollKind,    \* the family of the connector
  changeLog,   \* the capture instance of each change in the log
  polling,     \* "down", "idle" or "poll"
  readerPos,   \* where each reader reads from, 0 for no position
  toRead,      \* readers this poll has still to read
  reading,     \* the reader whose changes are being handed over, if any
  found,       \* the changes it has found and not handed over
  upTo,        \* the LSN it has read up to
  latest,      \* the highest of these in this poll
  pollPos,     \* the position field of the connector
  keptPos,     \* the position in the offset storage, 0 if there is none
  emitted,     \* ghost: changes put on the channel
  missed,      \* ghost: changes whose loss has a named cause
  read,        \* ghost: how far each reader has read in this poll
  runs         \* processes started

pollState == <<polling, readerPos, toRead, reading, found, upTo, latest, pollPos, read>>
pollVars == <<pollKind, changeLog, pollState, keptPos, emitted, missed, runs>>

NoReader == "none"

Readers == IF pollKind = "oracle" THEN {"miner"} ELSE Instances

\* The changes reader i is responsible for.
Mine(i) == {n \in DOMAIN changeLog : pollKind = "oracle" \/ changeLog[n] = i}

LSN(n) == 2 * n

MaxLSN == LSN(Len(changeLog))

\* The variables keep their types, and a reader has only changes of its own
\* capture instance to hand over.
PollTypeOK ==
  /\ pollKind \in PollKinds
  /\ changeLog \in Seq(Instances)
  /\ polling \in {"down", "idle", "poll"}
  /\ readerPos \in [Readers -> 0..(2 * MaxChanges + 1)]
  /\ toRead \subseteq Readers
  /\ reading \in Readers \cup {NoReader}
  /\ found \subseteq IF reading = NoReader THEN {} ELSE Mine(reading)
  /\ {upTo, latest, pollPos, keptPos} \subseteq 0..(2 * MaxChanges)
  /\ emitted \cup missed \subseteq DOMAIN changeLog
  /\ read \in [Readers -> 0..(2 * MaxChanges)]

PollInit ==
  /\ pollKind \in PollKinds
  /\ changeLog = <<>>
  /\ polling = "down"
  /\ readerPos = [i \in Readers |-> 0]
  /\ toRead = {}
  /\ reading = NoReader
  /\ found = {}
  /\ upTo = 0
  /\ latest = 0
  /\ pollPos = 0
  /\ keptPos = 0
  /\ emitted = {}
  /\ missed = {}
  /\ read = [i \in Readers |-> 0]
  /\ runs = 0

-----------------------------------------------------------------------------
Change(i) ==
  /\ Len(changeLog) < MaxChanges
  /\ changeLog' = Append(changeLog, i)
  /\ UNCHANGED <<pollKind, pollState, keptPos, emitted, missed, runs>>

\* Initialize and Start: every reader begins at the position that was kept.
StartPolling(ok) ==
  /\ polling = "down"
  /\ runs < MaxRuns
  /\ runs' = runs + 1
  /\ polling' = "idle"
  /\ LET p == IF ok THEN keptPos ELSE 0
     IN readerPos' = [i \in Readers |-> p] /\ pollPos' = p
  /\ UNCHANGED <<pollKind, changeLog, toRead, reading, found, upTo, latest, keptPos, emitted,
                 missed, read>>

\* SetPosition of the connector and of all its readers, at any time.
SetReaders(n) ==
  /\ polling # "down"
  /\ pollPos' = LSN(n)
  /\ readerPos' = [i \in Readers |-> LSN(n)]
  /\ keptPos' = LSN(n)
  /\ missed' = missed \cup ((1..n) \ emitted)
  /\ UNCHANGED <<pollKind, changeLog, polling, toRead, reading, found, upTo, latest, emitted, read,
                 runs>>

PollerGone ==
  /\ polling' = "down"
  /\ readerPos' = [i \in Readers |-> 0]
  /\ toRead' = {}
  /\ reading' = NoReader
  /\ found' = {}
  /\ upTo' = 0
  /\ latest' = 0
  /\ pollPos' = 0
  /\ read' = [i \in Readers |-> 0]
  /\ UNCHANGED <<pollKind, changeLog, emitted, missed, runs>>

\* Stop abandons the poll and saves the position of the last one that ended.
StopPolling ==
  /\ polling # "down"
  /\ keptPos' = IF pollPos # 0 THEN pollPos ELSE keptPos
  /\ PollerGone

CrashPolling ==
  /\ polling # "down"
  /\ keptPos' = keptPos
  /\ PollerGone

-----------------------------------------------------------------------------
(* One poll: pollChanges of oracle, pollAll of sqlserver.                  *)

BeginPoll ==
  /\ polling = "idle"
  /\ polling' = "poll"
  /\ toRead' = Readers
  /\ latest' = 0
  /\ read' = [i \in Readers |-> 0]
  /\ UNCHANGED <<pollKind, changeLog, readerPos, reading, found, upTo, pollPos, keptPos, emitted,
                 missed, runs>>

\* ReadChanges of LogMiner: the changes after the SCN it is at (without one,
\* after the current SCN minus one), at most BatchSize of them.  Rows whose
\* SQL cannot be parsed are skipped.
ReadLog(unparsed) ==
  /\ LET start == IF readerPos["miner"] # 0 THEN readerPos["miner"]
                  ELSE IF MaxLSN > 0 THEN MaxLSN - 1 ELSE 0
         after == {n \in DOMAIN changeLog : LSN(n) > start}
         batch == {n \in after : Cardinality({k \in after : k <= n}) <= MineBatch}
     IN /\ found' = batch \ unparsed
        \* Causes: no position, the limit of the query, unparsable rows.
        /\ missed' = missed \cup
             (((IF readerPos["miner"] = 0 THEN DOMAIN changeLog ELSE after) \ emitted)
                \ (batch \ unparsed))
  /\ upTo' = MaxLSN

\* ReadChanges of a CDC reader: from its LSN, or without one from the lowest
\* the capture instance has (getMinLSN), which the database moves up when it
\* cleans the change table.  Nothing is read when that is the current LSN.
ReadInstance(i) ==
  /\ \E low \in 0..Len(changeLog) :
       LET from == IF readerPos[i] # 0 THEN readerPos[i] ELSE LSN(low)
       IN /\ from <= MaxLSN
          /\ found' = IF from = MaxLSN THEN {}
                      ELSE {n \in Mine(i) : LSN(n) >= from}
  \* Cause: no position, and what is not found by the lowest LSN.
  /\ missed' = IF readerPos[i] # 0 THEN missed
               ELSE missed \cup (Mine(i) \ (found' \cup emitted))
  /\ upTo' = MaxLSN

Read(i, unparsed) ==
  /\ polling = "poll"
  /\ reading = NoReader
  /\ i \in toRead
  /\ reading' = i
  /\ toRead' = toRead \ {i}
  /\ IF pollKind = "oracle" THEN ReadLog(unparsed) ELSE unparsed = {} /\ ReadInstance(i)
  /\ UNCHANGED <<pollKind, changeLog, polling, readerPos, latest, pollPos, keptPos, emitted, read,
                 runs>>

\* Any query may fail, and sqlserver's does when the range is empty.  Oracle
\* returns; sqlserver goes on with the next reader.
ReadFails(i) ==
  /\ polling = "poll"
  /\ reading = NoReader
  /\ i \in toRead
  /\ toRead' = toRead \ {i}
  /\ UNCHANGED <<pollKind, changeLog, polling, readerPos, reading, found, upTo, latest, pollPos,
                 keptPos, emitted, missed, read, runs>>

\* The changes go to the channel in the order of the log.
Emit ==
  /\ found # {}
  /\ LET next == Min(found)
     IN emitted' = emitted \cup {next} /\ found' = found \ {next}
  /\ UNCHANGED <<pollKind, changeLog, polling, readerPos, toRead, reading, upTo, latest, pollPos,
                 keptPos, missed, read, runs>>

\* Plausible bug: the position of the reader moves before its changes are sent.
EndReadEarly ==
  /\ reading # NoReader
  /\ readerPos' = IF upTo = 0 THEN readerPos
                  ELSE [readerPos EXCEPT ![reading] = IF pollKind = "oracle" THEN upTo ELSE upTo + 1]
  /\ reading' = NoReader
  /\ found' = {}
  /\ read' = [read EXCEPT ![reading] = upTo]
  /\ latest' = Max({latest, upTo})
  /\ UNCHANGED <<pollKind, changeLog, polling, toRead, upTo, pollPos, keptPos, emitted, missed, runs>>

\* UpdatePosition of the reader: sqlserver goes on behind the LSN, oracle
\* with what comes after the SCN.
EndRead ==
  /\ reading # NoReader
  /\ found = {}
  /\ reading' = NoReader
  /\ readerPos' = IF upTo = 0 THEN readerPos
                  ELSE [readerPos EXCEPT ![reading] = IF pollKind = "oracle" THEN upTo ELSE upTo + 1]
  /\ read' = [read EXCEPT ![reading] = upTo]
  /\ latest' = Max({latest, upTo})
  /\ UNCHANGED <<pollKind, changeLog, polling, toRead, found, upTo, pollPos, keptPos, emitted,
                 missed, runs>>

\* The position of the connector is the highest over all readers.  The cause
\* of a loss at the next start: a reader that failed in this poll, or read
\* before the log grew, lies behind it.
EndPoll(save) ==
  /\ polling = "poll"
  /\ toRead = {}
  /\ reading = NoReader
  /\ polling' = "idle"
  /\ pollPos' = IF latest # 0 THEN latest ELSE pollPos
  /\ keptPos' = IF save /\ latest # 0 THEN latest ELSE keptPos
  /\ missed' = IF pollKind = "oracle" THEN missed
               ELSE missed \cup {n \in DOMAIN changeLog :
                      /\ read[changeLog[n]] < LSN(n)
                      /\ LSN(n) <= latest
                      /\ n \notin emitted}
  /\ UNCHANGED <<pollKind, changeLog, readerPos, toRead, reading, found, upTo, latest, emitted,
                 read, runs>>

-----------------------------------------------------------------------------
PollNext ==
  \/ \E i \in Instances : Change(i)
  \/ \E ok \in BOOLEAN : StartPolling(ok) \/ EndPoll(ok)
  \/ StopPolling \/ CrashPolling
  \/ \E n \in DOMAIN changeLog : SetReaders(n)
  \/ BeginPoll
  \/ \E i \in Readers :
       \/ ReadFails(i)
       \/ \E unparsed \in SUBSET DOMAIN changeLog : Cardinality(unparsed) <= 1 /\ Read(i, unparsed)
  \/ Emit \/ EndRead

PollSpec == PollInit /\ [][PollNext]_pollVars

-----------------------------------------------------------------------------
(* Correctness.                                                            *)

\* The changes of reader i that are behind it when it stands at position p:
\* oracle reads what is after its SCN, sqlserver begins with its LSN.
Behind(i, p) == {n \in Mine(i) : IF pollKind = "oracle" THEN LSN(n) <= p ELSE LSN(n) < p}

\* Every change a reader has moved past, or a restart from the kept position
\* would skip, was put on the channel Events().  The exceptions are complete:
\* the operator set the position; a reader starts without one (sqlserver then
\* from the lowest LSN it finds); oracle's query is limited to BatchSize rows
\* while the position moves to the current SCN ("so we don't miss anything"),
\* it skips what it cannot parse; sqlserver keeps the highest LSN over all its
\* readers, which lies past the changes of a reader that failed or read first.
PollSkipsNothing ==
  \A i \in Readers :
    Behind(i, Max({readerPos[i], keptPos})) \subseteq emitted \cup missed
=============================================================================
