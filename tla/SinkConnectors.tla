--------------------------- MODULE SinkConnectors ---------------------------
(***************************************************************************)
(* The sink connectors under internal/sink: Write, Flush and Stop of one   *)
(* connector that several goroutines share.  The router of the binlog      *)
(* consumer and the catching-up replayers call Write of the same connector *)
(* at the same time (internal/lifecycle).                                  *)
(*                                                                         *)
(* There are five ways to write, one per family:                           *)
(*   "mysql"  mysql and postgres: a transaction in the field tx that all   *)
(*            calls share; a call that ends clears the field               *)
(*   "oracle" oracle and sqlserver: the same, but a call that ends rolls   *)
(*            back what is in the field                                    *)
(*   "mongo"  mongodb: one bulk write per collection, in no fixed order    *)
(*   "es"     elasticsearch: one bulk request, retried; documents it       *)
(*            rejects are logged                                           *)
(*   "single" kafka and redis: one request                                 *)
(* The databases are external.  A request that fails may have taken        *)
(* effect.  The status and the counters of a connector are left out.       *)
(***************************************************************************)
EXTENDS Integers, Sequences, FiniteSets

CONSTANTS
  SinkKinds,      \* the families to look at
  Callers,        \* goroutines that use the connector
  MaxSinkEvents,  \* bound: events written in all
  MaxSinkBatch,   \* bound: events of one Write
  MaxBulkRetries, \* maxRetries of the elasticsearch connector
  MaxStops,       \* bound: calls of Stop
  MaxFlushes      \* bound: calls of Flush

ASSUME SinkBounds ==
  /\ SinkKinds \subseteq {"mysql", "oracle", "mongo", "es", "single"}
  /\ {MaxSinkEvents, MaxSinkBatch, MaxBulkRetries, MaxStops, MaxFlushes} \subseteq Nat

VARIABLES
  sinkKind,  \* the family of the connector
  useTx,     \* UseTransaction of a SQL connector
  tx,        \* the field tx: the number of a transaction, 0 for nil
  txs,       \* the transactions begun: their state and the events in them
  call,      \* what each goroutine is doing in the connector
  issued,    \* events passed to Write
  noEffect,  \* ghost: events Write acknowledges and the database does not hold (BeginWrite)
  stored,    \* events the database holds
  sinkPos,   \* the events of its Write up to the one GetPosition stands for
  acked,     \* ghost: events of calls of Write that returned nil
  shared,    \* ghost: those of calls that met another Write, Flush or Stop
  mixed,     \* ghost: goroutines whose call met another one
  orphans,   \* ghost: transactions a call may leave behind (see OpenTxHasWrite)
  stops,     \* calls of Stop
  flushes    \* calls of Flush

sqlVars == <<tx, txs, orphans>>
sinkGhosts == <<acked, shared, mixed, noEffect>>
sinkCounts == <<issued, stops, flushes>>
sinkVars == <<sinkKind, useTx, sqlVars, call, stored, sinkPos, sinkGhosts, sinkCounts>>

Sql == sinkKind \in {"mysql", "oracle"}

NoCall == [pc |-> "idle", evs |-> {}, todo |-> {}, own |-> 0, got |-> 0, tries |-> 0]

CallType == [pc : {"idle", "begin", "write", "commit", "ok", "failed", "flush", "renew"},
             evs : SUBSET (1..MaxSinkEvents), todo : SUBSET (1..MaxSinkEvents),
             own : Nat, got : Nat, tries : 0..MaxBulkRetries]

\* The variables keep their types: the field tx names a transaction that was
\* begun, and no call retries a request of elasticsearch more than maxRetries
\* times (sendBulkWithRetry).
SinkTypeOK ==
  /\ sinkKind \in SinkKinds
  /\ useTx \in BOOLEAN
  /\ useTx => Sql
  /\ txs \in Seq([state : {"open", "committed", "rolledback"}, evs : SUBSET (1..issued)])
  /\ tx \in 0..Len(txs)
  /\ call \in [Callers -> CallType]
  /\ \A c \in Callers : call[c].todo \subseteq call[c].evs
  /\ issued \in 0..MaxSinkEvents
  /\ stored \cup acked \cup shared \cup noEffect \cup sinkPos \subseteq 1..issued
  /\ mixed \subseteq Callers
  /\ orphans \subseteq DOMAIN txs

SinkInit ==
  /\ sinkKind \in SinkKinds
  /\ useTx \in IF Sql THEN BOOLEAN ELSE {FALSE}
  /\ tx = 0
  /\ txs = <<>>
  /\ call = [c \in Callers |-> NoCall]
  /\ issued = 0
  /\ noEffect = {}
  /\ stored = {}
  /\ sinkPos = {}
  /\ acked = {}
  /\ shared = {}
  /\ mixed = {}
  /\ orphans = {}
  /\ stops = 0
  /\ flushes = 0

-----------------------------------------------------------------------------
Busy == {c \in Callers : call[c] # NoCall}

FirstOf(S) == CHOOSE e \in S : \A f \in S : e <= f

InWrite(c, pc) == call[c].pc = pc /\ call[c].evs # {}

\* A goroutine enters the connector: it and all that are in it meet.
Meet(c) == mixed' = IF Busy = {} THEN mixed \ {c} ELSE mixed \cup Busy \cup {c}

\* Any of the events may be one that Write acknowledges without a trace in the database:
\* a truncate event and every other kind Write has no case for; a DDL event without a
\* statement, under the policy "ignore", or of redis; an UPDATE with nothing to set or
\* with a key no row has; a mongodb delete without an identity; and, with the kafka
\* setting acks "none", a message the broker did not take.
BeginWrite(c, n) ==
  /\ call[c] = NoCall
  /\ n \in 1..MaxSinkBatch
  /\ issued + n <= MaxSinkEvents
  /\ issued' = issued + n
  /\ LET evs == (issued + 1)..(issued + n)
     IN /\ call' = [call EXCEPT ![c] = [NoCall EXCEPT !.evs = evs, !.todo = evs,
                      !.pc = IF useTx THEN "begin" ELSE "write"]]
        /\ \E none \in SUBSET evs : noEffect' = noEffect \cup none
  /\ Meet(c)
  /\ UNCHANGED <<sinkKind, useTx, sqlVars, stored, sinkPos, acked, shared, stops, flushes>>

\* BeginTx of a Write, or of a Flush that has committed.
BeginTx(c) ==
  /\ call[c].pc \in {"begin", "renew"}
  /\ txs' = Append(txs, [state |-> "open", evs |-> {}])
  /\ tx' = Len(txs) + 1
  /\ call' = [call EXCEPT ![c] = IF @.pc = "renew" THEN NoCall
                                 ELSE [@ EXCEPT !.pc = "write", !.own = Len(txs) + 1]]
  /\ orphans' = IF call[c].pc = "renew" THEN orphans \cup {Len(txs) + 1} ELSE orphans
  /\ UNCHANGED <<sinkKind, useTx, stored, sinkPos, sinkGhosts, sinkCounts>>

\* The call ends before it has touched the field tx.
BeginFails(c) ==
  /\ call[c].pc \in {"begin", "renew"}
  /\ call' = [call EXCEPT ![c] = NoCall]
  /\ UNCHANGED <<sinkKind, useTx, sqlVars, stored, sinkPos, sinkGhosts, sinkCounts>>

\* The next event of a SQL connector, through whatever transaction is in the
\* field, or without one.  Position and counters move before the commit, also
\* for an event without effect.
Exec(c) ==
  /\ Sql
  /\ InWrite(c, "write")
  /\ call[c].todo # {}
  /\ LET e == FirstOf(call[c].todo)
     IN /\ \/ e \in noEffect /\ UNCHANGED <<stored, txs>>
           \/ e \notin noEffect /\ tx = 0 /\ stored' = stored \cup {e} /\ UNCHANGED txs
           \/ /\ e \notin noEffect /\ tx # 0 /\ txs[tx].state = "open"
              /\ txs' = [txs EXCEPT ![tx].evs = @ \cup {e}]
              /\ UNCHANGED stored
        /\ sinkPos' = {f \in call[c].evs : f <= e}
        /\ call' = [call EXCEPT ![c].todo = @ \ {e}]
  /\ UNCHANGED <<sinkKind, useTx, tx, orphans, sinkGhosts, sinkCounts>>

\* The statement fails, which it always does in a transaction that has ended.
ExecFails(c) ==
  /\ Sql
  /\ InWrite(c, "write")
  /\ call[c].todo # {}
  /\ \E effect \in IF tx = 0 THEN {{}, {FirstOf(call[c].todo)} \ noEffect} ELSE {{}} :
       stored' = stored \cup effect
  /\ call' = [call EXCEPT ![c].pc = "failed"]
  /\ UNCHANGED <<sinkKind, useTx, sqlVars, sinkPos, sinkGhosts, sinkCounts>>

\* Write and Flush read the field and commit what they found.
ReadTx(c) ==
  /\ \/ Sql /\ InWrite(c, "write") /\ call[c].todo = {}
     \/ call[c].pc = "flush"
  /\ call' = [call EXCEPT ![c] =
       IF useTx /\ tx # 0 THEN [@ EXCEPT !.pc = "commit", !.got = tx]
       ELSE IF @.pc = "flush" THEN NoCall
       ELSE [@ EXCEPT !.pc = "ok"]]
  /\ UNCHANGED <<sinkKind, useTx, sqlVars, stored, sinkPos, sinkGhosts, sinkCounts>>

Commit(c) ==
  /\ call[c].pc = "commit"
  /\ LET t == call[c].got
     IN /\ txs[t].state = "open"
        /\ txs' = [txs EXCEPT ![t].state = "committed"]
        /\ stored' = stored \cup txs[t].evs
  /\ call' = [call EXCEPT ![c].pc = IF call[c].evs = {} THEN "renew" ELSE "ok"]
  /\ UNCHANGED <<sinkKind, useTx, tx, orphans, sinkPos, sinkGhosts, sinkCounts>>

\* Plausible bug: Write logs the error of a commit and returns nil.
CommitFailsIgnored(c) ==
  /\ call[c].pc = "commit"
  /\ LET t == call[c].got
     IN IF txs[t].state = "open"
        THEN txs' = [txs EXCEPT ![t].state = "rolledback"]
        ELSE UNCHANGED txs
  /\ call' = [call EXCEPT ![c] = IF @.evs = {} THEN NoCall ELSE [@ EXCEPT !.pc = "ok"]]
  /\ UNCHANGED <<sinkKind, useTx, tx, orphans, stored, sinkPos, sinkGhosts, sinkCounts>>

\* The commit fails: the transaction has ended already, or the database
\* rolled it back, or it committed it and the answer was lost.
CommitFails(c) ==
  /\ call[c].pc = "commit"
  /\ LET t == call[c].got
     IN IF txs[t].state = "open"
        THEN \E end \in {"committed", "rolledback"} :
               /\ txs' = [txs EXCEPT ![t].state = end]
               /\ stored' = IF end = "committed" THEN stored \cup txs[t].evs ELSE stored
        ELSE UNCHANGED <<txs, stored>>
  /\ call' = [call EXCEPT ![c] = IF @.evs = {} THEN NoCall ELSE [@ EXCEPT !.pc = "failed"]]
  /\ UNCHANGED <<sinkKind, useTx, tx, orphans, sinkPos, sinkGhosts, sinkCounts>>

RollBack(t) ==
  [txs EXCEPT ![t].state = IF @ = "open" THEN "rolledback" ELSE @]

\* Plausible bug: the deferred function sets the field to nil and no longer
\* rolls the transaction back.
ClearOnly ==
  /\ tx' = 0
  /\ UNCHANGED txs

\* What a Write with a transaction does to the field when it returns.
Clear ==
  /\ tx' = 0
  /\ txs' = IF sinkKind = "oracle" /\ tx # 0 THEN RollBack(tx) ELSE txs

Return(c) ==
  /\ call[c].pc \in {"ok", "failed"}
  /\ IF useTx THEN Clear ELSE UNCHANGED <<tx, txs>>
  /\ IF call[c].pc = "ok"
     THEN /\ acked' = acked \cup call[c].evs
          /\ shared' = IF c \in mixed THEN shared \cup call[c].evs ELSE shared
     ELSE UNCHANGED <<acked, shared>>
  /\ orphans' = IF useTx /\ (c \in mixed \/ (sinkKind = "mysql" /\ call[c].pc = "failed"))
                THEN orphans \cup {call[c].own} ELSE orphans
  /\ call' = [call EXCEPT ![c] = NoCall]
  /\ UNCHANGED <<sinkKind, useTx, stored, sinkPos, mixed, noEffect, sinkCounts>>

\* database/sql rolls a transaction back when the context it was begun with ends.
ContextEnds(t) ==
  /\ txs[t].state = "open"
  /\ txs' = RollBack(t)
  /\ UNCHANGED <<sinkKind, useTx, tx, orphans, call, stored, sinkPos, sinkGhosts, sinkCounts>>

-----------------------------------------------------------------------------
(* Connectors without transactions: requests with several events.          *)

\* Plausible bug: the position moves with the first collection.
SendMovesEarly(c, group, kept) ==
  /\ ~Sql
  /\ InWrite(c, "write")
  /\ group # {}
  /\ sinkKind # "mongo" => group = call[c].todo
  /\ IF sinkKind = "es" THEN kept \cap noEffect = {} ELSE kept = group \ noEffect
  /\ stored' = stored \cup kept
  /\ sinkPos' = call[c].evs
  /\ LET rest == call[c].todo \ group
     IN call' = [call EXCEPT ![c].todo = rest, ![c].pc = IF rest = {} THEN "ok" ELSE @]
  /\ UNCHANGED <<sinkKind, useTx, sqlVars, sinkGhosts, sinkCounts>>

\* A request that is answered.  Mongodb sends one per collection; elasticsearch
\* keeps some documents.
Send(c, group, kept) ==
  /\ ~Sql
  /\ InWrite(c, "write")
  /\ group # {}
  /\ sinkKind # "mongo" => group = call[c].todo
  /\ IF sinkKind = "es" THEN kept \cap noEffect = {} ELSE kept = group \ noEffect
  /\ stored' = stored \cup kept
  /\ LET rest == call[c].todo \ group
     IN /\ call' = [call EXCEPT ![c].todo = rest, ![c].pc = IF rest = {} THEN "ok" ELSE @]
        /\ sinkPos' = IF rest = {} THEN call[c].evs ELSE sinkPos
  /\ UNCHANGED <<sinkKind, useTx, sqlVars, sinkGhosts, sinkCounts>>

\* A request that fails after the database has taken some of its events.
SendFails(c, kept) ==
  /\ ~Sql
  /\ InWrite(c, "write")
  /\ stored' = stored \cup (kept \ noEffect)
  /\ call' = IF sinkKind = "es" /\ call[c].tries < MaxBulkRetries
             THEN [call EXCEPT ![c].tries = @ + 1]
             ELSE [call EXCEPT ![c].pc = "failed"]
  /\ UNCHANGED <<sinkKind, useTx, sqlVars, sinkPos, sinkGhosts, sinkCounts>>

-----------------------------------------------------------------------------
(* Flush and Stop.                                                         *)

\* Only the connectors of the mysql family do something in Flush.
Flush(c) ==
  /\ call[c] = NoCall
  /\ sinkKind = "mysql"
  /\ flushes < MaxFlushes
  /\ flushes' = flushes + 1
  /\ call' = [call EXCEPT ![c].pc = "flush"]
  /\ Meet(c)
  /\ UNCHANGED <<sinkKind, useTx, sqlVars, stored, sinkPos, acked, shared, noEffect, issued, stops>>

StopSink ==
  /\ stops < MaxStops
  /\ stops' = stops + 1
  /\ IF Sql /\ tx # 0
     THEN tx' = 0 /\ txs' = RollBack(tx)
     ELSE UNCHANGED <<tx, txs>>
  /\ mixed' = mixed \cup Busy
  /\ UNCHANGED <<sinkKind, useTx, orphans, call, stored, sinkPos, acked, shared, noEffect, issued,
                 flushes>>

-----------------------------------------------------------------------------
SinkNext ==
  \/ \E c \in Callers :
       \/ \E n \in 1..MaxSinkBatch : BeginWrite(c, n)
       \/ BeginTx(c)
       \/ BeginFails(c)
       \/ Exec(c)
       \/ ExecFails(c)
       \/ ReadTx(c)
       \/ Commit(c)
       \/ CommitFails(c)
       \/ Return(c)
       \/ \E group \in SUBSET call[c].todo : \E kept \in SUBSET group : Send(c, group, kept)
       \/ \E kept \in SUBSET call[c].todo : SendFails(c, kept)
       \/ Flush(c)
  \/ \E t \in DOMAIN txs : ContextEnds(t)
  \/ StopSink

SinkSpec == SinkInit /\ [][SinkNext]_sinkVars

-----------------------------------------------------------------------------
(* Correctness.                                                            *)

\* When Write returns nil its events are in the database, whatever failed, was
\* retried or ran beside it.  The exceptions: events without effect, which are
\* acknowledged like the others (BeginWrite lists them), documents that
\* elasticsearch rejects, and with transactions a Write that overlaps another
\* Write, a Flush or a Stop: it may have written through a transaction that
\* someone else ends, because the field tx is shared.
AckedIsStored ==
  \/ sinkKind = "es"
  \/ acked \subseteq stored \cup noEffect \cup (IF useTx THEN shared ELSE {})

\* GetPosition ("returns the last committed position") stands for events that
\* are in the database, up to its event, and moves over events without effect
\* as over the others.  The SQL connectors set it before they commit, so with
\* transactions it is ahead until Write has returned nil, and stays ahead when
\* the commit fails.
PositionIsStored ==
  \/ sinkKind = "es"
  \/ sinkPos \subseteq stored \cup noEffect
  \/ useTx /\ (~(sinkPos \subseteq acked) \/ sinkPos \cap shared # {})

\* A transaction is open only while the Write that began it runs.  Three
\* kinds of call leave one behind, until the context it was begun with ends:
\* a Write of mysql or postgres that fails (the deferred function forgets the
\* transaction without a rollback), one that overlaps another call, and Flush.
OpenTxHasWrite ==
  \A t \in DOMAIN txs :
    txs[t].state = "open" => t \in orphans \/ \E c \in Callers : call[c].own = t
=============================================================================
