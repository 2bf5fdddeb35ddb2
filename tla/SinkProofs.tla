----------------------------- MODULE SinkProofs -----------------------------
(***************************************************************************)
(* Proofs about the positions that are kept: the offset storages, for any  *)
(* number of storages, and the sink connectors, for any number of          *)
(* goroutines that use one, any batches and any retries.                   *)
(***************************************************************************)
EXTENDS SinkConnectors, OffsetStorage, WellFoundedInduction, TLAPS

\* A sequence with one element replaced.
LEMMA SeqExcept ==
  ASSUME NEW S, NEW s \in Seq(S), NEW k \in 1..Len(s), NEW x \in S
  PROVE  /\ [s EXCEPT ![k] = x] \in Seq(S) /\ Len([s EXCEPT ![k] = x]) = Len(s)
         /\ \A j \in 1..Len(s) : [s EXCEPT ![k] = x][j] = IF j = k THEN x ELSE s[j]
  OBVIOUS

-----------------------------------------------------------------------------

(***************************************************************************)
(* The sink connectors (SinkConnectors): a Write that returned nil is      *)
(* stored, GetPosition stands for stored events, and no transaction stays  *)
(* open without its Write, each with the exceptions the property names.    *)
(*                                                                         *)
(* The three need to know what a call that met no other one finds in the   *)
(* field tx that all calls share: the transaction it began itself (Solo).  *)
(***************************************************************************)

\* Types of a transaction and of a call.
TxRec == [state : {"open", "committed", "rolledback"}, evs : SUBSET Nat]

CallRec == [pc : {"idle", "begin", "write", "commit", "ok", "failed", "flush", "renew"},
            evs : SUBSET Nat, todo : SUBSET Nat, own : Nat, got : Nat, tries : Nat]

SinkType ==
  /\ call \in [Callers -> CallRec]
  /\ txs \in Seq(TxRec)
  /\ tx \in 0..Len(txs)
  /\ issued \in Nat
  /\ useTx => Sql
  /\ ~useTx => tx = 0 /\ txs = <<>>

\* What a call has at each of its points.
Shape(c) ==
  /\ call[c].todo \subseteq call[c].evs
  /\ call[c].pc = "idle" => call[c] = NoCall
  /\ call[c].pc \in {"begin", "commit", "renew"} => useTx
  /\ call[c].pc \in {"begin", "write", "ok", "failed"} => call[c].evs # {}
  /\ call[c].pc \in {"flush", "renew"} => call[c].evs = {}
  /\ call[c].pc = "begin" \/ call[c].evs = {} => call[c].own = 0
  /\ call[c].pc = "begin" => call[c].todo = call[c].evs
  /\ call[c].pc \in {"commit", "ok"} => call[c].todo = {}
  /\ call[c].pc = "commit" => call[c].got \in 1..Len(txs)

\* A Write with a transaction that met no other call is alone in the connector
\* and finds its own transaction in the field tx.
Solo(c) ==
  useTx /\ c \notin mixed /\ call[c] # NoCall =>
    /\ \A d \in Callers : call[d] # NoCall => d = c
    /\ call[c].evs # {} /\ call[c].pc \in {"write", "commit"} =>
         /\ call[c].own = tx /\ tx \in 1..Len(txs)
         /\ txs[tx].state = "open" => call[c].evs \ call[c].todo \subseteq txs[tx].evs \cup noEffect
         /\ call[c].pc = "commit" => call[c].got = tx
    /\ call[c].pc = "ok" =>
         /\ call[c].evs \subseteq stored \cup noEffect
         /\ call[c].own \in 1..Len(txs) /\ txs[call[c].own].state # "open"
    /\ call[c].pc = "failed" => call[c].own = tx /\ tx \in 1..Len(txs)

\* A Write without a transaction has stored what it is done with.
Direct(c) ==
  ~useTx /\ sinkKind # "es" /\ call[c].pc \in {"write", "ok"} =>
    call[c].evs \ call[c].todo \subseteq stored \cup noEffect

\* The inductive invariant.
SinkInv ==
  /\ SinkType
  /\ \A c \in Callers : Shape(c) /\ Solo(c) /\ Direct(c)
  /\ AckedIsStored
  /\ OpenTxHasWrite
  /\ ~useTx /\ sinkKind # "es" => sinkPos \subseteq stored \cup noEffect

\* The next event of a batch is its least one.
LEMMA FirstOfLeast ==
  ASSUME NEW S \in SUBSET Nat, S # {}
  PROVE  FirstOf(S) \in S /\ \A f \in S : FirstOf(S) <= f
<1> DEFINE R == OpToRel(<, Nat)
<1>1. IsWellFoundedOn(R, Nat)
  BY Zenon, NatLessThanWellFounded
<1>2. \E x \in S : \A y \in S : ~(<<y, x>> \in R)
  <2> HIDE DEF R
  <2> QED  BY Zenon, <1>1, WFMin
<1>3. \A x, y \in Nat : ~(<<y, x>> \in R) => x <= y
  BY DEF OpToRel
<1>4. \E x \in S : \A y \in S : x <= y
  <2> HIDE DEF R
  <2> QED  BY Zenon, <1>2, <1>3
<1> QED  BY Zenon, <1>4 DEF FirstOf

\* A change of one transaction.
LEMMA TxUpdate ==
  ASSUME NEW s \in Seq(TxRec), NEW t \in 1..Len(s), NEW r \in TxRec
  PROVE  /\ [s EXCEPT ![t] = r] \in Seq(TxRec)
         /\ Len([s EXCEPT ![t] = r]) = Len(s)
         /\ [s EXCEPT ![t] = r][t] = r
         /\ \A u \in (1..Len(s)) \ {t} : [s EXCEPT ![t] = r][u] = s[u]
  BY SeqExcept

\* A call that is under way is at some point of the code.
LEMMA BusyPoint ==
  ASSUME SinkInv, NEW c \in Callers
  PROVE  call[c].pc # "idle" <=> call[c] # NoCall
  BY DEF SinkInv, Shape, NoCall

\* What a step of one call leaves to the other calls.
LEMMA Others ==
  ASSUME SinkInv, NEW c \in Callers, NEW r, call' = [call EXCEPT ![c] = r],
         UNCHANGED <<sinkKind, useTx>>, stored \subseteq stored', noEffect \subseteq noEffect',
         txs' \in Seq(TxRec), Len(txs) <= Len(txs'),
         (call[c] # NoCall /\ mixed' = mixed) \/ Busy \subseteq mixed'
  PROVE  \A d \in Callers \ {c} : Shape(d)' /\ Solo(d)' /\ Direct(d)'
<1> SUFFICES ASSUME NEW d \in Callers \ {c}
             PROVE  Shape(d)' /\ Solo(d)' /\ Direct(d)'
  BY Zenon
<1>1. call'[d] = call[d]
  BY Zenon DEF SinkInv, SinkType
<1>2. Len(txs) \in Nat /\ Len(txs') \in Nat
  BY DEF SinkInv, SinkType
<1>3. Shape(d)'
  BY <1>1, <1>2 DEF SinkInv, Shape
<1>4. Direct(d)'
  BY Zenon, <1>1 DEF SinkInv, Direct
<1>5. Solo(d)'
  BY Zenon, <1>1 DEF SinkInv, Solo, Busy
<1> QED  BY Zenon, <1>3, <1>4, <1>5

\* A step of call c keeps the invariant if it keeps what concerns c and the
\* transactions.
LEMMA CallStep ==
  ASSUME SinkInv, NEW c \in Callers, NEW r \in CallRec, call' = [call EXCEPT ![c] = r],
         UNCHANGED <<sinkKind, useTx>>, stored \subseteq stored', noEffect \subseteq noEffect',
         txs' \in Seq(TxRec), Len(txs) <= Len(txs'), tx' \in 0..Len(txs'), issued' \in Nat,
         ~useTx => tx' = 0 /\ txs' = <<>>,
         (call[c] # NoCall /\ mixed' = mixed) \/ Busy \subseteq mixed',
         call'[c] = r => Shape(c)' /\ Solo(c)' /\ Direct(c)',
         AckedIsStored', orphans \subseteq orphans',
         \A t \in 1..Len(txs') : txs'[t].state = "open" =>
           \/ t \in orphans' \/ r.own = t
           \/ t \in 1..Len(txs) /\ txs[t].state = "open" /\ call[c].own # t,
         ~useTx /\ sinkKind # "es" => sinkPos' \subseteq stored' \cup noEffect'
  PROVE  SinkInv'
<1>1. call' \in [Callers -> CallRec] /\ call'[c] = r
  BY Zenon DEF SinkInv, SinkType
<1>2. SinkType'
  BY Zenon, <1>1 DEF SinkInv, SinkType, Sql
<1>3. \A d \in Callers : Shape(d)' /\ Solo(d)' /\ Direct(d)'
  BY Zenon, <1>1, Others
<1>4. OpenTxHasWrite'
  <2> SUFFICES ASSUME NEW t \in DOMAIN txs', txs'[t].state = "open"
               PROVE  t \in orphans' \/ \E d \in Callers : call'[d].own = t
    BY Zenon DEF OpenTxHasWrite
  <2>1. t \in 1..Len(txs')
    OBVIOUS
  <2>2. CASE t \in orphans' \/ r.own = t
    BY Zenon, <1>1, <2>2
  <2>3. CASE t \in 1..Len(txs) /\ txs[t].state = "open" /\ call[c].own # t
    <3>1. t \in orphans \/ \E d \in Callers : call[d].own = t
      BY <2>3 DEF SinkInv, SinkType, OpenTxHasWrite
    <3>2. CASE t \in orphans
      BY Zenon, <3>2
    <3>3. ASSUME NEW d \in Callers, call[d].own = t
          PROVE  call'[d].own = t
      BY Zenon, <2>3, <3>3 DEF SinkInv, SinkType
    <3> QED  BY Zenon, <3>1, <3>2, <3>3
  <2> QED  BY Zenon, <2>1, <2>2, <2>3
<1> QED  BY Zenon, <1>2, <1>3, <1>4 DEF SinkInv

\* A step that acknowledges nothing.
LEMMA AckKept ==
  ASSUME SinkInv, UNCHANGED <<sinkKind, useTx, acked, shared>>,
         stored \subseteq stored', noEffect \subseteq noEffect'
  PROVE  AckedIsStored'
  BY Zenon DEF SinkInv, AckedIsStored

\* A step that leaves the transactions alone and the caller with its own.
LEMMA QuietCall ==
  ASSUME SinkInv, NEW c \in Callers, NEW r \in CallRec, call' = [call EXCEPT ![c] = r],
         UNCHANGED <<sinkKind, useTx, tx, txs, orphans, acked, shared>>,
         stored \subseteq stored', noEffect \subseteq noEffect', issued' \in Nat,
         (call[c] # NoCall /\ mixed' = mixed) \/ Busy \subseteq mixed',
         call'[c] = r => Shape(c)' /\ Solo(c)' /\ Direct(c)',
         r.own = call[c].own \/ call[c].own = 0,
         ~useTx /\ sinkKind # "es" => sinkPos' \subseteq stored' \cup noEffect'
  PROVE  SinkInv'
<1>1. Len(txs) \in Nat
  BY DEF SinkInv, SinkType
<1>2. /\ txs' \in Seq(TxRec) /\ Len(txs) <= Len(txs') /\ tx' \in 0..Len(txs')
      /\ ~useTx => tx' = 0 /\ txs' = <<>>
      /\ orphans \subseteq orphans'
      /\ \A t \in 1..Len(txs') : txs'[t].state = "open" =>
           \/ t \in orphans' \/ r.own = t
           \/ t \in 1..Len(txs) /\ txs[t].state = "open" /\ call[c].own # t
  BY <1>1 DEF SinkInv, SinkType
<1>3. AckedIsStored'
  BY Zenon, AckKept
<1> QED  BY Zenon, <1>2, <1>3, CallStep

\* The end of a transaction, and what RollBack does.
LEMMA TxEnd ==
  ASSUME SinkInv, NEW t \in 1..Len(txs), NEW z \in {"open", "committed", "rolledback"},
         txs' = [txs EXCEPT ![t].state = z]
  PROVE  /\ txs' \in Seq(TxRec) /\ Len(txs') = Len(txs) /\ Len(txs) \in Nat
         /\ txs'[t].state = z /\ txs'[t].evs = txs[t].evs
         /\ \A u \in (1..Len(txs)) \ {t} : txs'[u] = txs[u]
<1>1. txs \in Seq(TxRec) /\ txs[t] \in TxRec /\ Len(txs) \in Nat
  BY DEF SinkInv, SinkType
<1>2. PICK x : x = [txs[t] EXCEPT !.state = z]
  BY Zenon
<1>3. x \in TxRec /\ x.state = z /\ x.evs = txs[t].evs
  BY Zenon, <1>1, <1>2 DEF TxRec
<1>4. txs' = [txs EXCEPT ![t] = x]
  BY Zenon, <1>2
<1> QED  BY <1>1, <1>3, <1>4, TxUpdate

\* RollBack leaves the transaction ended and the others as they were.
LEMMA RollBackTx ==
  ASSUME SinkInv, NEW t \in 1..Len(txs), txs' = RollBack(t)
  PROVE  /\ txs' \in Seq(TxRec) /\ Len(txs') = Len(txs) /\ Len(txs) \in Nat
         /\ txs'[t].state # "open" /\ txs'[t].evs = txs[t].evs
         /\ \A u \in (1..Len(txs)) \ {t} : txs'[u] = txs[u]
<1>1. txs[t].state \in {"open", "committed", "rolledback"}
  <2>1. txs[t] \in TxRec
    BY DEF SinkInv, SinkType
  <2> QED  BY Zenon, <2>1 DEF TxRec
<1>2. PICK z \in {"committed", "rolledback"} :
        z = IF txs[t].state = "open" THEN "rolledback" ELSE txs[t].state
  BY Zenon, <1>1
<1>3. txs' = [txs EXCEPT ![t].state = z]
  BY Zenon, <1>2 DEF RollBack
<1> QED  BY Zenon, <1>2, <1>3, TxEnd

\* A Write starts: it is alone exactly if the connector was empty.
LEMMA BeginWriteInv ==
  ASSUME SinkInv, NEW c \in Callers, NEW n \in 1..MaxSinkBatch, BeginWrite(c, n)
  PROVE  SinkInv'
<1> DEFINE evs == (issued + 1)..(issued + n)
<1>1. issued \in Nat /\ n \in Nat /\ n >= 1 /\ issued' = issued + n
  BY SinkBounds DEF SinkInv, SinkType, BeginWrite
<1>2. evs \in SUBSET Nat /\ evs # {}
  <2>1. issued + 1 \in evs
    BY <1>1
  <2> QED  BY <1>1, <2>1
<1> HIDE DEF evs
<1>3. PICK r : r = [NoCall EXCEPT !.evs = evs, !.todo = evs,
                                  !.pc = IF useTx THEN "begin" ELSE "write"]
  BY Zenon
<1>4. /\ r \in CallRec /\ r.evs = evs /\ r.todo = evs /\ r.own = 0
      /\ r.pc = IF useTx THEN "begin" ELSE "write"
  BY Zenon, <1>2, <1>3 DEF NoCall, CallRec
<1>5. /\ call[c] = NoCall /\ call' = [call EXCEPT ![c] = r] /\ noEffect \subseteq noEffect'
      /\ mixed' = IF Busy = {} THEN mixed \ {c} ELSE mixed \cup Busy \cup {c}
      /\ UNCHANGED <<sinkKind, useTx, tx, txs, orphans, stored, sinkPos, acked, shared>>
  BY Zenon, <1>3 DEF BeginWrite, Meet, sqlVars, evs
<1>6. ASSUME call'[c] = r
      PROVE  Shape(c)' /\ Solo(c)' /\ Direct(c)'
  <2>1. Shape(c)'
    BY Zenon, <1>2, <1>4, <1>5, <1>6 DEF Shape
  <2>2. Direct(c)'
    BY Zenon, <1>4, <1>6 DEF Direct
  <2>3. Solo(c)'
    <3> SUFFICES ASSUME useTx, c \notin mixed'
                 PROVE  /\ \A d \in Callers : call'[d] # NoCall => d = c
                        /\ call'[c].pc = "begin"
      BY Zenon, <1>5 DEF Solo
    <3>1. Busy = {}
      BY Zenon, <1>5
    <3> QED  BY Zenon, <1>4, <1>5, <1>6, <3>1 DEF Busy, SinkInv, SinkType
  <2> QED  BY Zenon, <2>1, <2>2, <2>3
<1>7. Busy \subseteq mixed'
  BY Zenon, <1>5
<1>8. call[c].own = 0
  BY <1>5 DEF NoCall
<1>9. ~useTx /\ sinkKind # "es" => sinkPos' \subseteq stored' \cup noEffect'
  BY Zenon, <1>5 DEF SinkInv
<1>10. issued' \in Nat
  BY <1>1
<1> QED  BY Zenon, <1>4, <1>5, <1>6, <1>7, <1>8, <1>9, <1>10, QuietCall

\* BeginTx puts the new transaction into the field: the Write's own.
LEMMA BeginTxInv ==
  ASSUME SinkInv, NEW c \in Callers, BeginTx(c)
  PROVE  SinkInv'
<1>1. PICK n : n = Len(txs) + 1
  BY Zenon
<1>2. PICK r : r = IF call[c].pc = "renew" THEN NoCall
                   ELSE [call[c] EXCEPT !.pc = "write", !.own = n]
  BY Zenon
<1>3. PICK x \in TxRec : x = [state |-> "open", evs |-> {}]
  BY Zenon DEF TxRec
<1>4. /\ call[c].pc \in {"begin", "renew"} /\ txs' = Append(txs, x) /\ tx' = n
      /\ call' = [call EXCEPT ![c] = r]
      /\ orphans' = IF call[c].pc = "renew" THEN orphans \cup {n} ELSE orphans
      /\ UNCHANGED <<sinkKind, useTx, stored, sinkPos, acked, shared, mixed, noEffect, issued>>
  BY Zenon, <1>1, <1>2, <1>3 DEF BeginTx, sinkGhosts, sinkCounts
<1>5. /\ useTx /\ call[c] # NoCall /\ call[c] \in CallRec /\ call[c].own = 0
      /\ call[c].todo \subseteq call[c].evs
      /\ call[c].pc = "begin" => call[c].evs # {} /\ call[c].todo = call[c].evs
  BY Zenon, <1>4, BusyPoint DEF SinkInv, SinkType, Shape
<1>6. /\ txs' \in Seq(TxRec) /\ Len(txs') = n /\ n \in Nat /\ txs'[n] = x
      /\ Len(txs) \in Nat /\ \A t \in 1..Len(txs) : txs'[t] = txs[t]
  BY <1>1, <1>4 DEF SinkInv, SinkType
<1>7. r \in CallRec
  BY Zenon, <1>2, <1>5, <1>6 DEF NoCall, CallRec
<1>8. ASSUME call'[c] = r
      PROVE  Shape(c)' /\ Solo(c)' /\ Direct(c)'
  <2>1. CASE call[c].pc = "renew"
    BY <1>2, <1>8, <2>1 DEF Shape, Solo, Direct, NoCall
  <2>2. CASE call[c].pc = "begin"
    <3>1. /\ r.pc = "write" /\ r.own = n /\ r.evs = call[c].evs /\ r.todo = call[c].todo
      BY Zenon, <1>2, <1>5, <2>2 DEF CallRec
    <3>2. Shape(c)' /\ Direct(c)'
      BY Zenon, <1>4, <1>5, <1>8, <2>2, <3>1 DEF Shape, Direct
    <3>3. Solo(c)'
      <4> SUFFICES ASSUME c \notin mixed
                   PROVE  /\ \A d \in Callers : call'[d] # NoCall => d = c
                          /\ call'[c].evs \ call'[c].todo = {}
        BY <1>1, <1>4, <1>6, <1>8, <3>1 DEF Solo
      <4>1. \A d \in Callers : call[d] # NoCall => d = c
        BY Zenon, <1>5 DEF SinkInv, Solo
      <4> QED  BY Zenon, <1>4, <1>5, <1>8, <2>2, <3>1, <4>1 DEF SinkInv, SinkType
    <3> QED  BY Zenon, <3>2, <3>3
  <2> QED  BY Zenon, <1>4, <2>1, <2>2
<1>9. ASSUME NEW t \in 1..Len(txs'), txs'[t].state = "open"
      PROVE  \/ t \in orphans' \/ r.own = t
             \/ t \in 1..Len(txs) /\ txs[t].state = "open" /\ call[c].own # t
  <2>1. CASE t = n
    <3>1. CASE call[c].pc = "renew"
      BY Zenon, <1>4, <2>1, <3>1
    <3>2. CASE call[c].pc = "begin"
      BY Zenon, <1>2, <1>5, <2>1, <3>2 DEF CallRec
    <3> QED  BY Zenon, <1>4, <3>1, <3>2
  <2>2. CASE t # n
    BY <1>1, <1>5, <1>6, <1>9, <2>2
  <2> QED  BY Zenon, <2>1, <2>2
<1>10. AckedIsStored'
  BY Zenon, <1>4, AckKept
<1>11. tx' \in 0..Len(txs') /\ Len(txs) <= Len(txs') /\ issued' \in Nat /\ orphans \subseteq orphans'
  BY <1>1, <1>4, <1>6 DEF SinkInv, SinkType
<1> QED  BY Zenon, <1>4, <1>5, <1>6, <1>7, <1>8, <1>9, <1>10, <1>11, CallStep

\* A BeginTx that fails ends the call with nothing open.
LEMMA BeginFailsInv ==
  ASSUME SinkInv, NEW c \in Callers, BeginFails(c)
  PROVE  SinkInv'
<1>1. PICK r \in CallRec : r = NoCall
  BY Zenon DEF NoCall, CallRec
<1>2. /\ call[c].pc \in {"begin", "renew"} /\ call' = [call EXCEPT ![c] = r]
      /\ UNCHANGED <<sinkKind, useTx, tx, txs, orphans, stored, sinkPos, acked, shared, mixed,
                     noEffect, issued>>
  BY Zenon, <1>1 DEF BeginFails, sqlVars, sinkGhosts, sinkCounts
<1>3. call[c] # NoCall /\ call[c].own = 0
  BY Zenon, <1>2, BusyPoint DEF SinkInv, Shape
<1>4. call'[c] = r => Shape(c)' /\ Solo(c)' /\ Direct(c)'
  BY <1>1 DEF Shape, Solo, Direct, NoCall
<1>5. issued' \in Nat /\ (~useTx /\ sinkKind # "es" => sinkPos' \subseteq stored' \cup noEffect')
  BY Zenon, <1>2 DEF SinkInv, SinkType
<1> QED  BY Zenon, <1>2, <1>3, <1>4, <1>5, QuietCall

\* A statement goes to the Write's own transaction, or to the database.
LEMMA ExecInv ==
  ASSUME SinkInv, NEW c \in Callers, Exec(c)
  PROVE  SinkInv'
<1>1. /\ Sql /\ call[c].pc = "write" /\ call[c].evs # {} /\ call[c].todo # {}
      /\ UNCHANGED <<sinkKind, useTx, tx, orphans, acked, shared, mixed, noEffect, issued>>
  BY Zenon DEF Exec, InWrite, sinkGhosts, sinkCounts
<1>2. /\ call[c] \in CallRec /\ call[c].evs \subseteq Nat /\ call[c].todo \subseteq call[c].evs
      /\ call[c] # NoCall
  BY Zenon, <1>1, BusyPoint DEF SinkInv, SinkType, Shape, CallRec
<1>3. PICK e : e = FirstOf(call[c].todo)
  BY Zenon
<1>4. e \in call[c].todo /\ e \in Nat /\ \A f \in call[c].todo : e <= f
  BY Zenon, <1>1, <1>2, <1>3, FirstOfLeast
<1>5. PICK r : r = [call[c] EXCEPT !.todo = @ \ {e}]
  BY Zenon
<1>6. /\ r \in CallRec /\ r.pc = "write" /\ r.evs = call[c].evs /\ r.own = call[c].own
      /\ r.todo = call[c].todo \ {e}
  BY Zenon, <1>1, <1>2, <1>5 DEF CallRec
<1>7. /\ call' = [call EXCEPT ![c] = r] /\ sinkPos' = {f \in call[c].evs : f <= e}
      /\ e \in noEffect => UNCHANGED <<stored, txs>>
      /\ e \notin noEffect /\ tx = 0 => stored' = stored \cup {e} /\ UNCHANGED txs
      /\ e \notin noEffect /\ tx # 0 => /\ txs[tx].state = "open" /\ UNCHANGED stored
                                         /\ txs' = [txs EXCEPT ![tx].evs = @ \cup {e}]
  BY Zenon, <1>3, <1>5 DEF Exec
<1>8. issued' \in Nat
  BY Zenon, <1>1 DEF SinkInv, SinkType
<1>9. ASSUME call'[c] = r
      PROVE  Shape(c)'
  BY Zenon, <1>1, <1>2, <1>6, <1>9 DEF SinkInv, Shape
<1>10. ASSUME UNCHANGED txs, stored \subseteq stored', e \in stored' \cup noEffect,
              tx # 0 => e \in noEffect
       PROVE  SinkInv'
  <2>1. ASSUME call'[c] = r
        PROVE  Solo(c)' /\ Direct(c)'
    <3>1. Direct(c)'
      BY Zenon, <1>1, <1>4, <1>6, <1>10, <2>1 DEF SinkInv, Direct
    <3>2. Solo(c)'
      <4> SUFFICES ASSUME useTx, c \notin mixed
                   PROVE  /\ \A d \in Callers : call'[d] # NoCall => d = c
                          /\ r.own = tx /\ tx \in 1..Len(txs)
                          /\ txs[tx].state = "open" => r.evs \ r.todo \subseteq txs[tx].evs \cup noEffect
        BY Zenon, <1>1, <1>6, <1>10, <2>1 DEF Solo
      <4>1. /\ \A d \in Callers : call[d] # NoCall => d = c
            /\ call[c].own = tx /\ tx \in 1..Len(txs)
            /\ txs[tx].state = "open" =>
                 call[c].evs \ call[c].todo \subseteq txs[tx].evs \cup noEffect
        BY Zenon, <1>1, <1>2 DEF SinkInv, Solo
      <4>2. \A d \in Callers \ {c} : call'[d] = call[d]
        BY Zenon, <1>7 DEF SinkInv, SinkType
      <4>3. tx # 0
        BY <4>1 DEF SinkInv, SinkType
      <4> QED  BY Zenon, <1>6, <1>10, <4>1, <4>2, <4>3
    <3> QED  BY Zenon, <3>1, <3>2
  <2>2. ~useTx /\ sinkKind # "es" => sinkPos' \subseteq stored' \cup noEffect'
    <3> SUFFICES ASSUME ~useTx, sinkKind # "es", NEW f \in call[c].evs, f <= e
                 PROVE  f \in stored' \cup noEffect'
      BY Zenon, <1>7
    <3>1. f \notin call[c].todo \/ f = e
      BY <1>2, <1>4
    <3> QED  BY Zenon, <1>1, <1>10, <3>1 DEF SinkInv, Direct
  <2> QED  BY Zenon, <1>1, <1>2, <1>6, <1>7, <1>8, <1>9, <1>10, <2>1, <2>2, QuietCall
<1>11. CASE e \notin noEffect /\ tx # 0
  <2>1. /\ useTx /\ tx \in 1..Len(txs) /\ Len(txs) \in Nat /\ txs[tx] \in TxRec
        /\ txs \in Seq(TxRec)
    BY <1>11 DEF SinkInv, SinkType
  <2>2. PICK x : x = [txs[tx] EXCEPT !.evs = @ \cup {e}]
    BY Zenon
  <2>3. x \in TxRec /\ x.state = "open" /\ x.evs = txs[tx].evs \cup {e}
    BY Zenon, <1>4, <1>7, <1>11, <2>1, <2>2 DEF TxRec
  <2>4. txs' = [txs EXCEPT ![tx] = x]
    BY Zenon, <1>7, <1>11, <2>2
  <2>5. /\ txs' \in Seq(TxRec) /\ Len(txs') = Len(txs) /\ txs'[tx] = x
        /\ \A u \in (1..Len(txs)) \ {tx} : txs'[u] = txs[u]
    BY <2>1, <2>3, <2>4, TxUpdate
  <2>6. ASSUME call'[c] = r
        PROVE  Solo(c)' /\ Direct(c)'
    <3>1. Direct(c)'
      BY Zenon, <1>1, <2>1 DEF Direct
    <3>2. Solo(c)'
      <4> SUFFICES ASSUME c \notin mixed
                   PROVE  /\ \A d \in Callers : call'[d] # NoCall => d = c
                          /\ r.own = tx /\ r.evs \ r.todo \subseteq txs'[tx].evs \cup noEffect
        BY Zenon, <1>1, <1>6, <2>1, <2>5, <2>6 DEF Solo
      <4>1. /\ \A d \in Callers : call[d] # NoCall => d = c
            /\ call[c].own = tx /\ call[c].evs \ call[c].todo \subseteq txs[tx].evs \cup noEffect
        BY Zenon, <1>1, <1>2, <1>7, <1>11, <2>1 DEF SinkInv, Solo
      <4>2. \A d \in Callers \ {c} : call'[d] = call[d]
        BY Zenon, <1>7 DEF SinkInv, SinkType
      <4> QED  BY Zenon, <1>6, <2>3, <2>5, <4>1, <4>2
    <3> QED  BY Zenon, <3>1, <3>2
  <2>7. ASSUME NEW t \in 1..Len(txs'), txs'[t].state = "open"
        PROVE  \/ t \in orphans' \/ r.own = t
               \/ t \in 1..Len(txs) /\ txs[t].state = "open" /\ call[c].own # t
    BY Zenon, <1>6, <1>7, <1>11, <2>5, <2>7
  <2>8. AckedIsStored'
    BY Zenon, <1>1, <1>7, <1>11, AckKept
  <2>9. stored \subseteq stored' /\ Len(txs) <= Len(txs') /\ tx' \in 0..Len(txs')
    BY <1>1, <1>7, <1>11, <2>1, <2>5
  <2> QED  BY Zenon, <1>1, <1>2, <1>6, <1>7, <1>8, <1>9, <2>1, <2>5, <2>6, <2>7, <2>8, <2>9,
              CallStep
<1>12. CASE e \in noEffect \/ tx = 0
  BY Zenon, <1>7, <1>10, <1>12
<1> QED  BY Zenon, <1>11, <1>12

\* A statement that fails leaves the transaction to the return.
LEMMA ExecFailsInv ==
  ASSUME SinkInv, NEW c \in Callers, ExecFails(c)
  PROVE  SinkInv'
<1>1. /\ call[c].pc = "write" /\ call[c].evs # {} /\ stored \subseteq stored'
      /\ UNCHANGED <<sinkKind, useTx, tx, txs, orphans, sinkPos, acked, shared, mixed, noEffect,
                     issued>>
  BY Zenon DEF ExecFails, InWrite, sqlVars, sinkGhosts, sinkCounts
<1>2. call[c] \in CallRec /\ call[c] # NoCall /\ call[c].todo \subseteq call[c].evs
  BY Zenon, <1>1, BusyPoint DEF SinkInv, SinkType, Shape
<1>3. PICK r : r = [call[c] EXCEPT !.pc = "failed"]
  BY Zenon
<1>4. /\ r \in CallRec /\ r.pc = "failed" /\ r.evs = call[c].evs /\ r.todo = call[c].todo
      /\ r.own = call[c].own
  BY <1>2, <1>3 DEF CallRec
<1>5. call' = [call EXCEPT ![c] = r]
  BY Zenon, <1>3 DEF ExecFails
<1>6. ASSUME call'[c] = r
      PROVE  Shape(c)' /\ Solo(c)' /\ Direct(c)'
  <2>1. Shape(c)' /\ Direct(c)'
    BY Zenon, <1>1, <1>2, <1>4, <1>6 DEF Shape, Direct
  <2>2. Solo(c)'
    <3> SUFFICES ASSUME useTx, c \notin mixed
                 PROVE  /\ \A d \in Callers : call'[d] # NoCall => d = c
                        /\ r.own = tx /\ tx \in 1..Len(txs)
      BY Zenon, <1>1, <1>4, <1>6 DEF Solo
    <3>1. \A d \in Callers \ {c} : call'[d] = call[d]
      BY Zenon, <1>5 DEF SinkInv, SinkType
    <3> QED  BY Zenon, <1>1, <1>2, <1>4, <3>1 DEF SinkInv, Solo
  <2> QED  BY Zenon, <2>1, <2>2
<1>7. issued' \in Nat /\ (~useTx /\ sinkKind # "es" => sinkPos' \subseteq stored' \cup noEffect')
  BY ZenonT(30), <1>1 DEF SinkInv, SinkType
<1> QED  BY Zenon, <1>1, <1>2, <1>4, <1>5, <1>6, <1>7, QuietCall

\* A Write that met no other call commits the transaction it began.
LEMMA ReadTxInv ==
  ASSUME SinkInv, NEW c \in Callers, ReadTx(c)
  PROVE  SinkInv'
<1>1. /\ call[c].pc \in {"write", "flush"}
      /\ call[c].pc = "write" => call[c].evs # {} /\ call[c].todo = {}
      /\ UNCHANGED <<sinkKind, useTx, tx, txs, orphans, stored, sinkPos, acked, shared, mixed,
                     noEffect, issued>>
  BY Zenon DEF ReadTx, InWrite, sqlVars, sinkGhosts, sinkCounts
<1>2. /\ call[c] \in CallRec /\ call[c] # NoCall /\ call[c].todo \subseteq call[c].evs
      /\ call[c].pc = "flush" => call[c].evs = {} /\ call[c].own = 0
      /\ call[c].evs = {} => call[c].own = 0
      /\ call[c].todo = {}
  BY Zenon, <1>1, BusyPoint DEF SinkInv, SinkType, Shape
<1>3. PICK r : r = IF useTx /\ tx # 0 THEN [call[c] EXCEPT !.pc = "commit", !.got = tx]
                   ELSE IF call[c].pc = "flush" THEN NoCall
                   ELSE [call[c] EXCEPT !.pc = "ok"]
  BY Zenon
<1>4. call' = [call EXCEPT ![c] = r]
  BY Zenon, <1>3 DEF ReadTx
<1>5. tx \in Nat /\ tx \in 0..Len(txs) /\ Len(txs) \in Nat
  BY DEF SinkInv, SinkType
<1>6. \A d \in Callers \ {c} : call'[d] = call[d]
  BY Zenon, <1>4 DEF SinkInv, SinkType
<1>7. CASE useTx /\ tx # 0
  <2>1. /\ r \in CallRec /\ r.pc = "commit" /\ r.got = tx /\ r.evs = call[c].evs
        /\ r.todo = call[c].todo /\ r.own = call[c].own
    BY Zenon, <1>2, <1>3, <1>5, <1>7 DEF CallRec
  <2>2. ASSUME call'[c] = r
        PROVE  Shape(c)' /\ Solo(c)' /\ Direct(c)'
    <3>1. Shape(c)' /\ Direct(c)'
      BY SMTT(30), <1>1, <1>2, <1>5, <1>7, <2>1, <2>2 DEF Shape, Direct
    <3>2. Solo(c)'
      <4> SUFFICES ASSUME c \notin mixed
                   PROVE  /\ \A d \in Callers : call'[d] # NoCall => d = c
                          /\ r.evs # {} =>
                               /\ r.own = tx /\ tx \in 1..Len(txs)
                               /\ txs[tx].state = "open" =>
                                    r.evs \ r.todo \subseteq txs[tx].evs \cup noEffect
        BY Zenon, <1>1, <2>1, <2>2 DEF Solo
      <4> QED  BY SMTT(30), <1>1, <1>2, <1>6, <1>7, <2>1 DEF SinkInv, Solo
    <3> QED  BY Zenon, <3>1, <3>2
  <2>3. issued' \in Nat /\ (~useTx /\ sinkKind # "es" => sinkPos' \subseteq stored' \cup noEffect')
    BY Zenon, <1>1 DEF SinkInv, SinkType
  <2> QED  BY Zenon, <1>1, <1>2, <1>4, <2>1, <2>2, <2>3, QuietCall
<1>8. CASE ~(useTx /\ tx # 0) /\ call[c].pc = "flush"
  <2>1. r = NoCall /\ r \in CallRec
    BY Zenon, <1>3, <1>8 DEF NoCall, CallRec
  <2>2. call'[c] = r => Shape(c)' /\ Solo(c)' /\ Direct(c)'
    BY <2>1 DEF Shape, Solo, Direct, NoCall
  <2>3. issued' \in Nat /\ (~useTx /\ sinkKind # "es" => sinkPos' \subseteq stored' \cup noEffect')
    BY Zenon, <1>1 DEF SinkInv, SinkType
  <2> QED  BY Zenon, <1>1, <1>2, <1>4, <1>8, <2>1, <2>2, <2>3, QuietCall
<1>9. CASE ~(useTx /\ tx # 0) /\ call[c].pc = "write"
  <2>1. /\ r \in CallRec /\ r.pc = "ok" /\ r.evs = call[c].evs
        /\ r.todo = call[c].todo /\ r.own = call[c].own
    BY Zenon, <1>2, <1>3, <1>9 DEF CallRec
  <2>2. ASSUME call'[c] = r
        PROVE  Shape(c)' /\ Solo(c)' /\ Direct(c)'
    <3>1. Shape(c)'
      BY Zenon, <1>1, <1>2, <1>9, <2>1, <2>2 DEF Shape
    <3>2. Direct(c)'
      BY Zenon, <1>1, <1>9, <2>1, <2>2 DEF SinkInv, Direct
    <3>3. Solo(c)'
      <4>1. useTx => c \in mixed
        BY <1>1, <1>2, <1>9 DEF SinkInv, Solo
      <4> QED  BY Zenon, <1>1, <4>1 DEF Solo
    <3> QED  BY SMTT(30), <3>1, <3>2, <3>3
  <2>3. issued' \in Nat /\ (~useTx /\ sinkKind # "es" => sinkPos' \subseteq stored' \cup noEffect')
    BY Zenon, <1>1 DEF SinkInv, SinkType
  <2> QED  BY Zenon, <1>1, <1>2, <1>4, <2>1, <2>2, <2>3, QuietCall
<1> QED  BY Zenon, <1>1, <1>7, <1>8, <1>9

\* A call that commits, or fails to, ends the transaction it found.
LEMMA CommitInv ==
  ASSUME SinkInv, NEW c \in Callers, Commit(c) \/ CommitFails(c)
  PROVE  SinkInv'
<1>1. PICK t : t = call[c].got
  BY Zenon
<1>2. /\ call[c].pc = "commit" /\ stored \subseteq stored'
      /\ UNCHANGED <<sinkKind, useTx, tx, orphans, sinkPos, acked, shared, mixed, noEffect, issued>>
  BY Zenon DEF Commit, CommitFails, sinkGhosts, sinkCounts
<1>3. /\ call[c] \in CallRec /\ call[c] # NoCall /\ call[c].todo = {} /\ useTx
      /\ call[c].evs = {} => call[c].own = 0
      /\ t \in 1..Len(txs)
  BY Zenon, <1>1, <1>2, BusyPoint DEF SinkInv, SinkType, Shape
<1>4. /\ txs' \in Seq(TxRec) /\ Len(txs') = Len(txs) /\ Len(txs) \in Nat
      /\ txs'[t].state # "open" /\ txs'[t].evs = txs[t].evs
      /\ \A u \in (1..Len(txs)) \ {t} : txs'[u] = txs[u]
  <2>1. CASE \E z \in {"committed", "rolledback"} : txs' = [txs EXCEPT ![t].state = z]
    BY Zenon, <1>3, <2>1, TxEnd
  <2>2. CASE txs' = txs /\ txs[t].state # "open"
    BY <2>2 DEF SinkInv, SinkType
  <2> QED  BY Zenon, <1>1, <2>1, <2>2 DEF Commit, CommitFails
<1>5. PICK r : call' = [call EXCEPT ![c] = r] /\
        \/ r = NoCall /\ call[c].evs = {}
        \/ r = [call[c] EXCEPT !.pc = "renew"] /\ call[c].evs = {}
        \/ r = [call[c] EXCEPT !.pc = "failed"] /\ call[c].evs # {}
        \/ /\ r = [call[c] EXCEPT !.pc = "ok"] /\ call[c].evs # {}
           /\ txs[t].state = "open" /\ stored' = stored \cup txs[t].evs
  <2>1. CASE Commit(c)
    <3>1. PICK r : r = [call[c] EXCEPT !.pc = IF call[c].evs = {} THEN "renew" ELSE "ok"]
      BY Zenon
    <3>2. /\ call' = [call EXCEPT ![c] = r] /\ txs[t].state = "open"
          /\ stored' = stored \cup txs[t].evs
      BY Zenon, <1>1, <2>1, <3>1 DEF Commit
    <3>3. CASE call[c].evs = {}
      BY Zenon, <3>1, <3>2, <3>3
    <3>4. CASE call[c].evs # {}
      BY Zenon, <3>1, <3>2, <3>4
    <3> QED  BY Zenon, <3>3, <3>4
  <2>2. CASE CommitFails(c)
    BY Zenon, <2>2 DEF CommitFails
  <2> QED  BY Zenon, <2>1, <2>2
<1>6. /\ r \in CallRec /\ r.own = call[c].own /\ r.evs = call[c].evs /\ r.todo = {}
      /\ r.pc \in {"idle", "renew", "failed", "ok"}
      /\ r.pc \in {"idle", "renew"} <=> call[c].evs = {}
      /\ r.pc = "idle" => r = NoCall
      /\ r.pc = "ok" => txs[t].state = "open" /\ stored' = stored \cup txs[t].evs
  <2>1. CASE r = NoCall /\ call[c].evs = {}
    BY Zenon, <1>3, <2>1 DEF NoCall, CallRec
  <2>2. CASE r # NoCall
    BY <1>3, <1>5, <2>2 DEF CallRec
  <2>3. CASE r = NoCall /\ call[c].evs # {}
    BY Zenon, <1>3, <1>5, <2>3 DEF CallRec, NoCall
  <2> QED  BY ZenonT(30), <2>1, <2>2, <2>3
<1>7. ASSUME call'[c] = r
      PROVE  Shape(c)' /\ Solo(c)' /\ Direct(c)'
  <2>1. Shape(c)'
    BY ZenonT(30), <1>2, <1>3, <1>6, <1>7 DEF Shape
  <2>2. Direct(c)'
    BY ZenonT(30), <1>2, <1>3 DEF Direct
  <2>3. Solo(c)'
    <3> SUFFICES ASSUME c \notin mixed
                 PROVE  /\ \A d \in Callers : call'[d] # NoCall => d = c
                        /\ r.evs # {} =>
                             /\ r.own = tx /\ tx = t /\ tx \in 1..Len(txs')
                             /\ r.pc = "ok" => r.evs \subseteq stored' \cup noEffect
      BY Zenon, <1>2, <1>4, <1>6, <1>7 DEF Solo
    <3>1. /\ \A d \in Callers : call[d] # NoCall => d = c
          /\ call[c].evs # {} =>
               /\ call[c].own = tx /\ tx = t
               /\ txs[tx].state = "open" => call[c].evs \subseteq txs[tx].evs \cup noEffect
      BY Zenon, <1>1, <1>2, <1>3 DEF SinkInv, Solo
    <3>2. \A d \in Callers \ {c} : call'[d] = call[d]
      BY Zenon, <1>5 DEF SinkInv, SinkType
    <3> QED  BY Zenon, <1>3, <1>4, <1>6, <3>1, <3>2
  <2> QED  BY Zenon, <2>1, <2>2, <2>3
<1>8. ASSUME NEW u \in 1..Len(txs'), txs'[u].state = "open"
      PROVE  \/ u \in orphans' \/ r.own = u
             \/ u \in 1..Len(txs) /\ txs[u].state = "open" /\ call[c].own # u
  BY Zenon, <1>4, <1>6, <1>8
<1>9. AckedIsStored'
  BY Zenon, <1>2, AckKept
<1>10. Len(txs) <= Len(txs') /\ tx' \in 0..Len(txs') /\ issued' \in Nat
  BY SMTT(30), <1>2, <1>4 DEF SinkInv, SinkType
<1> QED  BY Zenon, <1>2, <1>3, <1>4, <1>5, <1>6, <1>7, <1>8, <1>9, <1>10, CallStep

\* The return acknowledges what is stored and accounts for the transaction.
LEMMA ReturnInv ==
  ASSUME SinkInv, NEW c \in Callers, Return(c)
  PROVE  SinkInv'
<1>1. /\ call[c].pc \in {"ok", "failed"} /\ call' = [call EXCEPT ![c] = NoCall]
      /\ UNCHANGED <<sinkKind, useTx, stored, sinkPos, mixed, noEffect, issued>>
      /\ orphans' = IF useTx /\ (c \in mixed \/ (sinkKind = "mysql" /\ call[c].pc = "failed"))
                    THEN orphans \cup {call[c].own} ELSE orphans
  BY Zenon DEF Return, sinkCounts
<1>2. /\ call[c] # NoCall /\ call[c].evs # {} /\ call[c].todo \subseteq call[c].evs
      /\ call[c].pc = "ok" => call[c].todo = {}
  BY Zenon, <1>1, BusyPoint DEF SinkInv, SinkType, Shape
<1>3. /\ txs' \in Seq(TxRec) /\ Len(txs') = Len(txs) /\ Len(txs) \in Nat
      /\ tx' \in 0..Len(txs') /\ (~useTx => tx' = 0 /\ txs' = <<>>)
      /\ useTx /\ sinkKind = "oracle" /\ tx # 0 => txs'[tx].state # "open"
      /\ \A u \in 1..Len(txs) : txs'[u] = txs[u] \/ txs'[u].state # "open"
  <2>1. tx \in 0..Len(txs) /\ Len(txs) \in Nat /\ txs \in Seq(TxRec)
    BY SMTT(30) DEF SinkInv, SinkType
  <2>2. CASE useTx /\ sinkKind = "oracle" /\ tx # 0
    <3>1. tx' = 0 /\ txs' = RollBack(tx) /\ tx \in 1..Len(txs)
      BY <2>1, <2>2 DEF Return, Clear
    <3>2. PICK t \in 1..Len(txs) : t = tx
      BY Zenon, <3>1
    <3>3. txs' = RollBack(t)
      BY Zenon, <3>1, <3>2
    <3> QED  BY <2>1, <2>2, <3>1, <3>2, <3>3, RollBackTx
  <2>3. CASE ~(useTx /\ sinkKind = "oracle" /\ tx # 0)
    <3>1. txs' = txs /\ (tx' = 0 \/ tx' = tx) /\ (~useTx => tx' = tx)
      BY Zenon, <2>3 DEF Return, Clear
    <3> QED  BY <2>1, <2>3, <3>1 DEF SinkInv, SinkType
  <2> QED  BY Zenon, <2>2, <2>3
<1>4. AckedIsStored'
  <2>1. CASE call[c].pc = "failed"
    <3>1. UNCHANGED <<acked, shared>>
      BY Zenon, <2>1 DEF Return
    <3> QED  BY Zenon, <1>1, <3>1, AckKept
  <2>2. CASE call[c].pc = "ok"
    <3>1. /\ acked' = acked \cup call[c].evs
          /\ shared' = IF c \in mixed THEN shared \cup call[c].evs ELSE shared
      BY Zenon, <2>2 DEF Return
    <3>2. useTx /\ c \notin mixed => call[c].evs \subseteq stored \cup noEffect
      BY Zenon, <1>2, <2>2 DEF SinkInv, Solo
    <3>3. ~useTx /\ sinkKind # "es" => call[c].evs \subseteq stored \cup noEffect
      BY Zenon, <1>2, <2>2 DEF SinkInv, Direct
    <3>4. CASE sinkKind = "es"
      BY Zenon, <1>1, <3>4 DEF AckedIsStored
    <3>5. CASE sinkKind # "es" /\ ~useTx
      <4>1. acked \subseteq stored \cup noEffect
        BY Zenon, <3>5 DEF SinkInv, AckedIsStored
      <4>2. acked' \subseteq stored' \cup noEffect'
        BY Zenon, <1>1, <3>1, <3>3, <3>5, <4>1
      <4> QED  BY Zenon, <4>2 DEF AckedIsStored
    <3>6. CASE sinkKind # "es" /\ useTx
      <4>1. acked \subseteq stored \cup noEffect \cup shared
        BY Zenon, <3>6 DEF SinkInv, AckedIsStored
      <4>2. acked' \subseteq stored' \cup noEffect' \cup shared'
        BY Zenon, <1>1, <3>1, <3>2, <3>6, <4>1
      <4>3. useTx'
        BY Zenon, <1>1, <3>6
      <4> QED  BY Zenon, <4>2, <4>3 DEF AckedIsStored
    <3> QED  BY Zenon, <3>4, <3>5, <3>6
  <2> QED  BY Zenon, <1>1, <2>1, <2>2
<1>5. ASSUME NEW u \in 1..Len(txs'), txs'[u].state = "open"
      PROVE  \/ u \in orphans' \/ NoCall.own = u
             \/ u \in 1..Len(txs) /\ txs[u].state = "open" /\ call[c].own # u
  <2>1. u \in 1..Len(txs) /\ txs[u].state = "open"
    BY Zenon, <1>3, <1>5
  <2>2. CASE call[c].own # u
    BY Zenon, <2>1, <2>2
  <2>3. CASE call[c].own = u
    <3>1. useTx
      BY <1>3, <1>5
    <3>2. CASE c \in mixed \/ (sinkKind = "mysql" /\ call[c].pc = "failed")
      BY Zenon, <1>1, <2>3, <3>1, <3>2
    <3>3. CASE c \notin mixed /\ call[c].pc = "ok"
      BY Zenon, <1>2, <2>1, <2>3, <3>1, <3>3 DEF SinkInv, Solo
    <3>4. CASE c \notin mixed /\ call[c].pc = "failed" /\ sinkKind # "mysql"
      <4>1. sinkKind = "oracle"
        BY Zenon, <3>1, <3>4 DEF SinkInv, SinkType, Sql
      <4>2. call[c].own = tx /\ tx # 0
        BY <1>2, <3>1, <3>4 DEF SinkInv, Solo
      <4> QED  BY Zenon, <1>3, <1>5, <2>3, <3>1, <4>1, <4>2
    <3> QED  BY Zenon, <1>1, <3>2, <3>3, <3>4
  <2> QED  BY Zenon, <2>2, <2>3
<1>6. NoCall \in CallRec
  BY Zenon DEF NoCall, CallRec
<1>7. call'[c] = NoCall => Shape(c)' /\ Solo(c)' /\ Direct(c)'
  BY DEF Shape, Solo, Direct, NoCall
<1>8. /\ orphans \subseteq orphans' /\ issued' \in Nat /\ stored \subseteq stored'
      /\ Len(txs) <= Len(txs')
      /\ ~useTx /\ sinkKind # "es" => sinkPos' \subseteq stored' \cup noEffect'
  BY <1>1, <1>3 DEF SinkInv, SinkType
<1> QED  BY Zenon, <1>1, <1>2, <1>3, <1>4, <1>5, <1>6, <1>7, <1>8, CallStep

\* A connector without transactions: what is left of a step of its Write.
LEMMA PlainStep ==
  ASSUME SinkInv, NEW c \in Callers, NEW r \in CallRec, ~useTx,
         call' = [call EXCEPT ![c] = r], call[c].evs # {}, call[c].pc = "write",
         UNCHANGED <<sinkKind, useTx, sqlVars, sinkGhosts, sinkCounts>>,
         stored \subseteq stored', r.pc \in {"write", "ok", "failed"},
         r.own = call[c].own, r.evs = call[c].evs, r.todo \subseteq r.evs,
         r.pc = "ok" => r.todo = {},
         sinkKind # "es" => r.evs \ r.todo \subseteq stored' \cup noEffect,
         sinkPos' = sinkPos \/ (sinkPos' = r.evs /\ r.todo = {})
  PROVE  SinkInv'
<1>1. UNCHANGED <<sinkKind, useTx, tx, txs, orphans, acked, shared, mixed, noEffect, issued>>
  BY ZenonT(30) DEF sqlVars, sinkGhosts, sinkCounts
<1>2. call[c] # NoCall
  BY ZenonT(30), BusyPoint
<1>3. ASSUME call'[c] = r
      PROVE  Shape(c)' /\ Solo(c)' /\ Direct(c)'
  <2>1. Shape(c)'
    BY ZenonT(30), <1>3 DEF Shape
  <2>2. Direct(c)'
    BY ZenonT(30), <1>1, <1>3 DEF Direct
  <2>3. Solo(c)'
    BY <1>1 DEF Solo
  <2> QED  BY ZenonT(30), <2>1, <2>2, <2>3
<1>4. sinkKind # "es" => sinkPos' \subseteq stored' \cup noEffect'
  BY Zenon, <1>1 DEF SinkInv
<1>5. issued' \in Nat
  BY Zenon, <1>1 DEF SinkInv, SinkType
<1> QED  BY Zenon, <1>1, <1>2, <1>3, <1>4, <1>5, QuietCall

\* A request that is answered has stored its events, up to those without effect.
LEMMA SendInv ==
  ASSUME SinkInv, NEW c \in Callers, NEW group \in SUBSET call[c].todo,
         NEW kept \in SUBSET group, Send(c, group, kept)
  PROVE  SinkInv'
<1>1. PICK rest : rest = call[c].todo \ group
  BY Zenon
<1>2. PICK r : r = [call[c] EXCEPT !.todo = rest, !.pc = IF rest = {} THEN "ok" ELSE call[c].pc]
  BY Zenon
<1>3. /\ call[c].pc = "write" /\ call[c].evs # {} /\ ~useTx
      /\ stored' = stored \cup kept /\ (sinkKind # "es" => kept = group \ noEffect)
      /\ sinkPos' = IF rest = {} THEN call[c].evs ELSE sinkPos
      /\ UNCHANGED <<sinkKind, useTx, sqlVars, sinkGhosts, sinkCounts>>
  BY Zenon, <1>1 DEF Send, InWrite, SinkInv, SinkType
<1>4. call' = [call EXCEPT ![c] = r]
  BY Zenon, <1>1, <1>2 DEF Send
<1>5. call[c] \in CallRec /\ call[c].todo \subseteq call[c].evs
  BY Zenon DEF SinkInv, SinkType, Shape
<1>6. /\ r \in CallRec /\ r.evs = call[c].evs /\ r.todo = rest /\ r.own = call[c].own
      /\ r.pc = IF rest = {} THEN "ok" ELSE "write"
  <2>1. rest \in SUBSET Nat
    BY Zenon, <1>1, <1>5 DEF CallRec
  <2> QED  BY Zenon, <1>2, <1>3, <1>5, <2>1 DEF CallRec
<1>7. sinkKind # "es" => r.evs \ r.todo \subseteq stored' \cup noEffect
  <2>1. sinkKind # "es" => call[c].evs \ call[c].todo \subseteq stored \cup noEffect
    BY Zenon, <1>3 DEF SinkInv, Direct
  <2> QED  BY Zenon, <1>1, <1>3, <1>6, <2>1
<1>8. /\ r.pc \in {"write", "ok", "failed"} /\ r.todo \subseteq r.evs
      /\ r.pc = "ok" => r.todo = {}
      /\ sinkPos' = sinkPos \/ (sinkPos' = r.evs /\ r.todo = {})
  BY Zenon, <1>1, <1>3, <1>5, <1>6
<1> QED  BY Zenon, <1>3, <1>4, <1>6, <1>7, <1>8, PlainStep

\* A request that fails is sent again or fails the Write.
LEMMA SendFailsInv ==
  ASSUME SinkInv, NEW c \in Callers, NEW kept \in SUBSET call[c].todo, SendFails(c, kept)
  PROVE  SinkInv'
<1>1. /\ call[c].pc = "write" /\ call[c].evs # {} /\ ~useTx /\ stored \subseteq stored'
      /\ UNCHANGED <<sinkKind, useTx, sqlVars, sinkPos, sinkGhosts, sinkCounts>>
  BY Zenon DEF SendFails, InWrite, SinkInv, SinkType
<1>2. PICK r : r = IF sinkKind = "es" /\ call[c].tries < MaxBulkRetries
                   THEN [call[c] EXCEPT !.tries = call[c].tries + 1]
                   ELSE [call[c] EXCEPT !.pc = "failed"]
  BY Zenon
<1>3. call' = [call EXCEPT ![c] = r]
  BY Zenon, <1>2 DEF SendFails
<1>4. call[c] \in CallRec /\ call[c].todo \subseteq call[c].evs
  BY Zenon DEF SinkInv, SinkType, Shape
<1>5. /\ r \in CallRec /\ r.evs = call[c].evs /\ r.todo = call[c].todo
      /\ r.own = call[c].own /\ r.pc \in {"write", "failed"}
  <2>1. CASE sinkKind = "es" /\ call[c].tries < MaxBulkRetries
    BY <1>1, <1>2, <1>4, <2>1 DEF CallRec
  <2>2. CASE ~(sinkKind = "es" /\ call[c].tries < MaxBulkRetries)
    BY Zenon, <1>1, <1>2, <1>4, <2>2 DEF CallRec
  <2> QED  BY Zenon, <2>1, <2>2
<1>6. sinkKind # "es" => r.evs \ r.todo \subseteq stored' \cup noEffect
  BY Zenon, <1>1, <1>5 DEF SinkInv, Direct
<1>7. sinkPos' = sinkPos /\ r.pc \in {"write", "ok", "failed"} /\ r.pc # "ok" /\ r.todo \subseteq r.evs
  BY Zenon, <1>1, <1>4, <1>5
<1> QED  BY Zenon, <1>1, <1>3, <1>5, <1>6, <1>7, PlainStep

\* A Flush starts, and meets the calls that are under way.
LEMMA FlushInv ==
  ASSUME SinkInv, NEW c \in Callers, Flush(c)
  PROVE  SinkInv'
<1>1. PICK r : r = [call[c] EXCEPT !.pc = "flush"]
  BY Zenon
<1>2. /\ call[c] = NoCall /\ call' = [call EXCEPT ![c] = r]
      /\ mixed' = IF Busy = {} THEN mixed \ {c} ELSE mixed \cup Busy \cup {c}
      /\ UNCHANGED <<sinkKind, useTx, tx, txs, orphans, stored, sinkPos, acked, shared, noEffect,
                     issued>>
  BY Zenon, <1>1 DEF Flush, Meet, sqlVars
<1>3. r \in CallRec /\ r.pc = "flush" /\ r.evs = {} /\ r.todo = {} /\ r.own = 0 /\ call[c].own = 0
  BY <1>1, <1>2 DEF NoCall, CallRec
<1>4. ASSUME call'[c] = r
      PROVE  Shape(c)' /\ Solo(c)' /\ Direct(c)'
  <2>1. Shape(c)' /\ Direct(c)'
    BY Zenon, <1>3, <1>4 DEF Shape, Direct
  <2>2. Solo(c)'
    <3> SUFFICES ASSUME c \notin mixed'
                 PROVE  \A d \in Callers : call'[d] # NoCall => d = c
      BY Zenon, <1>3, <1>4 DEF Solo
    <3>1. Busy = {}
      BY Zenon, <1>2
    <3> QED  BY Zenon, <1>2, <3>1 DEF Busy, SinkInv, SinkType
  <2> QED  BY Zenon, <2>1, <2>2
<1>5. /\ Busy \subseteq mixed' /\ issued' \in Nat
      /\ ~useTx /\ sinkKind # "es" => sinkPos' \subseteq stored' \cup noEffect'
  BY Zenon, <1>2 DEF SinkInv, SinkType
<1> QED  BY Zenon, <1>2, <1>3, <1>4, <1>5, QuietCall

\* A transaction that ends from outside the calls leaves a Write that met no
\* other call what it knows: its transaction is its own, open or not.
LEMMA OutsideInv ==
  ASSUME SinkInv, NEW t \in 1..Len(txs), txs' = RollBack(t),
         UNCHANGED <<sinkKind, useTx, orphans, call, stored, sinkPos, acked, shared, noEffect, issued>>,
         (tx' = tx /\ mixed' = mixed) \/ (tx' = 0 /\ mixed' = mixed \cup Busy)
  PROVE  SinkInv'
<1>1. /\ txs' \in Seq(TxRec) /\ Len(txs') = Len(txs) /\ Len(txs) \in Nat
      /\ txs'[t].state # "open" /\ txs'[t].evs = txs[t].evs
      /\ \A u \in (1..Len(txs)) \ {t} : txs'[u] = txs[u]
  BY Zenon, RollBackTx
<1>2. SinkType'
  <2>1. useTx
    BY DEF SinkInv, SinkType
  <2> QED  BY <1>1, <2>1 DEF SinkInv, SinkType, Sql
<1>3. ASSUME NEW c \in Callers
      PROVE  Shape(c)' /\ Solo(c)' /\ Direct(c)'
  <2>1. Shape(c)' /\ Direct(c)'
    BY Zenon, <1>1 DEF SinkInv, Shape, Direct
  <2>2. CASE tx' = tx /\ mixed' = mixed
    <3>1. \A u \in 1..Len(txs) : txs'[u].state = "open" => txs'[u] = txs[u]
      BY Zenon, <1>1
    <3>2. Solo(c)'
      BY SMTT(30), <1>1, <2>2, <3>1 DEF SinkInv, Solo
    <3> QED  BY Zenon, <2>1, <3>2
  <2>3. CASE mixed' = mixed \cup Busy
    BY Zenon, <2>1, <2>3 DEF Solo, Busy
  <2> QED  BY Zenon, <2>2, <2>3
<1>4. AckedIsStored'
  BY Zenon, AckKept
<1>5. OpenTxHasWrite'
  <2>1. DOMAIN txs' = 1..Len(txs) /\ DOMAIN txs = 1..Len(txs)
    BY <1>1 DEF SinkInv, SinkType
  <2> QED  BY Zenon, <1>1, <2>1 DEF SinkInv, OpenTxHasWrite
<1> QED  BY Zenon, <1>2, <1>3, <1>4, <1>5 DEF SinkInv

\* Stop rolls back the transaction in the field, and meets every call.
LEMMA StopSinkInv ==
  ASSUME SinkInv, StopSink
  PROVE  SinkInv'
<1>1. /\ UNCHANGED <<sinkKind, useTx, orphans, call, stored, sinkPos, acked, shared, noEffect, issued>>
      /\ mixed' = mixed \cup Busy
  BY Zenon DEF StopSink
<1>2. CASE Sql /\ tx # 0
  <2>1. tx \in 1..Len(txs) /\ tx' = 0 /\ txs' = RollBack(tx)
    BY <1>2 DEF StopSink, SinkInv, SinkType
  <2>2. PICK t \in 1..Len(txs) : t = tx
    BY Zenon, <2>1
  <2>3. txs' = RollBack(t)
    BY Zenon, <2>1, <2>2
  <2> QED  BY Zenon, <1>1, <2>1, <2>3, OutsideInv
<1>3. CASE ~(Sql /\ tx # 0)
  <2>1. tx' = tx /\ txs' = txs
    BY Zenon, <1>3 DEF StopSink
  <2>2. \A c \in Callers : Shape(c)' /\ Solo(c)' /\ Direct(c)'
    BY SMTT(30), <1>1, <2>1 DEF SinkInv, Shape, Solo, Direct, Busy
  <2>3. SinkType' /\ OpenTxHasWrite'
    BY Zenon, <1>1, <2>1 DEF SinkInv, SinkType, OpenTxHasWrite, Sql
  <2>4. AckedIsStored'
    BY Zenon, <1>1, AckKept
  <2> QED  BY <1>1, <2>2, <2>3, <2>4 DEF SinkInv
<1> QED  BY Zenon, <1>2, <1>3

\* The end of a context rolls its transaction back.
LEMMA ContextEndsInv ==
  ASSUME SinkInv, NEW t \in DOMAIN txs, ContextEnds(t)
  PROVE  SinkInv'
<1>1. /\ txs' = RollBack(t)
      /\ UNCHANGED <<sinkKind, useTx, orphans, call, stored, sinkPos, acked, shared, noEffect, issued>>
  BY Zenon DEF ContextEnds, sinkGhosts, sinkCounts
<1>2. (tx' = tx /\ mixed' = mixed) \/ (tx' = 0 /\ mixed' = mixed \cup Busy)
  BY Zenon DEF ContextEnds, sinkGhosts
<1>3. PICK u \in 1..Len(txs) : u = t
  BY DEF SinkInv, SinkType
<1>4. txs' = RollBack(u)
  BY Zenon, <1>1, <1>3
<1> QED  BY Zenon, <1>1, <1>2, <1>4, OutsideInv

\* Every step of the connector keeps the invariant.
LEMMA SinkStep ==
  ASSUME SinkInv, [SinkNext]_sinkVars
  PROVE  SinkInv'
<1>1. CASE UNCHANGED sinkVars
  <2>1. UNCHANGED <<sinkKind, useTx, tx, txs, orphans, call, stored, sinkPos, acked, shared, mixed,
                    noEffect, issued>>
    BY Zenon, <1>1 DEF sinkVars, sqlVars, sinkGhosts, sinkCounts
  <2>2. \A c \in Callers : Shape(c)' /\ Solo(c)' /\ Direct(c)'
    BY SMTT(30), <2>1 DEF SinkInv, Shape, Solo, Direct
  <2>3. SinkType' /\ OpenTxHasWrite'
    BY Zenon, <2>1 DEF SinkInv, SinkType, OpenTxHasWrite, Sql
  <2>4. AckedIsStored'
    BY Zenon, <2>1, AckKept
  <2> QED  BY Zenon, <2>1, <2>2, <2>3, <2>4 DEF SinkInv
<1>2. CASE StopSink
  BY Zenon, <1>2, StopSinkInv
<1>3. ASSUME NEW t \in DOMAIN txs, ContextEnds(t)
      PROVE  SinkInv'
  BY Zenon, <1>3, ContextEndsInv
<1>4. ASSUME NEW c \in Callers, NEW n \in 1..MaxSinkBatch, BeginWrite(c, n)
      PROVE  SinkInv'
  BY Zenon, <1>4, BeginWriteInv
<1>5. ASSUME NEW c \in Callers,
             BeginTx(c) \/ BeginFails(c) \/ Exec(c) \/ ExecFails(c) \/ ReadTx(c)
             \/ Commit(c) \/ CommitFails(c) \/ Return(c) \/ Flush(c)
      PROVE  SinkInv'
  BY Zenon, <1>5, BeginTxInv, BeginFailsInv, ExecInv, ExecFailsInv, ReadTxInv, CommitInv, ReturnInv,
     FlushInv
<1>6. ASSUME NEW c \in Callers, NEW group \in SUBSET call[c].todo, NEW kept \in SUBSET group,
             Send(c, group, kept)
      PROVE  SinkInv'
  BY Zenon, <1>6, SendInv
<1>7. ASSUME NEW c \in Callers, NEW kept \in SUBSET call[c].todo, SendFails(c, kept)
      PROVE  SinkInv'
  BY Zenon, <1>7, SendFailsInv
<1> QED  BY Zenon, <1>1, <1>2, <1>3, <1>4, <1>5, <1>6, <1>7 DEF SinkNext

\* A new connector satisfies the invariant.
LEMMA SinkStart ==
  ASSUME SinkInit
  PROVE  SinkInv
<1>1. /\ NoCall \in CallRec /\ NoCall.pc = "idle" /\ NoCall.own = 0
      /\ NoCall.evs = {} /\ NoCall.todo = {}
  BY Zenon DEF NoCall, CallRec
<1>2. /\ \A c \in Callers : call[c] = NoCall
      /\ call \in [Callers -> CallRec] /\ txs = <<>> /\ tx = 0 /\ issued = 0 /\ acked = {}
      /\ sinkPos = {} /\ (useTx => Sql)
  BY Zenon, <1>1 DEF SinkInit
<1>3. txs \in Seq(TxRec) /\ Len(txs) = 0 /\ DOMAIN txs = {}
  BY <1>2
<1>4. SinkType /\ OpenTxHasWrite /\ AckedIsStored
  BY <1>2, <1>3 DEF SinkType, OpenTxHasWrite, AckedIsStored
<1>5. \A c \in Callers : Shape(c) /\ Solo(c) /\ Direct(c)
  BY Zenon, <1>1, <1>2 DEF Shape, Solo, Direct
<1> QED  BY Zenon, <1>2, <1>4, <1>5 DEF SinkInv

\* The invariant is one of the connector.
LEMMA SinkInvariant == SinkSpec => []SinkInv
<1>1. SinkInit => SinkInv
  BY Zenon, SinkStart
<1>2. SinkInv /\ [SinkNext]_sinkVars => SinkInv'
  BY Zenon, SinkStep
<1> QED  BY <1>1, <1>2, PTL DEF SinkSpec

\* The events of a Write that returned nil are in the database, for any number
\* of goroutines: with transactions this needs that the Write met no other call
\* (the field tx of the connector is shared), without them it always holds for
\* the SQL connectors, mongodb and the ones that write one event at a time.
THEOREM AckedSafe == SinkSpec => []AckedIsStored
<1>1. SinkInv => AckedIsStored
  BY Zenon DEF SinkInv
<1> QED  BY <1>1, SinkInvariant, PTL

\* GetPosition stands for stored events, except between the statements of a
\* transaction and its commit, after a commit that failed, and for a Write
\* that met another call.
THEOREM PositionStoredSafe == SinkSpec => []PositionIsStored
<1>1. SinkInv => PositionIsStored
  BY Zenon DEF SinkInv, AckedIsStored, PositionIsStored
<1> QED  BY <1>1, SinkInvariant, PTL

\* A transaction is open only while its Write runs, or it is one of those that
\* a failed Write of mysql, a Flush or an overlapping call leaves behind.
THEOREM OpenTxSafe == SinkSpec => []OpenTxHasWrite
<1>1. SinkInv => OpenTxHasWrite
  BY Zenon DEF SinkInv
<1> QED  BY <1>1, SinkInvariant, PTL

\* A call of Write past BeginTx names the transaction it began.
OwnTx(r, n) ==
  useTx /\ r.evs # {} /\ r.pc \in {"write", "commit", "ok", "failed"} => r.own \in 1..n

\* What else the type invariant says: nothing but events that were passed to Write is
\* anywhere, and a bulk request is retried no more than maxRetries times.
SinkLimits ==
  /\ sinkKind \in SinkKinds /\ useTx \in BOOLEAN /\ issued <= MaxSinkEvents
  /\ \A c \in Callers :
       call[c].evs \subseteq 1..issued /\ call[c].tries <= MaxBulkRetries /\ OwnTx(call[c], Len(txs))
  /\ \A t \in 1..Len(txs) : txs[t].evs \subseteq 1..issued
  /\ stored \subseteq 1..issued /\ acked \subseteq 1..issued /\ shared \subseteq 1..issued
  /\ noEffect \subseteq 1..issued /\ sinkPos \subseteq 1..issued
  /\ mixed \subseteq Callers
  /\ orphans \subseteq 1..Len(txs)

\* A step of one call keeps it if what the call has and adds is of events issued.
LEMMA CallLimits ==
  ASSUME SinkInv, SinkLimits, NEW c \in Callers, NEW r, call' = [call EXCEPT ![c] = r],
         UNCHANGED <<sinkKind, useTx, issued>>, Len(txs') \in Nat, Len(txs) <= Len(txs'),
         r.evs \subseteq 1..issued, r.tries <= MaxBulkRetries, OwnTx(r, Len(txs')),
         \A t \in 1..Len(txs') : txs'[t].evs \subseteq 1..issued,
         stored' \subseteq 1..issued, acked' \subseteq 1..issued, shared' \subseteq 1..issued,
         noEffect' = noEffect, sinkPos' \subseteq 1..issued, mixed' \subseteq Callers,
         orphans' \subseteq 1..Len(txs')
  PROVE  SinkLimits'
<1>1. call'[c] = r /\ \A d \in Callers \ {c} : call'[d] = call[d]
  BY Zenon DEF SinkInv, SinkType
<1>2. 1..Len(txs) \subseteq 1..Len(txs')
  BY DEF SinkInv, SinkType
<1>3. ASSUME NEW d \in Callers
      PROVE  (/\ call[d].evs \subseteq 1..issued /\ call[d].tries <= MaxBulkRetries
              /\ OwnTx(call[d], Len(txs)))'
  <2>1. CASE d = c
    BY Zenon, <1>1, <2>1 DEF OwnTx
  <2>2. CASE d # c
    BY Zenon, <1>1, <1>2, <2>2 DEF SinkLimits, OwnTx
  <2> QED  BY Zenon, <2>1, <2>2
<1> QED  BY Zenon, <1>3 DEF SinkLimits

\* What is so before a step of a call.
LEMMA CallNow ==
  ASSUME SinkInv, SinkLimits, NEW c \in Callers
  PROVE  /\ call[c] \in CallRec /\ call[c].evs \subseteq 1..issued /\ call[c].todo \subseteq call[c].evs
         /\ call[c].tries <= MaxBulkRetries /\ OwnTx(call[c], Len(txs))
         /\ NoCall \in CallRec /\ NoCall.evs = {} /\ NoCall.tries = 0 /\ NoCall.tries <= MaxBulkRetries
         /\ NoCall.pc = "idle"
         /\ Len(txs) \in Nat /\ txs \in Seq(TxRec) /\ issued \in Nat
<1>1. NoCall \in CallRec /\ NoCall.evs = {} /\ NoCall.tries = 0 /\ NoCall.pc = "idle"
  BY Zenon DEF NoCall, CallRec
<1>2. 0 <= MaxBulkRetries
  BY SinkBounds
<1>3. txs \in Seq(TxRec) /\ Len(txs) \in Nat
  BY DEF SinkInv, SinkType
<1> QED  BY Zenon, <1>1, <1>2, <1>3 DEF SinkInv, SinkType, SinkLimits, Shape

\* A call that leaves the transactions alone.
LEMMA QuietLimits ==
  ASSUME SinkInv, SinkLimits, NEW c \in Callers, NEW r, call' = [call EXCEPT ![c] = r],
         UNCHANGED <<sinkKind, useTx, tx, txs, orphans, acked, shared, noEffect, issued>>,
         r.evs \subseteq 1..issued, r.tries <= MaxBulkRetries, OwnTx(r, Len(txs)),
         stored' \subseteq 1..issued, sinkPos' \subseteq 1..issued, mixed' \subseteq Callers
  PROVE  SinkLimits'
<1>1. Len(txs') \in Nat /\ Len(txs) <= Len(txs')
  BY CallNow
<1> QED  BY Zenon, <1>1, CallLimits DEF SinkLimits

\* A Write starts with new events.
LEMMA BeginWriteLimits ==
  ASSUME SinkInv, SinkLimits, NEW c \in Callers, NEW n \in 1..MaxSinkBatch, BeginWrite(c, n)
  PROVE  SinkLimits'
<1>1. PICK E, r : /\ E = (issued + 1)..(issued + n)
                  /\ r = [NoCall EXCEPT !.evs = E, !.todo = E,
                            !.pc = IF useTx THEN "begin" ELSE "write"]
  BY Zenon
<1>2. /\ issued' = issued + n /\ issued + n <= MaxSinkEvents /\ call' = [call EXCEPT ![c] = r]
      /\ \E none \in SUBSET E : noEffect' = noEffect \cup none
      /\ UNCHANGED <<sinkKind, useTx, tx, txs, orphans, stored, sinkPos, acked, shared>>
      /\ Meet(c)
  BY Zenon, <1>1 DEF BeginWrite, sqlVars
<1>3. n \in Nat /\ n >= 1 /\ issued \in Nat
  BY SinkBounds DEF SinkInv, SinkType
<1>4. 1..issued \subseteq 1..issued' /\ E \subseteq 1..issued' /\ issued + 1 \in 1..issued'
  BY <1>1, <1>2, <1>3
<1>5. r.evs = E /\ r.tries = 0 /\ r.pc \in {"begin", "write"} /\ (useTx => r.pc = "begin")
  BY Zenon, <1>1 DEF NoCall
<1>6. 0 <= MaxBulkRetries
  BY SinkBounds
<1>7. call'[c] = r /\ \A d \in Callers \ {c} : call'[d] = call[d]
  BY Zenon, <1>2 DEF SinkInv, SinkType
<1>8. ASSUME NEW d \in Callers
      PROVE  (/\ call[d].evs \subseteq 1..issued /\ call[d].tries <= MaxBulkRetries
              /\ OwnTx(call[d], Len(txs)))'
  <2>1. CASE d = c
    BY Zenon, <1>2, <1>4, <1>5, <1>6, <1>7, <2>1 DEF OwnTx
  <2>2. CASE d # c
    BY Zenon, <1>2, <1>4, <1>7, <2>2 DEF SinkLimits, OwnTx
  <2> QED  BY Zenon, <2>1, <2>2
<1>9. mixed' \subseteq Callers
  BY Zenon, <1>2 DEF Meet, Busy, SinkLimits
<1>10. noEffect' \subseteq 1..issued'
  BY Zenon, <1>2, <1>4 DEF SinkLimits
<1> QED  BY Zenon, <1>2, <1>4, <1>8, <1>9, <1>10 DEF SinkLimits

\* BeginTx adds an empty transaction.
LEMMA BeginTxLimits ==
  ASSUME SinkInv, SinkLimits, NEW c \in Callers, BeginTx(c)
  PROVE  SinkLimits'
<1>1. PICK x, r : /\ x = [state |-> "open", evs |-> {}]
                  /\ r = IF call[c].pc = "renew" THEN NoCall
                         ELSE [call[c] EXCEPT !.pc = "write", !.own = Len(txs) + 1]
  BY Zenon
<1>2. /\ txs' = Append(txs, x) /\ call' = [call EXCEPT ![c] = r]
      /\ orphans' = orphans \/ orphans' = orphans \cup {Len(txs) + 1}
      /\ UNCHANGED <<sinkKind, useTx, stored, sinkPos, acked, shared, mixed, noEffect, issued>>
  BY Zenon, <1>1 DEF BeginTx, sinkGhosts, sinkCounts
<1>3. x \in TxRec /\ x.evs = {}
  BY Zenon, <1>1 DEF TxRec
<1>4. /\ Len(txs) \in Nat /\ Len(txs') = Len(txs) + 1 /\ txs'[Len(txs) + 1] = x
      /\ \A t \in 1..Len(txs) : txs'[t] = txs[t]
  BY <1>2, <1>3, CallNow
<1>5. /\ Len(txs') \in Nat /\ Len(txs) <= Len(txs') /\ Len(txs) + 1 \in 1..Len(txs')
      /\ \A t \in 1..Len(txs') : t \in 1..Len(txs) \/ t = Len(txs) + 1
      /\ 1..Len(txs) \subseteq 1..Len(txs')
  BY <1>4
<1>6. r.evs \subseteq 1..issued /\ r.tries <= MaxBulkRetries /\ OwnTx(r, Len(txs'))
  <2>1. CASE call[c].pc = "renew"
    BY Zenon, <1>1, <2>1, CallNow DEF OwnTx
  <2>2. CASE call[c].pc # "renew"
    <3>1. r.evs = call[c].evs /\ r.tries = call[c].tries /\ r.own = Len(txs) + 1
      BY Zenon, <1>1, <2>2, CallNow DEF CallRec
    <3> QED  BY Zenon, <1>5, <3>1, CallNow DEF OwnTx
  <2> QED  BY Zenon, <2>1, <2>2
<1>7. \A t \in 1..Len(txs') : txs'[t].evs \subseteq 1..issued
  BY Zenon, <1>3, <1>4, <1>5 DEF SinkLimits
<1>8. orphans' \subseteq 1..Len(txs')
  BY Zenon, <1>2, <1>5 DEF SinkLimits
<1> QED  BY Zenon, <1>2, <1>5, <1>6, <1>7, <1>8, CallLimits DEF SinkLimits

\* A statement adds an event of the call to the database or to the transaction.
LEMMA ExecLimits ==
  ASSUME SinkInv, SinkLimits, NEW c \in Callers, Exec(c)
  PROVE  SinkLimits'
<1>1. PICK e, r : e = FirstOf(call[c].todo) /\ r = [call[c] EXCEPT !.todo = call[c].todo \ {e}]
  BY Zenon
<1>2. e \in call[c].todo
  <2>1. call[c].todo \in SUBSET Nat /\ call[c].todo # {}
    BY Zenon, CallNow DEF Exec, CallRec
  <2> QED  BY Zenon, <1>1, <2>1, FirstOfLeast
<1>3. e \in 1..issued
  BY Zenon, <1>2, CallNow
<1>4. /\ r.evs = call[c].evs /\ r.tries = call[c].tries /\ r.own = call[c].own
      /\ r.pc = call[c].pc
  BY Zenon, <1>1, CallNow DEF CallRec
<1>5. /\ call' = [call EXCEPT ![c] = r] /\ sinkPos' \subseteq call[c].evs
      /\ UNCHANGED <<sinkKind, useTx, tx, orphans, acked, shared, mixed, noEffect, issued>>
  BY Zenon, <1>1 DEF Exec, sinkGhosts, sinkCounts
<1>6. /\ stored' \subseteq 1..issued /\ Len(txs') = Len(txs)
      /\ \A t \in 1..Len(txs') : txs'[t].evs \subseteq 1..issued
  <2>1. CASE e \in noEffect \/ tx = 0
    <3>1. stored' \subseteq stored \cup {e} /\ txs' = txs
      BY Zenon, <1>1, <2>1 DEF Exec
    <3> QED  BY Zenon, <1>3, <3>1 DEF SinkLimits
  <2>2. CASE e \notin noEffect /\ tx # 0
    <3>1. tx \in 1..Len(txs) /\ txs[tx] \in TxRec
      BY <2>2 DEF SinkInv, SinkType
    <3>2. PICK x : x = [txs[tx] EXCEPT !.evs = txs[tx].evs \cup {e}]
      BY Zenon
    <3>3. txs' = [txs EXCEPT ![tx] = x] /\ stored' = stored
      BY Zenon, <1>1, <2>2, <3>2 DEF Exec
    <3>4. issued \in Nat /\ 1..issued \subseteq Nat
      BY CallNow
    <3>5. x \in TxRec /\ x.evs = txs[tx].evs \cup {e}
      BY Zenon, <1>3, <3>1, <3>2, <3>4 DEF TxRec
    <3>6. /\ Len(txs') = Len(txs) /\ txs'[tx] = x
          /\ \A u \in (1..Len(txs)) \ {tx} : txs'[u] = txs[u]
      <4>1. txs \in Seq(TxRec)
        BY Zenon DEF SinkInv, SinkType
      <4> QED  BY <3>1, <3>3, <3>5, <4>1, TxUpdate
    <3> QED  BY Zenon, <1>3, <3>1, <3>3, <3>5, <3>6 DEF SinkLimits
  <2> QED  BY Zenon, <2>1, <2>2
<1>7. Len(txs') \in Nat /\ Len(txs) <= Len(txs')
  BY <1>6, CallNow
<1>8. /\ r.evs \subseteq 1..issued /\ r.tries <= MaxBulkRetries /\ OwnTx(r, Len(txs'))
      /\ sinkPos' \subseteq 1..issued
  BY Zenon, <1>4, <1>5, <1>6, CallNow DEF OwnTx
<1> QED  BY Zenon, <1>5, <1>6, <1>7, <1>8, CallLimits DEF SinkLimits

\* Transactions that end keep their events.
LEMMA TxLimits ==
  ASSUME SinkInv, SinkLimits, NEW t \in 1..Len(txs),
         txs' = RollBack(t) \/ \E z \in {"committed", "rolledback"} : txs' = [txs EXCEPT ![t].state = z]
  PROVE  /\ Len(txs') = Len(txs) /\ Len(txs') \in Nat /\ Len(txs) <= Len(txs')
         /\ \A u \in 1..Len(txs') : txs'[u].evs \subseteq 1..issued
<1>1. /\ Len(txs') = Len(txs) /\ txs'[t].evs = txs[t].evs
      /\ \A u \in (1..Len(txs)) \ {t} : txs'[u] = txs[u]
  BY Zenon, RollBackTx, TxEnd
<1>2. Len(txs') \in Nat /\ Len(txs) <= Len(txs')
  BY <1>1 DEF SinkInv, SinkType
<1> QED  BY Zenon, <1>1, <1>2 DEF SinkLimits

\* A commit, answered or not, stores the events of the transaction or none.
LEMMA CommitLimits ==
  ASSUME SinkInv, SinkLimits, NEW c \in Callers, Commit(c) \/ CommitFails(c)
  PROVE  SinkLimits'
<1>1. PICK t : t = call[c].got
  BY Zenon
<1>2. t \in 1..Len(txs)
  BY Zenon, <1>1 DEF SinkInv, Shape, Commit, CommitFails
<1>3. /\ \/ txs' = txs \/ \E z \in {"committed", "rolledback"} : txs' = [txs EXCEPT ![t].state = z]
      /\ stored' = stored \/ stored' = stored \cup txs[t].evs
      /\ UNCHANGED <<sinkKind, useTx, tx, orphans, sinkPos, acked, shared, mixed, noEffect, issued>>
  BY Zenon, <1>1 DEF Commit, CommitFails, sinkGhosts, sinkCounts
<1>4. /\ Len(txs') = Len(txs) /\ Len(txs') \in Nat /\ Len(txs) <= Len(txs')
      /\ \A u \in 1..Len(txs') : txs'[u].evs \subseteq 1..issued
  <2>1. CASE txs' = txs
    BY <2>1, CallNow DEF SinkLimits
  <2>2. CASE txs' # txs
    BY Zenon, <1>2, <1>3, <2>2, TxLimits
  <2> QED  BY Zenon, <2>1, <2>2
<1>5. stored' \subseteq 1..issued
  BY Zenon, <1>2, <1>3 DEF SinkLimits
<1>6. PICK r : /\ call' = [call EXCEPT ![c] = r]
               /\ r = NoCall \/ \E p \in {"renew", "ok", "failed"} : r = [call[c] EXCEPT !.pc = p]
  BY Zenon DEF Commit, CommitFails
<1>7. \/ r = NoCall
      \/ r.evs = call[c].evs /\ r.tries = call[c].tries /\ r.own = call[c].own
  BY Zenon, <1>6, CallNow DEF CallRec
<1>8. call[c].pc = "commit"
  BY Zenon DEF Commit, CommitFails
<1>9. r.evs \subseteq 1..issued /\ r.tries <= MaxBulkRetries /\ OwnTx(r, Len(txs'))
  BY Zenon, <1>3, <1>4, <1>7, <1>8, CallNow DEF OwnTx
<1> QED  BY Zenon, <1>3, <1>4, <1>5, <1>6, <1>9, CallLimits DEF SinkLimits

\* What a Write that returns leaves behind is its own transaction.
LEMMA ReturnLimits ==
  ASSUME SinkInv, SinkLimits, NEW c \in Callers, Return(c)
  PROVE  SinkLimits'
<1>1. /\ call' = [call EXCEPT ![c] = NoCall] /\ call[c].pc \in {"ok", "failed"}
      /\ UNCHANGED <<sinkKind, useTx, stored, sinkPos, mixed, noEffect, issued>>
      /\ acked' = acked \/ acked' = acked \cup call[c].evs
      /\ shared' = shared \/ shared' = shared \cup call[c].evs
      /\ orphans' = orphans \/ (useTx /\ orphans' = orphans \cup {call[c].own})
      /\ txs' = txs \/ (tx # 0 /\ txs' = RollBack(tx))
  BY Zenon DEF Return, Clear, sinkCounts
<1>2. call[c].evs # {}
  BY Zenon, <1>1 DEF SinkInv, Shape
<1>3. /\ Len(txs') = Len(txs) /\ Len(txs') \in Nat /\ Len(txs) <= Len(txs')
      /\ \A u \in 1..Len(txs') : txs'[u].evs \subseteq 1..issued
  <2>1. CASE txs' = txs
    BY <2>1, CallNow DEF SinkLimits
  <2>2. CASE tx # 0 /\ txs' = RollBack(tx)
    <3>1. tx \in 1..Len(txs)
      BY <2>2 DEF SinkInv, SinkType
    <3> QED  BY Zenon, <2>2, <3>1, TxLimits
  <2> QED  BY Zenon, <1>1, <2>1, <2>2
<1>4. orphans' \subseteq 1..Len(txs')
  <2>1. useTx => call[c].own \in 1..Len(txs)
    BY Zenon, <1>1, <1>2 DEF OwnTx, SinkLimits
  <2>2. orphans \subseteq 1..Len(txs)
    BY Zenon DEF SinkLimits
  <2> QED  BY Zenon, <1>1, <1>3, <2>1, <2>2
<1>5. acked' \subseteq 1..issued /\ shared' \subseteq 1..issued
  BY Zenon, <1>1, CallNow DEF SinkLimits
<1>6. NoCall.evs \subseteq 1..issued /\ NoCall.tries <= MaxBulkRetries /\ OwnTx(NoCall, Len(txs'))
  BY Zenon, CallNow DEF OwnTx
<1> QED  BY Zenon, <1>1, <1>3, <1>4, <1>5, <1>6, CallLimits DEF SinkLimits

\* A call that stores some of its events, reads the field, or gives up.
LEMMA OtherLimits ==
  ASSUME SinkInv, SinkLimits, NEW c \in Callers,
         \/ BeginFails(c) \/ ExecFails(c) \/ ReadTx(c) \/ Flush(c)
         \/ \E group \in SUBSET call[c].todo : \E kept \in SUBSET group : Send(c, group, kept)
         \/ \E kept \in SUBSET call[c].todo : SendFails(c, kept)
  PROVE  SinkLimits'
<1>1. UNCHANGED <<sinkKind, useTx, tx, txs, orphans, acked, shared, noEffect, issued>>
  BY Zenon DEF BeginFails, ExecFails, ReadTx, Flush, Send, SendFails, sqlVars, sinkGhosts, sinkCounts
<1>2. mixed' \subseteq Callers
  BY Zenon DEF BeginFails, ExecFails, ReadTx, Flush, Send, SendFails, sinkGhosts, Meet, Busy, SinkLimits
<1>3. call[c].todo # {} => FirstOf(call[c].todo) \in call[c].todo
  <2>1. call[c].todo \in SUBSET Nat
    BY Zenon, CallNow DEF CallRec
  <2> QED  BY Zenon, <2>1, FirstOfLeast
<1>4. stored' \subseteq stored \cup call[c].todo /\ sinkPos' \subseteq sinkPos \cup call[c].evs
  <2>1. CASE BeginFails(c) \/ ReadTx(c) \/ Flush(c)
    BY Zenon, <2>1 DEF BeginFails, ReadTx, Flush
  <2>2. CASE ExecFails(c)
    BY Zenon, <1>3, <2>2 DEF ExecFails
  <2>3. ASSUME NEW group \in SUBSET call[c].todo, NEW kept \in SUBSET group, Send(c, group, kept)
        PROVE  stored' \subseteq stored \cup call[c].todo /\ sinkPos' \subseteq sinkPos \cup call[c].evs
    BY Zenon, <2>3 DEF Send
  <2>4. ASSUME NEW kept \in SUBSET call[c].todo, SendFails(c, kept)
        PROVE  stored' \subseteq stored \cup call[c].todo /\ sinkPos' \subseteq sinkPos \cup call[c].evs
    BY Zenon, <2>4 DEF SendFails
  <2> QED  BY Zenon, <2>1, <2>2, <2>3, <2>4
<1>5. stored' \subseteq 1..issued /\ sinkPos' \subseteq 1..issued
  BY Zenon, <1>4, CallNow DEF SinkLimits
<1>6. PICK r : /\ call' = [call EXCEPT ![c] = r]
               /\ r.evs \subseteq 1..issued /\ r.tries <= MaxBulkRetries /\ OwnTx(r, Len(txs))
  <2>1. CASE BeginFails(c)
    BY Zenon, <2>1, CallNow DEF BeginFails, OwnTx
  <2>2. CASE ExecFails(c)
    <3>1. PICK r : r = [call[c] EXCEPT !.pc = "failed"]
      BY Zenon
    <3>2. r.evs = call[c].evs /\ r.tries = call[c].tries /\ r.own = call[c].own
      BY Zenon, <3>1, CallNow DEF CallRec
    <3>3. call' = [call EXCEPT ![c] = r] /\ call[c].pc = "write"
      BY Zenon, <2>2, <3>1 DEF ExecFails, InWrite
    <3> QED  BY Zenon, <3>2, <3>3, CallNow DEF OwnTx
  <2>3. CASE ReadTx(c)
    <3>1. PICK r : r = IF useTx /\ tx # 0 THEN [call[c] EXCEPT !.pc = "commit", !.got = tx]
                       ELSE IF call[c].pc = "flush" THEN NoCall ELSE [call[c] EXCEPT !.pc = "ok"]
      BY Zenon
    <3>2. call' = [call EXCEPT ![c] = r]
      BY Zenon, <2>3, <3>1 DEF ReadTx
    <3>3. \/ r = NoCall
          \/ r.evs = call[c].evs /\ r.tries = call[c].tries /\ r.own = call[c].own
      BY Zenon, <3>1, CallNow DEF CallRec
    <3>4. call[c].pc = "write" \/ call[c].evs = {}
      BY Zenon, <2>3 DEF ReadTx, InWrite, SinkInv, Shape
    <3> QED  BY Zenon, <3>2, <3>3, <3>4, CallNow DEF OwnTx
  <2>4. CASE Flush(c)
    <3>1. PICK r : r = [NoCall EXCEPT !.pc = "flush"]
      BY Zenon
    <3>2. r.evs = {} /\ r.tries = NoCall.tries
      BY Zenon, <3>1, CallNow DEF CallRec
    <3>3. call' = [call EXCEPT ![c] = r]
      BY Zenon, <2>4, <3>1 DEF Flush
    <3> QED  BY Zenon, <3>2, <3>3, CallNow DEF OwnTx
  <2>5. ASSUME NEW group \in SUBSET call[c].todo, NEW kept \in SUBSET group, Send(c, group, kept)
        PROVE  \E r : /\ call' = [call EXCEPT ![c] = r]
                      /\ r.evs \subseteq 1..issued /\ r.tries <= MaxBulkRetries /\ OwnTx(r, Len(txs))
    <3>1. PICK p, rest : rest = call[c].todo \ group /\ p = IF rest = {} THEN "ok" ELSE call[c].pc
      BY Zenon
    <3>2. PICK r : r = [[call[c] EXCEPT !.todo = rest] EXCEPT !.pc = p]
      BY Zenon
    <3>3. r.evs = call[c].evs /\ r.tries = call[c].tries
      BY Zenon, <3>2, CallNow DEF CallRec
    <3>4. call' = [call EXCEPT ![c] = r] /\ ~useTx
      BY Zenon, <2>5, <3>1, <3>2 DEF Send, SinkInv, SinkType
    <3> QED  BY Zenon, <3>3, <3>4, CallNow DEF OwnTx
  <2>6. ASSUME NEW kept \in SUBSET call[c].todo, SendFails(c, kept)
        PROVE  \E r : /\ call' = [call EXCEPT ![c] = r]
                      /\ r.evs \subseteq 1..issued /\ r.tries <= MaxBulkRetries /\ OwnTx(r, Len(txs))
    <3>1. ~useTx
      BY Zenon, <2>6 DEF SendFails, SinkInv, SinkType
    <3>2. CASE call' = [call EXCEPT ![c].pc = "failed"]
      <4>1. PICK r : r = [call[c] EXCEPT !.pc = "failed"]
        BY Zenon
      <4>2. r.evs = call[c].evs /\ r.tries = call[c].tries
        BY Zenon, <4>1, CallNow DEF CallRec
      <4>3. call' = [call EXCEPT ![c] = r]
        BY Zenon, <3>2, <4>1
      <4> QED  BY Zenon, <3>1, <4>2, <4>3, CallNow DEF OwnTx
    <3>3. CASE call[c].tries < MaxBulkRetries /\ call' = [call EXCEPT ![c].tries = call[c].tries + 1]
      <4>1. PICK m : m = call[c].tries + 1
        BY Zenon
      <4>2. m <= MaxBulkRetries
        <5>1. call[c].tries \in Nat
          BY Zenon, CallNow DEF CallRec
        <5> QED  BY <3>3, <4>1, <5>1, SinkBounds
      <4>3. PICK r : r = [call[c] EXCEPT !.tries = m]
        BY Zenon
      <4>4. r.evs = call[c].evs /\ r.tries = m
        BY Zenon, <4>3, CallNow DEF CallRec
      <4>5. call' = [call EXCEPT ![c] = r]
        BY Zenon, <3>3, <4>1, <4>3
      <4> QED  BY Zenon, <3>1, <4>2, <4>4, <4>5, CallNow DEF OwnTx
    <3> QED  BY Zenon, <2>6, <3>2, <3>3 DEF SendFails
  <2> QED  BY Zenon, <2>1, <2>2, <2>3, <2>4, <2>5, <2>6
<1> QED  BY Zenon, <1>1, <1>2, <1>5, <1>6, QuietLimits

\* Steps from outside a call: Stop, and the end of a context.
LEMMA OutsideLimits ==
  ASSUME SinkInv, SinkLimits, StopSink \/ \E t \in DOMAIN txs : ContextEnds(t)
  PROVE  SinkLimits'
<1>1. /\ UNCHANGED <<sinkKind, useTx, orphans, call, stored, sinkPos, acked, shared, noEffect, issued>>
      /\ mixed' = mixed \/ mixed' = mixed \cup Busy
  BY Zenon DEF StopSink, ContextEnds, sinkGhosts, sinkCounts
<1>2. Len(txs') = Len(txs) /\ \A u \in 1..Len(txs') : txs'[u].evs \subseteq 1..issued
  <2>1. CASE txs' = txs
    BY Zenon, <2>1 DEF SinkLimits
  <2>2. CASE txs' # txs
    <3>1. DOMAIN txs = 1..Len(txs) /\ (tx # 0 => tx \in 1..Len(txs))
      BY DEF SinkInv, SinkType
    <3>2. PICK t \in 1..Len(txs) : txs' = RollBack(t)
      BY Zenon, <2>2, <3>1 DEF StopSink, ContextEnds
    <3> QED  BY Zenon, <3>2, TxLimits
  <2> QED  BY Zenon, <2>1, <2>2
<1>3. mixed' \subseteq Callers
  BY Zenon, <1>1 DEF Busy, SinkLimits
<1> QED  BY Zenon, <1>1, <1>2, <1>3 DEF SinkLimits, OwnTx

\* The types and bounds of a sink connector hold in every state, for any number of
\* goroutines and any batches: the field tx names a transaction that was begun, only events
\* passed to Write are stored, acknowledged or stood for by GetPosition, and no bulk
\* request of elasticsearch is retried more than maxRetries times (sendBulkWithRetry).
THEOREM SinkTypesHold == SinkSpec => []SinkTypeOK
<1>1. SinkInit => SinkLimits
  <2> SUFFICES ASSUME SinkInit
               PROVE  SinkLimits
    BY Zenon
  <2>1. 0 <= MaxBulkRetries /\ 0 <= MaxSinkEvents
    BY SinkBounds
  <2>2. /\ \A c \in Callers : call[c] = NoCall
        /\ NoCall.evs = {} /\ NoCall.tries = 0 /\ NoCall.pc = "idle"
    BY Zenon DEF SinkInit, NoCall
  <2>3. txs = <<>> /\ 1..Len(<<>>) = {}
    <3>1. txs = <<>>
      BY Zenon DEF SinkInit
    <3> QED  BY <3>1
  <2>4. useTx \in BOOLEAN
    BY Zenon DEF SinkInit
  <2> QED  BY Zenon, <2>1, <2>2, <2>3, <2>4 DEF SinkInit, SinkLimits, OwnTx
<1>2. SinkInv /\ SinkLimits /\ [SinkNext]_sinkVars => SinkLimits'
  <2> SUFFICES ASSUME SinkInv, SinkLimits, [SinkNext]_sinkVars
               PROVE  SinkLimits'
    BY Zenon
  <2>1. CASE UNCHANGED sinkVars
    BY Zenon, <2>1 DEF SinkLimits, OwnTx, sinkVars, sqlVars, sinkGhosts, sinkCounts
  <2> QED  BY Zenon, <2>1, BeginWriteLimits, BeginTxLimits, ExecLimits, CommitLimits, ReturnLimits,
              OtherLimits, OutsideLimits DEF SinkNext
<1>3. SinkInv /\ SinkLimits => SinkTypeOK
  <2> SUFFICES ASSUME SinkInv, SinkLimits
               PROVE  SinkTypeOK
    BY Zenon
  <2>1. issued \in 0..MaxSinkEvents /\ 1..issued \subseteq 1..MaxSinkEvents
    BY SinkBounds DEF SinkInv, SinkType, SinkLimits
  <2>2. /\ txs \in Seq([state : {"open", "committed", "rolledback"}, evs : SUBSET (1..issued)])
        /\ DOMAIN txs = 1..Len(txs)
    <3>1. PICK T : T = [state : {"open", "committed", "rolledback"}, evs : SUBSET (1..issued)]
      BY Zenon
    <3>2. txs \in Seq(TxRec) /\ DOMAIN txs = 1..Len(txs) /\ \A t \in 1..Len(txs) : txs[t] \in TxRec
      BY DEF SinkInv, SinkType
    <3>3. \A t \in 1..Len(txs) : txs[t] \in T
      BY Zenon, <3>1, <3>2 DEF TxRec, SinkLimits
    <3>4. txs \in Seq(T)
      BY <3>2, <3>3
    <3> QED  BY Zenon, <3>1, <3>2, <3>4
  <2>3. call \in [Callers -> CallType]
    <3>1. ASSUME NEW c \in Callers
          PROVE  call[c] \in CallType
      <4>1. /\ call[c] \in CallRec /\ call[c].evs \subseteq 1..MaxSinkEvents
            /\ call[c].todo \subseteq 1..MaxSinkEvents
        BY Zenon, <2>1, CallNow
      <4>2. call[c].tries \in 0..MaxBulkRetries
        <5>1. call[c].tries \in Nat /\ call[c].tries <= MaxBulkRetries
          BY Zenon, CallNow DEF CallRec
        <5> QED  BY <5>1, SinkBounds
      <4> QED  BY Zenon, <4>1, <4>2 DEF CallRec, CallType
    <3> QED  BY Zenon, <3>1 DEF SinkInv, SinkType
  <2> QED  BY Zenon, <2>1, <2>2, <2>3 DEF SinkInv, SinkType, SinkLimits, Shape, SinkTypeOK
<1> QED  BY <1>1, <1>2, <1>3, SinkInvariant, PTL DEF SinkSpec

-----------------------------------------------------------------------------

(***************************************************************************)
(* The offset storages (OffsetStorage).                                    *)
(*                                                                         *)
(* A flush writes the map in memory, so PositionNotLost rests on what the  *)
(* map holds: an open storage that shares its key with no other and has    *)
(* read no old position holds one at least as new as the newest durable    *)
(* one (Fresh).                                                            *)
(***************************************************************************)

\* The types the proof needs.
OffsetType ==
  /\ keyOf \in [Storages -> OffsetKeys]
  /\ opened \subseteq Storages
  /\ mem \in [Storages -> [OffsetKeys -> 0..saves]]
  /\ durable \in [OffsetKeys -> 0..saves]
  /\ newest \in [OffsetKeys -> 0..saves]
  /\ loading \in [Storages -> Int]
  /\ \A t \in Storages : loading[t] # -1 => loading[t] \in 0..saves
  /\ saves \in Nat

\* No other storage uses the key of t.
Alone(t) == \A u \in Storages \ {t} : keyOf[u] # keyOf[t]

\* The map of a storage holds a position as new as the newest durable one, and
\* a key that no storage uses has none.
Fresh ==
  /\ \A t \in opened :
       Alone(t) /\ t \notin tainted => newest[keyOf[t]] <= mem[t][keyOf[t]]
  /\ \A k \in OffsetKeys : (\A u \in Storages : keyOf[u] # k) => newest[k] = 0

\* The inductive invariant.
OffsetInv == OffsetType /\ Fresh /\ PositionNotLost

\* The greater of two positions.
LEMMA MaxOfTwo ==
  ASSUME NEW a \in Nat, NEW b \in Nat
  PROVE  Max({a, b}) = IF a <= b THEN b ELSE a
<1> DEFINE m == IF a <= b THEN b ELSE a
<1>1. m \in {a, b} /\ \A y \in {a, b} : m >= y
  OBVIOUS
<1>2. \A x \in {a, b} : (\A y \in {a, b} : x >= y) => x = m
  OBVIOUS
<1> QED  BY Zenon, <1>1, <1>2 DEF Max

\* A write by storage t of positions that are as new as the newest durable ones,
\* or unchanged, unless a cause of PositionNotLost applies.
LEMMA MakeDurableInv ==
  ASSUME OffsetInv, NEW t \in Storages, NEW d \in [OffsetKeys -> 0..saves'], MakeDurable(t, d),
         keyOf' = keyOf, saves' \in Nat, saves <= saves',
         \A k \in OffsetKeys : d[k] # durable[k] =>
           d[k] >= newest[k] \/ t \in tainted \/ \E u \in Storages \ {t} : keyOf[u] = k
  PROVE  /\ durable' \in [OffsetKeys -> 0..saves'] /\ newest' \in [OffsetKeys -> 0..saves']
         /\ PositionNotLost'
         /\ \A k \in OffsetKeys \ {keyOf[t]} : newest'[k] = newest[k]
         /\ newest'[keyOf[t]] = newest[keyOf[t]]
              \/ (d[keyOf[t]] # durable[keyOf[t]] /\ newest'[keyOf[t]] = d[keyOf[t]])
<1> DEFINE me == keyOf[t]
<1>1. /\ me \in OffsetKeys /\ newest \in [OffsetKeys -> 0..saves]
      /\ durable \in [OffsetKeys -> 0..saves]
  BY Zenon DEF OffsetInv, OffsetType
<1>2. newest[me] \in Nat /\ d[me] \in Nat
  BY <1>1 DEF OffsetInv, OffsetType
<1>3. durable' = d
  BY Zenon DEF MakeDurable
<1>4. newest' = [newest EXCEPT ![me] =
                   IF d[me] = durable[me] THEN @ ELSE IF @ <= d[me] THEN d[me] ELSE @]
  BY Zenon, <1>1, <1>2, MaxOfTwo DEF MakeDurable
<1>5. stale' = {k \in OffsetKeys :
                  /\ d[k] < newest[k]
                  /\ \/ k \in stale
                     \/ \E u \in Storages \ {t} : keyOf[u] = k
                     \/ t \in tainted}
  BY Zenon DEF MakeDurable
<1>6. newest' \in [OffsetKeys -> 0..saves']
  BY <1>1, <1>2, <1>4 DEF OffsetInv, OffsetType
<1>7. /\ \A k \in OffsetKeys \ {me} : newest'[k] = newest[k]
      /\ newest'[me] = newest[me]
           \/ (newest[me] <= d[me] /\ d[me] # durable[me] /\ newest'[me] = d[me])
  BY Zenon, <1>1, <1>2, <1>4
<1>8. ASSUME NEW k \in OffsetKeys, ~(durable'[k] >= newest'[k])
      PROVE  k \in stale'
  <2>1. d[k] < newest[k]
    <3>1. d[k] \in Nat /\ newest[k] \in Nat
      BY <1>1 DEF OffsetInv, OffsetType
    <3> QED  BY <1>3, <1>7, <1>8, <3>1
  <2>2. CASE d[k] # durable[k]
    <3>1. t \in tainted \/ \E u \in Storages \ {t} : keyOf[u] = k
      BY <1>1, <2>1, <2>2 DEF OffsetInv, OffsetType
    <3> QED  BY Zenon, <1>5, <2>1, <3>1
  <2>3. CASE d[k] = durable[k]
    <3>1. k \in stale
      BY <1>1, <2>1, <2>3 DEF OffsetInv, OffsetType, PositionNotLost
    <3> QED  BY Zenon, <1>5, <2>1, <3>1
  <2> QED  BY Zenon, <2>2, <2>3
<1>9. PositionNotLost'
  BY Zenon, <1>8 DEF PositionNotLost
<1> QED  BY <1>3, <1>6, <1>7, <1>9

\* What a write by storage t leaves of Fresh, if the map of t holds what was
\* written and the other maps are unchanged.
LEMMA MakeDurableFresh ==
  ASSUME OffsetInv, NEW t \in opened, UNCHANGED keyOf,
         mem'[t][keyOf[t]] \in Nat, \A u \in Storages \ {t} : mem'[u] = mem[u],
         opened' \subseteq opened, tainted \ {t} = tainted' \ {t},
         t \in opened' /\ Alone(t) /\ t \notin tainted' => newest[keyOf[t]] <= mem'[t][keyOf[t]],
         \A k \in OffsetKeys \ {keyOf[t]} : newest'[k] = newest[k],
         t \in opened' => newest'[keyOf[t]] \in {newest[keyOf[t]], mem'[t][keyOf[t]]}
  PROVE  Fresh'
<1>1. \A u \in Storages : Alone(u)' = Alone(u)
  BY Zenon DEF Alone
<1>2. ASSUME NEW u \in opened', Alone(u), u \notin tainted'
      PROVE  newest'[keyOf[u]] <= mem'[u][keyOf[u]]
  <2>1. CASE u = t
    BY <1>2, <2>1
  <2>2. CASE u # t
    <3>1. u \in Storages /\ t \in Storages /\ keyOf[u] \in OffsetKeys \ {keyOf[t]}
      BY Zenon, <1>2, <2>2 DEF Alone, OffsetInv, OffsetType
    <3> QED  BY Zenon, <1>2, <2>2, <3>1 DEF OffsetInv, Fresh
  <2> QED  BY Zenon, <2>1, <2>2
<1>3. ASSUME NEW k \in OffsetKeys, \A u \in Storages : keyOf[u] # k
      PROVE  newest'[k] = 0
  BY Zenon, <1>3 DEF OffsetInv, OffsetType, Fresh
<1>4. opened' \subseteq Storages
  BY Zenon DEF OffsetInv, OffsetType
<1> QED  BY Zenon, <1>1, <1>2, <1>3, <1>4 DEF Fresh

\* Steps that write nothing durable.
LEMMA QuietInv ==
  ASSUME OffsetInv, UNCHANGED <<keyOf, durable, newest, stale>>, OffsetType',
         \A u \in opened' : Alone(u) /\ u \notin tainted' => newest[keyOf[u]] <= mem'[u][keyOf[u]]
  PROVE  OffsetInv'
<1>1. \A u \in Storages : Alone(u)' = Alone(u)
  BY Zenon DEF Alone
<1>2. Fresh'
  BY Zenon, <1>1 DEF Fresh, OffsetInv, OffsetType
<1> QED  BY Zenon, <1>2 DEF OffsetInv, PositionNotLost

\* NewStorage reads all offsets, or starts fresh and is tainted if there are some.
LEMMA OpenInv ==
  ASSUME OffsetInv, NEW t \in Storages, NEW ok \in BOOLEAN, OpenStorage(t, ok)
  PROVE  OffsetInv'
<1>1. /\ opened' = opened \cup {t}
      /\ UNCHANGED <<keyOf, durable, loading, saves, newest, stale>>
      /\ \/ mem' = [mem EXCEPT ![t] = durable]
         \/ mem' = [mem EXCEPT ![t] = NoOffsets]
      /\ tainted' = IF mem'[t][keyOf[t]] < newest[keyOf[t]] THEN tainted \cup {t}
                    ELSE tainted \ {t}
  BY Zenon DEF OpenStorage, Taint
<1>2. OffsetType'
  <2>1. NoOffsets \in [OffsetKeys -> 0..saves] /\ durable \in [OffsetKeys -> 0..saves]
    BY DEF OffsetInv, OffsetType, NoOffsets
  <2>2. mem' \in [Storages -> [OffsetKeys -> 0..saves]]
    BY Zenon, <1>1, <2>1 DEF OffsetInv, OffsetType
  <2> QED  BY Zenon, <1>1, <2>2 DEF OffsetInv, OffsetType
<1>3. ASSUME NEW u \in opened', Alone(u), u \notin tainted'
      PROVE  newest[keyOf[u]] <= mem'[u][keyOf[u]]
  <2>1. CASE u = t
    <3>1. newest[keyOf[t]] \in Nat /\ mem'[t][keyOf[t]] \in Nat
      BY <1>1, <1>2 DEF OffsetType
    <3> QED  BY <1>1, <1>3, <2>1, <3>1
  <2>2. CASE u # t
    <3>1. u \in opened /\ u \notin tainted /\ mem'[u] = mem[u]
      BY Zenon, <1>1, <1>3, <2>2 DEF OffsetInv, OffsetType
    <3> QED  BY Zenon, <1>3, <3>1 DEF OffsetInv, Fresh
  <2> QED  BY Zenon, <2>1, <2>2
<1> QED  BY Zenon, <1>1, <1>2, <1>3, QuietInv

\* Save brings a position newer than all.
LEMMA SaveInv ==
  ASSUME OffsetInv, NEW t \in Storages, NEW put \in BOOLEAN, SaveOffset(t, put)
  PROVE  OffsetInv'
<1>1. /\ t \in opened /\ saves' = saves + 1
      /\ mem' = [mem EXCEPT ![t][keyOf[t]] = saves + 1]
      /\ tainted' = tainted \ {t} /\ UNCHANGED <<keyOf, opened, loading>>
  BY Zenon DEF SaveOffset
<1>2. /\ keyOf[t] \in OffsetKeys /\ mem' \in [Storages -> [OffsetKeys -> 0..saves']]
      /\ mem'[t][keyOf[t]] = saves + 1 /\ newest[keyOf[t]] <= saves + 1
      /\ \A u \in Storages \ {t} : mem'[u] = mem[u]
      /\ saves \in Nat /\ saves' \in Nat
  BY <1>1 DEF OffsetInv, OffsetType
<1>3. CASE backend = "etcd" /\ put
  <2> DEFINE d == [durable EXCEPT ![keyOf[t]] = saves + 1]
  <2>1. MakeDurable(t, d)
    BY Zenon, <1>3 DEF SaveOffset
  <2>2. d \in [OffsetKeys -> 0..saves'] /\ d[keyOf[t]] = saves + 1
    BY <1>1, <1>2 DEF OffsetInv, OffsetType
  <2>3. \A k \in OffsetKeys \ {keyOf[t]} : d[k] = durable[k]
    BY Zenon, <1>2 DEF OffsetInv, OffsetType
  <2> HIDE DEF d
  <2>4. /\ durable' \in [OffsetKeys -> 0..saves'] /\ newest' \in [OffsetKeys -> 0..saves']
        /\ PositionNotLost'
        /\ \A k \in OffsetKeys \ {keyOf[t]} : newest'[k] = newest[k]
        /\ newest'[keyOf[t]] \in {newest[keyOf[t]], d[keyOf[t]]}
    BY <1>1, <1>2, <2>1, <2>2, <2>3, MakeDurableInv
  <2>5. Fresh'
    BY <1>1, <1>2, <2>2, <2>4, MakeDurableFresh
  <2>6. OffsetType'
    BY <1>1, <1>2, <2>4 DEF OffsetInv, OffsetType
  <2> QED  BY Zenon, <2>4, <2>5, <2>6 DEF OffsetInv
<1>4. CASE ~(backend = "etcd" /\ put)
  <2>1. UNCHANGED <<durable, newest, stale>>
    BY Zenon, <1>4 DEF SaveOffset
  <2>2. OffsetType'
    BY <1>1, <1>2, <2>1 DEF OffsetInv, OffsetType
  <2>3. ASSUME NEW u \in opened', Alone(u), u \notin tainted'
        PROVE  newest[keyOf[u]] <= mem'[u][keyOf[u]]
    <3>1. CASE u = t
      BY Zenon, <1>2, <3>1
    <3>2. CASE u # t
      <4>1. u \in opened /\ u \in Storages /\ u \notin tainted /\ mem'[u] = mem[u]
        BY Zenon, <1>1, <1>2, <2>3, <3>2 DEF OffsetInv, OffsetType
      <4> QED  BY Zenon, <2>3, <4>1 DEF OffsetInv, Fresh
    <3> QED  BY Zenon, <3>1, <3>2
  <2> QED  BY Zenon, <1>1, <2>1, <2>2, <2>3, QuietInv
<1> QED  BY Zenon, <1>3, <1>4

\* Load stores what it read before, which taints the storage if it is old.
LEMMA LoadInv ==
  ASSUME OffsetInv, NEW t \in Storages, LoadAsks(t) \/ LoadStores(t)
  PROVE  OffsetInv'
<1>1. CASE LoadAsks(t)
  <2>1. /\ loading' = [loading EXCEPT ![t] = durable[keyOf[t]]]
        /\ UNCHANGED <<keyOf, opened, mem, durable, saves, newest, tainted, stale>>
    BY Zenon, <1>1 DEF LoadAsks
  <2>2. OffsetType'
    BY <2>1 DEF OffsetInv, OffsetType
  <2> QED  BY Zenon, <2>1, <2>2, QuietInv DEF OffsetInv, Fresh
<1>2. CASE LoadStores(t)
  <2>1. /\ loading[t] # -1 /\ mem' = [mem EXCEPT ![t][keyOf[t]] = loading[t]]
        /\ tainted' = IF loading[t] < newest[keyOf[t]] THEN tainted \cup {t} ELSE tainted \ {t}
        /\ loading' = [loading EXCEPT ![t] = -1]
        /\ UNCHANGED <<keyOf, opened, durable, saves, newest, stale>>
    BY Zenon, <1>2 DEF LoadStores, Taint
  <2>2. OffsetType'
    BY <2>1 DEF OffsetInv, OffsetType
  <2>3. mem'[t][keyOf[t]] = loading[t] /\ \A u \in Storages \ {t} : mem'[u] = mem[u]
    BY Zenon, <2>1 DEF OffsetInv, OffsetType
  <2>4. ASSUME NEW u \in opened', Alone(u), u \notin tainted'
        PROVE  newest[keyOf[u]] <= mem'[u][keyOf[u]]
    <3>1. CASE u = t
      <4>1. newest[keyOf[t]] \in Nat /\ loading[t] \in Nat
        BY <2>1 DEF OffsetInv, OffsetType
      <4> QED  BY <2>1, <2>3, <2>4, <3>1, <4>1
    <3>2. CASE u # t
      <4>1. u \in opened /\ u \in Storages /\ u \notin tainted /\ mem'[u] = mem[u]
        BY Zenon, <2>1, <2>3, <2>4, <3>2 DEF OffsetInv, OffsetType
      <4> QED  BY Zenon, <2>4, <4>1 DEF OffsetInv, Fresh
    <3> QED  BY Zenon, <3>1, <3>2
  <2> QED  BY Zenon, <2>1, <2>2, <2>4, QuietInv
<1> QED  BY Zenon, <1>1, <1>2

\* Delete takes the position out of the map, and nothing is newest any more.
LEMMA DeleteInv ==
  ASSUME OffsetInv, NEW t \in Storages, NEW del \in BOOLEAN, DeleteOffset(t, del)
  PROVE  OffsetInv'
<1>1. /\ t \in opened /\ mem' = [mem EXCEPT ![t][keyOf[t]] = 0]
      /\ newest' = [newest EXCEPT ![keyOf[t]] = 0]
      /\ durable' \in {durable, [durable EXCEPT ![keyOf[t]] = 0]}
      /\ UNCHANGED <<keyOf, opened, loading, saves, tainted, stale>>
  BY Zenon DEF DeleteOffset
<1>2. OffsetType'
  BY <1>1 DEF OffsetInv, OffsetType
<1>3. /\ newest'[keyOf[t]] = 0 /\ mem'[t][keyOf[t]] = 0
      /\ \A k \in OffsetKeys \ {keyOf[t]} : newest'[k] = newest[k] /\ durable'[k] = durable[k]
      /\ \A u \in Storages \ {t} : mem'[u] = mem[u]
  BY <1>1 DEF OffsetInv, OffsetType
<1>4. PositionNotLost'
  <2>1. durable'[keyOf[t]] >= 0
    BY <1>2 DEF OffsetInv, OffsetType
  <2> SUFFICES ASSUME NEW k \in OffsetKeys
               PROVE  durable'[k] >= newest'[k] \/ k \in stale
    BY Zenon, <1>1 DEF PositionNotLost
  <2>2. CASE k = keyOf[t]
    BY Zenon, <1>3, <2>1, <2>2
  <2>3. CASE k # keyOf[t]
    BY Zenon, <1>3, <2>3 DEF OffsetInv, PositionNotLost
  <2> QED  BY Zenon, <2>2, <2>3
<1>5. Fresh'
  <2>1. \A u \in Storages : Alone(u)' = Alone(u)
    BY Zenon, <1>1 DEF Alone
  <2>2. ASSUME NEW u \in opened, Alone(u), u \notin tainted
        PROVE  newest'[keyOf[u]] <= mem'[u][keyOf[u]]
    <3>1. CASE u = t
      BY <1>3, <3>1
    <3>2. CASE u # t
      <4>1. u \in Storages /\ keyOf[u] \in OffsetKeys \ {keyOf[t]}
        BY Zenon, <2>2, <3>2 DEF Alone, OffsetInv, OffsetType
      <4> QED  BY Zenon, <1>3, <2>2, <3>2, <4>1 DEF OffsetInv, Fresh
    <3> QED  BY Zenon, <3>1, <3>2
  <2>3. ASSUME NEW k \in OffsetKeys, \A u \in Storages : keyOf[u] # k
        PROVE  newest'[k] = 0
    BY Zenon, <1>3, <2>3 DEF OffsetInv, Fresh
  <2>4. opened \subseteq Storages
    BY Zenon DEF OffsetInv, OffsetType
  <2> QED  BY Zenon, <1>1, <2>1, <2>2, <2>3, <2>4 DEF Fresh
<1> QED  BY Zenon, <1>2, <1>4, <1>5 DEF OffsetInv

\* autoFlush, and the flush of Close, write what the map holds.
LEMMA FlushFileInv ==
  ASSUME OffsetInv, NEW t \in opened, NEW d \in [OffsetKeys -> 0..saves], MakeDurable(t, d),
         \A k \in OffsetKeys : d[k] \in {durable[k], mem[t][k]}, UNCHANGED <<keyOf, saves>>
  PROVE  /\ durable' \in [OffsetKeys -> 0..saves'] /\ newest' \in [OffsetKeys -> 0..saves']
         /\ PositionNotLost'
         /\ \A k \in OffsetKeys \ {keyOf[t]} : newest'[k] = newest[k]
         /\ newest'[keyOf[t]] \in {newest[keyOf[t]], mem[t][keyOf[t]]}
<1>1. t \in Storages /\ keyOf[t] \in OffsetKeys /\ saves \in Nat
  BY Zenon DEF OffsetInv, OffsetType
<1>2. ASSUME NEW k \in OffsetKeys, d[k] # durable[k]
      PROVE  d[k] >= newest[k] \/ t \in tainted \/ \E u \in Storages \ {t} : keyOf[u] = k
  <2>1. d[k] = mem[t][k] /\ d[k] \in Nat /\ newest[k] \in Nat
    BY <1>1, <1>2 DEF OffsetInv, OffsetType
  <2>2. CASE k = keyOf[t]
    BY Zenon, <2>1, <2>2 DEF OffsetInv, Fresh, Alone
  <2>3. CASE k # keyOf[t]
    <3>1. CASE \E u \in Storages : keyOf[u] = k
      BY Zenon, <2>3, <3>1
    <3>2. CASE \A u \in Storages : keyOf[u] # k
      <4>1. newest[k] = 0
        BY Zenon, <3>2 DEF OffsetInv, Fresh
      <4> QED  BY <2>1, <4>1
    <3> QED  BY Zenon, <3>1, <3>2
  <2> QED  BY Zenon, <2>2, <2>3
<1>3. d \in [OffsetKeys -> 0..saves'] /\ saves' \in Nat /\ saves <= saves'
  BY <1>1
<1>4. /\ durable' \in [OffsetKeys -> 0..saves'] /\ newest' \in [OffsetKeys -> 0..saves']
      /\ PositionNotLost'
      /\ \A k \in OffsetKeys \ {keyOf[t]} : newest'[k] = newest[k]
      /\ newest'[keyOf[t]] = newest[keyOf[t]]
           \/ (d[keyOf[t]] # durable[keyOf[t]] /\ newest'[keyOf[t]] = d[keyOf[t]])
  BY <1>1, <1>2, <1>3, MakeDurableInv
<1> QED  BY Zenon, <1>1, <1>4

\* The two ways of autoFlush.
LEMMA FlushStep ==
  ASSUME OffsetInv, NEW t \in Storages, FlushFile(t) \/ \E k \in OffsetKeys : FlushEntry(t, k)
  PROVE  OffsetInv'
<1>1. t \in opened /\ UNCHANGED <<keyOf, opened, mem, loading, saves, tainted>>
  BY Zenon DEF FlushFile, FlushEntry
<1>2. PICK d \in [OffsetKeys -> 0..saves] :
        MakeDurable(t, d) /\ \A k \in OffsetKeys : d[k] \in {durable[k], mem[t][k]}
  <2>1. CASE FlushFile(t)
    BY Zenon, <2>1 DEF FlushFile, OffsetInv, OffsetType
  <2>2. ASSUME NEW k \in OffsetKeys, FlushEntry(t, k)
        PROVE  \E d \in [OffsetKeys -> 0..saves] :
                 MakeDurable(t, d) /\ \A j \in OffsetKeys : d[j] \in {durable[j], mem[t][j]}
    <3> DEFINE d == [durable EXCEPT ![k] = mem[t][k]]
    <3>1. MakeDurable(t, d)
      BY Zenon, <2>2 DEF FlushEntry
    <3>2. d \in [OffsetKeys -> 0..saves] /\ \A j \in OffsetKeys : d[j] \in {durable[j], mem[t][j]}
      BY Zenon DEF OffsetInv, OffsetType
    <3> QED  BY Zenon, <3>1, <3>2
  <2> QED  BY Zenon, <2>1, <2>2
<1>3. /\ durable' \in [OffsetKeys -> 0..saves'] /\ newest' \in [OffsetKeys -> 0..saves']
      /\ PositionNotLost'
      /\ \A k \in OffsetKeys \ {keyOf[t]} : newest'[k] = newest[k]
      /\ newest'[keyOf[t]] \in {newest[keyOf[t]], mem[t][keyOf[t]]}
  BY Zenon, <1>1, <1>2, FlushFileInv
<1>4. mem[t][keyOf[t]] \in Nat
  BY DEF OffsetInv, OffsetType
<1>5. Fresh'
  BY Zenon, <1>1, <1>3, <1>4, MakeDurableFresh DEF OffsetInv, Fresh
<1>6. OffsetType'
  BY Zenon, <1>1, <1>3 DEF OffsetInv, OffsetType
<1> QED  BY Zenon, <1>3, <1>5, <1>6 DEF OffsetInv

\* Close, with or without its flush, and a crash.
LEMMA EndInv ==
  ASSUME OffsetInv, NEW t \in Storages,
         CrashStorage(t) \/ \E written \in BOOLEAN : CloseStorage(t, written)
  PROVE  OffsetInv'
<1>1. /\ t \in opened /\ opened' = opened \ {t} /\ tainted' = tainted \ {t}
      /\ mem' = [mem EXCEPT ![t] = NoOffsets] /\ loading' = [loading EXCEPT ![t] = -1]
      /\ UNCHANGED <<keyOf, saves>>
  BY Zenon DEF CrashStorage, CloseStorage, Forget
<1>2. NoOffsets \in [OffsetKeys -> 0..saves] /\ keyOf[t] \in OffsetKeys
  BY DEF OffsetInv, OffsetType, NoOffsets
<1>3. /\ mem' \in [Storages -> [OffsetKeys -> 0..saves]] /\ mem'[t] = NoOffsets
      /\ \A u \in Storages \ {t} : mem'[u] = mem[u]
  BY Zenon, <1>1, <1>2 DEF OffsetInv, OffsetType
<1>4. /\ loading' \in [Storages -> Int]
      /\ \A u \in Storages : loading'[u] # -1 => loading'[u] \in 0..saves
  BY <1>1 DEF OffsetInv, OffsetType
<1>5. CASE UNCHANGED <<durable, newest, stale>>
  <2>1. OffsetType'
    BY Zenon, <1>1, <1>3, <1>4, <1>5 DEF OffsetInv, OffsetType
  <2>2. \A u \in opened' : u \in opened /\ u \in Storages \ {t}
    BY Zenon, <1>1 DEF OffsetInv, OffsetType
  <2> QED  BY Zenon, <1>1, <1>3, <1>5, <2>1, <2>2, QuietInv DEF OffsetInv, Fresh
<1>6. CASE MakeDurable(t, mem[t])
  <2>1. mem[t] \in [OffsetKeys -> 0..saves]
    BY Zenon DEF OffsetInv, OffsetType
  <2>2. /\ durable' \in [OffsetKeys -> 0..saves'] /\ newest' \in [OffsetKeys -> 0..saves']
        /\ PositionNotLost'
        /\ \A k \in OffsetKeys \ {keyOf[t]} : newest'[k] = newest[k]
    BY Zenon, <1>1, <1>6, <2>1, FlushFileInv
  <2>3. mem'[t][keyOf[t]] \in Nat
    BY <1>2, <1>3 DEF NoOffsets
  <2>4. Fresh'
    BY Zenon, <1>1, <1>3, <2>2, <2>3, MakeDurableFresh
  <2>5. OffsetType'
    BY Zenon, <1>1, <1>3, <1>4, <2>2 DEF OffsetInv, OffsetType
  <2> QED  BY Zenon, <2>2, <2>4, <2>5 DEF OffsetInv
<1> QED  BY Zenon, <1>5, <1>6 DEF CrashStorage, CloseStorage

\* Every operation of a storage, a crash included, keeps the invariant.
LEMMA OffsetInvariant == OffsetSpec => []OffsetInv
<1>1. OffsetInit => OffsetInv
  BY DEF OffsetInit, OffsetInv, OffsetType, Fresh, PositionNotLost, NoOffsets
<1>2. OffsetInv /\ [OffsetNext]_offsetVars => OffsetInv'
  <2> SUFFICES ASSUME OffsetInv, [OffsetNext]_offsetVars
               PROVE  OffsetInv'
    BY Zenon
  <2>1. CASE UNCHANGED offsetVars
    BY Zenon, <2>1 DEF offsetVars, OffsetInv, OffsetType, Fresh, Alone, PositionNotLost
  <2>2. ASSUME NEW t \in Storages, NEW ok \in BOOLEAN,
               \/ OpenStorage(t, ok) \/ SaveOffset(t, ok)
               \/ DeleteOffset(t, ok) \/ CloseStorage(t, ok)
        PROVE  OffsetInv'
    BY Zenon, <2>2, OpenInv, SaveInv, DeleteInv, EndInv
  <2>3. ASSUME NEW t \in Storages,
               \/ LoadAsks(t) \/ LoadStores(t) \/ FlushFile(t)
               \/ (\E k \in OffsetKeys : FlushEntry(t, k)) \/ CrashStorage(t)
        PROVE  OffsetInv'
    BY Zenon, <2>3, LoadInv, FlushStep, EndInv
  <2> QED  BY Zenon, <2>1, <2>2, <2>3 DEF OffsetNext
<1> QED  BY <1>1, <1>2, PTL DEF OffsetSpec

\* The durable position of a task never goes back but for the causes
\* PositionNotLost names, for any number of storages and keys: NewStorage, Save,
\* Load, Delete, autoFlush, Close and a crash (internal/offset/storage.go).
THEOREM PositionSafe == OffsetSpec => []PositionNotLost
<1>1. OffsetInv => PositionNotLost
  BY Zenon DEF OffsetInv
<1> QED  BY <1>1, OffsetInvariant, PTL

\* What else the type invariant says: only etcd is asked by a Load, and only through a
\* storage that is open.
OffsetLimits ==
  /\ backend \in Backends
  /\ \A t \in Storages : loading[t] # -1 => backend = "etcd" /\ t \in opened
  /\ saves <= MaxSaves
  /\ tainted \subseteq Storages
  /\ stale \subseteq OffsetKeys

\* Every step keeps it.
LEMMA OffsetStepLimits ==
  ASSUME OffsetInv, OffsetLimits, [OffsetNext]_offsetVars
  PROVE  OffsetLimits'
<1>1. /\ saves \in Nat /\ MaxSaves \in Nat /\ opened \subseteq Storages
      /\ loading \in [Storages -> Int]
  BY Zenon, OffsetBounds DEF OffsetInv, OffsetType
<1>2. \A t, d : MakeDurable(t, d) => stale' \subseteq OffsetKeys
  BY Zenon DEF MakeDurable
<1>3. ASSUME NEW t \in Storages, NEW p, Taint(t, p)
      PROVE  tainted' \subseteq Storages
  BY Zenon, <1>3 DEF Taint, OffsetLimits
<1>4. CASE UNCHANGED offsetVars
  BY Zenon, <1>4 DEF OffsetLimits, offsetVars
<1>5. ASSUME NEW t \in Storages, NEW ok \in BOOLEAN, OpenStorage(t, ok)
      PROVE  OffsetLimits'
  BY Zenon, <1>3, <1>5 DEF OpenStorage, OffsetLimits
<1>6. ASSUME NEW t \in Storages, NEW ok \in BOOLEAN, SaveOffset(t, ok)
      PROVE  OffsetLimits'
  <2>1. saves' <= MaxSaves
    BY <1>1, <1>6 DEF SaveOffset
  <2>2. stale' \subseteq OffsetKeys
    BY Zenon, <1>2, <1>6 DEF SaveOffset, OffsetLimits
  <2> QED  BY Zenon, <1>6, <2>1, <2>2 DEF SaveOffset, OffsetLimits
<1>7. ASSUME NEW t \in Storages, NEW ok \in BOOLEAN, DeleteOffset(t, ok)
      PROVE  OffsetLimits'
  BY Zenon, <1>7 DEF DeleteOffset, OffsetLimits
<1>8. ASSUME NEW t \in Storages, Forget(t), stale' \subseteq OffsetKeys
      PROVE  OffsetLimits'
  <2>1. /\ opened' = opened \ {t} /\ loading' = [loading EXCEPT ![t] = -1]
        /\ tainted' = tainted \ {t} /\ backend' = backend /\ saves' = saves
    BY Zenon, <1>8 DEF Forget
  <2>2. ASSUME NEW u \in Storages, loading'[u] # -1
        PROVE  backend' = "etcd" /\ u \in opened'
    BY Zenon, <1>1, <2>1, <2>2 DEF OffsetLimits
  <2> QED  BY Zenon, <1>8, <2>1, <2>2 DEF OffsetLimits
<1>9. ASSUME NEW t \in Storages, CrashStorage(t) \/ \E ok \in BOOLEAN : CloseStorage(t, ok)
      PROVE  OffsetLimits'
  <2>1. Forget(t)
    BY Zenon, <1>9 DEF CrashStorage, CloseStorage
  <2>2. stale' \subseteq OffsetKeys
    BY Zenon, <1>2, <1>9 DEF CrashStorage, CloseStorage, OffsetLimits
  <2> QED  BY Zenon, <1>8, <2>1, <2>2
<1>10. ASSUME NEW t \in Storages, LoadAsks(t)
       PROVE  OffsetLimits'
  BY Zenon, <1>1, <1>10 DEF LoadAsks, OffsetLimits
<1>11. ASSUME NEW t \in Storages, LoadStores(t)
       PROVE  OffsetLimits'
  <2>1. tainted' \subseteq Storages
    BY Zenon, <1>3, <1>11 DEF LoadStores
  <2> QED  BY Zenon, <1>1, <1>11, <2>1 DEF LoadStores, OffsetLimits
<1>12. ASSUME NEW t \in Storages, FlushFile(t) \/ \E k \in OffsetKeys : FlushEntry(t, k)
       PROVE  OffsetLimits'
  <2>1. stale' \subseteq OffsetKeys /\ UNCHANGED <<backend, opened, loading, saves, tainted>>
    BY Zenon, <1>2, <1>12 DEF FlushFile, FlushEntry
  <2> QED  BY Zenon, <2>1 DEF OffsetLimits
<1> QED  BY Zenon, <1>4, <1>5, <1>6, <1>7, <1>9, <1>10, <1>11, <1>12 DEF OffsetNext

\* The types of the offset storages hold in every state, for any number of storages and
\* keys: what a map, the file, etcd or a Load under way has is a position that was saved,
\* and only the map of a storage on etcd is filled by Load (storage.go Save, Load).
THEOREM OffsetTypesHold == OffsetSpec => []OffsetTypeOK
<1>1. OffsetInit => OffsetLimits
  BY OffsetBounds DEF OffsetInit, OffsetLimits
<1>2. OffsetInv /\ OffsetLimits => OffsetTypeOK
  <2> SUFFICES ASSUME OffsetInv, OffsetLimits
               PROVE  OffsetTypeOK
    BY Zenon
  <2>1. saves \in 0..MaxSaves
    BY OffsetBounds DEF OffsetInv, OffsetType, OffsetLimits
  <2>2. loading \in [Storages -> -1..saves]
    BY DEF OffsetInv, OffsetType
  <2> QED  BY Zenon, <2>1, <2>2 DEF OffsetInv, OffsetType, OffsetLimits, OffsetTypeOK
<1>3. OffsetInv /\ OffsetLimits /\ [OffsetNext]_offsetVars => OffsetLimits'
  BY Zenon, OffsetStepLimits
<1> QED  BY <1>1, <1>2, <1>3, OffsetInvariant, PTL DEF OffsetSpec
=============================================================================
