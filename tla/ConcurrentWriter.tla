-------------------------- MODULE ConcurrentWriter --------------------------
(***************************************************************************)
(* The concurrent sink writer: internal/sink/concurrent_writer.go, its     *)
(* dispatcher hash_dispatcher.go and the row keys of row_identifier.go.    *)
(*                                                                         *)
(* Callers run Write or WriteBatch concurrently, each worker is a          *)
(* goroutine, and Close may come at any time.  An event is the row it      *)
(* found and the row it left; accepted events are known by their number.   *)
(* The sink that a worker writes to (BatchWriter) is external: a call      *)
(* that fails has written some prefix of its batch.                        *)
(***************************************************************************)
EXTENDS Integers, Sequences, FiniteSets, Functions

CONSTANTS
  Workers,       \* 1..WorkerCount, in the order Close goes through them
  Writers,       \* goroutines that call Write or WriteBatch
  Rows,          \* key values of the rows of one table
  NoRow,         \* the missing side of an insert or a delete
  TableKey,      \* what a table without keys is hashed by
  Events,        \* the events callers write
  Hashes,        \* the functions fnv32 may be, from keys to workers
  ChanSize,      \* BufferSize: capacity of a worker's channel
  BatchSize,
  WriteRetries,  \* MaxRetry
  MaxWrites,     \* bound: events written in all
  MaxCall        \* bound: events of one WriteBatch

\* An update that changes the key finds one row and leaves another.
RowEvent ==
  {e \in [found : Rows \cup {NoRow}, left : Rows \cup {NoRow}] :
     e.found # NoRow \/ e.left # NoRow}

RowKeys == Rows \cup {TableKey}

ASSUME WriterBounds ==
  /\ IsFiniteSet(Workers) /\ Workers = 1..Cardinality(Workers)
  /\ NoRow \notin Rows
  /\ Events \subseteq RowEvent
  /\ Hashes \subseteq [RowKeys -> Workers]
  /\ ChanSize \in Nat \ {0}
  /\ BatchSize \in Nat \ {0}
  /\ WriteRetries \in Nat
  /\ MaxWrites \in Nat
  /\ MaxCall \in Nat

VARIABLES
  keyed,     \* the table has a primary key or a unique index
  hash,      \* the worker each key hashes to
  todo,      \* the events of each caller's Write that are still to be sent
  accepted,  \* the events that were sent, in order
  chan,      \* the workers' channels, as numbers of accepted events
  closing,   \* channels that Close has closed, -1 before it is called
  returned,  \* Close has returned
  buffer,    \* events a worker has taken and not begun to write
  batch,     \* events a worker is writing
  attempt,   \* attempts at the batch that have failed
  worker,    \* "loop", "flush", "last" (the flush before it exits) or "gone"
  content,   \* the last event written to each row of the sink, 0 for none
  given,     \* ghost: events of batches given up
  panicked   \* a send on a closed channel

callVars == <<todo, accepted, chan, panicked>>
closeVars == <<closing, returned>>
flushVars == <<buffer, batch, attempt, worker, content, given>>
writerVars == <<keyed, hash, callVars, closeVars, flushVars>>

\* The variables keep their types: no channel holds more than its capacity, a
\* buffer is flushed before it exceeds BatchSize, and a batch is tried at most
\* MaxRetry times more.
WriterTypeOK ==
  /\ keyed \in BOOLEAN
  /\ hash \in Hashes
  /\ todo \in [Writers -> Seq(Events)]
  /\ accepted \in Seq(Events)
  /\ chan \in [Workers -> Seq(DOMAIN accepted)]
  /\ \A w \in Workers : Len(chan[w]) <= ChanSize
  /\ closing \in -1..Cardinality(Workers)
  /\ returned \in BOOLEAN
  /\ buffer \in [Workers -> Seq(DOMAIN accepted)]
  /\ batch \in [Workers -> Seq(DOMAIN accepted)]
  /\ \A w \in Workers : Len(buffer[w]) < BatchSize
  /\ attempt \in [Workers -> 0..WriteRetries]
  /\ worker \in [Workers -> {"loop", "flush", "last", "gone"}]
  /\ content \in [Rows -> 0..Len(accepted)]
  /\ given \subseteq DOMAIN accepted
  /\ panicked \in BOOLEAN

WriterInit ==
  /\ keyed \in BOOLEAN
  /\ hash \in Hashes
  /\ todo = [c \in Writers |-> <<>>]
  /\ accepted = <<>>
  /\ chan = [w \in Workers |-> <<>>]
  /\ closing = -1
  /\ returned = FALSE
  /\ buffer = [w \in Workers |-> <<>>]
  /\ batch = [w \in Workers |-> <<>>]
  /\ attempt = [w \in Workers |-> 0]
  /\ worker = [w \in Workers |-> "loop"]
  /\ content = [r \in Rows |-> 0]
  /\ given = {}
  /\ panicked = FALSE

-----------------------------------------------------------------------------
(* Writers.                                                                *)

\* Plausible bug: a table without keys is hashed by its rows.
RowKeyAlways(e) == IF e.left # NoRow THEN e.left ELSE e.found

\* The key is taken from the row after the change if there is one.
RowKey(e) ==
  IF ~keyed THEN TableKey
  ELSE IF e.left # NoRow THEN e.left ELSE e.found

WorkerID(e) == hash[RowKey(e)]

Call(c, es) ==
  /\ ~panicked
  /\ todo[c] = <<>>
  /\ Len(accepted) + Len(es) <= MaxWrites
  /\ todo' = [todo EXCEPT ![c] = es]
  /\ UNCHANGED <<keyed, hash, accepted, chan, panicked, closeVars, flushVars>>

Dispatch(c) ==
  /\ ~panicked
  /\ todo[c] # <<>>
  /\ LET e == Head(todo[c])
         w == WorkerID(e)
     IN IF w <= closing
        THEN /\ panicked' = TRUE
             /\ UNCHANGED <<todo, accepted, chan>>
        ELSE /\ Len(chan[w]) < ChanSize
             /\ accepted' = Append(accepted, e)
             /\ chan' = [chan EXCEPT ![w] = Append(@, Len(accepted) + 1)]
             /\ todo' = [todo EXCEPT ![c] = Tail(@)]
             /\ UNCHANGED panicked
  /\ UNCHANGED <<keyed, hash, closeVars, flushVars>>

\* The caller's context ends: the rest of a WriteBatch is not sent.
GiveUp(c) ==
  /\ ~panicked
  /\ todo[c] # <<>>
  /\ todo' = [todo EXCEPT ![c] = <<>>]
  /\ UNCHANGED <<keyed, hash, accepted, chan, panicked, closeVars, flushVars>>

-----------------------------------------------------------------------------
(* Close: the channels one by one, then wait for the workers.              *)

Close ==
  /\ ~panicked
  /\ closing = -1
  /\ closing' = 0
  /\ UNCHANGED <<keyed, hash, callVars, returned, flushVars>>

CloseChannel ==
  /\ ~panicked
  /\ closing \in 0..(Cardinality(Workers) - 1)
  /\ closing' = closing + 1
  /\ UNCHANGED <<keyed, hash, callVars, returned, flushVars>>

CloseReturns ==
  /\ ~panicked
  /\ closing = Cardinality(Workers)
  /\ ~returned
  /\ \A w \in Workers : worker[w] = "gone"
  /\ returned' = TRUE
  /\ UNCHANGED <<keyed, hash, callVars, closing, flushVars>>

-----------------------------------------------------------------------------
(* SinkWorker.Run and flush.                                               *)

Take(w) ==
  /\ ~panicked
  /\ worker[w] = "loop"
  /\ chan[w] # <<>>
  /\ chan' = [chan EXCEPT ![w] = Tail(@)]
  /\ LET b == Append(buffer[w], Head(chan[w]))
     IN IF Len(b) >= BatchSize
        THEN /\ buffer' = [buffer EXCEPT ![w] = <<>>]
             /\ batch' = [batch EXCEPT ![w] = b]
             /\ worker' = [worker EXCEPT ![w] = "flush"]
        ELSE /\ buffer' = [buffer EXCEPT ![w] = b]
             /\ UNCHANGED <<batch, worker>>
  /\ UNCHANGED <<keyed, hash, todo, accepted, panicked, closeVars, attempt, content, given>>

Tick(w) ==
  /\ ~panicked
  /\ worker[w] = "loop"
  /\ buffer[w] # <<>>
  /\ buffer' = [buffer EXCEPT ![w] = <<>>]
  /\ batch' = [batch EXCEPT ![w] = buffer[w]]
  /\ worker' = [worker EXCEPT ![w] = "flush"]
  /\ UNCHANGED <<keyed, hash, callVars, closeVars, attempt, content, given>>

\* Plausible bug: Run returns when the channel is closed and does not flush.
DrainedNoFlush(w) ==
  /\ ~panicked
  /\ worker[w] = "loop"
  /\ chan[w] = <<>>
  /\ w <= closing
  /\ worker' = [worker EXCEPT ![w] = "gone"]
  /\ UNCHANGED <<keyed, hash, callVars, closeVars, buffer, batch, attempt, content, given>>

\* The channel is closed and drained.
Drained(w) ==
  /\ ~panicked
  /\ worker[w] = "loop"
  /\ chan[w] = <<>>
  /\ w <= closing
  /\ buffer' = [buffer EXCEPT ![w] = <<>>]
  /\ batch' = [batch EXCEPT ![w] = buffer[w]]
  /\ worker' = [worker EXCEPT ![w] = IF buffer[w] = <<>> THEN "gone" ELSE "last"]
  /\ UNCHANGED <<keyed, hash, callVars, closeVars, attempt, content, given>>

Touches(i, r) == r \in {accepted[i].found, accepted[i].left}

\* The sink after it has applied the events of s in order (external).
Write(s) ==
  [r \in Rows |->
     LET hits == {j \in DOMAIN s : Touches(s[j], r)}
     IN IF hits = {} THEN content[r] ELSE s[CHOOSE j \in hits : \A k \in hits : k <= j]]

EndFlush(w) ==
  /\ batch' = [batch EXCEPT ![w] = <<>>]
  /\ attempt' = [attempt EXCEPT ![w] = 0]
  /\ worker' = [worker EXCEPT ![w] = IF @ = "last" THEN "gone" ELSE "loop"]

WriteOK(w) ==
  /\ ~panicked
  /\ worker[w] \in {"flush", "last"}
  /\ content' = Write(batch[w])
  /\ EndFlush(w)
  /\ UNCHANGED <<keyed, hash, callVars, closeVars, buffer, given>>

\* Plausible bug: the loop over the attempts runs once more.
WriteFailsOnceMore(w, n) ==
  /\ ~panicked
  /\ worker[w] \in {"flush", "last"}
  /\ n \in 0..Len(batch[w])
  /\ content' = Write(SubSeq(batch[w], 1, n))
  /\ IF attempt[w] <= WriteRetries
     THEN /\ attempt' = [attempt EXCEPT ![w] = @ + 1]
          /\ UNCHANGED <<batch, worker, given>>
     ELSE /\ given' = given \cup Range(batch[w])
          /\ EndFlush(w)
  /\ UNCHANGED <<keyed, hash, callVars, closeVars, buffer>>

\* A failed call has written n events; after the last retry the batch is
\* counted in batchesFailed and forgotten, and Run ignores the error.
WriteFails(w, n) ==
  /\ ~panicked
  /\ worker[w] \in {"flush", "last"}
  /\ n \in 0..Len(batch[w])
  /\ content' = Write(SubSeq(batch[w], 1, n))
  /\ IF attempt[w] < WriteRetries
     THEN /\ attempt' = [attempt EXCEPT ![w] = @ + 1]
          /\ UNCHANGED <<batch, worker, given>>
     ELSE /\ given' = given \cup Range(batch[w])
          /\ EndFlush(w)
  /\ UNCHANGED <<keyed, hash, callVars, closeVars, buffer>>

-----------------------------------------------------------------------------
Calls == UNION {[1..n -> Events] : n \in 1..MaxCall}

WorkerNext(w) ==
  \/ Take(w)
  \/ Tick(w)
  \/ Drained(w)
  \/ WriteOK(w)
  \/ \E n \in 0..Len(batch[w]) : WriteFails(w, n)

CloseNext == Close \/ CloseChannel \/ CloseReturns

WriterNext ==
  \/ \E c \in Writers : (\E es \in Calls : Call(c, es)) \/ Dispatch(c) \/ GiveUp(c)
  \/ CloseNext
  \/ \E w \in Workers : WorkerNext(w)

\* Goroutines run; nobody has to call Write or Close.
WriterFairness ==
  /\ \A w \in Workers : WF_writerVars(WorkerNext(w))
  /\ WF_writerVars(CloseChannel \/ CloseReturns)

WriterSafe == WriterInit /\ [][WriterNext]_writerVars

WriterSpec == WriterSafe /\ WriterFairness

-----------------------------------------------------------------------------
(* Correctness.                                                            *)

InHand(w) == Range(chan[w]) \cup Range(buffer[w]) \cup Range(batch[w])

Settled == DOMAIN accepted \ UNION {InHand(w) : w \in Workers}

WriterPhase ==
  IF panicked THEN "panicked"
  ELSE IF returned THEN "closed"
  ELSE IF closing >= 0 THEN "closing" ELSE "open"

Delivery == INSTANCE RowDelivery WITH
  queue <- [i \in DOMAIN accepted |-> RowKey(accepted[i])],
  settled <- Settled,
  phase <- WriterPhase

\* The writer implements RowDelivery: events of one row key reach the sink in
\* the order Write accepted them and every accepted event is settled in the
\* end (Close drains the channels and flushes), whatever the workers, retries
\* and other callers do.
ImplementsRowDelivery == Delivery!DeliverySpec

\* Once every event of a row is settled, the last write to that row at the
\* sink is the last change accepted for it (hash_dispatcher.go: "Events for
\* the same row always go to the same worker, preserving per-row ordering").
\* It needs that no batch with the row was given up, and that in a table with
\* keys no event changed the key of the row: such an event goes by its new
\* key and can overtake, or be overtaken by, those of the old one.
RowHasLastChange ==
  \A r \in Rows :
    LET mine == {i \in DOMAIN accepted : Touches(i, r)}
    IN \/ ~(mine \subseteq Settled)
       \/ mine \cap given # {}
       \/ keyed /\ \E i \in mine : accepted[i].found # accepted[i].left
                                  /\ NoRow \notin {accepted[i].found, accepted[i].left}
       \/ mine = {}
       \/ \A i \in mine : i <= content[r]
=============================================================================
