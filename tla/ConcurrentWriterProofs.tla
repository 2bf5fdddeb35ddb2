----------------------- MODULE ConcurrentWriterProofs -----------------------
(***************************************************************************)
(* Proofs about the concurrent sink writer for any number of workers,      *)
(* callers and rows, any hash and any sizes: it implements the safety part *)
(* of RowDelivery, a row whose events are all settled holds its last       *)
(* change, with the exceptions RowHasLastChange names, and channels,       *)
(* buffers and retries keep to their bounds.                               *)
(*                                                                         *)
(* The inductive invariant WriterInv says that what a worker has in hand   *)
(* are events of its own keys in the order of acceptance, and that every   *)
(* settled event comes before what its worker still has in hand.           *)
(***************************************************************************)
EXTENDS ConcurrentWriter, FiniteSetTheorems, WellFoundedInduction, TLAPS

\* The numbers of a sequence of events are in the order of acceptance.
Rising(s) == \A a, b \in DOMAIN s : a < b => s[a] < s[b]

\* What a sequence holds, after an Append and before a Tail.
LEMMA RangeFacts ==
  ASSUME NEW S, NEW s \in Seq(S)
  PROVE  /\ Range(s) \subseteq S
         /\ s = <<>> <=> Range(s) = {}
         /\ \A x : Range(Append(s, x)) = Range(s) \cup {x}
         /\ s # <<>> => Range(s) = {Head(s)} \cup Range(Tail(s))
<1> USE DEF Range
<1>1. Range(s) \subseteq S
  OBVIOUS
<1>2. s = <<>> <=> Range(s) = {}
  OBVIOUS
<1>3. ASSUME NEW x
      PROVE  Range(Append(s, x)) = Range(s) \cup {x}
  <2>1. DOMAIN Append(s, x) = 1..(Len(s) + 1) /\ DOMAIN s = 1..Len(s) /\ Len(s) \in Nat
    OBVIOUS
  <2>2. Append(s, x)[Len(s) + 1] = x /\ \A a \in 1..Len(s) : Append(s, x)[a] = s[a]
    OBVIOUS
  <2>3. ASSUME NEW y \in Range(Append(s, x))
        PROVE  y \in Range(s) \cup {x}
    BY <2>1, <2>2
  <2>4. ASSUME NEW y \in Range(s) \cup {x}
        PROVE  y \in Range(Append(s, x))
    BY <2>1, <2>2
  <2> QED  BY Zenon, <2>3, <2>4
<1>4. ASSUME s # <<>>
      PROVE  Range(s) = {Head(s)} \cup Range(Tail(s))
  <2>1. /\ DOMAIN Tail(s) = 1..(Len(s) - 1) /\ DOMAIN s = 1..Len(s)
        /\ Len(s) \in Nat /\ Len(s) > 0
    BY <1>4
  <2>2. Head(s) = s[1] /\ \A a \in 1..(Len(s) - 1) : Tail(s)[a] = s[a + 1]
    BY <1>4
  <2>3. ASSUME NEW y \in Range(s)
        PROVE  y \in {Head(s)} \cup Range(Tail(s))
    <3>1. PICK a \in 1..Len(s) : y = s[a]
      BY Zenon, <2>1
    <3>2. CASE a = 1
      BY Zenon, <2>2, <3>1, <3>2
    <3>3. CASE a # 1
      <4>1. a - 1 \in 1..(Len(s) - 1) /\ s[(a - 1) + 1] = y
        BY <2>1, <3>1, <3>3
      <4> QED  BY Zenon, <2>1, <2>2, <4>1
    <3> QED  BY Zenon, <3>2, <3>3
  <2>4. ASSUME NEW y \in {Head(s)} \cup Range(Tail(s))
        PROVE  y \in Range(s)
    BY <2>1, <2>2
  <2> QED  BY Zenon, <2>3, <2>4
<1> QED  BY Zenon, <1>1, <1>2, <1>3, <1>4

\* A buffer that has taken an event is not empty.
LEMMA AppendNotEmpty ==
  ASSUME NEW s \in Seq(Nat), NEW x \in Nat
  PROVE  Append(s, x) # <<>>
<1> DEFINE t == Append(s, x)
<1>1. Len(t) = Len(s) + 1 /\ Len(s) \in Nat
  OBVIOUS
<1> HIDE DEF t
<1>2. t # <<>>
  BY <1>1
<1> QED  BY Zenon, <1>2 DEF t

\* A later number at the end keeps a sequence in order.
LEMMA RisingAppend ==
  ASSUME NEW s \in Seq(Nat), Rising(s), NEW x \in Nat, \A i \in Range(s) : i < x
  PROVE  Rising(Append(s, x))
<1>1. DOMAIN Append(s, x) = 1..(Len(s) + 1) /\ DOMAIN s = 1..Len(s) /\ Len(s) \in Nat
  OBVIOUS
<1>2. Append(s, x)[Len(s) + 1] = x /\ \A a \in 1..Len(s) : Append(s, x)[a] = s[a]
  OBVIOUS
<1> SUFFICES ASSUME NEW a \in 1..(Len(s) + 1), NEW b \in 1..(Len(s) + 1), a < b
             PROVE  Append(s, x)[a] < Append(s, x)[b]
  BY Zenon, <1>1 DEF Rising
<1>3. CASE b = Len(s) + 1
  BY <1>1, <1>2, <1>3 DEF Range
<1>4. CASE b # Len(s) + 1
  BY <1>1, <1>2, <1>4 DEF Rising
<1> QED  BY Zenon, <1>3, <1>4

\* The head of a sequence in order comes before its tail, which is in order.
LEMMA RisingTail ==
  ASSUME NEW s \in Seq(Nat), Rising(s), s # <<>>
  PROVE  /\ Head(s) \in Nat /\ Tail(s) \in Seq(Nat)
         /\ Rising(Tail(s))
         /\ \A i \in Range(Tail(s)) : Head(s) < i
<1>1. /\ DOMAIN Tail(s) = 1..(Len(s) - 1) /\ DOMAIN s = 1..Len(s)
      /\ Len(s) \in Nat /\ Len(s) > 0
  OBVIOUS
<1>2. Head(s) = s[1] /\ \A a \in 1..(Len(s) - 1) : Tail(s)[a] = s[a + 1]
  OBVIOUS
<1>3. Rising(Tail(s))
  BY <1>1, <1>2 DEF Rising
<1>4. \A i \in Range(Tail(s)) : Head(s) < i
  BY <1>1, <1>2 DEF Rising, Range
<1> QED  BY <1>3, <1>4

\* A nonempty set of numbers up to n has a greatest element.
LEMMA Greatest ==
  ASSUME NEW n \in Nat, NEW S, S \subseteq 1..n, S # {}
  PROVE  \E p \in S : \A q \in S : q <= p
<1> DEFINE R == OpToRel(<, Nat)
           T == {n - p : p \in S}
<1>1. IsWellFoundedOn(R, Nat)
  BY Zenon, NatLessThanWellFounded
<1>2. T \subseteq Nat /\ T # {}
  <2>1. PICK p : p \in S
    BY Zenon
  <2>2. n - p \in T
    BY Zenon, <2>1
  <2> QED  BY <2>2
<1>3. \E x \in T : \A y \in T : ~(<<y, x>> \in R)
  <2> HIDE DEF R, T
  <2> QED  BY Zenon, <1>1, <1>2, WFMin
<1>4. \A x, y \in Nat : ~(<<y, x>> \in R) => x <= y
  BY DEF OpToRel
<1>5. PICK x \in T : \A y \in T : x <= y
  <2> HIDE DEF R, T
  <2> QED  BY Zenon, <1>2, <1>3, <1>4
<1>6. PICK p \in S : x = n - p
  BY Zenon, <1>5
<1>7. ASSUME NEW q \in S
      PROVE  q <= p
  <2>1. n - q \in T
    BY Zenon
  <2>2. x <= n - q
    BY Zenon, <1>5, <2>1
  <2> QED  BY <1>6, <2>2
<1> QED  BY Zenon, <1>7

-----------------------------------------------------------------------------
\* The types the proofs need.
WriterType ==
  /\ hash \in [RowKeys -> Workers]
  /\ todo \in [Writers -> Seq(Events)]
  /\ accepted \in Seq(Events)
  /\ chan \in [Workers -> Seq(Nat)]
  /\ buffer \in [Workers -> Seq(Nat)]
  /\ batch \in [Workers -> Seq(Nat)]
  /\ closing \in Int
  /\ worker \in [Workers -> {"loop", "flush", "last", "gone"}]
  /\ content \in [Rows -> Nat]

\* What a worker has in hand in each of its states, and how far Close has come.
WorkerStates ==
  /\ \A w \in Workers :
       /\ worker[w] = "loop" => batch[w] = <<>>
       /\ worker[w] \in {"flush", "last"} => batch[w] # <<>>
       /\ worker[w] = "last" => chan[w] = <<>> /\ buffer[w] = <<>>
       /\ worker[w] = "gone" => chan[w] = <<>> /\ buffer[w] = <<>> /\ batch[w] = <<>>
       /\ worker[w] \in {"last", "gone"} => w <= closing
  /\ returned => closing = Cardinality(Workers) /\ \A w \in Workers : worker[w] = "gone"

\* A worker has the events of its own keys, those it writes before those it has
\* buffered before those in its channel.
InOrder(w) ==
  /\ Rising(chan[w]) /\ Rising(buffer[w]) /\ Rising(batch[w])
  /\ \A i \in Range(batch[w]), j \in Range(buffer[w]) \cup Range(chan[w]) : i < j
  /\ \A i \in Range(buffer[w]), j \in Range(chan[w]) : i < j

OwnEvents(w) ==
  \A i \in InHand(w) : i \in DOMAIN accepted /\ WorkerID(accepted[i]) = w

\* Of the events of one worker those that are settled came first.
SettledFirst ==
  \A i \in Settled : \A j \in InHand(WorkerID(accepted[i])) : i < j

HandsInv == \A w \in Workers : InOrder(w) /\ OwnEvents(w)

\* The inductive invariant.
WriterInv == WriterType /\ WorkerStates /\ HandsInv /\ SettledFirst

\* A WriteBatch is a sequence of events.
LEMMA CallTypes == \A es \in Calls : es \in Seq(Events)
  BY DEF Calls

\* Close goes through finitely many channels.
LEMMA WorkerCount == Cardinality(Workers) \in Nat
  BY Zenon, WriterBounds, FS_CardinalityType

\* HashKey gives every event a key.
LEMMA KeyTypes ==
  ASSUME NEW e \in Events
  PROVE  RowKey(e) \in RowKeys
  BY Zenon, WriterBounds DEF RowKey, RowKeys, RowEvent

\* NewConcurrentSinkWriter establishes the invariant.
LEMMA InitInv == WriterInit => WriterInv
<1> SUFFICES ASSUME WriterInit
             PROVE  WriterInv
  BY Zenon
<1>1. WriterType
  BY WriterBounds DEF WriterInit, WriterType
<1>2. \A w \in Workers : InHand(w) = {}
  BY DEF WriterInit, InHand, Range
<1>3. WorkerStates
  BY Zenon DEF WriterInit, WorkerStates
<1>4. HandsInv
  BY <1>2 DEF WriterInit, HandsInv, InOrder, OwnEvents, Rising, Range
<1>5. SettledFirst
  BY DEF WriterInit, SettledFirst, Settled
<1> QED  BY Zenon, <1>1, <1>3, <1>4, <1>5 DEF WriterInv

\* Every step keeps the types.
LEMMA StepTypes ==
  ASSUME WriterType, [WriterNext]_writerVars
  PROVE  WriterType'
<1> USE DEF WriterType
<1>1. CASE UNCHANGED writerVars
  BY Zenon, <1>1 DEF writerVars, callVars, closeVars, flushVars
<1>2. ASSUME NEW c \in Writers, NEW es \in Calls, Call(c, es)
      PROVE  WriterType'
  BY Zenon, <1>2, CallTypes DEF Call, closeVars, flushVars
<1>3. ASSUME NEW c \in Writers, Dispatch(c)
      PROVE  WriterType'
  <2>1. Head(todo[c]) \in Events /\ Tail(todo[c]) \in Seq(Events)
    BY <1>3 DEF Dispatch
  <2>2. WorkerID(Head(todo[c])) \in Workers
    BY Zenon, <2>1, KeyTypes DEF WorkerID
  <2>3. CASE WorkerID(Head(todo[c])) <= closing
    BY Zenon, <1>3, <2>3 DEF Dispatch, closeVars, flushVars
  <2>4. CASE ~(WorkerID(Head(todo[c])) <= closing)
    <3>1. Append(chan[WorkerID(Head(todo[c]))], Len(accepted) + 1) \in Seq(Nat)
      BY <2>2
    <3>2. /\ accepted' = Append(accepted, Head(todo[c]))
          /\ chan' = [chan EXCEPT ![WorkerID(Head(todo[c]))] = Append(@, Len(accepted) + 1)]
          /\ todo' = [todo EXCEPT ![c] = Tail(@)]
          /\ UNCHANGED <<hash, closing, buffer, batch, worker, content>>
      BY <1>3, <2>4, Zenon DEF Dispatch, closeVars, flushVars
    <3> QED  BY <2>1, <2>2, <3>1, <3>2
  <2> QED  BY Zenon, <2>3, <2>4
<1>4. ASSUME NEW c \in Writers, GiveUp(c)
      PROVE  WriterType'
  BY <1>4 DEF GiveUp, closeVars, flushVars
<1>5. CASE CloseNext
  BY <1>5 DEF CloseNext, Close, CloseChannel, CloseReturns, callVars, flushVars
<1>6. ASSUME NEW w \in Workers, Take(w)
      PROVE  WriterType'
  <2>1. Head(chan[w]) \in Nat /\ Tail(chan[w]) \in Seq(Nat)
    BY <1>6 DEF Take
  <2>2. Append(buffer[w], Head(chan[w])) \in Seq(Nat)
    BY <2>1
  <2>3. chan' \in [Workers -> Seq(Nat)] /\ UNCHANGED <<hash, todo, accepted, closing, content>>
    BY Zenon, <1>6, <2>1 DEF Take, closeVars
  <2>4. CASE Len(Append(buffer[w], Head(chan[w]))) >= BatchSize
    <3>1. /\ buffer' = [buffer EXCEPT ![w] = <<>>]
          /\ batch' = [batch EXCEPT ![w] = Append(buffer[w], Head(chan[w]))]
          /\ worker' = [worker EXCEPT ![w] = "flush"]
      BY <1>6, <2>4, Zenon DEF Take
    <3> QED  BY <2>2, <2>3, <3>1
  <2>5. CASE ~(Len(Append(buffer[w], Head(chan[w]))) >= BatchSize)
    BY ZenonT(30), <1>6, <2>2, <2>3, <2>5 DEF Take
  <2> QED  BY Zenon, <2>4, <2>5
<1>7. ASSUME NEW w \in Workers, Tick(w) \/ Drained(w)
      PROVE  WriterType'
  <2>1. CASE Tick(w)
    BY <2>1 DEF Tick, closeVars, callVars
  <2>2. CASE Drained(w)
    BY Zenon, <2>2 DEF Drained, closeVars, callVars
  <2> QED  BY Zenon, <1>7, <2>1, <2>2
<1>8. ASSUME NEW s \in Seq(Nat)
      PROVE  Write(s) \in [Rows -> Nat]
  <2> SUFFICES ASSUME NEW r \in Rows
               PROVE  Write(s)[r] \in Nat
    BY Zenon DEF Write
  <2> DEFINE hits == {j \in DOMAIN s : Touches(s[j], r)}
  <2>1. CASE hits = {}
    BY Zenon, <2>1 DEF Write
  <2>2. CASE hits # {}
    <3>1. \E p \in hits : \A q \in hits : q <= p
      <4>1. hits \subseteq 1..Len(s) /\ Len(s) \in Nat
        OBVIOUS
      <4> HIDE DEF hits
      <4> QED  BY Zenon, <2>2, <4>1, Greatest
    <3>2. Write(s)[r] = s[CHOOSE j \in hits : \A k \in hits : k <= j]
      BY Zenon, <2>2 DEF Write
    <3>3. (CHOOSE j \in hits : \A k \in hits : k <= j) \in hits
      <4> HIDE DEF hits
      <4> QED  BY Zenon, <3>1
    <3> QED  BY <3>2, <3>3
  <2> QED  BY Zenon, <2>1, <2>2
<1>9. ASSUME NEW w \in Workers, WriteOK(w)
      PROVE  WriterType'
  BY <1>8, <1>9 DEF WriteOK, EndFlush, closeVars, callVars
<1>10. ASSUME NEW w \in Workers, NEW n \in 0..Len(batch[w]), WriteFails(w, n)
       PROVE  WriterType'
  <2>1. SubSeq(batch[w], 1, n) \in Seq(Nat)
    OBVIOUS
  <2>2. content' \in [Rows -> Nat]
    BY Zenon, <1>8, <1>10, <2>1 DEF WriteFails
  <2>3. CASE attempt[w] < WriteRetries
    BY Zenon, <1>10, <2>2, <2>3 DEF WriteFails, closeVars, callVars
  <2>4. CASE ~(attempt[w] < WriteRetries)
    <3>1. EndFlush(w) /\ UNCHANGED <<hash, todo, accepted, chan, closing, buffer>>
      BY <1>10, <2>4, Zenon DEF WriteFails, closeVars, callVars
    <3> QED  BY <2>2, <3>1 DEF EndFlush
  <2> QED  BY Zenon, <2>3, <2>4
<1> QED  BY Zenon, <1>1, <1>2, <1>3, <1>4, <1>5, <1>6, <1>7, <1>9, <1>10 DEF WriterNext, WorkerNext

\* Every step keeps what a worker may hold in each state of Run.
LEMMA StepStates ==
  ASSUME WriterType, WorkerStates, [WriterNext]_writerVars
  PROVE  WorkerStates'
<1> USE DEF WriterType, WorkerStates
<1>1. CASE UNCHANGED writerVars
  BY Zenon, <1>1 DEF writerVars, callVars, closeVars, flushVars
<1>2. ASSUME NEW c \in Writers, NEW es \in Calls, Call(c, es)
      PROVE  WorkerStates'
  BY Zenon, <1>2 DEF Call, closeVars, flushVars
<1>3. ASSUME NEW c \in Writers, Dispatch(c)
      PROVE  WorkerStates'
  BY <1>3 DEF Dispatch, closeVars, flushVars
<1>4. ASSUME NEW c \in Writers, GiveUp(c)
      PROVE  WorkerStates'
  BY Zenon, <1>4 DEF GiveUp, closeVars, flushVars
<1>5. CASE CloseNext
  <2>1. CASE Close
    BY <2>1, WorkerCount, WriterBounds DEF Close, callVars, flushVars
  <2>2. CASE CloseChannel
    BY <2>2, WorkerCount, WriterBounds DEF CloseChannel, callVars, flushVars
  <2>3. CASE CloseReturns
    BY Zenon, <2>3 DEF CloseReturns, callVars, flushVars
  <2> QED  BY Zenon, <1>5, <2>1, <2>2, <2>3 DEF CloseNext
<1>6. ASSUME NEW w \in Workers, Take(w)
      PROVE  WorkerStates'
  <2>1. Append(buffer[w], Head(chan[w])) # <<>>
    <3>1. buffer[w] \in Seq(Nat) /\ Head(chan[w]) \in Nat
      BY SMTT(30), <1>6 DEF Take
    <3> QED  BY Zenon, <3>1, AppendNotEmpty
  <2>2. CASE Len(Append(buffer[w], Head(chan[w]))) >= BatchSize
    BY Zenon, <1>6, <2>1, <2>2 DEF Take, closeVars
  <2>3. CASE ~(Len(Append(buffer[w], Head(chan[w]))) >= BatchSize)
    BY Zenon, <1>6, <2>3 DEF Take, closeVars
  <2> QED  BY Zenon, <2>2, <2>3
<1>7. ASSUME NEW w \in Workers, Tick(w) \/ Drained(w)
      PROVE  WorkerStates'
  <2>1. CASE Tick(w)
    BY Zenon, <2>1 DEF Tick, closeVars, callVars
  <2>2. CASE Drained(w)
    BY Zenon, <2>2 DEF Drained, closeVars, callVars
  <2> QED  BY Zenon, <1>7, <2>1, <2>2
<1>8. ASSUME NEW w \in Workers, WriteOK(w)
      PROVE  WorkerStates'
  BY Zenon, <1>8 DEF WriteOK, EndFlush, closeVars, callVars
<1>9. ASSUME NEW w \in Workers, NEW n \in 0..Len(batch[w]), WriteFails(w, n)
      PROVE  WorkerStates'
  BY Zenon, <1>9 DEF WriteFails, EndFlush, closeVars, callVars
<1> QED  BY Zenon, <1>1, <1>2, <1>3, <1>4, <1>5, <1>6, <1>7, <1>8, <1>9 DEF WriterNext, WorkerNext

-----------------------------------------------------------------------------
\* What a step can do to the events in the workers' hands.
Keeps ==
  /\ UNCHANGED <<accepted, keyed, hash>>
  /\ \A v \in Workers : InHand(v)' = InHand(v) /\ InOrder(v)'

Accepts(e) ==
  /\ accepted' = Append(accepted, e) /\ UNCHANGED <<keyed, hash>>
  /\ \A v \in Workers :
       /\ InHand(v)' = IF v = WorkerID(e) THEN InHand(v) \cup {Len(accepted) + 1} ELSE InHand(v)
       /\ InOrder(v)'

Finishes(w) ==
  /\ UNCHANGED <<accepted, keyed, hash>>
  /\ \A v \in Workers :
       /\ InHand(v)' = IF v = w THEN InHand(v) \ Range(batch[v]) ELSE InHand(v)
       /\ InOrder(v)'

\* Steps of callers and of Close that send nothing leave the workers' hands
\* alone.
LEMMA QuietKeeps ==
  ASSUME WriterInv, UNCHANGED <<accepted, keyed, hash, chan, buffer, batch>>
  PROVE  Keeps
  BY Zenon DEF WriterInv, HandsInv, Keeps, InHand, InOrder

\* Run moves an event from the channel to the buffer, and a full buffer to the
\* batch.
LEMMA TakeKeeps ==
  ASSUME WriterInv, NEW w \in Workers, Take(w)
  PROVE  Keeps
<1> DEFINE x == Head(chan[w])
           rest == Tail(chan[w])
           b == Append(buffer[w], x)
<1>1. /\ chan[w] \in Seq(Nat) /\ buffer[w] \in Seq(Nat)
      /\ chan[w] # <<>> /\ batch[w] = <<>> /\ InOrder(w)
  BY Zenon DEF WriterInv, WriterType, WorkerStates, HandsInv, Take
<1>2. /\ x \in Nat /\ rest \in Seq(Nat) /\ Rising(rest) /\ \A i \in Range(rest) : x < i
      /\ Range(chan[w]) = {x} \cup Range(rest)
  BY Zenon, <1>1, RisingTail, RangeFacts DEF InOrder
<1>3. /\ Range(b) = Range(buffer[w]) \cup {x} /\ b \in Seq(Nat)
      /\ \A i \in Range(b), j \in Range(rest) : i < j
  <2>1. Range(b) = Range(buffer[w]) \cup {x} /\ b \in Seq(Nat)
    BY <1>1, <1>2, RangeFacts
  <2> QED  BY Zenon, <1>1, <1>2, <2>1 DEF InOrder
<1>4. Rising(b)
  BY Zenon, <1>1, <1>2, RisingAppend DEF InOrder
<1>5. Range(<<>>) = {} /\ Rising(<<>>)
  BY DEF Range, Rising
<1>6. /\ chan' = [chan EXCEPT ![w] = rest]
      /\ UNCHANGED <<accepted, keyed, hash>>
      /\ \/ buffer' = [buffer EXCEPT ![w] = <<>>] /\ batch' = [batch EXCEPT ![w] = b]
         \/ buffer' = [buffer EXCEPT ![w] = b] /\ batch' = batch
  BY Zenon DEF Take
<1> HIDE DEF x, rest, b
<1>7. ASSUME NEW v \in Workers, v # w
      PROVE  InHand(v)' = InHand(v) /\ InOrder(v)'
  <2>1. chan'[v] = chan[v] /\ buffer'[v] = buffer[v] /\ batch'[v] = batch[v]
    BY Zenon, <1>6, <1>7 DEF WriterInv, WriterType
  <2> QED  BY Zenon, <2>1 DEF InHand, InOrder, WriterInv, HandsInv
<1>8. InHand(w)' = InHand(w) /\ InOrder(w)'
  <2>1. chan'[w] = rest
    BY Zenon, <1>6 DEF WriterInv, WriterType
  <2>2. CASE buffer' = [buffer EXCEPT ![w] = <<>>] /\ batch' = [batch EXCEPT ![w] = b]
    <3>1. buffer'[w] = <<>> /\ batch'[w] = b
      BY Zenon, <2>2 DEF WriterInv, WriterType
    <3> QED  BY Zenon, <1>1, <1>2, <1>3, <1>4, <1>5, <2>1, <3>1 DEF InHand, InOrder
  <2>3. CASE buffer' = [buffer EXCEPT ![w] = b] /\ batch' = batch
    <3>1. buffer'[w] = b /\ batch'[w] = <<>>
      BY Zenon, <1>1, <2>3 DEF WriterInv, WriterType
    <3> QED  BY Zenon, <1>1, <1>2, <1>3, <1>4, <1>5, <2>1, <3>1 DEF InHand, InOrder
  <2> QED  BY Zenon, <1>6, <2>2, <2>3
<1> QED  BY Zenon, <1>6, <1>7, <1>8 DEF Keeps

\* A tick, or a drained channel, moves the buffer to the batch.
LEMMA FlushKeeps ==
  ASSUME WriterInv, NEW w \in Workers, Tick(w) \/ Drained(w)
  PROVE  Keeps
<1>1. batch[w] = <<>> /\ InOrder(w)
  BY Zenon DEF WriterInv, WorkerStates, HandsInv, Tick, Drained
<1>2. /\ buffer' = [buffer EXCEPT ![w] = <<>>] /\ batch' = [batch EXCEPT ![w] = buffer[w]]
      /\ UNCHANGED <<accepted, keyed, hash, chan>>
  BY Zenon DEF Tick, Drained, callVars
<1>3. Range(<<>>) = {} /\ Rising(<<>>)
  BY DEF Range, Rising
<1>4. ASSUME NEW v \in Workers, v # w
      PROVE  InHand(v)' = InHand(v) /\ InOrder(v)'
  <2>1. chan'[v] = chan[v] /\ buffer'[v] = buffer[v] /\ batch'[v] = batch[v]
    BY Zenon, <1>2, <1>4 DEF WriterInv, WriterType
  <2> QED  BY Zenon, <2>1 DEF InHand, InOrder, WriterInv, HandsInv
<1>5. chan'[w] = chan[w] /\ buffer'[w] = <<>> /\ batch'[w] = buffer[w]
  BY Zenon, <1>2 DEF WriterInv, WriterType
<1>6. InHand(w)' = InHand(w) /\ InOrder(w)'
  BY Zenon, <1>1, <1>3, <1>5 DEF InHand, InOrder
<1> QED  BY Zenon, <1>2, <1>4, <1>6 DEF Keeps

\* A send puts the newest event at the end of the channel of its worker.
LEMMA DispatchAccepts ==
  ASSUME WriterInv, NEW e \in Events, NEW w \in Workers, w = WorkerID(e),
         accepted' = Append(accepted, e),
         chan' = [chan EXCEPT ![w] = Append(@, Len(accepted) + 1)],
         UNCHANGED <<keyed, hash, buffer, batch>>
  PROVE  Accepts(e)
<1> DEFINE n == Len(accepted) + 1
<1>1. n \in Nat /\ \A i \in InHand(w) : i < n
  BY DEF WriterInv, WriterType, HandsInv, OwnEvents
<1>2. chan[w] \in Seq(Nat) /\ chan'[w] = Append(chan[w], n) /\ InOrder(w)
  BY Zenon DEF WriterInv, WriterType, HandsInv
<1>3. buffer'[w] = buffer[w] /\ batch'[w] = batch[w]
  BY Zenon
<1> HIDE DEF n
<1>4. Range(chan'[w]) = Range(chan[w]) \cup {n}
  BY <1>2, RangeFacts
<1>5. Rising(chan'[w])
  BY Zenon, <1>1, <1>2, RisingAppend DEF InOrder, InHand
<1>6. InHand(w)' = InHand(w) \cup {n} /\ InOrder(w)'
  BY Zenon, <1>1, <1>2, <1>3, <1>4, <1>5 DEF InHand, InOrder
<1>7. ASSUME NEW v \in Workers, v # w
      PROVE  InHand(v)' = InHand(v) /\ InOrder(v)'
  <2>1. chan'[v] = chan[v] /\ buffer'[v] = buffer[v] /\ batch'[v] = batch[v]
    BY Zenon, <1>7 DEF WriterInv, WriterType
  <2> QED  BY Zenon, <2>1 DEF InHand, InOrder, WriterInv, HandsInv
<1> QED  BY Zenon, <1>6, <1>7 DEF Accepts, n

\* The end of flush takes the batch out of the worker's hand.
LEMMA EndFinishes ==
  ASSUME WriterInv, NEW w \in Workers, EndFlush(w),
         UNCHANGED <<accepted, keyed, hash, chan, buffer>>
  PROVE  Finishes(w)
<1>1. InOrder(w) /\ batch'[w] = <<>>
  BY Zenon DEF WriterInv, WriterType, HandsInv, EndFlush
<1>2. Range(<<>>) = {} /\ Rising(<<>>)
  BY DEF Range, Rising
<1>3. InHand(w)' = InHand(w) \ Range(batch[w]) /\ InOrder(w)'
  <2>1. /\ Range(batch[w]) \subseteq Nat /\ Range(buffer[w]) \subseteq Nat
        /\ Range(chan[w]) \subseteq Nat
    BY Zenon, RangeFacts DEF WriterInv, WriterType
  <2> QED  BY <1>1, <1>2, <2>1 DEF InHand, InOrder
<1>4. ASSUME NEW v \in Workers, v # w
      PROVE  InHand(v)' = InHand(v) /\ InOrder(v)'
  <2>1. chan'[v] = chan[v] /\ buffer'[v] = buffer[v] /\ batch'[v] = batch[v]
    BY Zenon, <1>4 DEF WriterInv, WriterType, EndFlush
  <2> QED  BY Zenon, <2>1 DEF InHand, InOrder, WriterInv, HandsInv
<1> QED  BY Zenon, <1>3, <1>4 DEF Finishes

\* A settled event is one that no worker has in hand.
LEMMA SettledMeans ==
  \A i : i \in Settled <=> i \in DOMAIN accepted /\ \A v \in Workers : i \notin InHand(v)
  BY Zenon DEF Settled

\* The same after a step.
LEMMA SettledMeansNext ==
  \A i : i \in Settled' <=> i \in DOMAIN accepted' /\ \A v \in Workers : i \notin InHand(v)'
  BY Zenon DEF Settled

\* A step that keeps the hands settles nothing.
LEMMA KeepsHands ==
  ASSUME WriterInv, Keeps
  PROVE  Settled' = Settled /\ HandsInv' /\ SettledFirst'
<1>1. Settled' = Settled
  BY SettledMeans, SettledMeansNext DEF Keeps
<1>2. \A i \in DOMAIN accepted : WorkerID(accepted[i])' = WorkerID(accepted[i])
  BY Zenon DEF Keeps, WorkerID, RowKey
<1>3. \A i \in DOMAIN accepted : WorkerID(accepted[i]) \in Workers
  BY KeyTypes DEF WriterInv, WriterType, WorkerID
<1>4. \A v \in Workers : OwnEvents(v)'
  BY Zenon, <1>2 DEF Keeps, WriterInv, HandsInv, OwnEvents
<1>5. SettledFirst'
  <2> SUFFICES ASSUME NEW i \in Settled', NEW j \in InHand(WorkerID(accepted[i]))'
               PROVE  i < j
    BY Zenon DEF SettledFirst
  <2>1. i \in Settled /\ i \in DOMAIN accepted
    BY Zenon, <1>1, SettledMeans
  <2>2. j \in InHand(WorkerID(accepted[i]))
    BY Zenon, <1>2, <1>3, <2>1 DEF Keeps, InHand
  <2> QED  BY Zenon, <2>1, <2>2 DEF WriterInv, SettledFirst
<1> QED  BY Zenon, <1>1, <1>4, <1>5 DEF Keeps, HandsInv

\* An accepted event is newer than all that are settled or in hand.
LEMMA AcceptsHands ==
  ASSUME WriterInv, NEW e \in Events, Accepts(e)
  PROVE  Settled' = Settled /\ HandsInv' /\ SettledFirst'
<1>0. PICK n : n = Len(accepted) + 1
  BY Zenon
<1>1. /\ DOMAIN accepted = 1..Len(accepted) /\ DOMAIN accepted' = 1..n
      /\ accepted'[n] = e /\ Len(accepted) \in Nat
      /\ \A i \in DOMAIN accepted : accepted'[i] = accepted[i] /\ accepted[i] \in Events
  BY <1>0 DEF Accepts, WriterInv, WriterType
<1>2. /\ WorkerID(e) \in Workers
      /\ \A i \in DOMAIN accepted : WorkerID(accepted[i]) \in Workers
  BY Zenon, <1>0, <1>1, KeyTypes DEF WriterInv, WriterType, WorkerID
<1>3. /\ WorkerID(accepted[n])' = WorkerID(e)
      /\ \A i \in DOMAIN accepted : WorkerID(accepted[i])' = WorkerID(accepted[i])
  BY Zenon, <1>1 DEF Accepts, WorkerID, RowKey
<1>4. \A v \in Workers :
        InHand(v)' = IF v = WorkerID(e) THEN InHand(v) \cup {n} ELSE InHand(v)
  BY Zenon, <1>0 DEF Accepts
<1>5. ASSUME NEW v \in Workers
      PROVE  OwnEvents(v)'
  <2> SUFFICES ASSUME NEW i \in InHand(v)'
               PROVE  i \in DOMAIN accepted' /\ WorkerID(accepted[i])' = v
    BY Zenon DEF OwnEvents
  <2>1. CASE i \in InHand(v)
    <3>1. i \in DOMAIN accepted /\ WorkerID(accepted[i]) = v
      BY Zenon, <2>1 DEF WriterInv, HandsInv, OwnEvents
    <3> QED  BY <1>0, <1>1, <1>3, <3>1
  <2>2. CASE i = n /\ v = WorkerID(e)
    BY <1>0, <1>1, <1>3, <2>2
  <2> QED  BY Zenon, <1>4, <2>1, <2>2
<1>6. Settled' = Settled
  <2>1. ASSUME NEW i \in Settled'
        PROVE  i \in Settled
    <3>1. i \in 1..n /\ i # n
      BY Zenon, <1>0, <1>1, <1>2, <1>4, SettledMeansNext
    <3>2. i \in DOMAIN accepted
      BY <1>0, <1>1, <3>1
    <3> QED  BY <1>4, <3>2, SettledMeans, SettledMeansNext
  <2>2. ASSUME NEW i \in Settled
        PROVE  i \in Settled'
    <3>1. i \in DOMAIN accepted /\ i # n /\ i \in DOMAIN accepted'
      BY <1>0, <1>1, SettledMeans
    <3> QED  BY Zenon, <1>4, <3>1, SettledMeans, SettledMeansNext
  <2> QED  BY Zenon, <2>1, <2>2
<1>7. SettledFirst'
  <2> SUFFICES ASSUME NEW i \in Settled', NEW j \in InHand(WorkerID(accepted[i]))'
               PROVE  i < j
    BY Zenon DEF SettledFirst
  <2>1. i \in Settled /\ i \in DOMAIN accepted /\ i < n
    BY <1>0, <1>1, <1>6, SettledMeans
  <2>2. j \in InHand(WorkerID(accepted[i])) \/ j = n
    <3> DEFINE u == WorkerID(accepted[i])
    <3>1. j \in InHand(WorkerID(accepted[i])) \cup {n}
      BY Zenon, <1>2, <1>3, <1>4, <2>1 DEF InHand
    <3> QED  BY Zenon, <3>1
  <2> QED  BY Zenon, <2>1, <2>2 DEF WriterInv, SettledFirst
<1> QED  BY Zenon, <1>5, <1>6, <1>7 DEF Accepts, HandsInv

\* A finished batch is settled before the rest of the worker's hand.
LEMMA FinishesHands ==
  ASSUME WriterInv, NEW w \in Workers, Finishes(w)
  PROVE  Settled' = Settled \cup Range(batch[w]) /\ HandsInv' /\ SettledFirst'
<1>1. \A i \in DOMAIN accepted : WorkerID(accepted[i])' = WorkerID(accepted[i])
  BY Zenon DEF Finishes, WorkerID, RowKey
<1>2. \A i \in DOMAIN accepted : WorkerID(accepted[i]) \in Workers
  BY KeyTypes DEF WriterInv, WriterType, WorkerID
<1>3. \A v \in Workers : InHand(v)' \subseteq InHand(v)
  BY Zenon DEF Finishes
<1>4. \A i \in Range(batch[w]) : i \in DOMAIN accepted /\ WorkerID(accepted[i]) = w
  BY Zenon DEF WriterInv, HandsInv, OwnEvents, InHand
<1>5. Settled' = Settled \cup Range(batch[w])
  <2>1. ASSUME NEW i \in Settled'
        PROVE  i \in Settled \cup Range(batch[w])
    BY Zenon, SettledMeans, SettledMeansNext DEF Finishes
  <2>2. ASSUME NEW i \in Settled
        PROVE  i \in Settled'
    BY Zenon, <1>3, SettledMeans, SettledMeansNext DEF Finishes
  <2>3. ASSUME NEW i \in Range(batch[w])
        PROVE  i \in Settled'
    <3>1. ASSUME NEW v \in Workers, i \in InHand(v)'
          PROVE  FALSE
      <4>1. i \in InHand(v) /\ v = w
        BY Zenon, <1>3, <1>4, <3>1 DEF WriterInv, HandsInv, OwnEvents
      <4> QED  BY Zenon, <3>1, <4>1 DEF Finishes
    <3> QED  BY Zenon, <1>4, <3>1, SettledMeansNext DEF Finishes
  <2> QED  BY Zenon, <2>1, <2>2, <2>3
<1>6. \A v \in Workers : OwnEvents(v)'
  BY Zenon, <1>1, <1>3 DEF Finishes, WriterInv, HandsInv, OwnEvents
<1>7. SettledFirst'
  <2> SUFFICES ASSUME NEW i \in Settled', NEW j \in InHand(WorkerID(accepted[i]))'
               PROVE  i < j
    BY Zenon DEF SettledFirst
  <2>1. i \in DOMAIN accepted
    BY Zenon, SettledMeansNext DEF Finishes
  <2>2. PICK u \in Workers : u = WorkerID(accepted[i]) /\ j \in InHand(u)'
    BY Zenon, <1>1, <1>2, <2>1 DEF InHand
  <2>3. CASE i \in Settled
    BY Zenon, <1>3, <2>2, <2>3 DEF WriterInv, SettledFirst
  <2>4. CASE i \in Range(batch[w])
    <3>1. u = w
      BY Zenon, <1>4, <2>2, <2>4
    <3>2. j \in InHand(w) \ Range(batch[w])
      BY Zenon, <2>2, <3>1 DEF Finishes
    <3>3. j \in Range(buffer[w]) \cup Range(chan[w])
      BY Zenon, <3>2 DEF InHand
    <3> QED  BY Zenon, <2>4, <3>3 DEF WriterInv, HandsInv, InOrder
  <2> QED  BY Zenon, <1>5, <2>3, <2>4
<1> QED  BY Zenon, <1>5, <1>6, <1>7 DEF Finishes, HandsInv

\* Dispatch panics on a channel Close has closed, or accepts the event.
LEMMA DispatchHands ==
  ASSUME WriterInv, NEW c \in Writers, Dispatch(c)
  PROVE  \/ Keeps /\ UNCHANGED accepted /\ panicked' = TRUE /\ closing >= 1
         \/ /\ \E e \in Events : Accepts(e)
            /\ panicked' = panicked /\ \E w \in Workers : ~(w <= closing)
<1>1. PICK e \in Events : e = Head(todo[c])
  BY DEF Dispatch, WriterInv, WriterType
<1>2. PICK w \in Workers : w = WorkerID(e)
  BY Zenon, KeyTypes DEF WorkerID, WriterInv, WriterType
<1>3. CASE w <= closing
  <2>1. panicked' = TRUE /\ UNCHANGED <<accepted, keyed, hash, chan, buffer, batch>>
    BY Zenon, <1>1, <1>2, <1>3 DEF Dispatch, flushVars
  <2>2. closing >= 1
    BY <1>3, WriterBounds, WorkerCount DEF WriterInv, WriterType
  <2> QED  BY Zenon, <2>1, <2>2, QuietKeeps
<1>4. CASE ~(w <= closing)
  <2>1. /\ accepted' = Append(accepted, e)
        /\ chan' = [chan EXCEPT ![w] = Append(@, Len(accepted) + 1)]
        /\ UNCHANGED <<keyed, hash, buffer, batch, panicked>>
    BY Zenon, <1>1, <1>2, <1>4 DEF Dispatch, flushVars
  <2> QED  BY Zenon, <1>2, <1>4, <2>1, DispatchAccepts
<1> QED  BY Zenon, <1>3, <1>4

\* A worker keeps its hand or finishes its batch.
LEMMA WorkerHands ==
  ASSUME WriterInv, NEW w \in Workers, WorkerNext(w)
  PROVE  Keeps \/ (Finishes(w) /\ worker[w] \in {"flush", "last"})
<1>1. CASE Take(w)
  BY Zenon, <1>1, TakeKeeps
<1>2. CASE Tick(w) \/ Drained(w)
  BY Zenon, <1>2, FlushKeeps
<1>3. CASE WriteOK(w)
  BY Zenon, <1>3, EndFinishes DEF WriteOK, callVars
<1>4. ASSUME NEW n \in 0..Len(batch[w]), WriteFails(w, n)
      PROVE  Keeps \/ (Finishes(w) /\ worker[w] \in {"flush", "last"})
  <2>1. CASE attempt[w] < WriteRetries
    BY Zenon, <1>4, <2>1, QuietKeeps DEF WriteFails, callVars
  <2>2. CASE ~(attempt[w] < WriteRetries)
    BY Zenon, <1>4, <2>2, EndFinishes DEF WriteFails, callVars
  <2> QED  BY Zenon, <2>1, <2>2
<1> QED  BY Zenon, <1>1, <1>2, <1>3, <1>4 DEF WorkerNext

\* Every step keeps what the workers have in hand, adds an accepted event to
\* the hand of the worker it hashes to, or settles a batch.
LEMMA StepHands ==
  ASSUME WriterInv, [WriterNext]_writerVars
  PROVE  \/ Keeps
         \/ \E e \in Events : Accepts(e)
         \/ \E w \in Workers : Finishes(w) /\ worker[w] \in {"flush", "last"}
<1>1. CASE UNCHANGED writerVars
  BY Zenon, <1>1, QuietKeeps DEF writerVars, callVars, flushVars
<1>2. ASSUME NEW c \in Writers, (\E es \in Calls : Call(c, es)) \/ GiveUp(c)
      PROVE  Keeps
  BY Zenon, <1>2, QuietKeeps DEF Call, GiveUp, flushVars
<1>3. ASSUME NEW c \in Writers, Dispatch(c)
      PROVE  Keeps \/ \E e \in Events : Accepts(e)
  BY Zenon, <1>3, DispatchHands
<1>4. CASE CloseNext
  BY Zenon, <1>4, QuietKeeps DEF CloseNext, Close, CloseChannel, CloseReturns, callVars, flushVars
<1>5. ASSUME NEW w \in Workers, WorkerNext(w)
      PROVE  Keeps \/ (Finishes(w) /\ worker[w] \in {"flush", "last"})
  BY Zenon, <1>5, WorkerHands
<1> QED  BY Zenon, <1>1, <1>2, <1>3, <1>4, <1>5 DEF WriterNext

\* Every step keeps the invariant.
LEMMA StepInv == WriterInv /\ [WriterNext]_writerVars => WriterInv'
<1> SUFFICES ASSUME WriterInv, [WriterNext]_writerVars
             PROVE  WriterInv'
  BY Zenon
<1>1. WriterType'
  BY Zenon, StepTypes DEF WriterInv
<1>2. WorkerStates'
  BY Zenon, StepStates DEF WriterInv
<1>3. HandsInv' /\ SettledFirst'
  BY Zenon, StepHands, KeepsHands, AcceptsHands, FinishesHands
<1> QED  BY Zenon, <1>1, <1>2, <1>3 DEF WriterInv

-----------------------------------------------------------------------------
\* A row whose events may be lost or may overtake each other.
Exempt(r) ==
  \E i \in DOMAIN accepted :
    /\ Touches(i, r)
    /\ \/ i \in given
       \/ /\ keyed /\ accepted[i].found # accepted[i].left
          /\ NoRow \notin {accepted[i].found, accepted[i].left}

\* Inductive form of RowHasLastChange.
RowInv ==
  \A r \in Rows : Exempt(r) \/ \A i \in Settled : Touches(i, r) => i <= content[r]

\* The events of a row go to one worker unless one of them changes its key.
LEMMA SameWorker ==
  ASSUME WriterInv, NEW r \in Rows, ~Exempt(r),
         NEW i \in DOMAIN accepted, NEW k \in DOMAIN accepted, Touches(i, r), Touches(k, r)
  PROVE  WorkerID(accepted[i]) = WorkerID(accepted[k])
<1>1. ASSUME NEW m \in DOMAIN accepted, Touches(m, r), keyed
      PROVE  RowKey(accepted[m]) = r
  BY Zenon, <1>1, WriterBounds DEF Exempt, Touches, RowKey
<1> QED  BY Zenon, <1>1 DEF WorkerID, RowKey

\* A call of the sink leaves in a row the last event of the call that touches
\* it.
LEMMA WriteLast ==
  ASSUME NEW s \in Seq(Nat), Rising(s), NEW r \in Rows
  PROVE  \/ /\ Write(s)[r] = content[r]
            /\ \A i \in Range(s) : ~Touches(i, r)
         \/ /\ Write(s)[r] \in Range(s) /\ Touches(Write(s)[r], r)
            /\ \A i \in Range(s) : Touches(i, r) => i <= Write(s)[r]
<1> DEFINE hits == {j \in DOMAIN s : Touches(s[j], r)}
           last == CHOOSE j \in hits : \A k \in hits : k <= j
<1>1. Write(s)[r] = IF hits = {} THEN content[r] ELSE s[last]
  BY Zenon DEF Write
<1>2. CASE hits = {}
  <2>1. \A i \in Range(s) : ~Touches(i, r)
    BY Zenon, <1>2 DEF Range
  <2> QED  BY Zenon, <1>1, <1>2, <2>1
<1>3. CASE hits # {}
  <2>1. Len(s) \in Nat /\ DOMAIN s = 1..Len(s) /\ hits \subseteq 1..Len(s)
    OBVIOUS
  <2>2. last \in hits /\ \A k \in hits : k <= last
    <3> HIDE DEF hits
    <3>1. \E p \in hits : \A q \in hits : q <= p
      BY Zenon, <1>3, <2>1, Greatest
    <3> QED  BY Zenon, <3>1
  <2> HIDE DEF last
  <2>3. \A i \in Range(s) : Touches(i, r) => i <= s[last]
    <3> SUFFICES ASSUME NEW k \in DOMAIN s, Touches(s[k], r)
                 PROVE  s[k] <= s[last]
      BY Zenon DEF Range
    <3>1. k \in hits /\ k <= last /\ last \in DOMAIN s
      BY Zenon, <2>2
    <3>2. s[k] \in Nat /\ s[last] \in Nat
      BY <3>1
    <3> QED  BY <2>1, <3>1, <3>2 DEF Rising
  <2>4. s[last] \in Range(s) /\ Touches(s[last], r)
    BY Zenon, <2>2 DEF Range
  <2> QED  BY Zenon, <1>1, <1>3, <2>3, <2>4
<1> QED  BY Zenon, <1>2, <1>3

\* The part of a batch that a failed call has written is in order.
LEMMA RisingPrefix ==
  ASSUME NEW s \in Seq(Nat), Rising(s), NEW n \in 0..Len(s)
  PROVE  /\ SubSeq(s, 1, n) \in Seq(Nat) /\ Rising(SubSeq(s, 1, n))
         /\ Range(SubSeq(s, 1, n)) \subseteq Range(s)
<1>1. /\ Len(s) \in Nat /\ DOMAIN s = 1..Len(s)
      /\ SubSeq(s, 1, n) \in Seq(Nat)
      /\ DOMAIN SubSeq(s, 1, n) = 1..n /\ \A a \in 1..n : SubSeq(s, 1, n)[a] = s[a]
  OBVIOUS
<1> QED  BY <1>1 DEF Rising, Range

\* Steps that neither send nor write leave the rows alone.
LEMMA QuietRows ==
  ASSUME WriterInv, RowInv, Keeps, UNCHANGED <<content, given>>
  PROVE  RowInv'
<1>1. Settled' = Settled
  BY Zenon, KeepsHands
<1>2. \A i, r : Touches(i, r)' = Touches(i, r)
  BY Zenon DEF Touches, Keeps
<1>3. \A r : Exempt(r)' = Exempt(r)
  BY Zenon DEF Exempt, Touches, Keeps
<1> QED  BY Zenon, <1>1, <1>2, <1>3 DEF RowInv

\* An accepted event is not settled, so the settled ones are still covered.
LEMMA AcceptRows ==
  ASSUME WriterInv, RowInv, NEW e \in Events, Accepts(e), UNCHANGED <<content, given>>
  PROVE  RowInv'
<1>1. Settled' = Settled
  BY Zenon, AcceptsHands
<1>2. \A i \in DOMAIN accepted : i \in DOMAIN accepted' /\ accepted'[i] = accepted[i]
  BY DEF Accepts, WriterInv, WriterType
<1>3. \A i \in DOMAIN accepted : \A r : Touches(i, r)' <=> Touches(i, r)
  BY Zenon, <1>2 DEF Touches
<1>4. \A r : Exempt(r) => Exempt(r)'
  BY Zenon, <1>2, <1>3 DEF Exempt, Accepts
<1>5. Settled \subseteq DOMAIN accepted
  BY Zenon, SettledMeans
<1> QED  BY Zenon, <1>1, <1>3, <1>4, <1>5 DEF RowInv

\* A call of the sink that writes the batch, or a first part of it, leaves in
\* each row it touches an event later than all that are settled.
LEMMA WriteRows ==
  ASSUME WriterInv, NEW w \in Workers, NEW s \in Seq(Nat), Rising(s),
         Range(s) \subseteq Range(batch[w]),
         NEW r \in Rows, ~Exempt(r), \A i \in Settled : Touches(i, r) => i <= content[r]
  PROVE  /\ \A i \in Settled : Touches(i, r) => i <= Write(s)[r]
         /\ \A i \in Range(s) : Touches(i, r) => i <= Write(s)[r]
<1>1. CASE Write(s)[r] = content[r] /\ \A i \in Range(s) : ~Touches(i, r)
  BY Zenon, <1>1
<1>2. CASE /\ Write(s)[r] \in Range(s) /\ Touches(Write(s)[r], r)
           /\ \A i \in Range(s) : Touches(i, r) => i <= Write(s)[r]
  <2>1. PICK m : m = Write(s)[r]
    BY Zenon
  <2>2. m \in InHand(w) /\ m \in DOMAIN accepted /\ WorkerID(accepted[m]) = w
    BY Zenon, <1>2, <2>1 DEF InHand, WriterInv, HandsInv, OwnEvents
  <2>3. ASSUME NEW i \in Settled, Touches(i, r)
        PROVE  i <= m
    <3>1. i \in DOMAIN accepted
      BY Zenon, SettledMeans
    <3>2. WorkerID(accepted[i]) = w
      BY Zenon, <1>2, <2>1, <2>2, <2>3, <3>1, SameWorker
    <3>3. i < m
      BY Zenon, <2>2, <3>2 DEF WriterInv, SettledFirst
    <3>4. i \in Nat /\ m \in Nat
      BY <2>2, <3>1 DEF WriterInv, WriterType
    <3> QED  BY <3>3, <3>4
  <2> QED  BY Zenon, <1>2, <2>1, <2>3
<1> QED  BY Zenon, <1>1, <1>2, WriteLast

\* Every step keeps the rows of the sink up to date with what is settled.
LEMMA StepRows ==
  ASSUME WriterInv, RowInv, [WriterNext]_writerVars
  PROVE  RowInv'
<1>1. CASE UNCHANGED writerVars
  BY Zenon, <1>1, QuietKeeps, QuietRows DEF writerVars, callVars, flushVars
<1>2. ASSUME NEW c \in Writers, (\E es \in Calls : Call(c, es)) \/ GiveUp(c)
      PROVE  RowInv'
  BY Zenon, <1>2, QuietKeeps, QuietRows DEF Call, GiveUp, flushVars
<1>3. ASSUME NEW c \in Writers, Dispatch(c)
      PROVE  RowInv'
  <2>1. UNCHANGED <<content, given>>
    BY Zenon, <1>3 DEF Dispatch, flushVars
  <2>2. Keeps \/ \E e \in Events : Accepts(e)
    BY Zenon, <1>3, DispatchHands
  <2> QED  BY Zenon, <2>1, <2>2, QuietRows, AcceptRows
<1>4. CASE CloseNext
  BY Zenon, <1>4, QuietKeeps, QuietRows
     DEF CloseNext, Close, CloseChannel, CloseReturns, callVars, flushVars
<1>5. ASSUME NEW w \in Workers, Take(w)
      PROVE  RowInv'
  BY Zenon, <1>5, TakeKeeps, QuietRows DEF Take
<1>6. ASSUME NEW w \in Workers, Tick(w) \/ Drained(w)
      PROVE  RowInv'
  BY Zenon, <1>6, FlushKeeps, QuietRows DEF Tick, Drained
<1>7. ASSUME NEW w \in Workers, WriteOK(w)
      PROVE  RowInv'
  <2>1. Finishes(w) /\ content' = Write(batch[w]) /\ given' = given /\ accepted' = accepted
    BY Zenon, <1>7, EndFinishes DEF WriteOK, callVars
  <2>2. Settled' = Settled \cup Range(batch[w])
    BY Zenon, <2>1, FinishesHands
  <2>3. batch[w] \in Seq(Nat) /\ Rising(batch[w])
    BY Zenon DEF WriterInv, WriterType, HandsInv, InOrder
  <2> SUFFICES ASSUME NEW r \in Rows, ~Exempt(r)'
               PROVE  \A i \in Settled' : Touches(i, r)' => i <= content'[r]
    BY Zenon DEF RowInv
  <2>4. ~Exempt(r) /\ \A i : Touches(i, r)' = Touches(i, r)
    BY Zenon, <2>1 DEF Exempt, Touches, Finishes
  <2> QED  BY Zenon, <2>1, <2>2, <2>3, <2>4, WriteRows DEF RowInv
<1>8. ASSUME NEW w \in Workers, NEW n \in 0..Len(batch[w]), WriteFails(w, n)
      PROVE  RowInv'
  <2> DEFINE s == SubSeq(batch[w], 1, n)
  <2>1. s \in Seq(Nat) /\ Rising(s) /\ Range(s) \subseteq Range(batch[w])
    BY Zenon, RisingPrefix DEF WriterInv, WriterType, HandsInv, InOrder
  <2>2. content' = Write(s) /\ UNCHANGED <<accepted, keyed, hash, chan, buffer>>
    BY Zenon, <1>8 DEF WriteFails, callVars
  <2> HIDE DEF s
  <2> SUFFICES ASSUME NEW r \in Rows, ~Exempt(r)'
               PROVE  \A i \in Settled' : Touches(i, r)' => i <= content'[r]
    BY Zenon DEF RowInv
  <2>3. \A i : Touches(i, r)' = Touches(i, r)
    BY Zenon, <2>2 DEF Touches
  <2>4. CASE attempt[w] < WriteRetries
    <3>1. UNCHANGED <<batch, given>>
      BY Zenon, <1>8, <2>4 DEF WriteFails
    <3>2. Settled' = Settled
      BY Zenon, <2>2, <3>1, QuietKeeps, KeepsHands
    <3>3. ~Exempt(r)
      BY Zenon, <2>2, <3>1 DEF Exempt, Touches
    <3> QED  BY Zenon, <2>1, <2>2, <2>3, <3>2, <3>3, WriteRows DEF RowInv
  <2>5. CASE ~(attempt[w] < WriteRetries)
    <3>1. given' = given \cup Range(batch[w]) /\ EndFlush(w)
      BY Zenon, <1>8, <2>5 DEF WriteFails
    <3>2. Settled' = Settled \cup Range(batch[w])
      BY Zenon, <2>2, <3>1, EndFinishes, FinishesHands
    <3>3. ~Exempt(r)
      BY Zenon, <2>2, <3>1 DEF Exempt, Touches
    <3>4. ASSUME NEW i \in Range(batch[w])
          PROVE  ~Touches(i, r)'
      <4>1. i \in DOMAIN accepted
        BY Zenon DEF WriterInv, HandsInv, OwnEvents, InHand
      <4> QED  BY Zenon, <2>2, <3>1, <4>1 DEF Exempt, Touches
    <3> QED  BY Zenon, <2>1, <2>2, <2>3, <3>2, <3>3, <3>4, WriteRows DEF RowInv
  <2> QED  BY Zenon, <2>4, <2>5
<1> QED  BY Zenon, <1>1, <1>2, <1>3, <1>4, <1>5, <1>6, <1>7, <1>8 DEF WriterNext, WorkerNext

\* Whatever the number of workers, callers, rows and retries, and whatever the
\* hash, the last write to a row whose events are all settled is the last
\* change accepted for it (concurrent_writer.go Write, Run, flush;
\* hash_dispatcher.go WorkerID), with the exceptions RowHasLastChange names.
THEOREM RowSafe == WriterSafe => []RowHasLastChange
<1>1. WriterInit => WriterInv /\ RowInv
  <2> SUFFICES ASSUME WriterInit
               PROVE  RowInv
    BY Zenon, InitInv
  <2>1. Settled = {}
    BY SettledMeans DEF WriterInit
  <2> QED  BY Zenon, <2>1 DEF RowInv
<1>2. WriterInv /\ RowInv /\ [WriterNext]_writerVars => (WriterInv /\ RowInv)'
  BY Zenon, StepInv, StepRows
<1>3. RowInv => RowHasLastChange
  <2> SUFFICES ASSUME RowInv, NEW r \in Rows,
                      \A i \in DOMAIN accepted : Touches(i, r) => i \in Settled,
                      ~Exempt(r)
               PROVE  \A i \in DOMAIN accepted : Touches(i, r) => i <= content[r]
    BY Zenon DEF RowHasLastChange, Exempt
  <2> QED  BY Zenon DEF RowInv
<1> QED  BY <1>1, <1>2, <1>3, PTL DEF WriterSafe

-----------------------------------------------------------------------------
\* The state of RowDelivery a state of the writer stands for.
Queue == [i \in DOMAIN accepted |-> RowKey(accepted[i])]

\* A step that keeps the hands changes nothing in RowDelivery.
LEMMA StutterStep ==
  ASSUME WriterInv, Keeps, UNCHANGED <<closing, returned, panicked>>
  PROVE  Queue' = Queue /\ Settled' = Settled /\ WriterPhase' = WriterPhase
<1>1. Settled' = Settled
  BY Zenon, KeepsHands
<1>2. Queue' = Queue
  BY Zenon DEF Queue, Keeps, RowKey
<1>3. WriterPhase' = WriterPhase
  BY Zenon DEF WriterPhase
<1> QED  BY Zenon, <1>1, <1>2, <1>3

\* An accepted event is appended to the queue of RowDelivery.
LEMMA AcceptStep ==
  ASSUME WriterInv, NEW e \in Events, Accepts(e)
  PROVE  /\ RowKey(e) \in RowKeys
         /\ Queue' = Append(Queue, RowKey(e)) /\ Settled' = Settled
<1>1. Settled' = Settled
  BY Zenon, AcceptsHands
<1>2. PICK n : n = Len(accepted)
  BY Zenon
<1>3. /\ n \in Nat /\ DOMAIN accepted = 1..n /\ DOMAIN accepted' = 1..(n + 1)
      /\ accepted'[n + 1] = e
      /\ \A i \in 1..n : accepted'[i] = accepted[i] /\ accepted[i] \in Events
  BY <1>2 DEF Accepts, WriterInv, WriterType
<1>4. \A x : RowKey(x)' = RowKey(x)
  BY Zenon DEF Accepts, RowKey
<1>5. Queue \in Seq(RowKeys) /\ Len(Queue) = n /\ DOMAIN Queue = 1..n
  BY <1>3, KeyTypes DEF Queue
<1>6. Queue' = [i \in 1..(n + 1) |-> IF i = n + 1 THEN RowKey(e) ELSE Queue[i]]
  <2>1. Queue' = [i \in 1..(n + 1) |-> RowKey(accepted'[i])]
    BY Zenon, <1>3, <1>4 DEF Queue, RowKey, Accepts
  <2>2. ASSUME NEW i \in 1..(n + 1)
        PROVE  RowKey(accepted'[i]) = IF i = n + 1 THEN RowKey(e) ELSE Queue[i]
    BY <1>3 DEF Queue
  <2> QED  BY Zenon, <2>1, <2>2
<1>7. Append(Queue, RowKey(e)) = [i \in 1..(n + 1) |-> IF i = n + 1 THEN RowKey(e) ELSE Queue[i]]
  <2> DEFINE q == Append(Queue, RowKey(e))
  <2>1. /\ q \in Seq(RowKeys) /\ Len(q) = n + 1
        /\ \A i \in 1..(n + 1) : q[i] = IF i = n + 1 THEN RowKey(e) ELSE Queue[i]
    BY <1>3, <1>5, KeyTypes
  <2> HIDE DEF q
  <2>2. q = [i \in 1..(n + 1) |-> q[i]]
    BY <1>3, <2>1
  <2> QED  BY Zenon, <2>1, <2>2 DEF q
<1> QED  BY Zenon, <1>1, <1>6, <1>7, KeyTypes

\* A finished batch is a legal Settle: no event of its keys is left behind.
LEMMA SettleStep ==
  ASSUME WriterInv, NEW w \in Workers, Finishes(w), worker[w] \in {"flush", "last"}
  PROVE  /\ Queue' = Queue
         /\ \E S \in SUBSET (DOMAIN Queue \ Settled) :
              /\ S # {}
              /\ \A i \in S, j \in DOMAIN Queue :
                   j < i /\ Queue[j] = Queue[i] => j \in Settled \cup S
              /\ Settled' = Settled \cup S
<1>1. Queue' = Queue
  BY Zenon DEF Queue, Finishes, RowKey
<1>2. Settled' = Settled \cup Range(batch[w])
  BY Zenon, FinishesHands
<1>3. DOMAIN Queue = DOMAIN accepted /\ \A i \in DOMAIN accepted : Queue[i] = RowKey(accepted[i])
  BY Zenon DEF Queue
<1>4. Range(batch[w]) \in SUBSET (DOMAIN Queue \ Settled)
  BY Zenon, <1>3, SettledMeans DEF WriterInv, HandsInv, OwnEvents, InHand
<1>5. Range(batch[w]) # {}
  BY RangeFacts DEF WriterInv, WriterType, WorkerStates
<1>6. ASSUME NEW i \in Range(batch[w]), NEW j \in DOMAIN Queue, j < i, Queue[j] = Queue[i]
      PROVE  j \in Settled \cup Range(batch[w])
  <2>1. i \in DOMAIN accepted /\ WorkerID(accepted[i]) = w
    BY Zenon DEF WriterInv, HandsInv, OwnEvents, InHand
  <2>2. WorkerID(accepted[j]) = w
    BY Zenon, <1>3, <1>6, <2>1 DEF WorkerID
  <2>3. CASE j \notin Settled
    <3>1. PICK v \in Workers : j \in InHand(v)
      BY Zenon, <1>3, <2>3, SettledMeans
    <3>2. v = w
      BY Zenon, <2>2, <3>1 DEF WriterInv, HandsInv, OwnEvents
    <3>3. ~(i < j)
      BY <1>3, <1>6, <2>1 DEF WriterInv, WriterType
    <3> QED  BY Zenon, <3>1, <3>2, <3>3 DEF InHand, WriterInv, HandsInv, InOrder
  <2> QED  BY Zenon, <2>3
<1> QED  BY Zenon, <1>1, <1>2, <1>4, <1>5, <1>6

\* Every step of the writer is a step of RowDelivery or changes nothing there.
LEMMA DeliveryStep ==
  ASSUME WriterInv, [WriterNext]_writerVars
  PROVE  [Delivery!DeliveryNext]_(Delivery!deliveryVars)
<1> DEFINE Stutter == Queue' = Queue /\ Settled' = Settled /\ WriterPhase' = WriterPhase
           Goal == [Delivery!DeliveryNext]_(Delivery!deliveryVars)
<1>0. Stutter => Goal
  BY Zenon DEF Queue, Delivery!deliveryVars
<1> SUFFICES Goal
  BY Zenon
<1> HIDE DEF Goal
<1>1. CASE UNCHANGED writerVars
  BY Zenon, <1>0, <1>1, QuietKeeps, StutterStep DEF writerVars, callVars, closeVars, flushVars
<1>2. ASSUME NEW c \in Writers, (\E es \in Calls : Call(c, es)) \/ GiveUp(c)
      PROVE  Goal
  BY Zenon, <1>0, <1>2, QuietKeeps, StutterStep DEF Call, GiveUp, closeVars, flushVars
<1>3. ASSUME NEW c \in Writers, Dispatch(c)
      PROVE  Goal
  <2>1. ~panicked /\ UNCHANGED <<closing, returned>>
    BY Zenon, <1>3 DEF Dispatch, closeVars
  <2>2. CASE Keeps /\ UNCHANGED accepted /\ panicked' = TRUE /\ closing >= 1
    <3>1. Queue' = Queue /\ Settled' = Settled
      BY Zenon, <2>2, KeepsHands DEF Queue, Keeps, RowKey
    <3>2. WriterPhase \in {"closing", "closed"} /\ WriterPhase' = "panicked"
      BY <2>1, <2>2 DEF WriterPhase, WriterInv, WriterType
    <3>3. Delivery!Panic
      BY Zenon, <3>1, <3>2 DEF Queue, Delivery!Panic
    <3> QED  BY Zenon, <3>3 DEF Goal, Delivery!DeliveryNext
  <2>3. CASE /\ \E e \in Events : Accepts(e)
             /\ panicked' = panicked /\ \E w \in Workers : ~(w <= closing)
    <3>1. PICK e \in Events : Accepts(e)
      BY Zenon, <2>3
    <3>2. ~returned
      BY Zenon, <2>3, WriterBounds, WorkerCount DEF WriterInv, WorkerStates
    <3>3. WriterPhase \in {"open", "closing"} /\ WriterPhase' = WriterPhase
      BY Zenon, <2>1, <2>3, <3>2 DEF WriterPhase
    <3>4. Delivery!Accept(RowKey(e)) /\ RowKey(e) \in RowKeys
      BY Zenon, <3>1, <3>3, AcceptStep DEF Queue, Delivery!Accept
    <3> QED  BY Zenon, <3>4 DEF Goal, Delivery!DeliveryNext
  <2> QED  BY Zenon, <1>3, <2>2, <2>3, DispatchHands
<1>4. CASE CloseNext
  <2>1. /\ UNCHANGED <<panicked, accepted, keyed, hash, chan, buffer, batch>>
        /\ Queue' = Queue /\ Settled' = Settled /\ ~panicked
    <3>1. ~panicked /\ UNCHANGED <<panicked, accepted, keyed, hash, chan, buffer, batch>>
      BY Zenon, <1>4 DEF CloseNext, Close, CloseChannel, CloseReturns, callVars, flushVars
    <3> QED  BY Zenon, <3>1, QuietKeeps, KeepsHands DEF Queue, RowKey
  <2>2. CASE Close
    <3>1. closing = -1 /\ closing' = 0 /\ returned' = returned
      BY Zenon, <2>2 DEF Close
    <3>2. ~returned
      BY <3>1, WorkerCount DEF WriterInv, WorkerStates
    <3>3. WriterPhase = "open" /\ WriterPhase' = "closing"
      BY <2>1, <3>1, <3>2 DEF WriterPhase
    <3>4. Delivery!BeginClose
      BY Zenon, <2>1, <3>3 DEF Queue, Delivery!BeginClose
    <3> QED  BY Zenon, <3>4 DEF Goal, Delivery!DeliveryNext
  <2>3. CASE CloseChannel
    <3>1. closing >= 0 /\ closing' >= 0 /\ returned' = returned
      BY <2>3, WorkerCount DEF CloseChannel
    <3>2. WriterPhase' = WriterPhase
      BY Zenon, <2>1, <3>1 DEF WriterPhase
    <3> QED  BY Zenon, <1>0, <2>1, <3>2
  <2>4. CASE CloseReturns
    <3>1. /\ closing >= 0 /\ ~returned /\ returned' = TRUE
          /\ \A w \in Workers : worker[w] = "gone"
      BY <2>4, WorkerCount DEF CloseReturns
    <3>2. WriterPhase = "closing" /\ WriterPhase' = "closed"
      BY Zenon, <2>1, <3>1 DEF WriterPhase
    <3>3. Settled = DOMAIN Queue
      <4>1. \A w \in Workers : InHand(w) = {}
        BY <3>1 DEF WriterInv, WorkerStates, InHand, Range
      <4> QED  BY Zenon, <4>1, SettledMeans DEF Queue
    <3>4. Delivery!EndClose
      BY Zenon, <2>1, <3>2, <3>3 DEF Queue, Delivery!EndClose
    <3> QED  BY Zenon, <3>4 DEF Goal, Delivery!DeliveryNext
  <2> QED  BY Zenon, <1>4, <2>2, <2>3, <2>4 DEF CloseNext
<1>5. ASSUME NEW w \in Workers, WorkerNext(w)
      PROVE  Goal
  <2>1. ~panicked /\ UNCHANGED <<closing, returned, panicked>>
    BY Zenon, <1>5 DEF WorkerNext, Take, Tick, Drained, WriteOK, WriteFails, closeVars, callVars
  <2>2. CASE Keeps
    BY Zenon, <1>0, <2>1, <2>2, StutterStep
  <2>3. CASE Finishes(w) /\ worker[w] \in {"flush", "last"}
    <3>1. ~returned
      BY Zenon, <2>3 DEF WriterInv, WorkerStates
    <3>2. WriterPhase \in {"open", "closing"} /\ WriterPhase' = WriterPhase
      BY Zenon, <2>1, <3>1 DEF WriterPhase
    <3>3. Delivery!Settle
      BY Zenon, <2>3, <3>2, SettleStep DEF Queue, Delivery!Settle
    <3> QED  BY Zenon, <3>3 DEF Goal, Delivery!DeliveryNext
  <2> QED  BY Zenon, <1>5, <2>2, <2>3, WorkerHands
<1> QED  BY Zenon, <1>1, <1>2, <1>3, <1>4, <1>5 DEF WriterNext, Goal

\* The writer implements the safety part of RowDelivery, for any number of
\* workers and callers and any hash: events of one row key are settled in the
\* order Write accepted them, and Close returns only when all are settled.
THEOREM DeliverySafety == WriterSafe => Delivery!DeliverySafe
<1>1. WriterInit => Delivery!DeliveryInit
  <2> SUFFICES ASSUME WriterInit
               PROVE  Delivery!DeliveryInit
    BY Zenon
  <2>1. Queue = <<>> /\ Settled = {} /\ WriterPhase = "open"
    BY SettledMeans DEF WriterInit, Queue, WriterPhase
  <2> QED  BY Zenon, <2>1 DEF Queue, Delivery!DeliveryInit
<1>2. WriterInv /\ [WriterNext]_writerVars => [Delivery!DeliveryNext]_(Delivery!deliveryVars)
  BY Zenon, DeliveryStep
<1> QED  BY <1>1, <1>2, InitInv, StepInv, PTL DEF WriterSafe, Delivery!DeliverySafe

-----------------------------------------------------------------------------
(* The types and the bounds of WriterTypeOK.                               *)

\* Events that were accepted stay accepted.
LEMMA SeqOfMore ==
  ASSUME NEW S, NEW T, S \subseteq T, NEW s \in Seq(S)
  PROVE  s \in Seq(T)
  OBVIOUS

\* What a sink holds after a Write are events of the batch and those it held.
LEMMA WriteTypes ==
  ASSUME NEW n \in Nat, content \in [Rows -> 0..n], NEW s \in Seq(1..n)
  PROVE  Write(s) \in [Rows -> 0..n]
<1> SUFFICES ASSUME NEW r \in Rows
             PROVE  Write(s)[r] \in 0..n
  BY Zenon DEF Write
<1> DEFINE hits == {j \in DOMAIN s : Touches(s[j], r)}
<1>1. CASE hits = {}
  BY Zenon, <1>1 DEF Write
<1>2. CASE hits # {}
  <2>1. hits \subseteq 1..Len(s) /\ Len(s) \in Nat /\ \A j \in 1..Len(s) : s[j] \in 0..n
    OBVIOUS
  <2>2. Write(s)[r] = s[CHOOSE j \in hits : \A k \in hits : k <= j]
    BY Zenon, <1>2 DEF Write
  <2> HIDE DEF hits
  <2>3. \E p \in hits : \A q \in hits : q <= p
    BY Zenon, <1>2, <2>1, Greatest
  <2>4. (CHOOSE j \in hits : \A k \in hits : k <= j) \in hits
    BY Zenon, <2>3
  <2> QED  BY Zenon, <2>1, <2>2, <2>4
<1> QED  BY Zenon, <1>1, <1>2

\* NewConcurrentSinkWriter makes empty channels and buffers.
LEMMA WriterTypesInit == WriterInit => WriterTypeOK
<1> SUFFICES ASSUME WriterInit
             PROVE  WriterTypeOK
  BY Zenon
<1>1. Len(<<>>) = 0 /\ \A S : <<>> \in Seq(S)
  OBVIOUS
<1>2. /\ 0 <= ChanSize /\ 0 < BatchSize /\ 0 \in 0..WriteRetries /\ 0 \in 0..0
      /\ -1 \in -1..Cardinality(Workers)
  BY WriterBounds, WorkerCount
<1>3. \A w \in Workers : chan[w] = <<>> /\ buffer[w] = <<>>
  BY Zenon DEF WriterInit
<1> QED  BY Zenon, <1>1, <1>2, <1>3 DEF WriterInit, WriterTypeOK

\* A send on a channel with room: the channel keeps to its capacity.
LEMMA DispatchTypes ==
  ASSUME WriterTypeOK, NEW c \in Writers, Dispatch(c)
  PROVE  WriterTypeOK'
<1> DEFINE e == Head(todo[c])
           w == WorkerID(e)
<1>1. e \in Events /\ Tail(todo[c]) \in Seq(Events)
  <2>1. todo[c] \in Seq(Events) /\ todo[c] # <<>>
    BY Zenon DEF Dispatch, WriterTypeOK
  <2> QED  BY <2>1
<1>2. w \in Workers
  <2>1. hash \in [RowKeys -> Workers]
    BY Zenon, WriterBounds DEF WriterTypeOK
  <2> QED  BY Zenon, <1>1, <2>1, KeyTypes DEF WorkerID
<1>3. UNCHANGED <<keyed, hash, closing, returned, buffer, batch, attempt, worker, content, given>>
  BY Zenon DEF Dispatch, closeVars, flushVars
<1>4. CASE w <= closing
  <2>1. panicked' = TRUE /\ UNCHANGED <<todo, accepted, chan>>
    BY Zenon, <1>4 DEF Dispatch
  <2> QED  BY Zenon, <1>3, <2>1 DEF WriterTypeOK
<1>5. CASE ~(w <= closing)
  <2>1. /\ Len(chan[w]) < ChanSize
        /\ accepted' = Append(accepted, e)
        /\ chan' = [chan EXCEPT ![w] = Append(chan[w], Len(accepted) + 1)]
        /\ todo' = [todo EXCEPT ![c] = Tail(todo[c])]
        /\ panicked' = panicked
    BY Zenon, <1>5 DEF Dispatch
  <2>2. /\ accepted \in Seq(Events) /\ chan \in [Workers -> Seq(DOMAIN accepted)]
        /\ \A v \in Workers : Len(chan[v]) <= ChanSize
        /\ ChanSize \in Nat
    BY Zenon, WriterBounds DEF WriterTypeOK
  <2> HIDE DEF e, w
  <2>3. /\ accepted' \in Seq(Events) /\ Len(accepted) \in Nat
        /\ Len(accepted) + 1 \in DOMAIN accepted' /\ DOMAIN accepted \subseteq DOMAIN accepted'
        /\ 0..Len(accepted) \subseteq 0..Len(accepted')
    BY <1>1, <2>1, <2>2
  <2>4. \A s \in Seq(DOMAIN accepted) : s \in Seq(DOMAIN accepted')
    BY Zenon, <2>3, SeqOfMore
  <2>5. /\ Append(chan[w], Len(accepted) + 1) \in Seq(DOMAIN accepted')
        /\ Len(Append(chan[w], Len(accepted) + 1)) <= ChanSize
    <3>1. PICK s \in Seq(DOMAIN accepted') : s = chan[w]
      BY Zenon, <1>2, <2>2, <2>4
    <3>2. PICK m \in DOMAIN accepted' : m = Len(accepted) + 1
      BY Zenon, <2>3
    <3>3. PICK T : T = DOMAIN accepted'
      BY Zenon
    <3>4. Append(s, m) \in Seq(T) /\ Len(Append(s, m)) = Len(s) + 1 /\ Len(s) \in Nat
      BY <3>1, <3>2, <3>3
    <3>5. Len(s) + 1 <= ChanSize
      BY <2>1, <2>2, <3>1, <3>4
    <3> QED  BY Zenon, <3>1, <3>2, <3>3, <3>4, <3>5
  <2>6. /\ chan' \in [Workers -> Seq(DOMAIN accepted')]
        /\ \A v \in Workers : Len(chan'[v]) <= ChanSize
    BY Zenon, <1>2, <2>1, <2>2, <2>4, <2>5
  <2>7. todo' \in [Writers -> Seq(Events)]
    BY Zenon, <1>1, <2>1 DEF WriterTypeOK
  <2>8. buffer' \in [Workers -> Seq(DOMAIN accepted')] /\ batch' \in [Workers -> Seq(DOMAIN accepted')]
    BY Zenon, <1>3, <2>4 DEF WriterTypeOK
  <2>9. content' \in [Rows -> 0..Len(accepted')] /\ given' \subseteq DOMAIN accepted'
    BY Zenon, <1>3, <2>3 DEF WriterTypeOK
  <2> QED  BY Zenon, <1>3, <2>1, <2>3, <2>6, <2>7, <2>8, <2>9 DEF WriterTypeOK
<1> QED  BY Zenon, <1>4, <1>5

\* An event taken into the buffer: a buffer that reaches BatchSize is flushed.
LEMMA TakeTypes ==
  ASSUME WriterTypeOK, NEW w \in Workers, Take(w)
  PROVE  WriterTypeOK'
<1> DEFINE b == Append(buffer[w], Head(chan[w]))
<1>1. /\ chan[w] \in Seq(DOMAIN accepted) /\ buffer[w] \in Seq(DOMAIN accepted)
      /\ chan[w] # <<>> /\ Len(chan[w]) <= ChanSize
      /\ ChanSize \in Nat /\ BatchSize \in Nat
  BY Zenon, WriterBounds DEF WriterTypeOK, Take
<1>2. /\ Tail(chan[w]) \in Seq(DOMAIN accepted) /\ Len(Tail(chan[w])) <= ChanSize
      /\ b \in Seq(DOMAIN accepted) /\ Len(b) \in Nat
  <2>1. PICK S, s, t : S = DOMAIN accepted /\ s = chan[w] /\ t = buffer[w]
    BY Zenon
  <2>2. Head(s) \in S /\ Tail(s) \in Seq(S) /\ Len(Tail(s)) <= ChanSize
    <3>1. s \in Seq(S) /\ s # <<>> /\ Len(s) <= ChanSize /\ ChanSize \in Nat
      BY Zenon, <1>1, <2>1
    <3>2. Head(s) \in S /\ Tail(s) \in Seq(S)
      BY <3>1
    <3>3. Len(Tail(s)) = Len(s) - 1 /\ Len(s) \in Nat
      BY <3>1
    <3> QED  BY <3>1, <3>2, <3>3
  <2>3. Append(t, Head(s)) \in Seq(S) /\ Len(Append(t, Head(s))) \in Nat
    BY <1>1, <2>1, <2>2
  <2> QED  BY Zenon, <2>1, <2>2, <2>3
<1>3. /\ chan' = [chan EXCEPT ![w] = Tail(chan[w])]
      /\ UNCHANGED <<keyed, hash, todo, accepted, panicked, closing, returned, attempt, content, given>>
  BY Zenon DEF Take, closeVars
<1>4. /\ <<>> \in Seq(DOMAIN accepted) /\ Len(<<>>) < BatchSize
  BY WriterBounds
<1>5. /\ chan' \in [Workers -> Seq(DOMAIN accepted')]
      /\ \A v \in Workers : Len(chan'[v]) <= ChanSize
  BY Zenon, <1>2, <1>3 DEF WriterTypeOK
<1>6. CASE Len(b) >= BatchSize
  <2>1. /\ buffer' = [buffer EXCEPT ![w] = <<>>]
        /\ batch' = [batch EXCEPT ![w] = b]
        /\ worker' = [worker EXCEPT ![w] = "flush"]
    BY Zenon, <1>6 DEF Take
  <2> HIDE DEF b
  <2> QED  BY Zenon, <1>2, <1>3, <1>4, <1>5, <2>1 DEF WriterTypeOK
<1>7. CASE ~(Len(b) >= BatchSize)
  <2>1. buffer' = [buffer EXCEPT ![w] = b] /\ UNCHANGED <<batch, worker>>
    BY Zenon, <1>7 DEF Take
  <2> HIDE DEF b
  <2>2. Len(b) < BatchSize
    BY <1>1, <1>2, <1>7
  <2> QED  BY Zenon, <1>2, <1>3, <1>5, <2>1, <2>2 DEF WriterTypeOK
<1> QED  BY Zenon, <1>6, <1>7

\* A flush, whether its Write succeeds, fails or fails for the last time: a batch is
\* tried at most MaxRetry times more.
LEMMA FlushTypes ==
  ASSUME WriterTypeOK, NEW w \in Workers,
         WriteOK(w) \/ \E n \in 0..Len(batch[w]) : WriteFails(w, n)
  PROVE  WriterTypeOK'
<1>1. /\ accepted \in Seq(Events) /\ batch[w] \in Seq(DOMAIN accepted)
      /\ attempt[w] \in 0..WriteRetries /\ WriteRetries \in Nat
  BY Zenon, WriterBounds DEF WriterTypeOK
<1>2. DOMAIN accepted = 1..Len(accepted) /\ Len(accepted) \in Nat
  BY <1>1
<1>3. UNCHANGED <<keyed, hash, todo, accepted, chan, panicked, closing, returned, buffer>>
  BY Zenon DEF WriteOK, WriteFails, callVars, closeVars
<1>4. \A s \in Seq(DOMAIN accepted) : Write(s) \in [Rows -> 0..Len(accepted)]
  BY Zenon, <1>2, WriteTypes DEF WriterTypeOK
<1>5. content' \in [Rows -> 0..Len(accepted)]
  <2>1. CASE WriteOK(w)
    BY Zenon, <1>1, <1>4, <2>1 DEF WriteOK
  <2>2. ASSUME NEW n \in 0..Len(batch[w]), WriteFails(w, n)
        PROVE  content' \in [Rows -> 0..Len(accepted)]
    <3>1. SubSeq(batch[w], 1, n) \in Seq(DOMAIN accepted)
      BY <1>1
    <3> QED  BY Zenon, <1>4, <2>2, <3>1 DEF WriteFails
  <2> QED  BY Zenon, <2>1, <2>2
<1>6. <<>> \in Seq(DOMAIN accepted) /\ 0 \in 0..WriteRetries
  BY <1>1
<1>7. Range(batch[w]) \subseteq DOMAIN accepted
  BY Zenon, <1>1, RangeFacts
<1>8. CASE EndFlush(w) /\ (given' = given \/ given' = given \cup Range(batch[w]))
  <2>1. /\ batch' \in [Workers -> Seq(DOMAIN accepted)] /\ attempt' \in [Workers -> 0..WriteRetries]
        /\ worker' \in [Workers -> {"loop", "flush", "last", "gone"}]
    BY Zenon, <1>6, <1>8 DEF WriterTypeOK, EndFlush
  <2>2. given' \subseteq DOMAIN accepted
    BY Zenon, <1>7, <1>8 DEF WriterTypeOK
  <2> QED  BY Zenon, <1>3, <1>5, <2>1, <2>2 DEF WriterTypeOK
<1>9. CASE /\ attempt[w] < WriteRetries
           /\ attempt' = [attempt EXCEPT ![w] = attempt[w] + 1]
           /\ UNCHANGED <<batch, worker, given>>
  <2>1. attempt[w] + 1 \in 0..WriteRetries
    BY <1>1, <1>9
  <2> QED  BY Zenon, <1>3, <1>5, <1>9, <2>1 DEF WriterTypeOK
<1> QED  BY Zenon, <1>8, <1>9 DEF WriteOK, WriteFails

\* The writer's types and bounds hold in every state: no channel of
\* ConcurrentSinkWriter holds more than BufferSize events, a buffer never reaches
\* BatchSize outside a flush, a batch is tried at most MaxRetry times more, and
\* only accepted events are on the way to the sink.
THEOREM WriterTypesHold == WriterSafe => []WriterTypeOK
<1>1. WriterInit => WriterTypeOK
  BY Zenon, WriterTypesInit
<1>2. WriterTypeOK /\ [WriterNext]_writerVars => WriterTypeOK'
  <2> SUFFICES ASSUME WriterTypeOK, [WriterNext]_writerVars
               PROVE  WriterTypeOK'
    BY Zenon
  <2>1. CASE UNCHANGED writerVars
    BY Zenon, <2>1 DEF WriterTypeOK, writerVars, callVars, closeVars, flushVars
  <2>2. ASSUME NEW c \in Writers, NEW es \in Calls, Call(c, es)
        PROVE  WriterTypeOK'
    BY Zenon, <2>2, CallTypes DEF WriterTypeOK, Call, closeVars, flushVars
  <2>3. ASSUME NEW c \in Writers, GiveUp(c)
        PROVE  WriterTypeOK'
    <3>1. <<>> \in Seq(Events)
      OBVIOUS
    <3> QED  BY Zenon, <2>3, <3>1 DEF WriterTypeOK, GiveUp, closeVars, flushVars
  <2>4. CASE CloseNext
    <3>1. closing' \in -1..Cardinality(Workers) /\ returned' \in BOOLEAN
      <4>1. CASE Close
        <5>1. closing' = 0 /\ returned' = returned
          BY Zenon, <4>1 DEF Close
        <5>2. 0 \in -1..Cardinality(Workers)
          BY WorkerCount
        <5> QED  BY Zenon, <5>1, <5>2 DEF WriterTypeOK
      <4>2. CASE CloseChannel
        <5>1. closing' \in -1..Cardinality(Workers)
          BY <4>2, WorkerCount DEF CloseChannel
        <5> QED  BY Zenon, <4>2, <5>1 DEF CloseChannel, WriterTypeOK
      <4>3. CASE CloseReturns
        BY Zenon, <4>3 DEF CloseReturns, WriterTypeOK
      <4> QED  BY Zenon, <2>4, <4>1, <4>2, <4>3 DEF CloseNext
    <3>2. UNCHANGED <<keyed, hash, callVars, flushVars>>
      BY Zenon, <2>4 DEF CloseNext, Close, CloseChannel, CloseReturns
    <3> QED  BY Zenon, <3>1, <3>2 DEF WriterTypeOK, callVars, flushVars
  <2>5. ASSUME NEW w \in Workers, Tick(w) \/ Drained(w)
        PROVE  WriterTypeOK'
    <3>1. <<>> \in Seq(DOMAIN accepted) /\ Len(<<>>) < BatchSize
      BY WriterBounds
    <3>2. /\ buffer' = [buffer EXCEPT ![w] = <<>>]
          /\ batch' = [batch EXCEPT ![w] = buffer[w]]
          /\ \E s \in {"loop", "flush", "last", "gone"} : worker' = [worker EXCEPT ![w] = s]
          /\ UNCHANGED <<keyed, hash, callVars, closeVars, attempt, content, given>>
      BY Zenon, <2>5 DEF Tick, Drained
    <3> QED  BY Zenon, <3>1, <3>2 DEF WriterTypeOK, callVars, closeVars
  <2> QED  BY Zenon, <2>1, <2>2, <2>3, <2>4, <2>5, DispatchTypes, TakeTypes, FlushTypes
           DEF WriterNext, WorkerNext
<1> QED  BY <1>1, <1>2, PTL DEF WriterSafe
=============================================================================
