---------------------------- MODULE BufferProofs ----------------------------
(***************************************************************************)
(* Proofs about what lies between a source and its sink: the persistent    *)
(* buffer, the snapshot coordinator's queues, the circuit breaker and the  *)
(* backpressure controller, for any number of processes, workers, calls    *)
(* and events.                                                             *)
(***************************************************************************)
EXTENDS PersistentBuffer, SnapshotWorkers, FlowControl, FiniteSetTheorems,
        TLAPS

\* An element of a sequence.
LEMMA SeqElement ==
  ASSUME NEW S, NEW s \in Seq(S), NEW i \in 1..Len(s)
  PROVE  s[i] \in S
  OBVIOUS

\* A channel gains an element at its end and loses its first.
LEMMA QueueFacts ==
  ASSUME NEW S, NEW s \in Seq(S)
  PROVE  /\ Len(s) \in Nat
         /\ \A x \in S : Append(s, x) \in Seq(S) /\ Len(Append(s, x)) = Len(s) + 1
         /\ s # <<>> => Head(s) \in S /\ Tail(s) \in Seq(S) /\ Len(Tail(s)) = Len(s) - 1
  OBVIOUS

\* Two sequences one behind the other.
LEMMA SeqConcat ==
  ASSUME NEW S, NEW a \in Seq(S), NEW b \in Seq(S)
  PROVE  /\ a \o b \in Seq(S) /\ Len(a \o b) = Len(a) + Len(b)
         /\ \A j \in 1..(Len(a) + Len(b)) :
              (a \o b)[j] = IF j <= Len(a) THEN a[j] ELSE b[j - Len(a)]
  OBVIOUS

\* A sequence with one more element.
LEMMA SeqAppend ==
  ASSUME NEW S, NEW s \in Seq(S), NEW x \in S
  PROVE  /\ Append(s, x) \in Seq(S) /\ Len(Append(s, x)) = Len(s) + 1
         /\ \A j \in 1..Len(s) : Append(s, x)[j] = s[j]
         /\ Append(s, x)[Len(s) + 1] = x
  OBVIOUS

\* Append puts a sequence of one element behind.
LEMMA SeqAppendIs ==
  ASSUME NEW S, NEW s \in Seq(S), NEW x \in S
  PROVE  Append(s, x) = s \o <<x>>
  OBVIOUS

\* The first element of a sequence, and the rest.
LEMMA SeqRest ==
  ASSUME NEW S, NEW s \in Seq(S), s # <<>>
  PROVE  /\ Head(s) \in S /\ Tail(s) \in Seq(S) /\ s = <<Head(s)>> \o Tail(s)
  OBVIOUS

-----------------------------------------------------------------------------

(***************************************************************************)
(* The persistent buffer (PersistentBuffer).                               *)
(*                                                                         *)
(* GivenInOrder needs that the keys of one process are in the order of its *)
(* events (BufKeysInv), and that what was given comes before what is       *)
(* queued, and that before what is still to be replayed (BufOrderInv).     *)
(***************************************************************************)

\* A set of naturals that is not empty has a least member.
LEMMA LeastOf ==
  ASSUME NEW S, S \subseteq Nat, S # {}
  PROVE  \E p \in S : \A q \in S : p <= q
<1> DEFINE R == OpToRel(<, Nat)
<1>1. IsWellFoundedOn(R, Nat)
  BY Zenon, NatLessThanWellFounded
<1>2. \E x \in S : \A y \in S : ~(<<y, x>> \in R)
  <2> HIDE DEF R
  <2> QED  BY Zenon, <1>1, WFMin
<1>3. \A x, y \in Nat : ~(<<y, x>> \in R) => x <= y
  BY DEF OpToRel
<1> QED  BY Zenon, <1>2, <1>3

\* Put stores before it returns nil: an event that was kept leaves the store only by Clear or
\* by a later event under its key, for any number of events and processes
\* (persistent_buffer.go Put, makeKey, Clear).
THEOREM StoredSafe == BufferSpec => []PutIsStored
<1>1. BufferInit => PutIsStored
  BY Zenon DEF BufferInit, PutIsStored
<1>2. ASSUME PutIsStored, [BufferNext]_bufVars
      PROVE  PutIsStored'
  <2>1. ASSUME NEW stored \in BOOLEAN, NEW queued \in BOOLEAN, PutEvent(stored, queued)
        PROVE  PutIsStored'
    <3>1. PICK key, e : /\ e = puts + 1
                        /\ queued => stored
                        /\ disk' = IF stored THEN StoreAt(key, e) ELSE disk
                        /\ kept' = IF queued THEN kept \cup {e} ELSE kept
                        /\ clashed' = IF stored /\ key \in DOMAIN disk
                                      THEN clashed \cup {disk[key]} ELSE clashed
                        /\ cleared' = cleared
      BY Zenon, <2>1 DEF PutEvent
    <3>2. CASE ~stored
      BY Zenon, <1>2, <3>1, <3>2 DEF PutIsStored
    <3>3. CASE stored
      <4>1. DOMAIN disk' = DOMAIN disk \cup {key} /\ disk'[key] = e
            /\ \A k \in DOMAIN disk \ {key} : disk'[k] = disk[k]
        BY Zenon, <3>1, <3>3 DEF StoreAt
      <4>2. \A k \in DOMAIN disk : disk[k] \in {disk'[l] : l \in DOMAIN disk'} \cup clashed'
        BY Zenon, <3>1, <3>3, <4>1
      <4>3. e \in {disk'[l] : l \in DOMAIN disk'}
        BY Zenon, <4>1
      <4>4. kept \subseteq {disk'[l] : l \in DOMAIN disk'} \cup clashed' \cup cleared'
        BY <1>2, <3>1, <4>2 DEF PutIsStored
      <4> QED  BY Zenon, <3>1, <4>3, <4>4 DEF PutIsStored
    <3> QED  BY Zenon, <3>2, <3>3
  <2>2. CASE ClearStore
    BY Zenon, <1>2, <2>2 DEF ClearStore, PutIsStored
  <2>3. CASE UNCHANGED <<disk, kept, clashed, cleared>>
    BY Zenon, <1>2, <2>3 DEF PutIsStored
  <2>4. OpenBuffer \/ GetEvent \/ BeginReplay \/ ReplayEvent \/ EndBuffer \/ SecondPasses
          \/ UNCHANGED bufVars => UNCHANGED <<disk, kept, clashed, cleared>>
    BY Zenon DEF OpenBuffer, GetEvent, BeginReplay, ReplayEvent, EndBuffer, SecondPasses, bufVars,
       bufGhosts
  <2> QED  BY Zenon, <1>2, <2>1, <2>2, <2>3, <2>4 DEF BufferNext
<1> QED  BY <1>1, <1>2, PTL DEF BufferSpec

-----------------------------------------------------------------------------

\* The process that put the event under a key.
Maker(k) == madeBy[disk[k]]

\* The process that put the event of an entry of the replay.
Sender(x) == madeBy[x[2]]

\* The numbers go up along a sequence.
Rising(s) == \A i, j \in DOMAIN s : i < j => s[i] < s[j]

\* The types the proof needs.
BufType ==
  /\ bufOpen \in BOOLEAN /\ fresh \in BOOLEAN /\ muddled \in BOOLEAN
  /\ bufSeq \in Nat /\ second \in Nat /\ puts \in Nat /\ opens \in Nat
  /\ bufOpen => opens > 0
  /\ DOMAIN disk \subseteq Nat \X Nat
  /\ \A k \in DOMAIN disk : disk[k] \in 1..puts
  /\ replaying \subseteq (Nat \X Nat) \X (1..puts)
  /\ madeBy \in Seq(1..opens) /\ Len(madeBy) = puts

\* The keys of one process are in the order of its events, and those of the process that
\* runs end at its sequence number.
BufKeysInv ==
  /\ \A k, l \in DOMAIN disk : Maker(k) = Maker(l) =>
       (k[1] < l[1] => disk[k] < disk[l]) /\ (k[1] = l[1] => k = l)
  /\ \A k \in DOMAIN disk : Maker(k) = opens => k[1] <= bufSeq

\* So are those of the entries a Replay has yet to read, which a Clear leaves to it.
ReplayKeysInv ==
  \A x, y \in replaying :
    /\ x[1] = y[1] => x = y
    /\ Sender(x) = Sender(y) => (x[1][1] < y[1][1] => x[2] < y[2]) /\ (x[1][1] = y[1][1] => x = y)

\* In a process that is not muddled, what was given comes before what is queued, and that
\* before what is still to be replayed, which one process has put.
BufOrderInv ==
  /\ fresh /\ bufOpen => given = <<>> /\ queue = <<>> /\ replaying = {}
  /\ ~muddled =>
       /\ given \in Seq(Nat) /\ queue \in Seq(Nat)
       /\ Rising(given) /\ Rising(queue)
       /\ (\A i \in 1..Len(given) : given[i] <= puts) /\ (\A j \in 1..Len(queue) : queue[j] <= puts)
       /\ \A i \in 1..Len(given), j \in 1..Len(queue) : given[i] < queue[j]
       /\ \A i \in 1..Len(given), x \in replaying : given[i] < x[2]
       /\ \A j \in 1..Len(queue), x \in replaying : queue[j] < x[2]
       /\ \A x, y \in replaying : Sender(x) = Sender(y)

BufIInv == BufType /\ BufKeysInv /\ ReplayKeysInv /\ BufOrderInv

\* A buffer that no process has opened yet satisfies the invariant.
LEMMA BufInvInit ==
  ASSUME BufferInit
  PROVE  BufIInv
<1>1. BufType
  <2>1. madeBy \in Seq(1..opens) /\ Len(madeBy) = 0  BY DEF BufferInit
  <2>2. bufOpen \in BOOLEAN /\ fresh \in BOOLEAN /\ muddled \in BOOLEAN /\ ~bufOpen
    BY Zenon DEF BufferInit
  <2> QED  BY <2>1, <2>2 DEF BufferInit, BufType
<1>2. given = <<>> /\ queue = <<>> /\ Len(given) = 0 /\ Len(queue) = 0 /\ replaying = {}
      /\ DOMAIN disk = {} /\ given \in Seq(Nat) /\ DOMAIN given = {}
  BY DEF BufferInit
<1> QED  BY <1>1, <1>2 DEF BufIInv, BufKeysInv, ReplayKeysInv, BufOrderInv, Rising

\* A larger number goes behind all others.
LEMMA RisingAppend ==
  ASSUME NEW s \in Seq(Nat), Rising(s), NEW e \in Nat,
         \A j \in 1..Len(s) : s[j] < e
  PROVE  /\ Append(s, e) \in Seq(Nat) /\ Rising(Append(s, e))
         /\ Len(s) \in Nat /\ Len(Append(s, e)) = Len(s) + 1 /\ Append(s, e)[Len(s) + 1] = e
         /\ \A j \in 1..Len(s) : Append(s, e)[j] = s[j]
<1>1. Len(s) \in Nat /\ DOMAIN s = 1..Len(s) /\ \A j \in 1..Len(s) : s[j] \in Nat
  BY SeqElement
<1>2. Len(Append(s, e)) = Len(s) + 1 /\ Append(s, e)[Len(s) + 1] = e
      /\ (\A j \in 1..Len(s) : Append(s, e)[j] = s[j])
      /\ DOMAIN Append(s, e) = 1..(Len(s) + 1) /\ Append(s, e) \in Seq(Nat)
  OBVIOUS
<1>3. Rising(Append(s, e))
  <2> SUFFICES ASSUME NEW i \in 1..(Len(s) + 1), NEW j \in 1..(Len(s) + 1), i < j
               PROVE  Append(s, e)[i] < Append(s, e)[j]
    BY Zenon, <1>2 DEF Rising
  <2>1. i \in 1..Len(s)  BY <1>1
  <2>2. CASE j = Len(s) + 1
    BY Zenon, <1>2, <2>1, <2>2
  <2>3. CASE j \in 1..Len(s)
    BY Zenon, <1>1, <1>2, <2>1, <2>3 DEF Rising
  <2> QED  BY <1>1, <2>2, <2>3
<1> QED  BY Zenon, <1>1, <1>2, <1>3

\* What is behind the first of a rising sequence is larger.
LEMMA RisingTail ==
  ASSUME NEW s \in Seq(Nat), Rising(s), s # <<>>
  PROVE  /\ Tail(s) \in Seq(Nat) /\ Rising(Tail(s)) /\ Head(s) = s[1] /\ Head(s) \in Nat
         /\ Len(s) \in Nat \ {0} /\ Len(Tail(s)) = Len(s) - 1
         /\ \A j \in 1..Len(Tail(s)) : Tail(s)[j] = s[j + 1] /\ j + 1 \in 1..Len(s) /\ Head(s) < s[j + 1]
<1>1. Len(s) \in Nat \ {0} /\ DOMAIN s = 1..Len(s) /\ Tail(s) \in Seq(Nat) /\ Head(s) = s[1]
      /\ Len(Tail(s)) = Len(s) - 1 /\ DOMAIN Tail(s) = 1..(Len(s) - 1)
      /\ \A j \in 1..(Len(s) - 1) : Tail(s)[j] = s[j + 1]
  OBVIOUS
<1>2. \A j \in 1..(Len(s) - 1) : j + 1 \in 1..Len(s) /\ 1 < j + 1 /\ 1 \in 1..Len(s)
  BY <1>1
<1>3. s[1] \in Nat  BY <1>1, SeqElement
<1>4. \A i, j \in 1..(Len(s) - 1) : i < j => i + 1 < j + 1
  BY <1>1
<1>5. Rising(Tail(s))
  BY Zenon, <1>1, <1>2, <1>4 DEF Rising
<1>6. \A j \in 1..(Len(s) - 1) : s[1] < s[j + 1]
  BY Zenon, <1>1, <1>2 DEF Rising
<1> QED  BY Zenon, <1>1, <1>2, <1>3, <1>5, <1>6

\* The makers of the events stay the same while events are added.
LEMMA MakersStay ==
  ASSUME BufType, madeBy' = madeBy, disk' = disk
  PROVE  /\ \A k : Maker(k)' = Maker(k)
         /\ \A x : Sender(x)' = Sender(x)
  BY Zenon DEF Maker, Sender

\* The maker of a stored event is a process that was opened.
LEMMA MakerIs ==
  ASSUME BufType
  PROVE  \A k \in DOMAIN disk : Maker(k) \in 1..opens /\ disk[k] \in Nat /\ k[1] \in Nat /\ disk[k] <= puts
<1> TAKE k \in DOMAIN disk
<1>1. disk[k] \in 1..Len(madeBy) /\ madeBy \in Seq(1..opens) /\ k \in Nat \X Nat /\ puts \in Nat
  BY Zenon DEF BufType
<1>2. madeBy[disk[k]] \in 1..opens  BY Zenon, <1>1, SeqElement
<1>3. disk[k] <= puts /\ disk[k] \in Nat  BY DEF BufType
<1> QED  BY Zenon, <1>1, <1>2, <1>3 DEF Maker

\* A new process has put nothing yet.
LEMMA OpenBufInv ==
  ASSUME BufIInv, OpenBuffer
  PROVE  BufIInv'
<1> USE DEF BufIInv
<1>1. /\ opens' = opens + 1 /\ bufOpen' = TRUE /\ bufSeq' = 0 /\ queue' = <<>> /\ replaying' = {}
      /\ given' = <<>> /\ fresh' = TRUE /\ muddled' = FALSE
      /\ UNCHANGED <<second, disk, puts, madeBy>>
  BY Zenon DEF OpenBuffer
<1>2. BufType'
  <2>1. opens \in Nat /\ madeBy \in Seq(1..opens)  BY Zenon DEF BufType
  <2>2. madeBy \in Seq(1..(opens + 1))
    <3>1. 1..opens \subseteq 1..(opens + 1)  BY <2>1
    <3> QED  BY <2>1, <3>1
  <2>3. bufOpen' \in BOOLEAN /\ fresh' \in BOOLEAN /\ muddled' \in BOOLEAN  BY <1>1, Zenon
  <2>4. bufSeq' \in Nat /\ opens' \in Nat /\ opens' > 0  BY <1>1, <2>1
  <2> QED  BY Zenon, <1>1, <2>2, <2>3, <2>4 DEF BufType
<1>3. \A k : Maker(k)' = Maker(k)  BY Zenon, <1>1, MakersStay
<1>4. \A k \in DOMAIN disk : Maker(k) # opens + 1
  <2>1. opens \in Nat  BY Zenon DEF BufType
  <2> QED  BY <2>1, MakerIs
<1>5. BufKeysInv'
  BY Zenon, <1>1, <1>3, <1>4 DEF BufKeysInv
<1>6. given' \in Seq(Nat) /\ queue' \in Seq(Nat) /\ Len(given') = 0 /\ Len(queue') = 0
      /\ DOMAIN given' = {} /\ DOMAIN queue' = {}
  BY <1>1
<1>7. BufOrderInv'
  BY <1>1, <1>6 DEF BufOrderInv, Rising
<1>8. ReplayKeysInv'
  BY Zenon, <1>1 DEF ReplayKeysInv
<1> QED  BY Zenon, <1>2, <1>5, <1>7, <1>8

\* A new event is the largest, and its key is behind the others of its process.
LEMMA PutInv ==
  ASSUME BufIInv, NEW stored \in BOOLEAN, NEW queued \in BOOLEAN, PutEvent(stored, queued)
  PROVE  BufIInv'
<1> USE DEF BufIInv
<1>1. PICK key \in Nat \X Nat, e \in Nat : e = puts + 1 /\ key = <<bufSeq + 1, second>>
  <2>1. bufSeq + 1 \in Nat /\ second \in Nat /\ puts + 1 \in Nat  BY DEF BufType
  <2>2. <<bufSeq + 1, second>> \in Nat \X Nat  BY Zenon, <2>1
  <2> QED  BY Zenon, <2>1, <2>2
<1>2. /\ bufOpen /\ replaying = {} /\ puts' = e /\ bufSeq' = bufSeq + 1
      /\ disk' = IF stored THEN StoreAt(key, e) ELSE disk
      /\ queue' = IF queued THEN Append(queue, e) ELSE queue
      /\ madeBy' = Append(madeBy, opens) /\ fresh' = FALSE
      /\ UNCHANGED <<bufOpen, second, replaying, given, muddled, opens>>
  BY Zenon, <1>1 DEF PutEvent
<1>3. key[1] = bufSeq + 1 /\ bufSeq \in Nat /\ puts \in Nat /\ opens \in Nat /\ opens > 0
  BY <1>1, <1>2 DEF BufType
<1>4. madeBy' \in Seq(1..opens') /\ Len(madeBy') = e /\ madeBy'[e] = opens
      /\ \A n \in 1..puts : madeBy'[n] = madeBy[n]
  <2>1. madeBy \in Seq(1..opens) /\ Len(madeBy) = puts /\ opens \in 1..opens
    BY <1>3 DEF BufType
  <2> QED  BY <1>1, <1>2, <2>1
<1>5. DOMAIN disk' \subseteq DOMAIN disk \cup {key}
      /\ \A k \in DOMAIN disk' : \/ stored /\ k = key /\ disk'[k] = e
                                 \/ k \in DOMAIN disk /\ disk'[k] = disk[k]
  BY Zenon, <1>2 DEF StoreAt
<1>6. BufType'
  <2>1. fresh' \in BOOLEAN  BY <1>2, Zenon
  <2>2. \A k \in DOMAIN disk' : disk'[k] \in 1..puts'
    <3> TAKE k \in DOMAIN disk'
    <3>1. puts' = puts + 1 /\ puts \in Nat /\ e = puts + 1  BY <1>1, <1>2, <1>3
    <3>2. CASE disk'[k] = e  BY <3>1, <3>2
    <3>3. CASE k \in DOMAIN disk /\ disk'[k] = disk[k]
      <4>1. disk[k] \in 1..puts  BY Zenon, <3>3 DEF BufType
      <4> QED  BY <3>1, <3>3, <4>1
    <3> QED  BY Zenon, <1>5, <3>2, <3>3
  <2>3. DOMAIN disk' \subseteq Nat \X Nat
    BY Zenon, <1>5 DEF BufType
  <2>4. replaying' \subseteq (Nat \X Nat) \X (1..puts') /\ bufSeq' \in Nat /\ puts' \in Nat
    BY Zenon, <1>1, <1>2, <1>3
  <2> QED  BY Zenon, <1>1, <1>2, <1>4, <2>1, <2>2, <2>3, <2>4 DEF BufType
<1>7. ASSUME NEW k \in DOMAIN disk'
      PROVE  \/ disk'[k] = e /\ k = key /\ Maker(k)' = opens
             \/ k \in DOMAIN disk /\ disk'[k] = disk[k] /\ Maker(k)' = Maker(k)
  <2>1. CASE k = key /\ disk'[k] = e
    BY Zenon, <1>4, <2>1 DEF Maker
  <2>2. CASE k \in DOMAIN disk /\ disk'[k] = disk[k]
    <3>1. disk[k] \in 1..puts  BY Zenon, <2>2 DEF BufType
    <3> QED  BY Zenon, <1>4, <2>2, <3>1 DEF Maker
  <2> QED  BY Zenon, <1>5, <2>1, <2>2
<1>8. BufKeysInv'
  <2>1. ASSUME NEW k \in DOMAIN disk', Maker(k)' = opens'
        PROVE  k[1] <= bufSeq' /\ (disk'[k] # e => k[1] <= bufSeq) /\ (disk'[k] = e => k = key)
    <3>1. CASE disk'[k] = e /\ k = key
      BY <1>2, <1>3, <3>1
    <3>2. CASE k \in DOMAIN disk /\ disk'[k] = disk[k] /\ Maker(k)' = Maker(k)
      <4>1. k[1] <= bufSeq /\ k[1] \in Nat /\ disk[k] <= puts /\ disk[k] \in Nat
        BY <1>2, <2>1, <3>2, MakerIs DEF BufKeysInv
      <4> QED  BY <1>1, <1>2, <1>3, <3>2, <4>1
    <3> QED  BY Zenon, <1>7, <3>1, <3>2
  <2>2. ASSUME NEW k \in DOMAIN disk', NEW l \in DOMAIN disk', Maker(k)' = Maker(l)'
        PROVE  (k[1] < l[1] => disk'[k] < disk'[l]) /\ (k[1] = l[1] => k = l)
    <3>1. CASE disk'[k] = e /\ disk'[l] = e
      <4>1. k = key /\ l = key
        <5>1. \A n \in DOMAIN disk : disk[n] # e  BY <1>1, <1>3, MakerIs
        <5> QED  BY Zenon, <1>7, <3>1, <5>1
      <4> QED  BY <1>3, <4>1
    <3>2. CASE disk'[k] = e /\ disk'[l] # e
      <4>1. k = key /\ Maker(k)' = opens'
        <5>1. \A n \in DOMAIN disk : disk[n] # e  BY <1>1, <1>3, MakerIs
        <5> QED  BY Zenon, <1>2, <1>7, <3>2, <5>1
      <4>2. l[1] <= bufSeq /\ l[1] \in Nat
        <5>1. l \in DOMAIN disk  BY Zenon, <1>7, <3>2
        <5> QED  BY Zenon, <2>1, <2>2, <3>2, <4>1, <5>1, MakerIs
      <4> QED  BY <1>3, <4>1, <4>2
    <3>3. CASE disk'[k] # e /\ disk'[l] = e
      <4>1. l = key /\ Maker(l)' = opens'
        <5>1. \A n \in DOMAIN disk : disk[n] # e  BY <1>1, <1>3, MakerIs
        <5> QED  BY Zenon, <1>2, <1>7, <3>3, <5>1
      <4>2. k[1] <= bufSeq /\ k[1] \in Nat /\ disk'[k] <= puts /\ disk'[k] \in Nat
        <5>1. k \in DOMAIN disk /\ disk'[k] = disk[k]  BY Zenon, <1>7, <3>3
        <5> QED  BY Zenon, <2>1, <2>2, <3>3, <4>1, <5>1, MakerIs
      <4> QED  BY <1>1, <1>3, <3>3, <4>1, <4>2
    <3>4. CASE disk'[k] # e /\ disk'[l] # e
      <4>1. k \in DOMAIN disk /\ disk'[k] = disk[k] /\ Maker(k)' = Maker(k)
            /\ l \in DOMAIN disk /\ disk'[l] = disk[l] /\ Maker(l)' = Maker(l)
        BY Zenon, <1>7, <3>4
      <4> QED  BY Zenon, <2>2, <4>1 DEF BufKeysInv
    <3> QED  BY Zenon, <3>1, <3>2, <3>3, <3>4
  <2> QED  BY Zenon, <2>1, <2>2 DEF BufKeysInv
<1>9. ASSUME ~muddled
      PROVE  /\ given \in Seq(Nat) /\ queue' \in Seq(Nat)
             /\ Rising(given) /\ Rising(queue')
             /\ (\A i \in 1..Len(given) : given[i] <= e) /\ (\A j \in 1..Len(queue') : queue'[j] <= e)
             /\ \A i \in 1..Len(given), j \in 1..Len(queue') : given[i] < queue'[j]
  <2>1. /\ given \in Seq(Nat) /\ queue \in Seq(Nat) /\ Rising(given) /\ Rising(queue)
        /\ (\A i \in 1..Len(given) : given[i] <= puts) /\ (\A j \in 1..Len(queue) : queue[j] <= puts)
        /\ \A i \in 1..Len(given), j \in 1..Len(queue) : given[i] < queue[j]
    BY Zenon, <1>9 DEF BufOrderInv
  <2>2. /\ \A i \in 1..Len(given) : given[i] < e /\ given[i] <= e
        /\ \A j \in 1..Len(queue) : queue[j] < e /\ queue[j] <= e
    <3>1. (\A i \in 1..Len(given) : given[i] \in Nat) /\ (\A j \in 1..Len(queue) : queue[j] \in Nat)
      BY Zenon, <2>1, SeqElement
    <3> QED  BY <1>1, <1>3, <2>1, <3>1
  <2>3. CASE ~queued
    BY Zenon, <1>2, <2>1, <2>2, <2>3
  <2>4. CASE queued
    <3>1. queue' = Append(queue, e)  BY Zenon, <1>2, <2>4
    <3>2. /\ queue' \in Seq(Nat) /\ Rising(queue') /\ Len(queue) \in Nat
          /\ Len(queue') = Len(queue) + 1 /\ queue'[Len(queue) + 1] = e
          /\ \A j \in 1..Len(queue) : queue'[j] = queue[j]
      BY Zenon, <2>1, <2>2, <3>1, RisingAppend
    <3>3. \A j \in 1..Len(queue') : j = Len(queue) + 1 \/ j \in 1..Len(queue)
      BY <3>2
    <3>4. \A j \in 1..Len(queue') : queue'[j] <= e
      BY <2>2, <3>2, <3>3
    <3>5. \A i \in 1..Len(given), j \in 1..Len(queue') : given[i] < queue'[j]
      BY Zenon, <2>1, <2>2, <3>2, <3>3
    <3> QED  BY Zenon, <2>1, <2>2, <3>2, <3>4, <3>5
  <2> QED  BY Zenon, <2>3, <2>4
<1>10. BufOrderInv'
  BY SMTT(30), <1>2, <1>9 DEF BufOrderInv
<1>11. ReplayKeysInv'
  BY Zenon, <1>2 DEF ReplayKeysInv
<1> QED  BY Zenon, <1>6, <1>8, <1>10, <1>11

\* Get moves the first of the queue behind what was given.
LEMMA GetInv ==
  ASSUME BufIInv, GetEvent
  PROVE  BufIInv'
<1> USE DEF BufIInv
<1>1. /\ queue # <<>> /\ given' = Append(given, Head(queue)) /\ queue' = Tail(queue)
      /\ UNCHANGED <<bufOpen, bufSeq, second, disk, replaying, puts, madeBy, fresh, muddled, opens>>
  BY Zenon DEF GetEvent
<1>2. BufType' /\ BufKeysInv' /\ ReplayKeysInv'
  <2>1. (\A k : Maker(k)' = Maker(k)) /\ \A x : Sender(x)' = Sender(x)
    BY Zenon, <1>1, MakersStay
  <2>2. BufType' /\ BufKeysInv'  BY <1>1, <2>1 DEF BufType, BufKeysInv
  <2> QED  BY Zenon, <1>1, <2>1, <2>2 DEF ReplayKeysInv
<1>3. ASSUME ~muddled
      PROVE  /\ given' \in Seq(Nat) /\ queue' \in Seq(Nat) /\ Rising(given') /\ Rising(queue')
             /\ \A i \in 1..Len(given') : given'[i] <= puts
             /\ \A j \in 1..Len(queue') : queue'[j] <= puts
             /\ \A i \in 1..Len(given'), j \in 1..Len(queue') : given'[i] < queue'[j]
             /\ \A i \in 1..Len(given'), x \in replaying : given'[i] < x[2]
             /\ \A j \in 1..Len(queue'), x \in replaying : queue'[j] < x[2]
  <2>1. /\ given \in Seq(Nat) /\ queue \in Seq(Nat) /\ Rising(given) /\ Rising(queue)
        /\ (\A i \in 1..Len(given) : given[i] <= puts) /\ (\A j \in 1..Len(queue) : queue[j] <= puts)
        /\ (\A i \in 1..Len(given), j \in 1..Len(queue) : given[i] < queue[j])
        /\ (\A i \in 1..Len(given), x \in replaying : given[i] < x[2])
        /\ (\A j \in 1..Len(queue), x \in replaying : queue[j] < x[2])
    BY Zenon, <1>3 DEF BufOrderInv
  <2>2. PICK h \in Nat : h = Head(queue) /\ h = queue[1] /\ 1 \in 1..Len(queue)
    BY <1>1, <2>1, RisingTail
  <2>3. /\ queue' \in Seq(Nat) /\ Rising(queue')
        /\ \A j \in 1..Len(queue') : queue'[j] = queue[j + 1] /\ j + 1 \in 1..Len(queue) /\ h < queue[j + 1]
    BY Zenon, <1>1, <2>1, <2>2, RisingTail
  <2>4. given' = Append(given, h) /\ \A i \in 1..Len(given) : given[i] < h
    BY Zenon, <1>1, <2>1, <2>2
  <2>5. /\ given' \in Seq(Nat) /\ Rising(given') /\ Len(given) \in Nat
        /\ Len(given') = Len(given) + 1 /\ given'[Len(given) + 1] = h
        /\ \A i \in 1..Len(given) : given'[i] = given[i]
    BY <2>1, <2>4, RisingAppend
  <2>6. \A i \in 1..Len(given') : i = Len(given) + 1 \/ i \in 1..Len(given)
    BY <2>5
  <2>7. (\A i \in 1..Len(given') : given'[i] <= puts) /\ (\A j \in 1..Len(queue') : queue'[j] <= puts)
    BY Zenon, <2>1, <2>2, <2>3, <2>5, <2>6
  <2>8. \A i \in 1..Len(given'), j \in 1..Len(queue') : given'[i] < queue'[j]
    BY Zenon, <2>1, <2>3, <2>5, <2>6
  <2>9. \A i \in 1..Len(given'), x \in replaying : given'[i] < x[2]
    BY Zenon, <2>1, <2>2, <2>5, <2>6
  <2> QED  BY Zenon, <2>1, <2>3, <2>5, <2>7, <2>8, <2>9
<1>4. ~(fresh /\ bufOpen)
  BY Zenon, <1>1 DEF BufOrderInv
<1>5. \A x : Sender(x)' = Sender(x)  BY Zenon, <1>1, MakersStay
<1>6. BufOrderInv'
  BY <1>1, <1>3, <1>4, <1>5 DEF BufOrderInv
<1> QED  BY Zenon, <1>2, <1>6

\* A set of naturals below a bound with at most one member has no two.
LEMMA OneMaker ==
  ASSUME NEW n \in Nat, NEW S, S \subseteq 1..n, ~(Cardinality(S) > 1), NEW x \in S, NEW y \in S
  PROVE  x = y
<1> SUFFICES ASSUME x # y  PROVE FALSE
  BY Zenon
<1>1. IsFiniteSet(S)
  <2>1. S \in SUBSET Nat /\ \A s \in S : s <= n  OBVIOUS
  <2> QED  BY Zenon, <2>1, FS_BoundedSetOfNaturals
<1>2. IsFiniteSet({x}) /\ Cardinality({x}) = 1  BY Zenon, FS_Singleton
<1>3. Cardinality({x} \cup {y}) = 2  BY <1>2, FS_AddElement
<1>4. {x} \cup {y} \in SUBSET S  BY Zenon
<1>5. Cardinality({x} \cup {y}) <= Cardinality(S)  BY Zenon, <1>1, <1>4, FS_Subset
<1>6. Cardinality(S) \in Nat  BY Zenon, <1>1, FS_CardinalityType
<1> QED  BY <1>3, <1>5, <1>6

\* A replay that starts a process and finds events of one process only is not muddled.
LEMMA BeginReplayInv ==
  ASSUME BufIInv, BeginReplay
  PROVE  BufIInv'
<1> USE DEF BufIInv
<1>1. /\ bufOpen /\ replaying' = {<<k, disk[k]>> : k \in DOMAIN disk} /\ fresh' = FALSE
      /\ muddled' = (muddled \/ ~fresh \/ Cardinality({madeBy[disk[k]] : k \in DOMAIN disk}) > 1)
      /\ UNCHANGED <<bufOpen, bufSeq, second, disk, queue, puts, given, madeBy, opens>>
  BY Zenon DEF BeginReplay
<1>2. (\A k : Maker(k)' = Maker(k)) /\ \A x : Sender(x)' = Sender(x)
  BY Zenon, <1>1, MakersStay
<1>8. ASSUME NEW x \in replaying'
      PROVE  /\ x[1] \in DOMAIN disk /\ x[2] = disk[x[1]] /\ x = <<x[1], x[2]>>
             /\ Sender(x) = Maker(x[1]) /\ x \in (Nat \X Nat) \X (1..puts)
  <2>1. PICK k \in DOMAIN disk : x = <<k, disk[k]>>  BY Zenon, <1>1
  <2>2. k \in Nat \X Nat /\ disk[k] \in 1..puts  BY Zenon DEF BufType
  <2>3. x[1] = k /\ x[2] = disk[k] /\ x \in (Nat \X Nat) \X (1..puts)  BY <2>1, <2>2
  <2> QED  BY Zenon, <2>1, <2>3 DEF Sender, Maker
<1>9. ReplayKeysInv'
  <2> SUFFICES ASSUME NEW x \in replaying', NEW y \in replaying'
               PROVE  /\ x[1] = y[1] => x = y
                      /\ Sender(x) = Sender(y) => (x[1][1] < y[1][1] => x[2] < y[2])
                                                  /\ (x[1][1] = y[1][1] => x = y)
    BY Zenon, <1>2 DEF ReplayKeysInv
  <2>1. PICK k \in DOMAIN disk : k = x[1] /\ x[2] = disk[k] /\ x = <<k, x[2]>> /\ Sender(x) = Maker(k)
    BY Zenon, <1>8
  <2>2. PICK l \in DOMAIN disk : l = y[1] /\ y[2] = disk[l] /\ y = <<l, y[2]>> /\ Sender(y) = Maker(l)
    BY Zenon, <1>8
  <2>3. k = l => x = y
    BY Zenon, <2>1, <2>2
  <2>4. Maker(k) = Maker(l) => (k[1] < l[1] => disk[k] < disk[l]) /\ (k[1] = l[1] => k = l)
    BY Zenon DEF BufKeysInv
  <2> QED  BY Zenon, <2>1, <2>2, <2>3, <2>4
<1>3. BufType'
  <2>1. fresh' \in BOOLEAN /\ muddled' \in BOOLEAN  BY <1>1, Zenon
  <2> QED  BY Zenon, <1>1, <1>8, <2>1 DEF BufType
<1>4. BufKeysInv'
  BY Zenon, <1>1, <1>2 DEF BufKeysInv
<1>5. ASSUME ~muddled'
      PROVE  ~muddled /\ given = <<>> /\ queue = <<>> /\ \A x, y \in replaying' : Sender(x) = Sender(y)
  <2>1. ~muddled /\ fresh /\ ~(Cardinality({madeBy[disk[k]] : k \in DOMAIN disk}) > 1)
    BY Zenon, <1>1, <1>5
  <2>2. opens \in Nat /\ {madeBy[disk[k]] : k \in DOMAIN disk} \subseteq 1..opens
    BY Zenon, MakerIs DEF Maker, BufType
  <2>3. \A k, l \in DOMAIN disk : Maker(k) = Maker(l)
    <3> TAKE k, l \in DOMAIN disk
    <3> DEFINE S == {madeBy[disk[m]] : m \in DOMAIN disk}
    <3>1. Maker(k) \in S /\ Maker(l) \in S  BY Zenon DEF Maker
    <3>2. S \subseteq 1..opens /\ ~(Cardinality(S) > 1)  BY Zenon, <2>1, <2>2
    <3> HIDE DEF S
    <3> QED  BY Zenon, <2>2, <3>1, <3>2, OneMaker
  <2> QED  BY Zenon, <1>1, <1>8, <2>1, <2>3 DEF BufOrderInv
<1>6. <<>> \in Seq(Nat) /\ Len(<<>>) = 0 /\ Rising(<<>>)
  BY DEF Rising
<1>7. BufOrderInv'
  <2>1. ~(fresh' /\ bufOpen')  BY Zenon, <1>1
  <2>2. ~muddled' => given' = <<>> /\ queue' = <<>> /\ \A x, y \in replaying' : Sender(x)' = Sender(y)'
    BY Zenon, <1>1, <1>2, <1>5
  <2>3. ~muddled' => /\ given' \in Seq(Nat) /\ queue' \in Seq(Nat) /\ Len(given') = 0 /\ Len(queue') = 0
                     /\ Rising(given') /\ Rising(queue')
    BY Zenon, <1>6, <2>2
  <2>4. 1..0 = {}  OBVIOUS
  <2> QED  BY Zenon, <2>1, <2>2, <2>3, <2>4 DEF BufOrderInv
<1> QED  BY Zenon, <1>3, <1>4, <1>7, <1>9

\* Of the entries of one process the first in the store is that of the earliest event.
LEMMA FirstOfOneMaker ==
  ASSUME BufIInv, replaying # {}, \A x, y \in replaying : Sender(x) = Sender(y)
  PROVE  /\ FirstEntry(replaying) \in replaying
         /\ \A y \in replaying \ {FirstEntry(replaying)} : FirstEntry(replaying)[2] < y[2]
<1> USE DEF BufIInv
<1>1. \A x \in replaying : x[1][1] \in Nat
  BY DEF BufType
<1> DEFINE S == {x[1][1] : x \in replaying}
<1>2. S \subseteq Nat /\ S # {}
  BY Zenon, <1>1
<1>3. PICK a \in S : \A b \in S : a <= b
  <2> HIDE DEF S
  <2> QED  BY Zenon, <1>2, LeastOf
<1>4. PICK x \in replaying : \A y \in replaying : x[1][1] <= y[1][1]
  BY Zenon, <1>3
<1>5. \A y, z \in replaying : y[1][1] = z[1][1] => y = z
  BY Zenon DEF ReplayKeysInv
<1>6. \A y \in replaying \ {x} : x[1][1] < y[1][1]
  BY <1>1, <1>4, <1>5
<1>7. \A y \in replaying \ {x} : KeyBefore(x[1], y[1])
  BY Zenon, <1>6 DEF KeyBefore
<1>8. FirstEntry(replaying) \in replaying
      /\ \A y \in replaying \ {FirstEntry(replaying)} : KeyBefore(FirstEntry(replaying)[1], y[1])
  <2> DEFINE P(z) == \A y \in replaying \ {z} : KeyBefore(z[1], y[1])
  <2>1. \E z \in replaying : P(z)  BY Zenon, <1>7
  <2>2. FirstEntry(replaying) = CHOOSE z \in replaying : P(z)  BY Zenon DEF FirstEntry
  <2> HIDE DEF P
  <2>3. FirstEntry(replaying) \in replaying /\ P(FirstEntry(replaying))  BY Zenon, <2>1, <2>2
  <2> QED  BY Zenon, <2>3 DEF P
<1>9. PICK f \in replaying : f = FirstEntry(replaying)
                             /\ \A y \in replaying \ {f} : KeyBefore(f[1], y[1])
  BY Zenon, <1>8
<1>10. ASSUME NEW y \in replaying \ {f}
       PROVE  f[2] < y[2]
  <2>1. f[1][1] < y[1][1]
    BY Zenon, <1>5, <1>9 DEF KeyBefore
  <2> QED  BY Zenon, <2>1 DEF ReplayKeysInv
<1> QED  BY Zenon, <1>9, <1>10

\* An event of the replay goes behind what is queued; an error ends the replay.
LEMMA ReplayInv ==
  ASSUME BufIInv, ReplayEvent
  PROVE  BufIInv'
<1> USE DEF BufIInv
<1>1. replaying # {} /\ replaying' \subseteq replaying
      /\ UNCHANGED <<bufOpen, bufSeq, second, disk, puts, opens, given, madeBy, fresh, muddled>>
  BY Zenon DEF ReplayEvent, bufGhosts
<1>2. (\A k : Maker(k)' = Maker(k)) /\ \A x : Sender(x)' = Sender(x)
  BY Zenon, <1>1, MakersStay
<1>3. BufType' /\ BufKeysInv' /\ ReplayKeysInv'
  <2>1. BufType' /\ BufKeysInv'  BY <1>1, <1>2 DEF BufType, BufKeysInv
  <2> QED  BY Zenon, <1>1, <1>2, <2>1 DEF ReplayKeysInv
<1>4. ASSUME ~muddled
      PROVE  /\ queue' \in Seq(Nat) /\ Rising(queue')
             /\ \A j \in 1..Len(queue') : queue'[j] <= puts
             /\ \A i \in 1..Len(given), j \in 1..Len(queue') : given[i] < queue'[j]
             /\ \A j \in 1..Len(queue'), x \in replaying' : queue'[j] < x[2]
  <2>1. /\ given \in Seq(Nat) /\ queue \in Seq(Nat) /\ Rising(given) /\ Rising(queue)
        /\ (\A i \in 1..Len(given) : given[i] <= puts) /\ (\A j \in 1..Len(queue) : queue[j] <= puts)
        /\ (\A i \in 1..Len(given), j \in 1..Len(queue) : given[i] < queue[j])
        /\ (\A i \in 1..Len(given), x \in replaying : given[i] < x[2])
        /\ (\A j \in 1..Len(queue), x \in replaying : queue[j] < x[2])
        /\ (\A x, y \in replaying : Sender(x) = Sender(y))
    BY Zenon, <1>4 DEF BufOrderInv
  <2>2. CASE queue' = queue
    BY Zenon, <1>1, <2>1, <2>2
  <2>3. CASE queue' # queue
    <3>1. PICK f \in replaying : f = FirstEntry(replaying) /\ \A y \in replaying \ {f} : f[2] < y[2]
      BY Zenon, <1>1, <2>1, FirstOfOneMaker
    <3>2. PICK e \in Nat : e = f[2] /\ e <= puts
      BY DEF BufType
    <3>3. queue' = Append(queue, e) /\ replaying' = replaying \ {f}
      BY Zenon, <2>3, <3>1, <3>2 DEF ReplayEvent
    <3>4. /\ queue' \in Seq(Nat) /\ Rising(queue') /\ Len(queue) \in Nat
          /\ Len(queue') = Len(queue) + 1 /\ queue'[Len(queue) + 1] = e
          /\ \A j \in 1..Len(queue) : queue'[j] = queue[j]
      BY Zenon, <2>1, <3>2, <3>3, RisingAppend
    <3>5. \A j \in 1..Len(queue') : j = Len(queue) + 1 \/ j \in 1..Len(queue)
      BY <3>4
    <3>6. \A j \in 1..Len(queue') : queue'[j] <= puts
      BY Zenon, <2>1, <3>2, <3>4, <3>5
    <3>7. \A i \in 1..Len(given), j \in 1..Len(queue') : given[i] < queue'[j]
      BY Zenon, <2>1, <3>2, <3>4, <3>5
    <3>8. \A j \in 1..Len(queue'), x \in replaying' : queue'[j] < x[2]
      BY <2>1, <3>1, <3>2, <3>3, <3>4, <3>5
    <3> QED  BY Zenon, <3>4, <3>6, <3>7, <3>8
  <2> QED  BY Zenon, <2>2, <2>3
<1>5. ~(fresh /\ bufOpen)
  BY Zenon, <1>1 DEF BufOrderInv
<1>6. BufOrderInv'
  BY Zenon, <1>1, <1>2, <1>4, <1>5 DEF BufOrderInv
<1> QED  BY Zenon, <1>3, <1>6

\* Clear, the end of a process and the clock.
LEMMA OtherBufInv ==
  ASSUME BufIInv, ClearStore \/ EndBuffer \/ SecondPasses
  PROVE  BufIInv'
<1> USE DEF BufIInv
<1>1. /\ UNCHANGED <<bufSeq, puts, opens, given, queue, madeBy, fresh, muddled>>
      /\ replaying' = {} \/ replaying' = replaying
      /\ disk' = disk \/ disk' = <<>>
      /\ bufOpen' = bufOpen \/ bufOpen' = FALSE
      /\ second' = second \/ second' = second + 1
  BY Zenon DEF ClearStore, EndBuffer, SecondPasses, bufGhosts
<1>2. DOMAIN disk' \subseteq DOMAIN disk /\ \A k \in DOMAIN disk' : disk'[k] = disk[k] /\ Maker(k)' = Maker(k)
  <2>1. CASE disk' = disk  BY Zenon, <1>1, <2>1 DEF Maker
  <2>2. CASE disk' = <<>>  BY <2>2
  <2> QED  BY Zenon, <1>1, <2>1, <2>2
<1>3. replaying' \subseteq replaying /\ \A x : Sender(x)' = Sender(x)
  BY Zenon, <1>1 DEF Sender
<1>4. BufType'
  <2>0. bufOpen' = bufOpen \/ bufOpen' = FALSE  BY <1>1
  <2>1. bufOpen' \in BOOLEAN /\ (bufOpen' => bufOpen)
    <3>1. bufOpen \in BOOLEAN  BY Zenon DEF BufType
    <3>2. CASE bufOpen' = bufOpen  BY <3>1, <3>2, Zenon
    <3>3. CASE bufOpen' = FALSE  BY <3>3, Zenon
    <3> QED  BY Zenon, <2>0, <3>2, <3>3
  <2>2. second' \in Nat  BY <1>1 DEF BufType
  <2> QED  BY Zenon, <1>1, <1>2, <1>3, <2>1, <2>2 DEF BufType
<1>5. BufKeysInv'
  BY <1>1, <1>2 DEF BufKeysInv
<1>6. ReplayKeysInv'
  BY Zenon, <1>3 DEF ReplayKeysInv
<1>7. bufOpen' => bufOpen  BY Zenon, <1>1
<1>8. BufOrderInv'
  BY <1>1, <1>3, <1>7 DEF BufOrderInv
<1> QED  BY Zenon, <1>4, <1>5, <1>6, <1>8

\* Every operation on the buffer, a crash and a new process keep the
\* invariant.
LEMMA BufInvHolds == BufferSpec => []BufIInv
<1>1. BufferInit => BufIInv
  BY Zenon, BufInvInit
<1>2. ASSUME BufIInv, [BufferNext]_bufVars
      PROVE  BufIInv'
  <2>1. ASSUME NEW stored \in BOOLEAN, NEW queued \in BOOLEAN, PutEvent(stored, queued)
        PROVE  BufIInv'
    BY Zenon, <1>2, <2>1, PutInv
  <2>2. CASE OpenBuffer  BY Zenon, <1>2, <2>2, OpenBufInv
  <2>3. CASE GetEvent  BY Zenon, <1>2, <2>3, GetInv
  <2>4. CASE BeginReplay  BY Zenon, <1>2, <2>4, BeginReplayInv
  <2>5. CASE ReplayEvent  BY Zenon, <1>2, <2>5, ReplayInv
  <2>6. CASE ClearStore \/ EndBuffer \/ SecondPasses  BY Zenon, <1>2, <2>6, OtherBufInv
  <2>7. CASE UNCHANGED bufVars
    BY <1>2, <2>7
       DEF bufVars, bufGhosts, BufIInv, BufType, BufKeysInv, ReplayKeysInv, BufOrderInv, Maker,
           Sender, Rising
  <2> QED  BY Zenon, <1>2, <2>1, <2>2, <2>3, <2>4, <2>5, <2>6, <2>7 DEF BufferNext
<1> QED  BY <1>1, <1>2, PTL DEF BufferSpec

\* A process hands its events out in the order they were put and each once, unless its
\* replay came late or found the events of several processes, for any number of events,
\* processes and seconds (persistent_buffer.go Replay, Get).
THEOREM OrderlySafe == BufferSpec => []GivenInOrder
<1>1. BufIInv => GivenInOrder
  BY Zenon DEF BufIInv, BufOrderInv, GivenInOrder, Rising
<1> QED  BY <1>1, BufInvHolds, PTL

\* A sequence over a set is one over a larger set.
LEMMA SeqOfMore ==
  ASSUME NEW S, NEW T, S \subseteq T, NEW s \in Seq(S)
  PROVE  s \in Seq(T) /\ s \in [1..Len(s) -> T]
  OBVIOUS

\* What else the type invariant says.
BufLimits ==
  /\ opens <= MaxOpens /\ bufSeq <= puts /\ puts <= MaxPuts /\ second <= MaxSeconds
  /\ DOMAIN disk \subseteq BufKeys /\ replaying \subseteq BufKeys \X (1..puts)
  /\ queue \in Seq(1..puts) /\ Len(queue) <= BufferCap
  /\ kept \subseteq 1..puts /\ clashed \subseteq 1..puts /\ cleared \subseteq 1..puts
  /\ given \in Seq(1..puts)

\* Of any keys there is a first one: the least number, and the least second with it.
LEMMA FirstKeyIs ==
  ASSUME NEW ks, ks \subseteq Nat \X Nat, ks # {}
  PROVE  \E k \in ks : \A l \in ks \ {k} : KeyBefore(k, l)
<1>1. \A k \in ks : k[1] \in Nat /\ k[2] \in Nat /\ k = <<k[1], k[2]>>
  OBVIOUS
<1> DEFINE S == {k[1] : k \in ks}
<1>2. PICK a \in S : \A x \in S : a <= x
  <2>1. S \subseteq Nat /\ S # {}  BY Zenon, <1>1
  <2> HIDE DEF S
  <2> QED  BY Zenon, <2>1, LeastOf
<1> DEFINE T == {k[2] : k \in {l \in ks : l[1] = a}}
<1>3. PICK b \in T : \A x \in T : b <= x
  <2>1. T \subseteq Nat /\ T # {}  BY Zenon, <1>1
  <2> HIDE DEF T
  <2> QED  BY Zenon, <2>1, LeastOf
<1>4. PICK f \in ks : f[1] = a /\ f[2] = b
  BY Zenon
<1>5. ASSUME NEW l \in ks \ {f}
      PROVE  KeyBefore(f, l)
  <2>1. a \in Nat /\ b \in Nat /\ l[1] \in Nat /\ l[2] \in Nat  BY Zenon, <1>1, <1>4
  <2>2. a <= l[1] /\ (l[1] = a => b <= l[2])
    BY Zenon, <1>2, <1>3
  <2>3. l[1] # a \/ l[2] # b
    BY Zenon, <1>1, <1>4
  <2>4. a < l[1] \/ (a = l[1] /\ b < l[2])
    BY <2>1, <2>2, <2>3
  <2> QED  BY Zenon, <1>4, <2>4 DEF KeyBefore
<1> QED  BY Zenon, <1>5

\* Of the entries of a store, one for each key, there is a first one.
LEMMA FirstEntryIs ==
  ASSUME NEW es, NEW n, es \subseteq (Nat \X Nat) \X (1..n), es # {},
         \A x, y \in es : x[1] = y[1] => x = y
  PROVE  FirstEntry(es) \in es
<1> DEFINE ks == {x[1] : x \in es}
<1>1. \A x \in es : x[1] \in Nat \X Nat
  OBVIOUS
<1>2. ks \subseteq Nat \X Nat /\ ks # {}
  BY <1>1
<1>3. PICK k \in ks : \A l \in ks \ {k} : KeyBefore(k, l)
  <2> HIDE DEF ks
  <2> QED  BY Zenon, <1>2, FirstKeyIs
<1>4. PICK f \in es : f[1] = k
  BY Zenon
<1> DEFINE P(x) == \A y \in es \ {x} : KeyBefore(x[1], y[1])
<1>5. P(f)
  <2> SUFFICES ASSUME NEW y \in es, y # f
               PROVE  KeyBefore(f[1], y[1])
    BY Zenon
  <2>1. y[1] \in ks /\ y[1] # k
    BY <1>4
  <2> QED  BY Zenon, <1>3, <1>4, <2>1
<1>6. FirstEntry(es) = CHOOSE x \in es : P(x)  BY Zenon DEF FirstEntry
<1> HIDE DEF P
<1> QED  BY Zenon, <1>5, <1>6

\* A new event is the next one, and its key is within the bounds.
LEMMA PutLimits ==
  ASSUME BufIInv, BufLimits, NEW stored \in BOOLEAN, NEW queued \in BOOLEAN, PutEvent(stored, queued)
  PROVE  BufLimits'
<1>1. PICK key, e : e = puts + 1 /\ key = <<bufSeq + 1, second>>
  BY Zenon
<1>2. /\ puts < MaxPuts /\ puts' = e /\ bufSeq' = bufSeq + 1
      /\ queued => Len(queue) < BufferCap
      /\ disk' = IF stored THEN StoreAt(key, e) ELSE disk
      /\ queue' = IF queued THEN Append(queue, e) ELSE queue
      /\ kept' = IF queued THEN kept \cup {e} ELSE kept
      /\ clashed' = IF stored /\ key \in DOMAIN disk THEN clashed \cup {disk[key]} ELSE clashed
      /\ replaying = {} /\ UNCHANGED <<second, replaying, given, cleared, opens>>
  BY Zenon, <1>1 DEF PutEvent
<1>3. /\ bufSeq \in Nat /\ second \in Nat /\ puts \in Nat /\ opens \in Nat
      /\ bufSeq <= puts /\ second <= MaxSeconds /\ BufferCap \in Nat /\ MaxPuts \in Nat /\ MaxSeconds \in Nat
  BY Zenon, BufferBounds DEF BufIInv, BufType, BufLimits
<1>4. /\ bufSeq' <= puts' /\ puts' <= MaxPuts /\ e \in 1..puts' /\ 1..puts \subseteq 1..puts'
      /\ bufSeq + 1 \in 1..MaxPuts /\ second \in 0..MaxSeconds
  BY <1>1, <1>2, <1>3
<1>5. key \in BufKeys
  BY Zenon, <1>1, <1>4 DEF BufKeys
<1>6. DOMAIN disk' \subseteq BufKeys
  BY Zenon, <1>2, <1>5 DEF StoreAt, BufLimits
<1>7. queue \in Seq(1..puts) /\ given \in Seq(1..puts) /\ Len(queue) <= BufferCap
  BY Zenon DEF BufLimits
<1>8. queue \in Seq(1..puts') /\ given \in Seq(1..puts') /\ Len(queue) \in Nat
  BY Zenon, <1>4, <1>7, SeqOfMore, QueueFacts
<1>9. /\ Append(queue, e) \in Seq(1..puts') /\ Len(Append(queue, e)) = Len(queue) + 1
  BY Zenon, <1>4, <1>8, QueueFacts
<1>10. Len(queue) < BufferCap => Len(queue) + 1 <= BufferCap
  BY <1>3, <1>8
<1>11. queue' \in Seq(1..puts') /\ Len(queue') <= BufferCap
  BY Zenon, <1>2, <1>7, <1>8, <1>9, <1>10
<1>12. \A k \in DOMAIN disk : disk[k] \in 1..puts
  BY Zenon DEF BufIInv, BufType
<1>13. /\ kept' \subseteq 1..puts' /\ clashed' \subseteq 1..puts' /\ cleared' \subseteq 1..puts'
  BY Zenon, <1>2, <1>4, <1>12 DEF BufLimits
<1> QED  BY Zenon, <1>2, <1>4, <1>6, <1>8, <1>11, <1>13 DEF BufLimits

\* Taking from the queue and filling it again.
LEMMA QueueLimits ==
  ASSUME BufIInv, BufLimits, GetEvent \/ ReplayEvent
  PROVE  BufLimits'
<1>1. /\ queue \in Seq(1..puts) /\ given \in Seq(1..puts) /\ Len(queue) <= BufferCap
      /\ BufferCap \in Nat /\ Len(queue) \in Nat
  BY Zenon, BufferBounds, QueueFacts DEF BufLimits
<1>2. CASE GetEvent
  <2>1. /\ given' \in Seq(1..puts) /\ queue' \in Seq(1..puts) /\ Len(queue') = Len(queue) - 1
    BY Zenon, <1>1, <1>2, QueueFacts DEF GetEvent
  <2>2. Len(queue') <= BufferCap  BY <1>1, <2>1
  <2> QED  BY Zenon, <1>2, <2>1, <2>2 DEF GetEvent, BufLimits
<1>3. CASE ReplayEvent
  <2>1. PICK x : x = FirstEntry(replaying)
    OBVIOUS
  <2>2. x[2] \in 1..puts
    <3>1. /\ replaying # {} /\ replaying \subseteq (Nat \X Nat) \X (1..puts)
          /\ \A y, z \in replaying : y[1] = z[1] => y = z
      BY Zenon, <1>3 DEF ReplayEvent, BufIInv, BufType, ReplayKeysInv
    <3>2. x \in replaying  BY Zenon, <2>1, <3>1, FirstEntryIs
    <3> QED  BY <3>1, <3>2
  <2>3. /\ replaying' \subseteq replaying
        /\ queue' = queue \/ (Len(queue) < BufferCap /\ queue' = Append(queue, x[2]))
    BY Zenon, <1>3, <2>1 DEF ReplayEvent
  <2>4. /\ Append(queue, x[2]) \in Seq(1..puts)
        /\ Len(Append(queue, x[2])) = Len(queue) + 1
    BY Zenon, <1>1, <2>2, QueueFacts
  <2>5. Len(queue) < BufferCap => Len(queue) + 1 <= BufferCap
    BY <1>1
  <2>6. queue' \in Seq(1..puts) /\ Len(queue') <= BufferCap
    BY Zenon, <1>1, <2>3, <2>4, <2>5
  <2> QED  BY Zenon, <1>3, <2>3, <2>6 DEF ReplayEvent, bufGhosts, BufLimits
<1> QED  BY Zenon, <1>2, <1>3

\* The types and bounds of the persistent buffer hold in every state, for any number of
\* events, processes and seconds: the memory queue keeps to its capacity, also while a
\* Replay fills it, and it and the store hold nothing but events that were put
\* (persistent_buffer.go Put, Get, Replay, Clear).
THEOREM BufferTypesHold == BufferSpec => []BufferTypeOK
<1>1. BufferInit => BufLimits
  <2> SUFFICES ASSUME BufferInit
               PROVE  BufLimits
    BY Zenon
  <2>1. opens <= MaxOpens /\ bufSeq <= puts /\ puts <= MaxPuts /\ second <= MaxSeconds
    BY BufferBounds DEF BufferInit
  <2>2. DOMAIN <<>> = {} /\ <<>> \in Seq(1..puts) /\ Len(<<>>) <= BufferCap
    BY BufferBounds
  <2> QED  BY Zenon, <2>1, <2>2 DEF BufferInit, BufLimits
<1>2. BufIInv /\ BufLimits /\ [BufferNext]_bufVars => BufLimits'
  <2> SUFFICES ASSUME BufIInv, BufLimits, [BufferNext]_bufVars
               PROVE  BufLimits'
    BY Zenon
  <2>1. /\ opens \in Nat /\ second \in Nat /\ MaxOpens \in Nat /\ MaxSeconds \in Nat
        /\ puts \in Nat /\ BufferCap \in Nat /\ \A k \in DOMAIN disk : disk[k] \in 1..puts
    BY Zenon, BufferBounds DEF BufIInv, BufType
  <2>2. DOMAIN <<>> = {} /\ <<>> \in Seq(1..puts) /\ Len(<<>>) <= BufferCap /\ 0 <= puts
    BY <2>1
  <2>3. CASE OpenBuffer
    <3>1. opens' <= MaxOpens
      BY <2>1, <2>3 DEF OpenBuffer
    <3> QED  BY Zenon, <2>2, <2>3, <3>1 DEF OpenBuffer, BufLimits
  <2>4. CASE BeginReplay
    <3>1. \A k \in DOMAIN disk : <<k, disk[k]>> \in BufKeys \X (1..puts)
      BY Zenon, <2>1 DEF BufLimits
    <3> QED  BY Zenon, <2>4, <3>1 DEF BeginReplay, BufLimits
  <2>7. CASE ClearStore \/ EndBuffer
    BY Zenon, <2>1, <2>2, <2>7 DEF ClearStore, EndBuffer, bufGhosts, BufLimits
  <2>5. CASE SecondPasses
    <3>1. second' <= MaxSeconds
      BY <2>1, <2>5 DEF SecondPasses
    <3> QED  BY Zenon, <2>5, <3>1 DEF SecondPasses, bufGhosts, BufLimits
  <2>6. CASE UNCHANGED bufVars
    BY Zenon, <2>6 DEF bufVars, bufGhosts, BufLimits
  <2> QED  BY Zenon, <2>3, <2>4, <2>5, <2>6, <2>7, PutLimits, QueueLimits DEF BufferNext
<1>3. BufIInv /\ BufLimits => BufferTypeOK
  <2> SUFFICES ASSUME BufIInv, BufLimits
               PROVE  BufferTypeOK
    BY Zenon
  <2>1. /\ opens \in 0..MaxOpens /\ bufSeq \in 0..puts /\ puts \in 0..MaxPuts /\ second \in 0..MaxSeconds
    BY BufferBounds DEF BufIInv, BufType, BufLimits
  <2>2. madeBy \in [1..puts -> 1..MaxOpens]
    <3>1. madeBy \in Seq(1..opens) /\ Len(madeBy) = puts
      BY Zenon DEF BufIInv, BufType
    <3>2. 1..opens \subseteq 1..MaxOpens
      BY BufferBounds, <2>1
    <3> QED  BY Zenon, <3>1, <3>2, SeqOfMore
  <2> QED  BY Zenon, <2>1, <2>2 DEF BufIInv, BufType, BufLimits, BufferTypeOK
<1> QED  BY <1>1, <1>2, <1>3, BufInvHolds, PTL DEF BufferSpec

-----------------------------------------------------------------------------

(***************************************************************************)
(* The snapshot coordinator (SnapshotWorkers).                             *)
(*                                                                         *)
(* EveryKeyInOneChunk counts. The count over joined queues is the sum of   *)
(* the counts (WithConcat), so a chunk that moves from one queue or worker *)
(* to the next changes no sum. While the table is cut the keys below the   *)
(* loop variable are in one chunk each, and the loop variable is the first *)
(* key and a multiple of the chunk size (CutsInv), which is why it stays   *)
(* within the integers unless Overruns. BlockedByBacklog counts the        *)
(* chunks themselves (BacklogInv).                                         *)
(***************************************************************************)

\* A sum that fits the integers is kept.
LEMMA WrapFits ==
  ASSUME NEW n \in KeyInts
  PROVE  Wrap(n) = n
<1>1. PICK x \in Int, m \in Int : x = n - MinInt /\ m = 2 * MaxInt + 2 /\ 0 <= x /\ x < m /\ n = x + MinInt
  <2>1. MaxInt \in Nat  BY Zenon, SnapBounds
  <2> QED  BY <2>1 DEF KeyInts, MinInt
<1>2. x % m = x
  BY <1>1
<1> QED  BY Zenon, <1>1, <1>2 DEF Wrap

-----------------------------------------------------------------------------

\* A chunk by its ends.
Piece == [from : Int, to : Int]

\* One if the chunk has the key.
InPiece(k, c) == IF k \in c.from..c.to THEN 1 ELSE 0

\* The count over two queues in one is the sum of the counts.
LEMMA WithConcat ==
  ASSUME NEW k, NEW a \in Seq(Piece), NEW b \in Seq(Piece)
  PROVE  /\ With(k, a \o b) = With(k, a) + With(k, b)
         /\ With(k, a) \in Nat /\ With(k, b) \in Nat /\ a \o b \in Seq(Piece)
<1>1. /\ a \o b \in Seq(Piece) /\ Len(a \o b) = Len(a) + Len(b)
      /\ \A i \in 1..(Len(a) + Len(b)) : (a \o b)[i] = IF i <= Len(a) THEN a[i] ELSE b[i - Len(a)]
  BY Zenon, SeqConcat
<1>2. /\ Len(a) \in Nat /\ Len(b) \in Nat /\ DOMAIN a = 1..Len(a) /\ DOMAIN b = 1..Len(b)
      /\ DOMAIN (a \o b) = 1..(Len(a) + Len(b))
  BY <1>1
<1> DEFINE c == a \o b
           la == Len(a)
           A == {i \in DOMAIN a : k \in a[i].from..a[i].to}
           B == {i \in DOMAIN b : k \in b[i].from..b[i].to}
           C == {i \in DOMAIN c : k \in c[i].from..c[i].to}
           D == {i \in C : i > la}
           f == [i \in B |-> i + la]
<1>3. IsFiniteSet(A) /\ IsFiniteSet(B) /\ Cardinality(A) \in Nat /\ Cardinality(B) \in Nat
  <2>1. IsFiniteSet(1..Len(a)) /\ IsFiniteSet(1..Len(b))
    BY <1>2, FS_Interval
  <2>2. A \in SUBSET (1..Len(a)) /\ B \in SUBSET (1..Len(b))  BY Zenon, <1>2
  <2>3. IsFiniteSet(A) /\ IsFiniteSet(B)
    <3> HIDE DEF A, B
    <3> QED  BY Zenon, <2>1, <2>2, FS_Subset
  <2> HIDE DEF A, B
  <2> QED  BY <2>3, FS_CardinalityType
<1>4. \A i \in DOMAIN a : i \in DOMAIN c /\ c[i] = a[i] /\ ~(i > la)
  BY <1>1, <1>2
<1>5. \A i \in DOMAIN b : i + la \in DOMAIN c /\ c[i + la] = b[i] /\ i + la > la
  <2> TAKE i \in DOMAIN b
  <2>1. PICK j \in Nat : j = i + la  BY <1>2
  <2>2. j \in 1..(Len(a) + Len(b)) /\ ~(j <= Len(a)) /\ j - Len(a) = i  BY <1>2, <2>1
  <2>3. c[j] = b[i]  BY Zenon, <1>1, <2>2
  <2> QED  BY <1>2, <2>1, <2>2, <2>3
<1>6. \A j \in DOMAIN c : j \in DOMAIN a \/ (j > la /\ \E i \in DOMAIN b : j = i + la)
  <2> TAKE j \in DOMAIN c
  <2>1. CASE j <= la  BY <1>2, <2>1
  <2>2. CASE ~(j <= la)
    <3>1. j - la \in DOMAIN b /\ j = (j - la) + la /\ j > la  BY <1>2, <2>2
    <3> QED  BY Zenon, <3>1
  <2> QED  BY Zenon, <2>1, <2>2
<1>7. f \in Bijection(B, D)
  <2> HIDE DEF c, la
  <2>1. \A i \in B : i + la \in D  BY Zenon, <1>5
  <2>2. \A j \in D : \E i \in B : j = i + la
    BY Zenon, <1>4, <1>5, <1>6
  <2>3. B \subseteq Nat /\ la \in Nat  BY <1>2 DEF la
  <2> HIDE DEF B, D
  <2>4. f \in [B -> D]  BY Zenon, <2>1
  <2>5. \A x, y \in B : f[x] = f[y] => x = y  BY <2>3
  <2>6. \A j \in D : \E i \in B : f[i] = j  BY Zenon, <2>2
  <2> HIDE DEF f
  <2>7. f \in Injection(B, D)  BY Zenon, <2>4, <2>5 DEF Injection, IsInjective
  <2>8. f \in Surjection(B, D)  BY Zenon, <2>4, <2>6 DEF Surjection
  <2> QED  BY <2>7, <2>8 DEF Bijection
<1>8. IsFiniteSet(D) /\ Cardinality(D) = Cardinality(B)
  <2> HIDE DEF B, D, f
  <2>1. ExistsBijection(B, D)  BY Zenon, <1>7 DEF ExistsBijection
  <2> QED  BY Zenon, <1>3, <2>1, FS_Bijection
<1>9. C = A \cup D /\ A \cap D = {}
  <2> HIDE DEF c, la
  <2>1. \A i \in A : i \in C /\ i \notin D  BY Zenon, <1>4
  <2>2. \A j \in C : j \in A \/ j \in D  BY Zenon, <1>4, <1>6
  <2>3. D \subseteq C  BY Zenon
  <2> QED  BY Zenon, <2>1, <2>2, <2>3
<1>10. Cardinality(C) = Cardinality(A) + Cardinality(B)
  <2> HIDE DEF A, B, C, D
  <2>1. Cardinality(A \cup D) = Cardinality(A) + Cardinality(D) - Cardinality(A \cap D)
    BY <1>3, <1>8, FS_Union
  <2>2. Cardinality(A \cap D) = 0  BY Zenon, <1>9, FS_EmptySet
  <2> QED  BY <1>3, <1>8, <1>9, <2>1, <2>2
<1>11. With(k, c) = Cardinality(C) /\ With(k, a) = Cardinality(A) /\ With(k, b) = Cardinality(B)
  BY Zenon DEF With
<1> QED  BY Zenon, <1>1, <1>3, <1>10, <1>11

\* What one chunk alone counts for a key: one if the key lies in its range,
\* else nothing.
LEMMA WithOne ==
  ASSUME NEW k, NEW c \in Piece
  PROVE  With(k, <<c>>) = InPiece(k, c) /\ InPiece(k, c) \in {0, 1} /\ With(k, <<>>) = 0
<1>1. DOMAIN <<c>> = {1} /\ <<c>>[1] = c  OBVIOUS
<1>2. With(k, <<c>>) = InPiece(k, c)
  <2>1. CASE k \in c.from..c.to
    <3>1. {i \in DOMAIN <<c>> : k \in <<c>>[i].from..<<c>>[i].to} = {1}
      BY Zenon, <1>1, <2>1
    <3> QED  BY Zenon, <2>1, <3>1, FS_Singleton DEF With, InPiece
  <2>2. CASE k \notin c.from..c.to
    <3>1. {i \in DOMAIN <<c>> : k \in <<c>>[i].from..<<c>>[i].to} = {}
      BY Zenon, <1>1, <2>2
    <3> QED  BY Zenon, <2>2, <3>1, FS_EmptySet DEF With, InPiece
  <2> QED  BY Zenon, <2>1, <2>2
<1>3. With(k, <<>>) = 0
  <2> DEFINE e == <<>>
  <2>1. DOMAIN e = {}  OBVIOUS
  <2> HIDE DEF e
  <2>2. {i \in DOMAIN e : k \in e[i].from..e[i].to} = {}  BY Zenon, <2>1
  <2>3. With(k, e) = 0  BY Zenon, <2>2, FS_EmptySet DEF With
  <2> QED  BY Zenon, <2>3 DEF e
<1> QED  BY Zenon, <1>2, <1>3 DEF InPiece

\* A chunk that is put at the end or taken from the front.
LEMMA WithMoves ==
  ASSUME NEW k, NEW s \in Seq(Piece)
  PROVE  /\ With(k, s) \in Nat
         /\ \A c \in Piece : With(k, Append(s, c)) = With(k, s) + InPiece(k, c)
         /\ s # <<>> => /\ Head(s) \in Piece /\ Tail(s) \in Seq(Piece)
                        /\ With(k, s) = InPiece(k, Head(s)) + With(k, Tail(s))
<1>1. With(k, s) \in Nat  BY Zenon, WithConcat
<1>2. ASSUME NEW c \in Piece
      PROVE  With(k, Append(s, c)) = With(k, s) + InPiece(k, c)
  <2>1. Append(s, c) = s \o <<c>> /\ <<c>> \in Seq(Piece)
    <3>1. <<c>> \in Seq(Piece)  OBVIOUS
    <3> QED  BY Zenon, <3>1, SeqAppendIs
  <2>2. With(k, s \o <<c>>) = With(k, s) + With(k, <<c>>)
    BY Zenon, <2>1, WithConcat
  <2> QED  BY <2>1, <2>2, WithOne
<1>3. ASSUME s # <<>>
      PROVE  /\ Head(s) \in Piece /\ Tail(s) \in Seq(Piece)
             /\ With(k, s) = InPiece(k, Head(s)) + With(k, Tail(s))
  <2>1. Head(s) \in Piece /\ Tail(s) \in Seq(Piece)
    BY Zenon, <1>3, SeqRest
  <2>2. s = <<Head(s)>> \o Tail(s) /\ <<Head(s)>> \in Seq(Piece)
    <3>1. <<Head(s)>> \in Seq(Piece)  BY <2>1
    <3> QED  BY Zenon, <1>3, <3>1, SeqRest
  <2>3. With(k, <<Head(s)>> \o Tail(s)) = With(k, <<Head(s)>>) + With(k, Tail(s))
    BY Zenon, <2>1, <2>2, WithConcat
  <2> QED  BY Zenon, <2>1, <2>2, <2>3, WithOne
<1> QED  BY Zenon, <1>1, <1>2, <1>3

-----------------------------------------------------------------------------

\* The workers whose chunk has the key, and how often the key is anywhere.
Holders(k) == {w \in SnapWorkers : k \in holds[w].from..holds[w].to}

Total(k) ==
  With(k, tasks) + With(k, taskCh) + With(k, resultCh) + With(k, handled) + Cardinality(Holders(k))

\* The types the proof needs, and that nothing is read while the table is cut.
SnapTypes ==
  /\ minKey \in KeyInts /\ maxKey \in minKey..MaxInt /\ start \in Int
  /\ worker \in [SnapWorkers -> {"idle", "send", "gone"}]
  /\ holds \in [SnapWorkers -> Piece]
  /\ tasks \in Seq(Piece) /\ taskCh \in Seq(Piece) /\ resultCh \in Seq(Piece) /\ handled \in Seq(Piece)
  /\ \A w \in SnapWorkers : worker[w] # "send" => holds[w] = NoChunk
  /\ IsFiniteSet({w \in SnapWorkers : worker[w] = "send"})
  /\ generator = "chunking" =>
       /\ taskCh = <<>> /\ resultCh = <<>> /\ handled = <<>>
       /\ \A w \in SnapWorkers : worker[w] # "send"

\* The chunks cut so far have every key below the loop variable once.
CutsInv ==
  generator = "chunking" /\ chunkable /\ ~Overruns =>
    /\ start = minKey + ChunkSize * Len(tasks)
    /\ start <= MaxInt
    /\ \A k \in minKey..maxKey : With(k, tasks) = IF k < start THEN 1 ELSE 0

\* Every key is in one chunk.
KeysInv ==
  generator # "chunking" /\ ~snapDone /\ ~(chunkable /\ Overruns) =>
    \A k \in minKey..maxKey : Total(k) = 1

SnapIInv == SnapTypes /\ CutsInv /\ KeysInv

\* What the bounds on the chunk size and on the integers say, in the form the
\* steps use.
LEMMA SnapConstants ==
  /\ MaxInt \in Nat \ {0} /\ ChunkSize \in Nat \ {0} /\ ChunkSize <= MaxInt
  /\ MinInt \in Int /\ \A n \in Int : Wrap(n) \in Int
<1>1. MaxInt \in Nat \ {0} /\ ChunkSize \in Nat \ {0} /\ ChunkSize <= MaxInt
  BY Zenon, SnapBounds
<1>2. MinInt \in Int  BY <1>1 DEF MinInt
<1>3. ASSUME NEW n \in Int  PROVE Wrap(n) \in Int
  <2>1. PICK x \in Int, m \in Nat \ {0} : x = n - MinInt /\ m = 2 * MaxInt + 2
    BY <1>1, <1>2
  <2>2. x % m \in Int  OBVIOUS
  <2> QED  BY <1>2, <2>1, <2>2 DEF Wrap
<1> QED  BY Zenon, <1>1, <1>2, <1>3

\* No key is an empty chunk's, and few workers hold a chunk.
LEMMA HoldersAre ==
  ASSUME SnapTypes, NEW k \in Int
  PROVE  /\ IsFiniteSet(Holders(k)) /\ Cardinality(Holders(k)) \in Nat
         /\ \A w \in SnapWorkers : worker[w] # "send" => w \notin Holders(k)
         /\ k \notin NoChunk.from..NoChunk.to
<1>1. k \notin NoChunk.from..NoChunk.to
  BY DEF NoChunk
<1>2. \A w \in SnapWorkers : worker[w] # "send" => w \notin Holders(k)
  BY Zenon, <1>1 DEF SnapTypes, Holders
<1>3. Holders(k) \in SUBSET {w \in SnapWorkers : worker[w] = "send"}
  BY Zenon, <1>2 DEF Holders
<1>4. IsFiniteSet(Holders(k))
  BY Zenon, <1>3, FS_Subset DEF SnapTypes
<1> QED  BY <1>1, <1>2, <1>4, FS_CardinalityType

\* The invariant gives the property: a key that is counted once is in one
\* chunk.
LEMMA KeysNow ==
  SnapIInv => EveryKeyInOneChunk
<1> SUFFICES ASSUME SnapIInv, generator # "chunking", ~snapDone, ~(chunkable /\ Overruns),
                    NEW k \in minKey..maxKey
             PROVE  With(k, tasks \o taskCh \o resultCh \o handled) + Cardinality(Holders(k)) = 1
  BY Zenon DEF EveryKeyInOneChunk, Holders
<1>1. SnapTypes /\ Total(k) = 1
  BY Zenon DEF SnapIInv, KeysInv
<1>2. With(k, tasks \o taskCh) = With(k, tasks) + With(k, taskCh) /\ tasks \o taskCh \in Seq(Piece)
  BY Zenon, <1>1, WithConcat DEF SnapTypes
<1>3. /\ With(k, (tasks \o taskCh) \o resultCh) = With(k, tasks \o taskCh) + With(k, resultCh)
      /\ (tasks \o taskCh) \o resultCh \in Seq(Piece)
  BY Zenon, <1>1, <1>2, WithConcat DEF SnapTypes
<1>4. With(k, ((tasks \o taskCh) \o resultCh) \o handled)
        = With(k, (tasks \o taskCh) \o resultCh) + With(k, handled)
  BY Zenon, <1>1, <1>3, WithConcat DEF SnapTypes
<1> QED  BY Zenon, <1>1, <1>2, <1>3, <1>4 DEF Total

\* A step that keeps every key where it is, or moves a chunk on.
LEMMA KeysKept ==
  ASSUME SnapIInv, UNCHANGED <<minKey, maxKey, chunkable>>, SnapTypes',
         generator # "chunking", generator' # "chunking",
         ~snapDone' => ~snapDone /\ \A k \in minKey..maxKey : Total(k)' = Total(k)
  PROVE  SnapIInv'
<1>1. CutsInv'
  BY Zenon DEF CutsInv
<1>2. KeysInv'
  <2> SUFFICES ASSUME ~snapDone', ~(chunkable /\ Overruns)', NEW k \in minKey..maxKey
               PROVE  Total(k)' = 1
    BY Zenon DEF KeysInv
  <2>1. ~snapDone /\ Total(k)' = Total(k)  BY Zenon
  <2>2. ~(chunkable /\ Overruns)  BY Zenon DEF Overruns
  <2> QED  BY Zenon, <2>1, <2>2 DEF SnapIInv, KeysInv
<1> QED  BY Zenon, <1>1, <1>2 DEF SnapIInv

\* One turn of the loop over the keys.
LEMMA CutChunkInv ==
  ASSUME SnapIInv, CutChunk
  PROVE  SnapIInv'
<1>0. SnapTypes /\ CutsInv  BY Zenon DEF SnapIInv
<1> DEFINE end == Wrap(start + ChunkSize - 1)
           to == IF end > maxKey THEN maxKey ELSE end
<1>1. /\ generator = "chunking" /\ chunkable /\ start <= maxKey
      /\ tasks' = Append(tasks, [from |-> start, to |-> to])
      /\ start' = Wrap(start + ChunkSize)
      /\ UNCHANGED <<minKey, maxKey, chunkable, generator, taskCh, worker, holds, resultCh, handled>>
  BY Zenon DEF CutChunk
<1>2. start \in Int /\ minKey \in Int /\ maxKey \in Int /\ maxKey <= MaxInt /\ MinInt <= minKey /\ minKey <= maxKey
  BY <1>0, SnapConstants DEF SnapTypes, KeyInts
<1>3. end \in Int /\ start' \in Int /\ to \in Int
  BY <1>1, <1>2, SnapConstants
<1> HIDE DEF to
<1>4. PICK c \in Piece : c = [from |-> start, to |-> to] /\ c.from = start /\ c.to = to
  <2>1. [from |-> start, to |-> to] \in Piece  BY Zenon, <1>2, <1>3 DEF Piece
  <2> QED  BY Zenon, <2>1
<1>5. tasks' = Append(tasks, c) /\ tasks' \in Seq(Piece)
  <2>1. tasks \in Seq(Piece) /\ tasks' = Append(tasks, c)  BY Zenon, <1>0, <1>1, <1>4 DEF SnapTypes
  <2> QED  BY Zenon, <2>1, SeqAppend
<1>6. SnapTypes'
  BY Zenon, <1>0, <1>1, <1>3, <1>5 DEF SnapTypes
<1>7. KeysInv'
  BY Zenon, <1>1 DEF KeysInv
<1>8. CutsInv'
  <2> SUFFICES ASSUME ~Overruns
               PROVE  /\ start' = minKey + ChunkSize * Len(tasks')
                      /\ start' <= MaxInt
                      /\ \A k \in minKey..maxKey : With(k, tasks') = IF k < start' THEN 1 ELSE 0
    BY Zenon, <1>1 DEF CutsInv, Overruns
  <2>1. PICK j \in Nat : j = Len(tasks) /\ start = minKey + ChunkSize * j
    BY Zenon, <1>0, <1>1, QueueFacts DEF CutsInv, SnapTypes
  <2>2. PICK q \in Int : j <= q /\ minKey + ChunkSize * (q + 1) <= MaxInt
    <3>1. PICK d \in Nat, c0 \in Nat \ {0} :
            d = maxKey - minKey /\ c0 = ChunkSize /\ c0 * j <= d
      <4>1. ChunkSize \in Nat \ {0} /\ ChunkSize * j \in Nat  BY SnapConstants
      <4>2. maxKey - minKey \in Nat /\ ChunkSize * j <= maxKey - minKey
        BY <1>1, <1>2, <2>1, <4>1
      <4> QED  BY Zenon, <4>1, <4>2
    <3>2. d \div c0 \in Int  OBVIOUS
    <3>3. j <= d \div c0  BY <3>1
    <3>4. PICK q \in Int : q = d \div c0 /\ j <= q  BY Zenon, <3>2, <3>3
    <3>5. ~(minKey + ChunkSize * (q + 1) > MaxInt)  BY Zenon, <3>1, <3>4 DEF Overruns
    <3>6. ChunkSize * (q + 1) \in Int /\ MaxInt \in Int  BY SnapConstants
    <3>7. minKey + ChunkSize * (q + 1) <= MaxInt  BY <1>2, <3>5, <3>6
    <3> QED  BY Zenon, <3>4, <3>7
  <2>3. start + ChunkSize <= MaxInt /\ start + ChunkSize = minKey + ChunkSize * (j + 1)
    <3>1. PICK c0 \in Nat \ {0}, d \in Nat : c0 = ChunkSize /\ q = j + d  BY <2>2, SnapConstants
    <3>2. c0 * d >= 0 /\ c0 * d \in Int /\ c0 * (j + 1) \in Int /\ c0 * j \in Int /\ c0 * (q + 1) \in Int
      OBVIOUS
    <3>3. c0 * (q + 1) = c0 * (j + 1) + c0 * d /\ c0 * (j + 1) = c0 * j + c0  BY <3>1
    <3>4. minKey + c0 * (q + 1) <= MaxInt /\ start = minKey + c0 * j /\ MaxInt \in Int
      BY <2>1, <2>2, <3>1, SnapConstants
    <3>5. start + c0 <= MaxInt /\ start + c0 = minKey + c0 * (j + 1)
      BY <1>2, <3>2, <3>3, <3>4
    <3> QED  BY Zenon, <3>1, <3>5
  <2>4. minKey <= start
    <3>1. ChunkSize * j >= 0 /\ ChunkSize * j \in Int  BY SnapConstants
    <3> QED  BY <1>2, <2>1, <3>1
  <2>5. start + ChunkSize \in KeyInts /\ start + ChunkSize - 1 \in KeyInts
    BY <1>2, <2>3, <2>4, SnapConstants DEF KeyInts
  <2>6. start' = start + ChunkSize /\ end = start + ChunkSize - 1
    BY Zenon, <1>1, <2>5, WrapFits
  <2>7. start' = minKey + ChunkSize * Len(tasks') /\ start' <= MaxInt
    <3>1. Len(tasks') = j + 1  BY Zenon, <1>0, <1>5, <2>1, SeqAppend DEF SnapTypes
    <3> QED  BY Zenon, <2>3, <2>6, <3>1
  <2>8. ASSUME NEW k \in minKey..maxKey
        PROVE  With(k, tasks') = IF k < start' THEN 1 ELSE 0
    <3>1. With(k, tasks) = IF k < start THEN 1 ELSE 0
      BY Zenon, <1>0, <1>1 DEF CutsInv
    <3>2. With(k, tasks') = With(k, tasks) + InPiece(k, c)
      BY Zenon, <1>0, <1>5, WithMoves DEF SnapTypes
    <3>3. InPiece(k, c) = IF k \in start..to THEN 1 ELSE 0
      BY Zenon, <1>4 DEF InPiece
    <3>4. k \in start..to <=> (start <= k /\ k < start + ChunkSize)
      BY <1>2, <2>6, SnapConstants DEF to
    <3>5. k \in Int  BY <1>2
    <3> QED  BY <1>2, <2>6, <3>1, <3>2, <3>3, <3>4, <3>5, SnapConstants
  <2> QED  BY Zenon, <2>7, <2>8
<1> QED  BY <1>6, <1>7, <1>8 DEF SnapIInv

\* The cut ends with every key in one chunk.
LEMMA ChunksCutInv ==
  ASSUME SnapIInv, ChunksCut
  PROVE  SnapIInv'
<1>0. SnapTypes /\ CutsInv  BY Zenon DEF SnapIInv
<1>1. /\ generator = "chunking" /\ generator' = "sending"
      /\ \/ chunkable /\ start > maxKey /\ tasks' = tasks
         \/ ~chunkable /\ tasks' = <<[from |-> minKey, to |-> maxKey]>>
      /\ UNCHANGED <<minKey, maxKey, chunkable, start, taskCh, worker, holds, resultCh, handled>>
  BY Zenon DEF ChunksCut
<1>2. minKey \in Int /\ maxKey \in Int /\ start \in Int
  BY <1>0, SnapConstants DEF SnapTypes, KeyInts
<1>3. PICK c \in Piece : c = [from |-> minKey, to |-> maxKey] /\ c.from = minKey /\ c.to = maxKey
  <2>1. [from |-> minKey, to |-> maxKey] \in Piece  BY Zenon, <1>2 DEF Piece
  <2> QED  BY Zenon, <2>1
<1>4. SnapTypes'
  <2>1. tasks' \in Seq(Piece)
    <3>1. tasks \in Seq(Piece) /\ <<c>> \in Seq(Piece)  BY <1>0 DEF SnapTypes
    <3> QED  BY Zenon, <1>1, <1>3, <3>1
  <2> QED  BY Zenon, <1>0, <1>1, <2>1 DEF SnapTypes
<1>5. CutsInv'
  BY Zenon, <1>1 DEF CutsInv
<1>6. KeysInv'
  <2> SUFFICES ASSUME ~(chunkable /\ Overruns), NEW k \in minKey..maxKey
               PROVE  Total(k)' = 1
    BY Zenon, <1>1 DEF KeysInv, Overruns
  <2>0. k \in Int  BY <1>2
  <2>1. With(k, tasks') = 1
    <3>1. CASE chunkable
      BY <1>0, <1>1, <1>2, <2>0, <3>1 DEF CutsInv
    <3>2. CASE ~chunkable
      <4>1. tasks' = <<c>> /\ InPiece(k, c) = 1  BY Zenon, <1>1, <1>3, <3>2 DEF InPiece
      <4> QED  BY Zenon, <4>1, WithOne
    <3> QED  BY Zenon, <3>1, <3>2
  <2>2. taskCh' = <<>> /\ resultCh' = <<>> /\ handled' = <<>> /\ \A w \in SnapWorkers : worker[w] # "send"
    BY Zenon, <1>0, <1>1 DEF SnapTypes
  <2>3. With(k, <<>>) = 0  BY Zenon, WithOne
  <2>4. Cardinality(Holders(k)') = 0
    <3>1. Holders(k) = {}  BY Zenon, <1>0, <2>0, <2>2, HoldersAre DEF Holders
    <3>2. Holders(k)' = Holders(k)  BY Zenon, <1>1 DEF Holders
    <3> QED  BY Zenon, <3>1, <3>2, FS_EmptySet
  <2> QED  BY <2>1, <2>2, <2>3, <2>4 DEF Total
<1> QED  BY Zenon, <1>4, <1>5, <1>6 DEF SnapIInv

\* A chunk goes from one queue to the next.
LEMMA QueuesInv ==
  ASSUME SnapIInv, QueueTask \/ HandleResult \/ CloseTasks
  PROVE  SnapIInv'
<1>0. SnapTypes  BY Zenon DEF SnapIInv
<1>1. /\ UNCHANGED <<minKey, maxKey, chunkable, start, worker, holds, snapDone>>
      /\ generator \in {"chunking", "sending"} => generator' # "chunking" \/ generator' = generator
  BY Zenon DEF QueueTask, HandleResult, CloseTasks
<1>2. minKey..maxKey \subseteq Int /\ \A k : Holders(k)' = Holders(k)
  BY <1>0, <1>1, SnapConstants DEF SnapTypes, KeyInts, Holders
<1>3. \A k \in minKey..maxKey :
        /\ With(k, tasks) \in Nat /\ With(k, taskCh) \in Nat /\ With(k, resultCh) \in Nat
        /\ With(k, handled) \in Nat /\ Cardinality(Holders(k)) \in Nat
  <2> TAKE k \in minKey..maxKey
  <2>1. With(k, tasks) \in Nat /\ With(k, taskCh) \in Nat /\ With(k, resultCh) \in Nat /\ With(k, handled) \in Nat
    BY Zenon, <1>0, WithMoves DEF SnapTypes
  <2> QED  BY Zenon, <1>0, <1>2, <2>1, HoldersAre
<1>4. CASE QueueTask
  <2>1. /\ generator = "sending" /\ generator' = "sending" /\ tasks # <<>> /\ tasks' = Tail(tasks)
        /\ taskCh' = Append(taskCh, Head(tasks)) /\ UNCHANGED <<resultCh, handled>>
    BY Zenon, <1>4 DEF QueueTask
  <2>2. Head(tasks) \in Piece /\ Tail(tasks) \in Seq(Piece) /\ taskCh \in Seq(Piece)
    BY Zenon, <1>0, <2>1, SeqRest DEF SnapTypes
  <2>3. taskCh' \in Seq(Piece)  BY Zenon, <2>1, <2>2, SeqAppend
  <2>4. SnapTypes'
    BY Zenon, <1>0, <1>1, <2>1, <2>2, <2>3 DEF SnapTypes
  <2>5. ASSUME NEW k \in minKey..maxKey
        PROVE  Total(k)' = Total(k)
    <3>1. With(k, tasks) = InPiece(k, Head(tasks)) + With(k, tasks')
      BY Zenon, <1>0, <2>1, WithMoves DEF SnapTypes
    <3>2. With(k, taskCh') = With(k, taskCh) + InPiece(k, Head(tasks))
      BY Zenon, <2>1, <2>2, WithMoves
    <3>3. InPiece(k, Head(tasks)) \in Int /\ With(k, tasks') \in Nat
      <4>1. InPiece(k, Head(tasks)) \in {0, 1}  BY Zenon, <2>2, WithOne
      <4>2. With(k, Tail(tasks)) \in Nat  BY Zenon, <2>2, WithMoves
      <4> QED  BY <2>1, <4>1, <4>2
    <3>4. With(k, tasks) + With(k, taskCh) = With(k, tasks') + With(k, taskCh')
      BY <1>3, <3>1, <3>2, <3>3
    <3> QED  BY Zenon, <1>2, <2>1, <3>4 DEF Total
  <2> QED  BY Zenon, <1>1, <2>1, <2>4, <2>5, KeysKept
<1>5. CASE HandleResult
  <2>1. /\ resultCh # <<>> /\ resultCh' = Tail(resultCh) /\ handled' = Append(handled, Head(resultCh))
        /\ UNCHANGED <<generator, tasks, taskCh>>
    BY Zenon, <1>5 DEF HandleResult
  <2>2. Head(resultCh) \in Piece /\ Tail(resultCh) \in Seq(Piece) /\ handled \in Seq(Piece)
    BY Zenon, <1>0, <2>1, SeqRest DEF SnapTypes
  <2>3. handled' \in Seq(Piece)  BY Zenon, <2>1, <2>2, SeqAppend
  <2>4. generator # "chunking"  BY Zenon, <1>0, <2>1 DEF SnapTypes
  <2>5. SnapTypes'
    BY Zenon, <1>0, <1>1, <2>1, <2>2, <2>3, <2>4 DEF SnapTypes
  <2>6. ASSUME NEW k \in minKey..maxKey
        PROVE  Total(k)' = Total(k)
    <3>1. With(k, resultCh) = InPiece(k, Head(resultCh)) + With(k, resultCh')
      BY Zenon, <1>0, <2>1, WithMoves DEF SnapTypes
    <3>2. With(k, handled') = With(k, handled) + InPiece(k, Head(resultCh))
      BY Zenon, <2>1, <2>2, WithMoves
    <3>3. InPiece(k, Head(resultCh)) \in Int /\ With(k, resultCh') \in Nat
      <4>1. InPiece(k, Head(resultCh)) \in {0, 1}  BY Zenon, <2>2, WithOne
      <4>2. With(k, Tail(resultCh)) \in Nat  BY Zenon, <2>2, WithMoves
      <4> QED  BY <2>1, <4>1, <4>2
    <3> QED  BY <1>2, <1>3, <2>1, <3>1, <3>2, <3>3 DEF Total
  <2> QED  BY Zenon, <1>1, <2>1, <2>4, <2>5, <2>6, KeysKept
<1>6. CASE CloseTasks
  <2>1. /\ generator = "sending" /\ generator' = "closed" /\ tasks' = <<>> /\ (snapDone \/ tasks = <<>>)
        /\ UNCHANGED <<taskCh, resultCh, handled>>
    BY Zenon, <1>6 DEF CloseTasks
  <2>2. <<>> \in Seq(Piece)  OBVIOUS
  <2>3. SnapTypes'
    BY Zenon, <1>0, <1>1, <2>1, <2>2 DEF SnapTypes
  <2>4. ~snapDone' => ~snapDone /\ \A k \in minKey..maxKey : Total(k)' = Total(k)
    BY Zenon, <1>1, <1>2, <2>1 DEF Total
  <2> QED  BY Zenon, <1>1, <2>1, <2>3, <2>4, KeysKept
<1> QED  BY Zenon, <1>4, <1>5, <1>6

\* A worker takes a chunk, and gives its result.
LEMMA WorkersInv ==
  ASSUME SnapIInv, NEW w \in SnapWorkers, TakeTask(w) \/ SendResult(w) \/ WorkerEnds(w)
  PROVE  SnapIInv'
<1>0. SnapTypes  BY Zenon DEF SnapIInv
<1>1. UNCHANGED <<minKey, maxKey, chunkable, generator, start, tasks, handled, snapDone>>
  BY Zenon DEF TakeTask, SendResult, WorkerEnds, snapQueues
<1>2. minKey..maxKey \subseteq Int
  BY <1>0, SnapConstants DEF SnapTypes, KeyInts
<1> DEFINE busy == {u \in SnapWorkers : worker[u] = "send"}
<1>3. \A k \in minKey..maxKey :
        /\ With(k, tasks) \in Nat /\ With(k, taskCh) \in Nat /\ With(k, resultCh) \in Nat
        /\ With(k, handled) \in Nat /\ Cardinality(Holders(k)) \in Nat /\ IsFiniteSet(Holders(k))
  <2> TAKE k \in minKey..maxKey
  <2>1. With(k, tasks) \in Nat /\ With(k, taskCh) \in Nat /\ With(k, resultCh) \in Nat /\ With(k, handled) \in Nat
    BY Zenon, <1>0, WithMoves DEF SnapTypes
  <2> QED  BY Zenon, <1>0, <1>2, <2>1, HoldersAre
<1>4. worker \in [SnapWorkers -> {"idle", "send", "gone"}] /\ holds \in [SnapWorkers -> Piece] /\ NoChunk \in Piece
      /\ IsFiniteSet(busy)
  BY SMTT(30), <1>0 DEF SnapTypes, NoChunk, Piece
<1>5. CASE TakeTask(w)
  <2>1. /\ worker[w] = "idle" /\ taskCh # <<>> /\ taskCh' = Tail(taskCh) /\ resultCh' = resultCh
        /\ worker' = [worker EXCEPT ![w] = "send"] /\ holds' = [holds EXCEPT ![w] = Head(taskCh)]
    BY Zenon, <1>5 DEF TakeTask
  <2>2. Head(taskCh) \in Piece /\ Tail(taskCh) \in Seq(Piece)
    BY Zenon, <1>0, <2>1, SeqRest DEF SnapTypes
  <2>3. generator # "chunking"  BY Zenon, <1>0, <2>1 DEF SnapTypes
  <2>4. SnapTypes'
    <3>1. IsFiniteSet({u \in SnapWorkers : worker'[u] = "send"})
      <4>1. {u \in SnapWorkers : worker'[u] = "send"} = busy \cup {w}  BY Zenon, <1>4, <2>1
      <4> HIDE DEF busy
      <4> QED  BY Zenon, <1>4, <4>1, FS_AddElement
    <3>2. worker' \in [SnapWorkers -> {"idle", "send", "gone"}] /\ holds' \in [SnapWorkers -> Piece]
      BY Zenon, <1>4, <2>1, <2>2
    <3>3. \A u \in SnapWorkers : worker'[u] # "send" => holds'[u] = NoChunk
      BY Zenon, <1>0, <1>4, <2>1 DEF SnapTypes
    <3> QED  BY Zenon, <1>0, <1>1, <2>1, <2>2, <2>3, <3>1, <3>2, <3>3 DEF SnapTypes
  <2>5. ASSUME NEW k \in minKey..maxKey
        PROVE  Total(k)' = Total(k)
    <3>1. With(k, taskCh) = InPiece(k, Head(taskCh)) + With(k, taskCh')
      BY Zenon, <1>0, <2>1, WithMoves DEF SnapTypes
    <3>2. InPiece(k, Head(taskCh)) \in {0, 1} /\ With(k, taskCh') \in Nat
      BY Zenon, <2>1, <2>2, WithOne, WithMoves
    <3>3. w \notin Holders(k)  BY Zenon, <1>0, <1>2, <2>1, HoldersAre
    <3>4. Cardinality(Holders(k)') = Cardinality(Holders(k)) + InPiece(k, Head(taskCh))
      <4>1. CASE k \in Head(taskCh).from..Head(taskCh).to
        <5>1. Holders(k)' = Holders(k) \cup {w}  BY Zenon, <1>4, <2>1, <4>1 DEF Holders
        <5> QED  BY Zenon, <1>3, <3>3, <4>1, <5>1, FS_AddElement DEF InPiece
      <4>2. CASE k \notin Head(taskCh).from..Head(taskCh).to
        <5>1. Holders(k)' = Holders(k)  BY Zenon, <1>4, <2>1, <3>3, <4>2 DEF Holders
        <5> QED  BY <1>3, <4>2, <5>1 DEF InPiece
      <4> QED  BY Zenon, <4>1, <4>2
    <3>5. With(k, taskCh) + Cardinality(Holders(k)) = With(k, taskCh') + Cardinality(Holders(k)')
      BY <1>3, <3>1, <3>2, <3>4
    <3>6. With(k, taskCh') \in Nat /\ Cardinality(Holders(k)') \in Int
      BY <1>3, <3>2, <3>4
    <3>7. Total(k)' = With(k, tasks) + With(k, taskCh') + With(k, resultCh) + With(k, handled)
                        + Cardinality(Holders(k)')
      BY Zenon, <1>1, <2>1 DEF Total
    <3>8. Total(k) = With(k, tasks) + With(k, taskCh) + With(k, resultCh) + With(k, handled)
                        + Cardinality(Holders(k))
      BY Zenon DEF Total
    <3> QED  BY <1>3, <3>5, <3>6, <3>7, <3>8
  <2> QED  BY Zenon, <1>1, <2>3, <2>4, <2>5, KeysKept
<1>6. CASE SendResult(w)
  <2>1. /\ worker[w] = "send" /\ resultCh' = Append(resultCh, holds[w]) /\ taskCh' = taskCh
        /\ worker' = [worker EXCEPT ![w] = "idle"] /\ holds' = [holds EXCEPT ![w] = NoChunk]
    BY Zenon, <1>6 DEF SendResult
  <2>2. holds[w] \in Piece /\ resultCh \in Seq(Piece) /\ generator # "chunking"
    BY Zenon, <1>0, <1>4, <2>1 DEF SnapTypes
  <2>3. resultCh' \in Seq(Piece)  BY Zenon, <2>1, <2>2, SeqAppend
  <2>4. SnapTypes'
    <3>1. IsFiniteSet({u \in SnapWorkers : worker'[u] = "send"})
      <4>1. {u \in SnapWorkers : worker'[u] = "send"} = busy \ {w}  BY Zenon, <1>4, <2>1
      <4> HIDE DEF busy
      <4>2. IsFiniteSet(busy)  BY Zenon, <1>4
      <4>3. IsFiniteSet(busy \ {w})  BY Zenon, <4>2, FS_RemoveElement
      <4> QED  BY Zenon, <4>1, <4>3
    <3>2. worker' \in [SnapWorkers -> {"idle", "send", "gone"}] /\ holds' \in [SnapWorkers -> Piece]
      BY Zenon, <1>4, <2>1
    <3>3. \A u \in SnapWorkers : worker'[u] # "send" => holds'[u] = NoChunk
      BY Zenon, <1>0, <1>4, <2>1 DEF SnapTypes
    <3> QED  BY Zenon, <1>0, <1>1, <2>1, <2>2, <2>3, <3>1, <3>2, <3>3 DEF SnapTypes
  <2>5. ASSUME NEW k \in minKey..maxKey
        PROVE  Total(k)' = Total(k)
    <3>1. With(k, resultCh') = With(k, resultCh) + InPiece(k, holds[w])
      BY Zenon, <2>1, <2>2, WithMoves
    <3>2. InPiece(k, holds[w]) \in {0, 1}
      BY Zenon, <2>2, WithOne
    <3>3. k \notin NoChunk.from..NoChunk.to  BY Zenon, <1>0, <1>2, HoldersAre
    <3>4. Cardinality(Holders(k)) = Cardinality(Holders(k)') + InPiece(k, holds[w])
          /\ Cardinality(Holders(k)') \in Int
      <4>0. Holders(k)' = Holders(k) \ {w}  BY Zenon, <1>4, <2>1, <3>3 DEF Holders
      <4>1. CASE k \in holds[w].from..holds[w].to
        <5>1. w \in Holders(k)  BY Zenon, <4>1 DEF Holders
        <5>2. Cardinality(Holders(k) \ {w}) = Cardinality(Holders(k)) - 1
          BY Zenon, <1>3, <5>1, FS_RemoveElement
        <5>3. InPiece(k, holds[w]) = 1  BY Zenon, <4>1 DEF InPiece
        <5> QED  BY <1>3, <4>0, <5>2, <5>3
      <4>2. CASE k \notin holds[w].from..holds[w].to
        <5>1. w \notin Holders(k)  BY Zenon, <4>2 DEF Holders
        <5>2. Holders(k)' = Holders(k)  BY Zenon, <4>0, <5>1
        <5>3. InPiece(k, holds[w]) = 0  BY Zenon, <4>2 DEF InPiece
        <5> QED  BY <1>3, <5>2, <5>3
      <4> QED  BY Zenon, <4>1, <4>2
    <3> QED  BY <1>1, <1>3, <2>1, <3>1, <3>2, <3>4 DEF Total
  <2> QED  BY Zenon, <1>1, <2>2, <2>4, <2>5, KeysKept
<1>7. CASE WorkerEnds(w)
  <2>1. /\ worker[w] = "idle" /\ worker' = [worker EXCEPT ![w] = "gone"]
        /\ UNCHANGED <<holds, taskCh, resultCh>>
    BY Zenon, <1>7 DEF WorkerEnds, snapQueues
  <2>2. SnapTypes'
    <3>1. {u \in SnapWorkers : worker'[u] = "send"} = busy  BY Zenon, <1>4, <2>1
    <3>2. worker' \in [SnapWorkers -> {"idle", "send", "gone"}]  BY Zenon, <1>4, <2>1
    <3>3. \A u \in SnapWorkers : worker'[u] # "send" => holds'[u] = NoChunk
      BY Zenon, <1>0, <1>4, <2>1 DEF SnapTypes
    <3>4. (\A u \in SnapWorkers : worker[u] # "send") => \A u \in SnapWorkers : worker'[u] # "send"
      BY Zenon, <1>4, <2>1
    <3> QED  BY Zenon, <1>0, <1>1, <1>4, <2>1, <3>1, <3>2, <3>3, <3>4 DEF SnapTypes
  <2>3. CutsInv' /\ KeysInv'
    BY Zenon, <1>1, <2>1 DEF SnapIInv, CutsInv, KeysInv, Overruns, Total, Holders
  <2> QED  BY Zenon, <2>2, <2>3 DEF SnapIInv
<1> QED  BY Zenon, <1>5, <1>6, <1>7

\* Before the table is cut no key is in a chunk, and the loop starts at the
\* first key.
LEMMA SnapInvInit ==
  SnapInit => SnapIInv
<1> SUFFICES ASSUME SnapInit PROVE SnapIInv
  BY Zenon
<1>1. NoChunk \in Piece /\ <<>> \in Seq(Piece)
  BY DEF NoChunk, Piece
<1>2. minKey \in KeyInts /\ maxKey \in minKey..MaxInt /\ start = minKey /\ minKey \in Int
      /\ generator = "chunking" /\ tasks = <<>> /\ minKey <= MaxInt
  BY SnapConstants DEF SnapInit, KeyInts
<1>3. SnapTypes
  <2>1. IsFiniteSet({w \in SnapWorkers : worker[w] = "send"})
    <3>1. {w \in SnapWorkers : worker[w] = "send"} = {}  BY Zenon DEF SnapInit
    <3> QED  BY Zenon, <3>1, FS_EmptySet
  <2> QED  BY Zenon, <1>1, <1>2, <2>1 DEF SnapInit, SnapTypes
<1>4. CutsInv
  <2>1. start = minKey + ChunkSize * Len(tasks)  BY <1>2, SnapConstants
  <2>2. \A k \in minKey..maxKey : With(k, tasks) = 0 /\ ~(k < start)
    <3> TAKE k \in minKey..maxKey
    <3>1. With(k, <<>>) = 0  BY Zenon, <1>1, WithOne
    <3>2. ~(k < minKey)  BY <1>2
    <3> QED  BY Zenon, <1>2, <3>1, <3>2
  <2> QED  BY Zenon, <1>2, <2>1, <2>2 DEF CutsInv
<1>5. KeysInv
  BY Zenon, <1>2 DEF KeysInv
<1> QED  BY Zenon, <1>3, <1>4, <1>5 DEF SnapIInv

\* Cutting the table, queueing, reading and collecting the chunks keep the
\* invariant.
LEMMA SnapInvHolds ==
  SnapSpec => []SnapIInv
<1>1. SnapInit => SnapIInv
  BY Zenon, SnapInvInit
<1>2. SnapIInv /\ [SnapNext]_snapVars => SnapIInv'
  <2> SUFFICES ASSUME SnapIInv, [SnapNext]_snapVars PROVE SnapIInv'
    BY Zenon
  <2>1. CASE HandlerEnds \/ StopCoordinator \/ StopCoordinatorReturns \/ UNCHANGED snapVars
    <3>1. /\ UNCHANGED <<minKey, maxKey, chunkable, generator, start, worker, holds, snapQueues>>
          /\ ~snapDone' => ~snapDone
      BY <2>1 DEF HandlerEnds, StopCoordinator, StopCoordinatorReturns, snapVars
    <3>2. UNCHANGED <<tasks, taskCh, resultCh, handled>>  BY Zenon, <3>1 DEF snapQueues
    <3> QED  BY <3>1, <3>2 DEF SnapIInv, SnapTypes, CutsInv, KeysInv, Overruns, Total, Holders
  <2> QED  BY Zenon, <2>1, CutChunkInv, ChunksCutInv, QueuesInv, WorkersInv DEF SnapNext, WorkerStep
<1> QED  BY <1>1, <1>2, PTL DEF SnapSpec

\* Once the table is cut every key is in exactly one chunk that is queued, held by a worker
\* or answered, for every chunk size, key range and number of workers, until Stop cancels,
\* unless the loop overflows the integer (snapshot_coordinator.go generateTableTasks,
\* generateTasks, Run).
THEOREM KeysSafe ==
  SnapSpec => []EveryKeyInOneChunk
BY SnapInvHolds, KeysNow, PTL

-----------------------------------------------------------------------------

\* The workers with a result to send, and the chunks that are anywhere.
Busy == {w \in SnapWorkers : worker[w] = "send"}

Pieces == Len(tasks) + Len(taskCh) + Len(resultCh) + Len(handled) + Cardinality(Busy)

\* No chunk is there twice, whether the context is cancelled or not.
BacklogInv == ~(chunkable /\ Overruns) => Pieces <= Chunks

\* The chunks anywhere are counted by naturals.
LEMMA PiecesAre ==
  ASSUME SnapTypes
  PROVE  /\ Len(tasks) \in Nat /\ Len(taskCh) \in Nat /\ Len(resultCh) \in Nat /\ Len(handled) \in Nat
         /\ IsFiniteSet(Busy) /\ Cardinality(Busy) \in Nat
         /\ Chunks \in Nat
         /\ generator = "chunking" => Pieces = Len(tasks) /\ Busy = {}
<1>1. /\ Len(tasks) \in Nat /\ Len(taskCh) \in Nat /\ Len(resultCh) \in Nat /\ Len(handled) \in Nat
  BY Zenon, QueueFacts DEF SnapTypes
<1>2. IsFiniteSet(Busy) /\ Cardinality(Busy) \in Nat
  <2>1. IsFiniteSet(Busy)  BY Zenon DEF SnapTypes, Busy
  <2> QED  BY Zenon, <2>1, FS_CardinalityType
<1>3. Chunks \in Nat
  <2>1. PICK d \in Nat, c \in Nat \ {0} : d = maxKey - minKey /\ c = ChunkSize
    BY SnapConstants DEF SnapTypes, KeyInts
  <2>2. d \div c + 1 \in Nat  OBVIOUS
  <2>3. Chunks = IF chunkable THEN d \div c + 1 ELSE 1
    BY Zenon, <2>1 DEF Chunks
  <2> QED  BY <2>2, <2>3
<1>4. ASSUME generator = "chunking"
      PROVE  Pieces = Len(tasks) /\ Busy = {}
  <2>1. taskCh = <<>> /\ resultCh = <<>> /\ handled = <<>> /\ Busy = {}
    BY Zenon, <1>4 DEF SnapTypes, Busy
  <2>2. Len(<<>>) = 0 /\ Cardinality({}) = 0  BY FS_EmptySet
  <2> QED  BY <1>1, <2>1, <2>2 DEF Pieces
<1> QED  BY Zenon, <1>1, <1>2, <1>3, <1>4

\* The loop over the keys cuts no more chunks than the table has.
LEMMA CutBacklog ==
  ASSUME SnapIInv, SnapIInv', BacklogInv, CutChunk \/ ChunksCut
  PROVE  BacklogInv'
<1> SUFFICES ASSUME ~(chunkable /\ Overruns)'
             PROVE  Pieces' <= Chunks'
  BY Zenon DEF BacklogInv
<1>0. SnapTypes /\ SnapTypes' /\ CutsInv  BY Zenon DEF SnapIInv
<1>1. /\ generator = "chunking"
      /\ UNCHANGED <<minKey, maxKey, chunkable, taskCh, worker, resultCh, handled>>
  BY Zenon DEF CutChunk, ChunksCut
<1>2. ~(chunkable /\ Overruns) /\ Chunks' = Chunks /\ Pieces <= Chunks
  BY Zenon, <1>1 DEF Overruns, Chunks, BacklogInv
<1>3. /\ Len(tasks) \in Nat /\ Pieces = Len(tasks)
      /\ taskCh = <<>> /\ resultCh = <<>> /\ handled = <<>> /\ Busy = {}
  BY Zenon, <1>0, <1>1, PiecesAre DEF SnapTypes
<1>4. Len(tasks') \in Nat /\ Pieces' = Len(tasks')
  <2>1. taskCh' = <<>> /\ resultCh' = <<>> /\ handled' = <<>> /\ Busy' = {}
    BY Zenon, <1>1, <1>3 DEF Busy
  <2>2. Len(<<>>) = 0 /\ Cardinality({}) = 0  BY FS_EmptySet
  <2>3. Len(tasks') \in Nat  BY Zenon, <1>0, PiecesAre, QueueFacts DEF SnapTypes
  <2> QED  BY <2>1, <2>2, <2>3 DEF Pieces
<1>5. CASE CutChunk
  <2>1. /\ chunkable /\ start <= maxKey /\ start = minKey + ChunkSize * Len(tasks)
        /\ Len(tasks') = Len(tasks) + 1
    <3>1. chunkable /\ start <= maxKey /\ \E c : tasks' = Append(tasks, c)
      BY Zenon, <1>5 DEF CutChunk
    <3>2. tasks \in Seq(Piece)  BY Zenon, <1>0 DEF SnapTypes
    <3>3. Len(tasks') = Len(tasks) + 1  BY <3>1, <3>2
    <3> QED  BY Zenon, <1>0, <1>1, <1>2, <3>1, <3>3 DEF CutsInv
  <2>2. PICK d \in Nat, c \in Nat \ {0}, j \in Nat :
          d = maxKey - minKey /\ c = ChunkSize /\ j = Len(tasks) /\ c * j <= d
    <3>1. minKey \in Int /\ maxKey \in Int /\ minKey <= maxKey /\ ChunkSize \in Nat \ {0}
      BY <1>0, SnapConstants DEF SnapTypes, KeyInts
    <3>2. ChunkSize * Len(tasks) \in Nat  BY <1>3, <3>1
    <3>3. maxKey - minKey \in Nat /\ ChunkSize * Len(tasks) <= maxKey - minKey
      BY <2>1, <3>1, <3>2
    <3> QED  BY Zenon, <1>3, <3>1, <3>3
  <2>3. j <= d \div c /\ d \div c \in Int  BY <2>2
  <2>4. Chunks = d \div c + 1  BY Zenon, <2>1, <2>2 DEF Chunks
  <2> QED  BY <1>2, <1>4, <2>1, <2>2, <2>3, <2>4
<1>6. CASE ChunksCut
  <2>1. CASE chunkable
    BY Zenon, <1>2, <1>3, <1>4, <1>6, <2>1 DEF ChunksCut
  <2>2. CASE ~chunkable
    <3>1. \E c : tasks' = <<c>>  BY Zenon, <1>6, <2>2 DEF ChunksCut
    <3>2. Len(tasks') = 1  BY <3>1
    <3>3. Chunks = 1  BY Zenon, <2>2 DEF Chunks
    <3> QED  BY <1>2, <1>4, <3>2, <3>3
  <2> QED  BY Zenon, <2>1, <2>2
<1> QED  BY Zenon, <1>5, <1>6

\* A chunk that moves on is the same chunk, and a chunk that Stop leaves is gone.
LEMMA MoveBacklog ==
  ASSUME SnapIInv, BacklogInv,
         QueueTask \/ CloseTasks \/ HandleResult \/ \E w \in SnapWorkers : WorkerStep(w)
  PROVE  BacklogInv'
<1>0. SnapTypes  BY Zenon DEF SnapIInv
<1>1. /\ Len(tasks) \in Nat /\ Len(taskCh) \in Nat /\ Len(resultCh) \in Nat /\ Len(handled) \in Nat
      /\ IsFiniteSet(Busy) /\ Cardinality(Busy) \in Nat /\ Chunks \in Nat
  BY Zenon, <1>0, PiecesAre
<1>2. /\ tasks \in Seq(Piece) /\ taskCh \in Seq(Piece) /\ resultCh \in Seq(Piece) /\ handled \in Seq(Piece)
      /\ worker \in [SnapWorkers -> {"idle", "send", "gone"}] /\ holds \in [SnapWorkers -> Piece]
  BY Zenon, <1>0 DEF SnapTypes
<1>3. UNCHANGED <<minKey, maxKey, chunkable>>
  BY Zenon DEF QueueTask, CloseTasks, HandleResult, WorkerStep, TakeTask, SendResult, WorkerEnds
<1>4. (chunkable /\ Overruns)' = (chunkable /\ Overruns) /\ Chunks' = Chunks
  BY Zenon, <1>3 DEF Overruns, Chunks
<1>5. SUFFICES Pieces' \in Int /\ Pieces' <= Pieces
  <2>1. Pieces \in Nat  BY <1>1 DEF Pieces
  <2>2. ASSUME ~(chunkable /\ Overruns)'
        PROVE  Pieces' <= Chunks'
    <3>1. Pieces <= Chunks  BY Zenon, <1>4, <2>2 DEF BacklogInv
    <3> QED  BY <1>1, <1>4, <1>5, <2>1, <3>1
  <2> QED  BY Zenon, <2>2 DEF BacklogInv
<1>6. CASE QueueTask
  <2>1. /\ tasks # <<>> /\ tasks' = Tail(tasks) /\ taskCh' = Append(taskCh, Head(tasks))
        /\ UNCHANGED <<worker, resultCh, handled>>
    BY Zenon, <1>6 DEF QueueTask
  <2>2. Len(tasks') = Len(tasks) - 1 /\ Len(taskCh') = Len(taskCh) + 1
    BY Zenon, <1>2, <2>1, QueueFacts
  <2>3. Busy' = Busy  BY Zenon, <2>1 DEF Busy
  <2> QED  BY <1>1, <2>1, <2>2, <2>3 DEF Pieces
<1>7. CASE CloseTasks
  <2>1. tasks' = <<>> /\ UNCHANGED <<worker, taskCh, resultCh, handled>>
    BY Zenon, <1>7 DEF CloseTasks
  <2>2. Len(tasks') = 0  BY <2>1
  <2>3. Busy' = Busy  BY Zenon, <2>1 DEF Busy
  <2> QED  BY <1>1, <2>1, <2>2, <2>3 DEF Pieces
<1>8. CASE HandleResult
  <2>1. /\ resultCh # <<>> /\ resultCh' = Tail(resultCh) /\ handled' = Append(handled, Head(resultCh))
        /\ UNCHANGED <<worker, tasks, taskCh>>
    BY Zenon, <1>8 DEF HandleResult
  <2>2. Len(resultCh') = Len(resultCh) - 1 /\ Len(handled') = Len(handled) + 1
    BY Zenon, <1>2, <2>1, QueueFacts
  <2>3. Busy' = Busy  BY Zenon, <2>1 DEF Busy
  <2> QED  BY <1>1, <2>1, <2>2, <2>3 DEF Pieces
<1>9. ASSUME NEW w \in SnapWorkers, TakeTask(w)
      PROVE  Pieces' \in Int /\ Pieces' <= Pieces
  <2>1. /\ worker[w] = "idle" /\ worker' = [worker EXCEPT ![w] = "send"]
        /\ taskCh # <<>> /\ taskCh' = Tail(taskCh) /\ UNCHANGED <<tasks, resultCh, handled>>
    BY Zenon, <1>9 DEF TakeTask
  <2>2. Len(taskCh') = Len(taskCh) - 1
    BY Zenon, <1>2, <2>1, QueueFacts
  <2>3. Busy' = Busy \cup {w} /\ w \notin Busy
    BY Zenon, <1>2, <2>1 DEF Busy
  <2>4. Cardinality(Busy') = Cardinality(Busy) + 1
    BY Zenon, <1>1, <2>3, FS_AddElement
  <2> QED  BY <1>1, <2>1, <2>2, <2>4 DEF Pieces
<1>10. ASSUME NEW w \in SnapWorkers, SendResult(w)
       PROVE  Pieces' \in Int /\ Pieces' <= Pieces
  <2>1. /\ worker[w] = "send" /\ worker' = [worker EXCEPT ![w] = "idle"]
        /\ resultCh' = Append(resultCh, holds[w]) /\ UNCHANGED <<tasks, taskCh, handled>>
    BY Zenon, <1>10 DEF SendResult
  <2>2. Len(resultCh') = Len(resultCh) + 1
    BY Zenon, <1>2, <2>1, QueueFacts
  <2>3. Busy' = Busy \ {w} /\ w \in Busy
    BY Zenon, <1>2, <2>1 DEF Busy
  <2>4. Cardinality(Busy') = Cardinality(Busy) - 1
    BY Zenon, <1>1, <2>3, FS_RemoveElement
  <2> QED  BY <1>1, <2>1, <2>2, <2>4 DEF Pieces
<1>11. ASSUME NEW w \in SnapWorkers, WorkerEnds(w)
       PROVE  Pieces' \in Int /\ Pieces' <= Pieces
  <2>1. /\ worker[w] = "idle" /\ worker' = [worker EXCEPT ![w] = "gone"]
        /\ UNCHANGED <<tasks, taskCh, resultCh, handled>>
    BY Zenon, <1>11 DEF WorkerEnds, snapQueues
  <2>2. Busy' = Busy  BY Zenon, <1>2, <2>1 DEF Busy
  <2> QED  BY <1>1, <2>1, <2>2 DEF Pieces
<1> QED  BY Zenon, <1>6, <1>7, <1>8, <1>9, <1>10, <1>11 DEF WorkerStep

\* A worker is kept from sending its result only by a backlog of unanswered chunks that
\* is longer than the result channel, for every chunk size, key range, capacity and number
\* of workers: a Stop that finds no such backlog does not wait for ever on a send, unless
\* the loop overflows the integer (snapshot_coordinator.go Run, handleResults, Stop).
THEOREM BacklogSafe ==
  SnapSpec => []BlockedByBacklog
<1>1. SnapInit /\ SnapIInv => BacklogInv
  <2> SUFFICES ASSUME SnapInit, SnapIInv
               PROVE  Pieces <= Chunks
    BY Zenon DEF BacklogInv
  <2>1. Pieces = Len(tasks) /\ Chunks \in Nat /\ tasks = <<>>
    BY Zenon, PiecesAre DEF SnapIInv, SnapInit
  <2>2. Len(<<>>) = 0  OBVIOUS
  <2> QED  BY <2>1, <2>2
<1>2. SnapIInv /\ SnapIInv' /\ BacklogInv /\ [SnapNext]_snapVars => BacklogInv'
  <2> SUFFICES ASSUME SnapIInv, SnapIInv', BacklogInv, [SnapNext]_snapVars
               PROVE  BacklogInv'
    BY Zenon
  <2>1. CASE HandlerEnds \/ StopCoordinator \/ StopCoordinatorReturns \/ UNCHANGED snapVars
    <3>1. UNCHANGED <<minKey, maxKey, chunkable, worker, snapQueues>>
      BY Zenon, <2>1 DEF HandlerEnds, StopCoordinator, StopCoordinatorReturns, snapVars
    <3>2. UNCHANGED <<tasks, taskCh, resultCh, handled>>  BY Zenon, <3>1 DEF snapQueues
    <3>3. Pieces' = Pieces /\ Chunks' = Chunks /\ (chunkable /\ Overruns)' = (chunkable /\ Overruns)
      BY Zenon, <3>1, <3>2 DEF Pieces, Busy, Chunks, Overruns
    <3> QED  BY Zenon, <3>3 DEF BacklogInv
  <2> QED  BY Zenon, <2>1, CutBacklog, MoveBacklog DEF SnapNext
<1>3. SnapIInv /\ BacklogInv => BlockedByBacklog
  <2> SUFFICES ASSUME SnapIInv, BacklogInv, NEW w \in SnapWorkers, worker[w] = "send",
                      Len(resultCh) = EventBufferSize, ~(chunkable /\ Overruns)
               PROVE  Chunks - Len(handled) > EventBufferSize
    BY Zenon DEF BlockedByBacklog
  <2>1. /\ Len(tasks) \in Nat /\ Len(taskCh) \in Nat /\ Len(resultCh) \in Nat /\ Len(handled) \in Nat
        /\ IsFiniteSet(Busy) /\ Cardinality(Busy) \in Nat /\ Chunks \in Nat
    BY Zenon, PiecesAre DEF SnapIInv
  <2>2. Cardinality(Busy) # 0
    <3>1. w \in Busy  BY Zenon DEF Busy
    <3> QED  BY Zenon, <2>1, <3>1, FS_EmptySet
  <2>3. Pieces <= Chunks  BY Zenon DEF BacklogInv
  <2> QED  BY <2>1, <2>2, <2>3 DEF Pieces
<1> QED  BY <1>1, <1>2, <1>3, SnapInvHolds, PTL DEF SnapSpec

-----------------------------------------------------------------------------

\* A sum that Go computes is an integer of its width, and so are the ends of no chunk.
LEMMA WrapTypes ==
  /\ \A n \in Int : Wrap(n) \in KeyInts
  /\ NoChunk \in Chunk
  /\ KeyInts \subseteq Int
<1>1. MaxInt \in Nat \ {0} /\ MinInt \in Int /\ MinInt = -MaxInt - 1
  BY SnapConstants DEF MinInt
<1>2. ASSUME NEW n \in Int
      PROVE  Wrap(n) \in KeyInts
  <2>1. PICK x \in Int, m \in Nat \ {0} : x = n - MinInt /\ m = 2 * MaxInt + 2
    BY <1>1
  <2>2. PICK y \in Int : y = x % m /\ 0 <= y /\ y < m
    OBVIOUS
  <2>3. Wrap(n) = y + MinInt
    BY Zenon, <2>1, <2>2 DEF Wrap
  <2> QED  BY <1>1, <2>1, <2>2, <2>3 DEF KeyInts
<1>3. 0 \in KeyInts /\ -1 \in KeyInts /\ KeyInts \subseteq Int
  BY <1>1 DEF KeyInts
<1> QED  BY Zenon, <1>2, <1>3 DEF NoChunk, Chunk

\* Cutting a chunk.
LEMMA CutTypes ==
  ASSUME SnapTypeOK, CutChunk \/ ChunksCut
  PROVE  SnapTypeOK'
<1>1. /\ tasks \in Seq(Chunk) /\ start \in KeyInts /\ minKey \in KeyInts /\ maxKey \in KeyInts
  BY Zenon DEF SnapTypeOK
<1>2. CASE CutChunk
  <2>1. PICK end, to : /\ end = Wrap(start + ChunkSize - 1)
                       /\ to = IF end > maxKey THEN maxKey ELSE end
    BY Zenon
  <2>2. start + ChunkSize \in Int /\ start + ChunkSize - 1 \in Int
    BY <1>1, SnapConstants, WrapTypes
  <2>3. Wrap(start + ChunkSize) \in KeyInts /\ to \in KeyInts
    BY Zenon, <1>1, <2>1, <2>2, WrapTypes
  <2>4. [from |-> start, to |-> to] \in Chunk
    BY Zenon, <1>1, <2>3 DEF Chunk
  <2>5. tasks' = Append(tasks, [from |-> start, to |-> to]) /\ start' = Wrap(start + ChunkSize)
    BY Zenon, <1>2, <2>1 DEF CutChunk
  <2>6. tasks' \in Seq(Chunk)
    BY Zenon, <1>1, <2>4, <2>5, QueueFacts
  <2> QED  BY Zenon, <1>2, <2>3, <2>5, <2>6 DEF CutChunk, SnapTypeOK
<1>3. CASE ChunksCut
  <2>1. [from |-> minKey, to |-> maxKey] \in Chunk
    BY Zenon, <1>1 DEF Chunk
  <2>2. \A c \in Chunk : <<c>> \in Seq(Chunk)
    OBVIOUS
  <2>3. tasks' \in Seq(Chunk)
    BY Zenon, <1>1, <1>3, <2>1, <2>2 DEF ChunksCut
  <2> QED  BY Zenon, <1>3, <2>3 DEF ChunksCut, SnapTypeOK
<1> QED  BY Zenon, <1>2, <1>3

\* Chunks that move to the next queue: a channel takes one only when it has room.
LEMMA MoveTypes ==
  ASSUME SnapTypeOK,
         QueueTask \/ CloseTasks \/ HandleResult \/ \E w \in SnapWorkers : WorkerStep(w)
  PROVE  SnapTypeOK'
<1>1. /\ tasks \in Seq(Chunk) /\ taskCh \in Seq(Chunk) /\ resultCh \in Seq(Chunk)
      /\ handled \in Seq(Chunk) /\ Len(taskCh) <= TaskQueueSize /\ Len(resultCh) <= EventBufferSize
      /\ completed \in 0..Len(handled)
      /\ holds \in [SnapWorkers -> Chunk]
      /\ TaskQueueSize \in Nat /\ EventBufferSize \in Nat
  BY Zenon, SnapBounds DEF SnapTypeOK
<1>2. /\ Len(tasks) \in Nat /\ Len(taskCh) \in Nat /\ Len(resultCh) \in Nat /\ Len(handled) \in Nat
  BY Zenon, <1>1, QueueFacts
<1>3. CASE QueueTask
  <2>1. taskCh' \in Seq(Chunk) /\ tasks' \in Seq(Chunk) /\ Len(taskCh') = Len(taskCh) + 1
    BY Zenon, <1>1, <1>3, QueueFacts DEF QueueTask
  <2>2. Len(taskCh') <= TaskQueueSize
    BY <1>1, <1>2, <1>3, <2>1 DEF QueueTask
  <2> QED  BY Zenon, <1>3, <2>1, <2>2 DEF QueueTask, SnapTypeOK
<1>4. CASE CloseTasks
  <2>1. <<>> \in Seq(Chunk)
    OBVIOUS
  <2> QED  BY Zenon, <1>4, <2>1 DEF CloseTasks, SnapTypeOK
<1>5. CASE HandleResult
  <2>1. /\ resultCh' \in Seq(Chunk) /\ handled' \in Seq(Chunk) /\ Len(handled') = Len(handled) + 1
        /\ Len(resultCh') = Len(resultCh) - 1
    BY Zenon, <1>1, <1>5, QueueFacts DEF HandleResult
  <2>2. Len(resultCh') <= EventBufferSize
    BY <1>1, <1>2, <2>1
  <2>3. completed' = completed \/ completed' = completed + 1
    BY Zenon, <1>5 DEF HandleResult
  <2>4. completed' \in 0..Len(handled')
    BY <1>1, <1>2, <2>1, <2>3
  <2> QED  BY Zenon, <1>5, <2>1, <2>2, <2>4 DEF HandleResult, SnapTypeOK
<1>6. ASSUME NEW w \in SnapWorkers, TakeTask(w)
      PROVE  SnapTypeOK'
  <2>1. Head(taskCh) \in Chunk /\ taskCh' \in Seq(Chunk) /\ Len(taskCh') = Len(taskCh) - 1
    BY Zenon, <1>1, <1>6, QueueFacts DEF TakeTask
  <2>2. Len(taskCh') <= TaskQueueSize
    BY <1>1, <1>2, <2>1
  <2>3. /\ worker' \in [SnapWorkers -> {"idle", "send", "gone"}] /\ holds' \in [SnapWorkers -> Chunk]
        /\ \A v \in SnapWorkers : worker'[v] # "send" => holds'[v] = NoChunk
    BY Zenon, <1>6, <2>1 DEF TakeTask, SnapTypeOK
  <2> QED  BY Zenon, <1>6, <2>1, <2>2, <2>3 DEF TakeTask, SnapTypeOK
<1>7. ASSUME NEW w \in SnapWorkers, SendResult(w)
      PROVE  SnapTypeOK'
  <2>1. resultCh' \in Seq(Chunk) /\ Len(resultCh') = Len(resultCh) + 1
    BY Zenon, <1>1, <1>7, QueueFacts DEF SendResult
  <2>2. Len(resultCh') <= EventBufferSize
    BY <1>1, <1>2, <1>7, <2>1 DEF SendResult
  <2>3. /\ worker' \in [SnapWorkers -> {"idle", "send", "gone"}] /\ holds' \in [SnapWorkers -> Chunk]
        /\ \A v \in SnapWorkers : worker'[v] # "send" => holds'[v] = NoChunk
    BY Zenon, <1>7, WrapTypes DEF SendResult, SnapTypeOK
  <2> QED  BY Zenon, <1>7, <2>1, <2>2, <2>3 DEF SendResult, SnapTypeOK
<1>8. ASSUME NEW w \in SnapWorkers, WorkerEnds(w)
      PROVE  SnapTypeOK'
  BY Zenon, <1>8 DEF WorkerEnds, SnapTypeOK, snapQueues
<1> QED  BY Zenon, <1>3, <1>4, <1>5, <1>6, <1>7, <1>8 DEF WorkerStep

\* The types and bounds of the snapshot coordinator hold in every state, for any number of
\* workers and any key range: no channel holds more than its capacity, only a worker with
\* a result to send has a chunk, the ends of every chunk are integers of Go's width, and no
\* more chunks are counted as completed than results were taken (snapshot_coordinator.go).
THEOREM SnapTypesHold == SnapSpec => []SnapTypeOK
<1>1. SnapInit => SnapTypeOK
  <2> SUFFICES ASSUME SnapInit
               PROVE  SnapTypeOK
    BY Zenon
  <2>1. maxKey \in KeyInts
    BY WrapTypes, SnapConstants DEF SnapInit, KeyInts
  <2>2. /\ <<>> \in Seq(Chunk) /\ Len(<<>>) <= TaskQueueSize /\ Len(<<>>) <= EventBufferSize
        /\ 0 \in 0..Len(<<>>)
    BY SnapBounds
  <2> QED  BY Zenon, <2>1, <2>2, WrapTypes DEF SnapInit, SnapTypeOK
<1>2. SnapTypeOK /\ [SnapNext]_snapVars => SnapTypeOK'
  <2> SUFFICES ASSUME SnapTypeOK, [SnapNext]_snapVars
               PROVE  SnapTypeOK'
    BY Zenon
  <2>1. CASE UNCHANGED snapVars
    BY Zenon, <2>1 DEF SnapTypeOK, snapVars, snapQueues
  <2>2. CASE HandlerEnds \/ StopCoordinator \/ StopCoordinatorReturns
    BY Zenon, <2>2 DEF HandlerEnds, StopCoordinator, StopCoordinatorReturns, SnapTypeOK, snapQueues
  <2> QED  BY Zenon, <2>1, <2>2, CutTypes, MoveTypes DEF SnapNext
<1> QED  BY <1>1, <1>2, PTL DEF SnapSpec

-----------------------------------------------------------------------------

(***************************************************************************)
(* The circuit breaker and the backpressure controller (FlowControl).      *)
(*                                                                         *)
(* HalfOpenProbes is not inductive: the breaker counts reports, not        *)
(* probes. ProbeInv adds what ties the two: as long as no earlier call has *)
(* reported in the half-open period, the count is that of the probes that  *)
(* succeeded, and the flag is up while a probe is out.                     *)
(***************************************************************************)

BreakerType ==
  /\ breaker \in {"closed", "open", "half-open"}
  /\ failed \in Nat /\ succeeded \in Nat /\ probesOK \in Nat
  /\ inFlight \in [Guarded -> {"no", "probe", "other"}]

ProbeInv ==
  breaker = "half-open" /\ ~straggled =>
    /\ succeeded = probesOK
    /\ \A c \in Guarded : inFlight[c] = "probe" => probing
    /\ \A c, d \in Guarded : inFlight[c] = "probe" /\ inFlight[d] = "probe" => c = d

-----------------------------------------------------------------------------

\* A step of the breaker keeps the types.
LEMMA BreakerTypes ==
  ASSUME BreakerType, [BreakerNext]_flowVars
  PROVE  BreakerType'
<1> USE DEF BreakerType
<1>1. CASE UNCHANGED flowVars
  BY Zenon, <1>1 DEF flowVars, breakerVars
<1>2. ASSUME NEW c \in Guarded, Allow(c)
      PROVE  BreakerType'
  BY <1>2 DEF Allow, AllowInHalfOpen
<1>3. ASSUME NEW c \in Guarded, RecordSuccess(c)
      PROVE  BreakerType'
  BY <1>3 DEF RecordSuccess, Reports
<1>4. ASSUME NEW c \in Guarded, RecordFailure(c)
      PROVE  BreakerType'
  BY <1>4 DEF RecordFailure, Reports
<1>5. CASE CoolsDown
  BY Zenon, <1>5 DEF CoolsDown
<1> QED  BY Zenon, <1>1, <1>2, <1>3, <1>4, <1>5 DEF BreakerNext

\* A step of the breaker keeps its count and its flag in line with the probes.
LEMMA BreakerProbes ==
  ASSUME BreakerType, ProbeInv, [BreakerNext]_flowVars
  PROVE  ProbeInv'
<1> USE DEF BreakerType, ProbeInv
<1>1. CASE UNCHANGED flowVars
  BY Zenon, <1>1 DEF flowVars, breakerVars
<1>2. ASSUME NEW c \in Guarded, Allow(c)
      PROVE  ProbeInv'
  BY <1>2 DEF Allow, AllowInHalfOpen
<1>3. ASSUME NEW c \in Guarded, RecordSuccess(c)
      PROVE  ProbeInv'
  BY Zenon, <1>3 DEF RecordSuccess, Reports
<1>4. ASSUME NEW c \in Guarded, RecordFailure(c)
      PROVE  ProbeInv'
  BY Zenon, <1>4 DEF RecordFailure, Reports
<1>5. CASE CoolsDown
  BY Zenon, <1>5 DEF CoolsDown
<1> QED  BY Zenon, <1>1, <1>2, <1>3, <1>4, <1>5 DEF BreakerNext

\* A set in which any two elements are equal has at most one.
LEMMA AtMostOne ==
  ASSUME NEW S, \A c, d \in S : c = d
  PROVE  Cardinality(S) <= 1
<1>1. CASE S = {}
  BY <1>1, FS_EmptySet
<1>2. CASE S # {}
  <2>1. PICK c : c \in S
    BY Zenon, <1>2
  <2>2. S = {c}
    BY Zenon, <2>1
  <2>3. Cardinality({c}) = 1
    BY Zenon, FS_Singleton
  <2> QED  BY <2>2, <2>3
<1> QED  BY Zenon, <1>1, <1>2

\* In a half-open breaker probes go out one at a time, and it closes after
\* SuccessThreshold of them succeeded, unless a call admitted earlier reported in
\* that period: Allow, RecordSuccess and RecordFailure under every order of calls
\* and results.
THEOREM BreakerSafe == BreakerSpec => HalfOpenProbes
<1>1. FlowInit => BreakerType /\ ProbeInv
  BY DEF FlowInit, BreakerType, ProbeInv
<1>2. BreakerType /\ ProbeInv /\ [BreakerNext]_flowVars => BreakerType' /\ ProbeInv'
  BY Zenon, BreakerTypes, BreakerProbes
<1> DEFINE Probes == {c \in Guarded : inFlight[c] = "probe"}
           Fine == breaker = "half-open" =>
                     \/ straggled'
                     \/ /\ Cardinality(Probes) <= 1
                        /\ breaker' = "closed" => probesOK' >= SuccessThreshold
<1>3. BreakerType /\ ProbeInv /\ [BreakerNext]_flowVars => [Fine]_flowVars
  <2> SUFFICES ASSUME BreakerType, ProbeInv, BreakerNext, breaker = "half-open", ~straggled'
               PROVE  /\ Cardinality(Probes) <= 1
                      /\ breaker' = "closed" => probesOK' >= SuccessThreshold
    BY Zenon
  <2>1. ~straggled
    BY Zenon DEF BreakerNext, Allow, AllowInHalfOpen, RecordSuccess, RecordFailure, Reports,
       CoolsDown,
           BreakerType
  <2>2. Cardinality(Probes) <= 1
    BY Zenon, <2>1, AtMostOne DEF ProbeInv
  <2>3. ASSUME breaker' = "closed"
        PROVE  probesOK' >= SuccessThreshold
    <3>1. PICK c \in Guarded : RecordSuccess(c)
      BY Zenon, <2>3 DEF BreakerNext, Allow, AllowInHalfOpen, RecordFailure, CoolsDown
    <3>2. inFlight[c] = "probe"
      BY Zenon, <3>1 DEF RecordSuccess, Reports, BreakerType
    <3> QED  BY Zenon, <2>1, <2>3, <3>1, <3>2, FlowBounds DEF RecordSuccess, ProbeInv, BreakerType
  <2> QED  BY Zenon, <2>2, <2>3
<1> QED  BY <1>1, <1>2, <1>3, PTL DEF BreakerSpec, HalfOpenProbes

-----------------------------------------------------------------------------

PressureType ==
  /\ pressure \in {"normal", "warning", "paused"}
  /\ waiting \in [Waiters -> {"no", "resume", "paused", "cancelled"}]
  /\ unserved \subseteq Waiters

\* A token that is there while the controller is paused is from before the pause.
TokenInv == pressure = "paused" /\ token => staleToken

\* A step of the controller keeps the types.
LEMMA PressureTypes ==
  ASSUME PressureType, [PressureNext]_flowVars
  PROVE  PressureType'
<1> USE DEF PressureType
<1>1. CASE UNCHANGED flowVars
  BY Zenon, <1>1 DEF flowVars, pressureVars
<1>2. CASE UpdateMetrics
  BY Zenon, <1>2 DEF UpdateMetrics
<1>3. CASE Check
  BY Zenon, <1>3 DEF Check
<1>4. ASSUME NEW w \in Waiters, NEW how \in {"resume", "paused"}, BeginWait(w, how)
      PROVE  PressureType'
  BY Zenon, <1>4 DEF BeginWait
<1>5. ASSUME NEW w \in Waiters, TakeToken(w)
      PROVE  PressureType'
  BY Zenon, <1>5 DEF TakeToken
<1>6. ASSUME NEW w \in Waiters, LookAgain(w)
      PROVE  PressureType'
  BY Zenon, <1>6 DEF LookAgain
<1>7. ASSUME NEW w \in Waiters, CancelWait(w)
      PROVE  PressureType'
  BY Zenon, <1>7 DEF CancelWait
<1>8. CASE TakePause
  BY Zenon, <1>8 DEF TakePause
<1> QED  BY Zenon, <1>1, <1>2, <1>3, <1>4, <1>5, <1>6, <1>7, <1>8 DEF PressureNext

\* A step of the controller keeps both: a token left behind is marked when the
\* next pause begins, and a resume leaves a token for those who wait.
LEMMA PressureTokens ==
  ASSUME PressureType, TokenInv, ResumeReachesReader, [PressureNext]_flowVars
  PROVE  TokenInv' /\ ResumeReachesReader'
<1> USE DEF PressureType, TokenInv, ResumeReachesReader
<1>1. CASE UNCHANGED flowVars
  BY Zenon, <1>1 DEF flowVars, pressureVars
<1>2. CASE UpdateMetrics
  BY Zenon, <1>2 DEF UpdateMetrics
<1>3. CASE Check
  <2>1. CASE pressure = "paused"
    BY Zenon, <1>3, <2>1 DEF Check
  <2>2. CASE pressure # "paused"
    <3>1. /\ staleToken' = (token /\ (staleToken \/ pressure' = "paused"))
          /\ token' = token /\ UNCHANGED <<waiting, unserved>>
      BY <1>3, <2>2, Zenon DEF Check
    <3>2. TokenInv'
      BY <3>1, Zenon DEF TokenInv
    <3>3. ResumeReachesReader'
      BY Zenon, <2>2, <3>1 DEF ResumeReachesReader
    <3> QED  BY Zenon, <3>2, <3>3
  <2> QED  BY Zenon, <2>1, <2>2
<1>4. ASSUME NEW w \in Waiters, NEW how \in {"resume", "paused"}, BeginWait(w, how)
      PROVE  TokenInv' /\ ResumeReachesReader'
  BY Zenon, <1>4 DEF BeginWait
<1>5. ASSUME NEW w \in Waiters, TakeToken(w)
      PROVE  TokenInv' /\ ResumeReachesReader'
  BY Zenon, <1>5 DEF TakeToken
<1>6. ASSUME NEW w \in Waiters, LookAgain(w)
      PROVE  TokenInv' /\ ResumeReachesReader'
  BY Zenon, <1>6 DEF LookAgain
<1>7. ASSUME NEW w \in Waiters, CancelWait(w)
      PROVE  TokenInv' /\ ResumeReachesReader'
  BY Zenon, <1>7 DEF CancelWait
<1>8. CASE TakePause
  BY Zenon, <1>8 DEF TakePause
<1> QED  BY Zenon, <1>1, <1>2, <1>3, <1>4, <1>5, <1>6, <1>7, <1>8 DEF PressureNext

\* The controller's invariant.
LEMMA PressureInvariant == PressureSpec => [](PressureType /\ TokenInv /\ ResumeReachesReader)
<1>1. FlowInit => PressureType /\ TokenInv /\ ResumeReachesReader
  BY Zenon DEF FlowInit, PressureType, TokenInv, ResumeReachesReader
<1>2. PressureType /\ TokenInv /\ ResumeReachesReader /\ [PressureNext]_flowVars
        => (PressureType /\ TokenInv /\ ResumeReachesReader)'
  BY Zenon, PressureTypes, PressureTokens
<1> QED  BY <1>1, <1>2, PTL DEF PressureSpec

\* A resume reaches every reader that waits for it, unless another reader took the
\* token or it began to wait after the resume (notifyResume, WaitForResume).
THEOREM ResumeSafe == PressureSpec => []ResumeReachesReader
<1> QED  BY PressureInvariant, PTL

\* No reader is let go while the controller is paused, unless by a token of an
\* earlier resume (WaitForResume, WaitWhilePaused).
THEOREM LetGoSafe == PressureSpec => LetGoWhenRunning
<1> DEFINE Fine == \A w \in Waiters :
       waiting[w] \in {"resume", "paused"} /\ waiting'[w] = "no" =>
         pressure # "paused" \/ staleToken
<1>1. PressureType /\ TokenInv /\ [PressureNext]_flowVars => [Fine]_flowVars
  <2> SUFFICES ASSUME PressureType, TokenInv, PressureNext, NEW w \in Waiters,
                      waiting[w] \in {"resume", "paused"}, waiting'[w] = "no"
               PROVE  pressure # "paused" \/ staleToken
    BY Zenon
  <2>1. TakeToken(w) \/ LookAgain(w)
    BY Zenon DEF PressureNext, UpdateMetrics, Check, TakePause, BeginWait, TakeToken, LookAgain,
           CancelWait, PressureType
  <2> QED  BY Zenon, <2>1 DEF TakeToken, LookAgain, TokenInv
<1> QED  BY <1>1, PressureInvariant, PTL DEF PressureSpec, LetGoWhenRunning

\* The types, with what bounds the ghost: the breaker counts at least the probes.
FlowTypes ==
  /\ FlowTypeOK
  /\ breaker = "half-open" => probesOK <= succeeded

\* Every step of the breaker keeps them.
LEMMA BreakerKeepsTypes ==
  ASSUME FlowTypes, BreakerNext
  PROVE  FlowTypes'
<1>0. /\ FailureThreshold \in Nat \ {0} /\ SuccessThreshold \in Nat \ {0} /\ MaxFailed \in Nat \ {0}
      /\ failed \in Nat /\ succeeded \in Nat /\ probesOK \in Nat
      /\ failed <= MaxFailed /\ succeeded < SuccessThreshold /\ probesOK <= SuccessThreshold
      /\ breaker = "closed" => failed < FailureThreshold
      /\ breaker = "half-open" => probesOK <= succeeded
  BY FlowBounds DEF FlowTypes, FlowTypeOK
<1>1. /\ breaker \in {"closed", "open", "half-open"} /\ inFlight \in [Guarded -> {"no", "probe", "other"}]
      /\ probing \in BOOLEAN /\ cooled \in BOOLEAN /\ straggled \in BOOLEAN
  BY Zenon DEF FlowTypes, FlowTypeOK
<1>2. SUFFICES ASSUME /\ breaker' \in {"closed", "open", "half-open"}
                      /\ inFlight' \in [Guarded -> {"no", "probe", "other"}]
                      /\ probing' \in BOOLEAN /\ cooled' \in BOOLEAN /\ straggled' \in BOOLEAN
                      /\ UNCHANGED pressureVars
               PROVE  /\ failed' \in 0..MaxFailed /\ succeeded' \in 0..(SuccessThreshold - 1)
                      /\ probesOK' \in 0..SuccessThreshold
                      /\ breaker' = "closed" => failed' < FailureThreshold
                      /\ breaker' = "half-open" => probesOK' <= succeeded'
  <2>1. UNCHANGED pressureVars
    BY Zenon DEF BreakerNext, Allow, RecordSuccess, RecordFailure, Reports, CoolsDown
  <2>2. breaker' \in {"closed", "open", "half-open"}
    BY Zenon, <1>1 DEF BreakerNext, Allow, AllowInHalfOpen, RecordSuccess, RecordFailure, CoolsDown
  <2>3. inFlight' \in [Guarded -> {"no", "probe", "other"}]
    BY Zenon, <1>1 DEF BreakerNext, Allow, AllowInHalfOpen, RecordSuccess, RecordFailure, Reports, CoolsDown
  <2>4. probing' \in BOOLEAN /\ cooled' \in BOOLEAN /\ straggled' \in BOOLEAN
    BY Zenon, <1>1 DEF BreakerNext, Allow, AllowInHalfOpen, RecordSuccess, RecordFailure, Reports, CoolsDown
  <2> QED  BY Zenon, <2>1, <2>2, <2>3, <2>4 DEF FlowTypes, FlowTypeOK, pressureVars
<1>3. CASE CoolsDown
  BY <1>0, <1>3 DEF CoolsDown
<1>4. ASSUME NEW c \in Guarded, Allow(c)
      PROVE  /\ failed' = failed
             /\ \/ UNCHANGED <<breaker, succeeded, probesOK>>
                \/ breaker' = "half-open" /\ succeeded' = 0 /\ probesOK' = 0
  BY Zenon, <1>4 DEF Allow, AllowInHalfOpen
<1>5. ASSUME NEW c \in Guarded, RecordSuccess(c)
      PROVE  /\ failed' = 0
             /\ probesOK' = probesOK \/ (breaker = "half-open" /\ probesOK' = probesOK + 1)
             /\ \/ /\ breaker = "half-open" /\ succeeded + 1 >= SuccessThreshold
                   /\ breaker' = "closed" /\ succeeded' = 0
                \/ /\ breaker = "half-open" /\ ~(succeeded + 1 >= SuccessThreshold)
                   /\ breaker' = "half-open" /\ succeeded' = succeeded + 1
                \/ breaker # "half-open" /\ breaker' = breaker /\ succeeded' = succeeded
  BY Zenon, <1>5 DEF RecordSuccess
<1>6. ASSUME NEW c \in Guarded, RecordFailure(c)
      PROVE  /\ failed < MaxFailed /\ probesOK' = probesOK
             /\ \/ breaker' = "open" /\ failed' = 0 /\ succeeded' = 0
                \/ /\ breaker # "half-open" /\ failed' = failed + 1 /\ succeeded' = succeeded
                   /\ breaker' = "open" \/ (breaker' = breaker /\ ~(failed + 1 >= FailureThreshold))
  BY Zenon, <1>6 DEF RecordFailure
<1>7. ASSUME NEW c \in Guarded, Allow(c)
      PROVE  /\ failed' \in 0..MaxFailed /\ succeeded' \in 0..(SuccessThreshold - 1)
             /\ probesOK' \in 0..SuccessThreshold
             /\ breaker' = "closed" => failed' < FailureThreshold
             /\ breaker' = "half-open" => probesOK' <= succeeded'
  BY <1>0, <1>4, <1>7
<1>8. ASSUME NEW c \in Guarded, RecordSuccess(c)
      PROVE  /\ failed' \in 0..MaxFailed /\ succeeded' \in 0..(SuccessThreshold - 1)
             /\ probesOK' \in 0..SuccessThreshold
             /\ breaker' = "closed" => failed' < FailureThreshold
             /\ breaker' = "half-open" => probesOK' <= succeeded'
  BY <1>0, <1>5, <1>8
<1>9. ASSUME NEW c \in Guarded, RecordFailure(c)
      PROVE  /\ failed' \in 0..MaxFailed /\ succeeded' \in 0..(SuccessThreshold - 1)
             /\ probesOK' \in 0..SuccessThreshold
             /\ breaker' = "closed" => failed' < FailureThreshold
             /\ breaker' = "half-open" => probesOK' <= succeeded'
  BY <1>0, <1>1, <1>6, <1>9
<1> QED  BY Zenon, <1>3, <1>7, <1>8, <1>9 DEF BreakerNext

\* Every step of the controller and of its readers keeps them.
LEMMA PressureKeepsTypes ==
  ASSUME FlowTypes, PressureNext
  PROVE  FlowTypes'
<1>1. /\ pressure \in {"normal", "warning", "paused"} /\ usage \in 0..3
      /\ waiting \in [Waiters -> {"no", "resume", "paused", "cancelled"}] /\ unserved \subseteq Waiters
      /\ slow \in BOOLEAN /\ pauseToken \in BOOLEAN /\ token \in BOOLEAN /\ staleToken \in BOOLEAN
  BY Zenon DEF FlowTypes, FlowTypeOK
<1>2. UNCHANGED breakerVars
  BY Zenon DEF PressureNext, UpdateMetrics, Check, TakePause, BeginWait, TakeToken, LookAgain, CancelWait
<1>3. pressure' \in {"normal", "warning", "paused"} /\ usage' \in 0..3 /\ slow' \in BOOLEAN
  BY Zenon, <1>1 DEF PressureNext, UpdateMetrics, Check, TakePause, BeginWait, TakeToken, LookAgain, CancelWait
<1>4. pauseToken' \in BOOLEAN /\ token' \in BOOLEAN /\ staleToken' \in BOOLEAN
  BY Zenon, <1>1 DEF PressureNext, UpdateMetrics, Check, TakePause, BeginWait, TakeToken, LookAgain, CancelWait
<1>5. /\ waiting' \in [Waiters -> {"no", "resume", "paused", "cancelled"}]
      /\ unserved' \subseteq Waiters
  BY Zenon, <1>1 DEF PressureNext, UpdateMetrics, Check, TakePause, BeginWait, TakeToken, LookAgain, CancelWait
<1> QED  BY Zenon, <1>2, <1>3, <1>4, <1>5 DEF FlowTypes, FlowTypeOK, breakerVars

\* The types and bounds of the breaker and of the controller hold in every state, for any
\* number of calls and readers and any thresholds: a closed breaker counts fewer failures
\* than FailureThreshold, and the successes stay below SuccessThreshold
\* (circuit_breaker.go RecordSuccess, RecordFailure; backpressure.go check).
THEOREM FlowTypesHold ==
  /\ BreakerSpec => []FlowTypeOK
  /\ PressureSpec => []FlowTypeOK
<1>1. FlowInit => FlowTypes
  <2> SUFFICES ASSUME FlowInit
               PROVE  FlowTypes
    BY Zenon
  <2>1. /\ failed \in 0..MaxFailed /\ failed < FailureThreshold /\ succeeded \in 0..(SuccessThreshold - 1)
        /\ probesOK \in 0..SuccessThreshold /\ probesOK <= succeeded /\ usage \in 0..3
    BY FlowBounds DEF FlowInit
  <2> QED  BY Zenon, <2>1 DEF FlowInit, FlowTypes, FlowTypeOK
<1>2. FlowTypes /\ UNCHANGED flowVars => FlowTypes'
  BY Zenon DEF FlowTypes, FlowTypeOK, flowVars, breakerVars, pressureVars
<1>3. FlowTypes /\ [BreakerNext]_flowVars => FlowTypes'
  BY Zenon, <1>2, BreakerKeepsTypes
<1>4. FlowTypes /\ [PressureNext]_flowVars => FlowTypes'
  BY Zenon, <1>2, PressureKeepsTypes
<1>5. FlowTypes => FlowTypeOK
  BY Zenon DEF FlowTypes
<1>6. BreakerSpec => []FlowTypeOK
  BY <1>1, <1>3, <1>5, PTL DEF BreakerSpec
<1>7. PressureSpec => []FlowTypeOK
  BY <1>1, <1>4, <1>5, PTL DEF PressureSpec
<1> QED  BY <1>6, <1>7
=============================================================================
