---------------------------- MODULE SourceProofs ----------------------------
(***************************************************************************)
(* Proofs about the sources: the streaming readers and the polling         *)
(* readers, for any logs, any number of readers, and any bounds.           *)
(***************************************************************************)
EXTENDS StreamSources, PollSources, WellFoundedInduction, TLAPS

\* An element of a sequence.
LEMMA SeqElement ==
  ASSUME NEW S, NEW s \in Seq(S), NEW i \in 1..Len(s)
  PROVE  s[i] \in S
  OBVIOUS

-----------------------------------------------------------------------------

(***************************************************************************)
(* The streaming readers (StreamSources).                                  *)
(*                                                                         *)
(* SkippedIsExcused speaks of one position. The connector holds several,   *)
(* copies one to another, and starts from any of them, so the invariant    *)
(* says the same of all (Passed): every change a position lies past was    *)
(* put on the channel, is in hand, or is lost for a named cause.           *)
(***************************************************************************)

\* A change was put on the channel, its loss has a named cause, it is in hand, or a wide
\* message reaches past it.
Accounted(c) ==
  \/ c \in handed \cup excused
  \/ srcKind # "postgres" /\ c \in InFlight
  \/ 2 * c[1] <= widePos

\* Every change the log position p lies past is accounted for, and so will be those that
\* are still to come.
Passed(p) ==
  /\ p <= 2 * Len(srcLog) \/ p <= widePos
  /\ \A c \in Before(p) : Accounted(c)

\* The types the proof needs.
StreamType ==
  /\ srcKind \in {"mysql", "mongo", "postgres"}
  /\ srcLog \in Seq(0..MaxRows)
  /\ running \in BOOLEAN
  /\ syncPos \in Nat /\ heldPos \in Nat /\ savedPos \in Nat
  /\ walPos \in Nat /\ slotPos \in Nat /\ widePos \in Nat
  /\ fetched \in Nat /\ left \in Nat
  /\ left > 0 => running /\ fetched \in 1..Len(srcLog) /\ left <= Messages(fetched)
  /\ srcKind = "mongo" => \A n \in 1..Len(srcLog) : srcLog[n] = 1
  /\ keeper = "store" => srcKind = "mongo"

\* Every position the connector holds has been passed by the changes before it, and of a
\* transaction of postgres that is in hand the first rows were dropped (none is handed over).
StreamPlaces ==
  /\ Passed(savedPos) /\ Passed(syncPos) /\ Passed(heldPos) /\ Passed(walPos)
  /\ Passed(PassedPos) /\ (srcKind # "postgres" => Passed(2 * fetched))
  /\ srcKind = "postgres" => Passed(slotPos)
  /\ srcKind = "postgres" /\ left > 0 =>
       \A r \in 1..(srcLog[fetched] - RowsLeft) : <<fetched, r>> \in handed \cup excused

StreamInv == StreamType /\ StreamPlaces

-----------------------------------------------------------------------------

\* The larger of two positions.
LEMMA LargerOfTwo ==
  ASSUME NEW a \in Nat, NEW b \in Nat
  PROVE  /\ Max({a, b}) \in {a, b}
         /\ a <= Max({a, b}) /\ b <= Max({a, b})
<1> DEFINE S == {a, b}
<1>1. \E x \in S : \A y \in S : x >= y
  <2>1. CASE a >= b  BY <2>1
  <2>2. CASE b >= a  BY <2>2
  <2> QED  BY <2>1, <2>2
<1>2. Max(S) \in S /\ \A y \in S : Max(S) >= y
  <2> HIDE DEF S
  <2> QED  BY Zenon, <1>1 DEF Max
<1> QED  BY Zenon, <1>2

\* An event has a number of rows.
LEMMA RowsOf ==
  ASSUME StreamType, NEW f \in 1..Len(srcLog)
  PROVE  srcLog[f] \in Nat /\ Len(srcLog) \in Nat /\ f \in Nat
<1>1. srcLog \in Seq(0..MaxRows)  BY Zenon DEF StreamType
<1>2. srcLog[f] \in 0..MaxRows  BY Zenon, <1>1, SeqElement
<1> QED  BY <1>1, <1>2

\* What lies before an earlier position lies before a later one.
LEMMA PassedEarlier ==
  ASSUME StreamType, NEW p \in Nat, NEW q \in Nat, q <= p, Passed(p)
  PROVE  Passed(q)
<1>1. Before(q) \subseteq Before(p)
  <2> SUFFICES ASSUME NEW c \in Before(q)
               PROVE  c \in Before(p)
    BY Zenon
  <2>1. c \in (1..Len(srcLog)) \X (1..MaxRows) /\ 2 * c[1] <= q /\ c[2] <= srcLog[c[1]]
    BY Zenon DEF Before
  <2>2. 2 * c[1] <= p
    <3>1. c[1] \in Nat  BY <2>1
    <3> QED  BY <2>1, <3>1
  <2> QED  BY Zenon, <2>1, <2>2 DEF Before
<1>2. q <= 2 * Len(srcLog) \/ q <= widePos
  BY DEF Passed, StreamType
<1> QED  BY Zenon, <1>1, <1>2 DEF Passed

\* The same after a step.
LEMMA PassedEarlierNext ==
  ASSUME StreamType', NEW p \in Nat, NEW q \in Nat, q <= p, Passed(p)'
  PROVE  Passed(q)'
<1>1. Before(q)' \subseteq Before(p)'
  <2> SUFFICES ASSUME NEW c \in Before(q)'
               PROVE  c \in Before(p)'
    BY Zenon
  <2>1. c \in (1..Len(srcLog')) \X (1..MaxRows) /\ 2 * c[1] <= q /\ c[2] <= srcLog'[c[1]]
    BY Zenon DEF Before
  <2>2. 2 * c[1] <= p
    <3>1. c[1] \in Nat  BY <2>1
    <3> QED  BY <2>1, <3>1
  <2> QED  BY Zenon, <2>1, <2>2 DEF Before
<1>2. q <= 2 * Len(srcLog') \/ q <= widePos'
  BY SMTT(30) DEF Passed, StreamType
<1> QED  BY Zenon, <1>1, <1>2 DEF Passed

\* There is nothing before the first event.
LEMMA PassedNone ==
  ASSUME StreamType
  PROVE  Passed(0)
<1>1. Before(0) = {}
  <2> SUFFICES ASSUME NEW c \in Before(0)
               PROVE  FALSE
    BY Zenon
  <2>1. c \in (1..Len(srcLog)) \X (1..MaxRows) /\ 2 * c[1] <= 0
    BY Zenon DEF Before
  <2>2. c[1] \in 1..Len(srcLog)  BY Zenon, <2>1
  <2> QED  BY <2>1, <2>2 DEF StreamType
<1> QED  BY <1>1 DEF Passed, StreamType

\* A step that forgets no change keeps what was passed.
LEMMA PassedStays ==
  ASSUME StreamType, srcLog' = srcLog, widePos' \in Nat, widePos <= widePos',
         \A c \in Nat \X Nat : Accounted(c) => Accounted(c)'
  PROVE  \A p \in Nat : Passed(p) => Passed(p)'
<1> SUFFICES ASSUME NEW p \in Nat, Passed(p)
             PROVE  Passed(p)'
  BY Zenon
<1>1. Before(p)' = Before(p)
  BY Zenon DEF Before
<1>2. \A c \in Before(p)' : Accounted(c)'
  <2>1. Before(p) \subseteq Nat \X Nat  BY DEF Before
  <2> QED  BY Zenon, <1>1, <2>1 DEF Passed
<1>3. p <= 2 * Len(srcLog') \/ p <= widePos'
  BY DEF Passed, StreamType
<1> QED  BY Zenon, <1>2, <1>3 DEF Passed

\* Nothing is in hand when no message is left.
LEMMA NothingInHand ==
  ASSUME left = 0
  PROVE  InFlight = {}
  BY DEF InFlight, RowsLeft

\* The changes that have been excused up to a position make it one that was passed.
LEMMA PassedExcused ==
  ASSUME StreamType, srcLog' = srcLog, NEW p \in Nat, p <= 2 * Len(srcLog) \/ p <= widePos,
         widePos' = widePos, handed' = handed, Before(p) \ handed \subseteq excused'
  PROVE  Passed(p)'
<1>1. Before(p)' = Before(p)
  BY Zenon DEF Before
<1>2. \A c \in Before(p)' : c \in handed' \cup excused'
  BY Zenon, <1>1
<1>3. \A c \in Before(p)' : Accounted(c)'
  BY Zenon, <1>2 DEF Accounted
<1>4. p <= 2 * Len(srcLog') \/ p <= widePos'
  BY Zenon DEF StreamType
<1> QED  BY Zenon, <1>3, <1>4 DEF Passed

\* The log grows: what was passed reaches to its end, or a wide message reaches farther.
LEMMA LogGrowsInv ==
  ASSUME StreamInv, NEW rows \in 0..MaxRows, LogGrows(rows)
  PROVE  StreamInv'
<1> USE DEF StreamInv
<1>0. UNCHANGED <<srcConfig, running, stream, savedPos, slotPos, srcGhosts, srcCounts>>
      /\ srcLog' = Append(srcLog, rows)
  BY Zenon DEF LogGrows
<1>1. UNCHANGED <<srcKind, keeper, running, fetched, left, syncPos, heldPos, walPos, savedPos,
                  slotPos, handed, excused, widePos>>
  BY Zenon, <1>0 DEF srcConfig, stream, srcGhosts
<1>2. srcLog \in Seq(0..MaxRows) /\ srcLog' \in Seq(0..MaxRows) /\ Len(srcLog') = Len(srcLog) + 1
      /\ (\A n \in 1..Len(srcLog) : srcLog'[n] = srcLog[n]) /\ srcLog'[Len(srcLog) + 1] = rows
      /\ Len(srcLog) \in Nat
  BY <1>0 DEF StreamType
<1>3. StreamType'
  <2>1. left > 0 => fetched \in 1..Len(srcLog) /\ srcLog'[fetched] = srcLog[fetched]
    BY Zenon, <1>2 DEF StreamType
  <2>2. left' > 0 => running' /\ fetched' \in 1..Len(srcLog') /\ left' <= Messages(fetched)'
    BY <1>1, <1>2, <2>1 DEF StreamType, Messages
  <2>3. srcKind' = "mongo" => \A n \in 1..Len(srcLog') : srcLog'[n] = 1
    <3> SUFFICES ASSUME srcKind' = "mongo", NEW n \in 1..Len(srcLog')
                 PROVE  srcLog'[n] = 1
      BY Zenon
    <3>1. CASE n \in 1..Len(srcLog)
      BY <1>1, <1>2, <3>1 DEF StreamType
    <3>2. CASE n = Len(srcLog) + 1
      BY Zenon, <1>1, <1>2, <3>2 DEF LogGrows
    <3> QED  BY <1>2, <3>1, <3>2
  <2> QED  BY Zenon, <1>1, <1>2, <2>2, <2>3 DEF StreamType
<1>4. InFlight' = InFlight
  <2>1. RowsLeft' = RowsLeft
    BY Zenon, <1>1 DEF RowsLeft
  <2>2. CASE RowsLeft = 0
    BY Zenon, <2>1, <2>2 DEF InFlight
  <2>3. CASE RowsLeft # 0
    <3>1. left > 0
      BY <2>3 DEF RowsLeft, StreamType
    <3>2. srcLog'[fetched] = srcLog[fetched]
      BY Zenon, <1>2, <3>1 DEF StreamType
    <3> QED  BY Zenon, <1>1, <2>1, <2>3, <3>2 DEF InFlight
  <2> QED  BY Zenon, <2>2, <2>3
<1>5. ASSUME NEW p \in Nat, Passed(p)
      PROVE  Passed(p)'
  <2>1. p <= 2 * Len(srcLog') \/ p <= widePos'
    BY <1>1, <1>2, <1>5 DEF Passed, StreamType
  <2>2. ASSUME NEW c \in Before(p)'
        PROVE  Accounted(c)'
    <3>1. c \in (1..Len(srcLog')) \X (1..MaxRows) /\ 2 * c[1] <= p /\ c[2] <= srcLog'[c[1]]
      BY Zenon, <2>2 DEF Before
    <3>2. c[1] \in 1..Len(srcLog') /\ c[2] \in 1..MaxRows /\ c = <<c[1], c[2]>>
      BY <3>1
    <3>3. CASE c[1] \in 1..Len(srcLog)
      <4>1. c \in Before(p)
        BY Zenon, <1>2, <3>1, <3>2, <3>3 DEF Before
      <4>2. Accounted(c)
        BY Zenon, <1>5, <4>1 DEF Passed
      <4> QED  BY Zenon, <1>1, <1>4, <4>2 DEF Accounted
    <3>4. CASE c[1] = Len(srcLog) + 1
      <4>1. p <= widePos
        BY <1>2, <1>5, <3>1, <3>4 DEF Passed
      <4>2. 2 * c[1] <= widePos'
        BY <1>1, <1>2, <3>1, <3>4, <4>1 DEF StreamType
      <4> QED  BY Zenon, <4>2 DEF Accounted
    <3> QED  BY <1>2, <3>2, <3>3, <3>4
  <2> QED  BY Zenon, <2>1, <2>2 DEF Passed
<1>6. PassedPos' = PassedPos /\ PassedPos \in Nat
  BY <1>1 DEF PassedPos, StreamType
<1>7. srcKind' = "postgres" /\ left' > 0 =>
         \A r \in 1..(srcLog'[fetched'] - RowsLeft') : <<fetched', r>> \in handed' \cup excused'
  <2>1. RowsLeft' = RowsLeft
    BY Zenon, <1>1 DEF RowsLeft
  <2>2. left > 0 => srcLog'[fetched] = srcLog[fetched]
    BY Zenon, <1>2 DEF StreamType
  <2> QED  BY Zenon, <1>1, <2>1, <2>2 DEF StreamPlaces
<1>8. StreamPlaces'
  <2>1. srcKind # "postgres" => Passed(2 * fetched)'
    <3>1. 2 * fetched \in Nat /\ 2 * fetched' = 2 * fetched  BY <1>1 DEF StreamType
    <3> QED  BY Zenon, <1>1, <1>5, <3>1 DEF StreamPlaces
  <2> QED  BY Zenon, <1>1, <1>5, <1>6, <1>7, <2>1 DEF StreamPlaces, StreamType
<1> QED  BY Zenon, <1>3, <1>8

\* Where a process starts, and where the server takes it, has been passed.
LEMMA StartPassed ==
  ASSUME StreamInv, NEW ok \in BOOLEAN
  PROVE  /\ LoadedPos(ok) \in Nat /\ Passed(LoadedPos(ok))
         /\ StartPos(ok) \in Nat /\ Passed(StartPos(ok))
         /\ StreamFrom(StartPos(ok)) \in Nat /\ Passed(StreamFrom(StartPos(ok)))
<1> USE DEF StreamInv
<1>1. savedPos \in Nat /\ Passed(savedPos) /\ Passed(0) /\ slotPos \in Nat
      /\ (srcKind = "postgres" => Passed(slotPos))
  BY Zenon, PassedNone DEF StreamType, StreamPlaces
<1>2. LoadedPos(ok) \in {0, savedPos}
  BY Zenon DEF LoadedPos
<1>3. StartPos(ok) \in {0, savedPos}
  BY Zenon, <1>2 DEF StartPos
<1>4. StartPos(ok) \in Nat /\ Passed(StartPos(ok))
  BY <1>1, <1>3
<1>5. StreamFrom(StartPos(ok)) = StartPos(ok)
      \/ (srcKind = "postgres" /\ StreamFrom(StartPos(ok)) = slotPos)
  <2>1. Max({StartPos(ok), slotPos}) \in {StartPos(ok), slotPos}
    BY Zenon, <1>1, <1>4, LargerOfTwo
  <2> QED  BY Zenon, <2>1 DEF StreamFrom
<1> QED  BY <1>1, <1>2, <1>4, <1>5

\* A process starts: at a position that was kept, or where what it skips is excused.
LEMMA StartInv ==
  ASSUME StreamInv, NEW ok \in BOOLEAN, StartSource(ok)
  PROVE  StreamInv'
<1> USE DEF StreamInv
<1>0. UNCHANGED <<srcKind, keeper, srcLog, savedPos, slotPos, handed, widePos>> /\ left = 0 /\ left' = 0
      /\ running' = TRUE
  BY DEF StartSource, srcConfig, StreamType
<1>1. excused \subseteq excused'
  BY Zenon DEF StartSource
<1>2. \A c : Accounted(c) => Accounted(c)'
  BY Zenon, <1>0, <1>1, NothingInHand DEF Accounted
<1>3. \A p \in Nat : Passed(p) => Passed(p)'
  BY <1>0, <1>2, PassedStays DEF StreamType
<1>4. Passed(0) /\ Len(srcLog) \in Nat
  BY PassedNone DEF StreamType
<1>5. syncPos' \in Nat /\ Passed(syncPos') /\ heldPos' \in Nat /\ Passed(heldPos')
  BY Zenon, <1>4, StartPassed DEF StartSource
<1>6. fetched' \in Nat /\ Passed(2 * fetched)' /\ walPos' \in Nat /\ Passed(walPos)'
  <2>1. CASE pinned \/ StartPos(ok) # 0
    <3>1. PICK q \in Nat : q = StreamFrom(StartPos(ok)) /\ Passed(q)
      BY Zenon, StartPassed
    <3>2. fetched' = q \div 2 /\ walPos' \in {0, StartPos(ok)}
      BY Zenon, <2>1, <3>1 DEF StartSource
    <3>3. q \div 2 \in Nat /\ 2 * (q \div 2) \in Nat /\ 2 * (q \div 2) <= q
      OBVIOUS
    <3>4. Passed(2 * (q \div 2))
      BY Zenon, <3>1, <3>3, PassedEarlier
    <3>5. Passed(2 * (q \div 2))'
      BY Zenon, <1>3, <3>3, <3>4
    <3>6. walPos' \in Nat /\ Passed(walPos')
      BY <1>4, <3>2, StartPassed
    <3>7. PICK w \in Nat : w = walPos' /\ Passed(w)
      BY Zenon, <3>6
    <3> QED  BY Zenon, <1>3, <3>2, <3>3, <3>5, <3>7
  <2>2. CASE ~(pinned \/ StartPos(ok) # 0)
    <3>1. PICK n \in IF srcKind = "mysql" THEN 0..Len(srcLog) ELSE {StreamFrom(2 * Len(srcLog)) \div 2} :
            /\ fetched' = n
            /\ walPos' = IF srcKind = "postgres" THEN 2 * Len(srcLog) ELSE 0
            /\ excused' = excused \cup (Before(2 * n) \ handed)
      BY Zenon, <2>2 DEF StartSource
    <3>2. n \in Nat /\ (2 * n <= 2 * Len(srcLog) \/ 2 * n <= widePos)
          /\ (srcKind = "postgres" => Len(srcLog) <= n)
      <4>1. CASE srcKind = "mysql"
        BY <1>4, <3>1, <4>1
      <4>2. CASE srcKind = "mongo"
        BY <1>4, <3>1, <4>2 DEF StreamFrom
      <4>3. CASE srcKind = "postgres"
        <5>1. PICK m \in Nat : m = Max({2 * Len(srcLog), slotPos})
          BY <1>4, LargerOfTwo DEF StreamType
        <5>2. m \in {2 * Len(srcLog), slotPos} /\ 2 * Len(srcLog) <= m
          BY <1>4, <5>1, LargerOfTwo DEF StreamType
        <5>3. n = m \div 2
          BY Zenon, <3>1, <4>3, <5>1 DEF StreamFrom
        <5>4. slotPos \in Nat /\ widePos \in Nat /\ (slotPos <= 2 * Len(srcLog) \/ slotPos <= widePos)
          BY Zenon, <4>3 DEF StreamPlaces, Passed, StreamType
        <5> QED  BY <1>4, <5>2, <5>3, <5>4
      <4> QED  BY Zenon, <4>1, <4>2, <4>3 DEF StreamType
    <3>3. Passed(2 * n)'
      <4>1. 2 * n \in Nat  BY <3>2
      <4> QED  BY Zenon, <1>0, <3>1, <3>2, <4>1, PassedExcused
    <3>4. walPos' \in Nat /\ Passed(walPos)'
      <4>1. CASE srcKind = "postgres"
        <5>1. walPos' = 2 * Len(srcLog) /\ 2 * Len(srcLog) \in Nat /\ 2 * Len(srcLog) <= 2 * n
          BY <1>4, <3>1, <3>2, <4>1
        <5>2. PICK w \in Nat : w = 2 * Len(srcLog)
          BY Zenon, <5>1
        <5>3. Before(w) \subseteq Before(2 * n)
          <6>1. \A c \in (1..Len(srcLog)) \X (1..MaxRows) : 2 * c[1] <= w => 2 * c[1] <= 2 * n
            <7> TAKE c \in (1..Len(srcLog)) \X (1..MaxRows)
            <7>1. c[1] \in Nat  BY <1>4
            <7> QED  BY <3>2, <5>1, <5>2, <7>1
          <6> QED  BY Zenon, <6>1 DEF Before
        <5>4. Passed(w)'
          BY <1>0, <3>1, <5>2, <5>3, PassedExcused
        <5> QED  BY Zenon, <5>1, <5>2, <5>4
      <4>2. CASE srcKind # "postgres"
        BY Zenon, <1>3, <1>4, <3>1, <4>2
      <4> QED  BY Zenon, <4>1, <4>2
    <3> QED  BY Zenon, <3>1, <3>2, <3>3, <3>4
  <2> QED  BY Zenon, <2>1, <2>2
<1>7. StreamType'
  BY <1>0, <1>5, <1>6 DEF StreamType, Messages
<1>8. Passed(savedPos)' /\ Passed(syncPos)' /\ Passed(heldPos)'
  <2>1. PICK a \in Nat, b \in Nat, d \in Nat : a = syncPos' /\ b = heldPos' /\ d = savedPos
          /\ Passed(a) /\ Passed(b) /\ Passed(d)
    BY Zenon, <1>5 DEF StreamType, StreamPlaces
  <2>2. Passed(a)' /\ Passed(b)' /\ Passed(d)'
    BY Zenon, <1>3, <2>1
  <2> QED  BY Zenon, <1>0, <2>1, <2>2
<1>9. PassedPos' = 2 * fetched'
  BY <1>0 DEF PassedPos
<1>10. srcKind' = "postgres" => Passed(slotPos)'
  <2>1. PICK a \in Nat : a = slotPos /\ (srcKind = "postgres" => Passed(a))
    BY Zenon DEF StreamType, StreamPlaces
  <2> QED  BY Zenon, <1>0, <1>3, <2>1
<1>11. StreamPlaces'
  BY <1>0, <1>6, <1>8, <1>9, <1>10 DEF StreamPlaces
<1> QED  BY Zenon, <1>7, <1>11

\* The positions that were passed before the step.
OldPlaces == {0, savedPos, syncPos, heldPos, walPos, PassedPos}

\* A position that is taken from one that was passed has been passed, after a step that
\* forgets no change.
LEMMA PlacesStay ==
  ASSUME StreamInv, \A p \in Nat : Passed(p) => Passed(p)'
  PROVE  /\ OldPlaces \subseteq Nat
         /\ savedPos' \in OldPlaces => Passed(savedPos)'
         /\ syncPos' \in OldPlaces => Passed(syncPos)'
         /\ heldPos' \in OldPlaces => Passed(heldPos)'
         /\ walPos' \in OldPlaces => Passed(walPos)'
         /\ PassedPos' \in OldPlaces => Passed(PassedPos)'
         /\ srcKind = "postgres" /\ slotPos' = slotPos => Passed(slotPos)'
         /\ srcKind # "postgres" /\ fetched' = fetched => Passed(2 * fetched)'
<1> USE DEF StreamInv
<1>1. \A p \in OldPlaces : p \in Nat /\ Passed(p)
  <2>1. PassedPos \in Nat  BY DEF PassedPos, StreamType
  <2> QED  BY <2>1, PassedNone DEF OldPlaces, StreamPlaces, StreamType
<1>2. \A p \in OldPlaces : Passed(p)'
  BY Zenon, <1>1
<1>3. srcKind = "postgres" => slotPos \in Nat /\ Passed(slotPos)
  BY Zenon DEF StreamPlaces, StreamType
<1>4. srcKind # "postgres" => 2 * fetched \in Nat /\ Passed(2 * fetched)
  BY DEF StreamPlaces, StreamType
<1>5. ASSUME srcKind = "postgres", slotPos' = slotPos
      PROVE  Passed(slotPos)'
  <2>1. PICK a \in Nat : a = slotPos /\ Passed(a)  BY Zenon, <1>3, <1>5
  <2>2. Passed(a)'  BY Zenon, <2>1
  <2> QED  BY Zenon, <1>5, <2>1, <2>2
<1>6. ASSUME srcKind # "postgres", fetched' = fetched
      PROVE  Passed(2 * fetched)'
  <2>1. PICK a \in Nat : a = 2 * fetched /\ Passed(a)  BY Zenon, <1>4, <1>6
  <2>2. Passed(a)'  BY Zenon, <2>1
  <2> QED  BY Zenon, <1>6, <2>1, <2>2
<1>7. ASSUME savedPos' \in OldPlaces
      PROVE  Passed(savedPos)'
  <2>1. PICK a \in OldPlaces : a = savedPos'  BY Zenon, <1>7
  <2> QED  BY Zenon, <1>2, <2>1
<1>8. ASSUME syncPos' \in OldPlaces
      PROVE  Passed(syncPos)'
  <2>1. PICK a \in OldPlaces : a = syncPos'  BY Zenon, <1>8
  <2> QED  BY Zenon, <1>2, <2>1
<1>9. ASSUME heldPos' \in OldPlaces
      PROVE  Passed(heldPos)'
  <2>1. PICK a \in OldPlaces : a = heldPos'  BY Zenon, <1>9
  <2> QED  BY Zenon, <1>2, <2>1
<1>10. ASSUME walPos' \in OldPlaces
       PROVE  Passed(walPos)'
  <2>1. PICK a \in OldPlaces : a = walPos'  BY Zenon, <1>10
  <2> QED  BY Zenon, <1>2, <2>1
<1>11. ASSUME PassedPos' \in OldPlaces
       PROVE  Passed(PassedPos)'
  <2>1. PICK a \in OldPlaces : a = PassedPos'  BY Zenon, <1>11
  <2> QED  BY Zenon, <1>2, <2>1
<1> QED  BY Zenon, <1>1, <1>5, <1>6, <1>7, <1>8, <1>9, <1>10, <1>11

\* The connector stops or crashes: what mysql and mongodb had in hand is excused.
LEMMA EndsInv ==
  ASSUME StreamInv, StopSource \/ CrashSource \/ SendPanics
  PROVE  StreamInv'
<1> USE DEF StreamInv
<1>1. UNCHANGED <<srcKind, keeper, srcLog, slotPos, handed, widePos>> /\ Ended
      /\ savedPos' \in {savedPos, heldPos, syncPos}
  BY Zenon DEF StopSource, CrashSource, SendPanics, srcConfig
<1>2. left' = 0 /\ fetched' = 0 /\ syncPos' = 0 /\ heldPos' = 0 /\ walPos' = 0 /\ running' = FALSE
      /\ excused \subseteq excused' /\ (srcKind # "postgres" => InFlight \subseteq excused')
  BY Zenon, <1>1 DEF Ended
<1>3. \A c : Accounted(c) => Accounted(c)'
  BY Zenon, <1>1, <1>2 DEF Accounted
<1>4. \A p \in Nat : Passed(p) => Passed(p)'
  BY <1>1, <1>3, PassedStays DEF StreamType
<1>5. StreamType'
  <2>1. savedPos' \in Nat  BY Zenon, <1>1 DEF StreamType
  <2>0. running' = FALSE /\ left' = 0 /\ fetched' = 0 /\ syncPos' = 0 /\ heldPos' = 0 /\ walPos' = 0
    BY Zenon, <1>2
  <2>2. running' \in BOOLEAN /\ ~(left' > 0) /\ left' \in Nat /\ fetched' \in Nat
        /\ syncPos' \in Nat /\ heldPos' \in Nat /\ walPos' \in Nat
    <3>1. running' \in BOOLEAN  BY <2>0, Zenon
    <3> QED  BY <2>0, <3>1
  <2>3. UNCHANGED <<srcKind, keeper, srcLog, slotPos, widePos>>
    BY Zenon, <1>1
  <2> QED  BY Zenon, <2>1, <2>2, <2>3 DEF StreamType
<1>6. PassedPos' = 0
  BY <1>2 DEF PassedPos
<1>7. srcKind # "postgres" => Passed(2 * fetched)'
  <2>1. PICK a \in Nat : a = 0 /\ Passed(a)
    BY Zenon, PassedNone
  <2>2. Passed(a)' /\ a = 2 * fetched'  BY <1>2, <1>4, <2>1
  <2> QED  BY Zenon, <2>2
<1>8. StreamPlaces'
  BY <1>1, <1>2, <1>4, <1>6, <1>7, PlacesStay DEF StreamPlaces, OldPlaces
<1> QED  BY Zenon, <1>5, <1>8

\* The position behind the next event has been passed once the changes of that event are
\* accounted for.
LEMMA PassedNext ==
  ASSUME StreamInv, srcLog' = srcLog, widePos' \in Nat, NEW f \in 1..Len(srcLog),
         \A p \in Nat : Passed(p) => Passed(p)',
         Passed(2 * (f - 1)),
         \A r \in 1..srcLog[f] : Accounted(<<f, r>>)'
  PROVE  Passed(2 * f)'
<1> USE DEF StreamInv
<1>0. Len(srcLog) \in Nat /\ f \in Nat /\ srcLog[f] \in Nat
  BY Zenon, RowsOf
<1>1. Passed(2 * (f - 1))'
  <2>1. 2 * (f - 1) \in Nat  BY <1>0
  <2> QED  BY Zenon, <2>1
<1>2. ASSUME NEW c \in Before(2 * f)'
      PROVE  Accounted(c)'
  <2>1. c \in (1..Len(srcLog)) \X (1..MaxRows) /\ 2 * c[1] <= 2 * f /\ c[2] <= srcLog[c[1]]
    BY Zenon, <1>2 DEF Before
  <2>2. c[1] \in 1..Len(srcLog) /\ c[2] \in 1..MaxRows /\ c = <<c[1], c[2]>>
    BY <2>1
  <2>3. CASE c[1] = f
    BY <1>0, <2>1, <2>2, <2>3
  <2>4. CASE c[1] # f
    <3>1. 2 * c[1] <= 2 * (f - 1)
      BY <1>0, <2>1, <2>2, <2>4
    <3>2. c \in Before(2 * (f - 1))'
      BY Zenon, <2>1, <3>1 DEF Before
    <3> QED  BY Zenon, <1>1, <3>2 DEF Passed
  <2> QED  BY Zenon, <2>3, <2>4
<1>3. 2 * f <= 2 * Len(srcLog')
  BY <1>0
<1> QED  BY Zenon, <1>2, <1>3 DEF Passed

\* The next event: mysql and mongodb take its position while its changes are in hand,
\* postgres that of its beginning.
LEMMA FetchInv ==
  ASSUME StreamInv, NEW save \in BOOLEAN, Fetch(save)
  PROVE  StreamInv'
<1> USE DEF StreamInv
<1>1. UNCHANGED <<srcKind, keeper, srcLog, running, heldPos, slotPos, handed, excused, widePos>>
      /\ running /\ left = 0 /\ fetched < Len(srcLog) /\ fetched' = fetched + 1
  BY Zenon DEF Fetch, srcConfig, srcGhosts
<1>2. PICK f \in 1..Len(srcLog) : f = fetched + 1
  BY <1>1 DEF StreamType
<1>3. fetched' = f /\ fetched = f - 1 /\ f \in Nat /\ srcLog[f] \in Nat /\ Len(srcLog) \in Nat
      /\ left' = srcLog[f] + (IF srcKind = "postgres" THEN 1 ELSE 0)
      /\ Messages(fetched)' = left'
  <2>1. fetched \in Nat  BY Zenon DEF StreamType
  <2>2. srcLog[f] \in Nat /\ Len(srcLog) \in Nat  BY Zenon, RowsOf
  <2>3. left' = Messages(f)  BY Zenon, <1>2 DEF Fetch
  <2> QED  BY <1>1, <1>2, <2>1, <2>2, <2>3 DEF Messages
<1>4. \A c : Accounted(c) => Accounted(c)'
  BY Zenon, <1>1, NothingInHand DEF Accounted
<1>5. \A p \in Nat : Passed(p) => Passed(p)'
  BY <1>1, <1>4, PassedStays DEF StreamType
<1>6. Passed(2 * (f - 1))
  <2>1. PassedPos = 2 * (f - 1)
    BY <1>1, <1>3 DEF PassedPos
  <2> QED  BY Zenon, <2>1 DEF StreamPlaces
<1>7. srcKind # "postgres" => Passed(2 * f)'
  <2> SUFFICES ASSUME srcKind # "postgres"
               PROVE  Passed(2 * f)'
    BY Zenon
  <2>1. ASSUME NEW r \in 1..srcLog[f]
        PROVE  <<f, r>> \in InFlight'
    <3>1. RowsLeft' = srcLog[f] /\ srcLog[f] # 0
      BY <1>1, <1>3 DEF RowsLeft
    <3>2. InFlight' = {<<f, q>> : q \in (srcLog[f] - srcLog[f] + 1)..srcLog[f]}
      BY Zenon, <1>1, <1>3, <3>1 DEF InFlight
    <3>3. r \in (srcLog[f] - srcLog[f] + 1)..srcLog[f]
      BY <1>3
    <3> QED  BY Zenon, <3>2, <3>3
  <2>2. \A r \in 1..srcLog[f] : Accounted(<<f, r>>)'
    BY Zenon, <1>1, <2>1 DEF Accounted
  <2> QED  BY Zenon, <1>1, <1>5, <1>6, <2>2, PassedNext DEF StreamType
<1>8. srcKind = "postgres" => Passed(2 * f - 1)'
  <2>1. Before(2 * f - 1)' = Before(2 * (f - 1))'
    <3>1. \A c \in (1..Len(srcLog)) \X (1..MaxRows) : 2 * c[1] <= 2 * f - 1 <=> 2 * c[1] <= 2 * (f - 1)
      <4> TAKE c \in (1..Len(srcLog)) \X (1..MaxRows)
      <4>1. c[1] \in Nat  BY <1>3
      <4> QED  BY <1>3, <4>1
    <3> QED  BY Zenon, <1>1, <3>1 DEF Before
  <2>2. Passed(2 * (f - 1))'
    <3>1. 2 * (f - 1) \in Nat  BY <1>3
    <3> QED  BY Zenon, <1>5, <1>6, <3>1
  <2>3. 2 * f - 1 <= 2 * Len(srcLog')
    BY <1>1, <1>3
  <2> QED  BY Zenon, <2>1, <2>2, <2>3 DEF Passed
<1>9. /\ srcKind # "postgres" => syncPos' = 2 * f /\ walPos' = walPos
      /\ srcKind = "postgres" => syncPos' = syncPos /\ walPos' = 2 * f - 1
      /\ savedPos' = savedPos \/ savedPos' = 2 * f
  BY <1>2, <1>3 DEF Fetch, StreamType
<1>10. StreamType'
  <2>1. left' \in Nat /\ left' <= Messages(fetched)'
    BY <1>3
  <2> QED  BY <1>1, <1>2, <1>3, <1>9, <2>1 DEF StreamType
<1>11. Passed(savedPos)'
  <2>1. CASE savedPos' = savedPos
    BY Zenon, <1>5, <2>1, PlacesStay DEF OldPlaces
  <2>2. CASE savedPos' # savedPos
    <3>1. savedPos' = 2 * f /\ keeper = "store"
      BY Zenon, <1>9, <2>2 DEF Fetch
    <3> QED  BY Zenon, <1>7, <3>1 DEF StreamType
  <2> QED  BY Zenon, <2>1, <2>2
<1>12. Passed(syncPos)' /\ Passed(walPos)' /\ Passed(heldPos)'
  <2>1. CASE srcKind = "postgres"
    <3>1. Passed(walPos)'  BY Zenon, <1>8, <1>9, <2>1
    <3> QED  BY Zenon, <1>1, <1>5, <1>9, <2>1, <3>1, PlacesStay DEF OldPlaces
  <2>2. CASE srcKind # "postgres"
    <3>1. Passed(syncPos)'  BY Zenon, <1>7, <1>9, <2>2
    <3> QED  BY Zenon, <1>1, <1>5, <1>9, <2>2, <3>1, PlacesStay DEF OldPlaces
  <2> QED  BY Zenon, <2>1, <2>2
<1>13. Passed(PassedPos)'
  <2>1. CASE srcKind = "postgres"
    <3>1. PassedPos' = 2 * f - 1
      BY <1>1, <1>3, <2>1 DEF PassedPos
    <3> QED  BY Zenon, <1>8, <2>1, <3>1
  <2>2. CASE srcKind # "postgres"
    <3>1. PICK q \in Nat : q = PassedPos' /\ q <= 2 * f
      BY <1>1, <1>3 DEF PassedPos
    <3>2. Passed(q)'
      BY <1>3, <1>7, <1>10, <2>2, <3>1, PassedEarlierNext
    <3> QED  BY Zenon, <3>1, <3>2
  <2> QED  BY Zenon, <2>1, <2>2
<1>14. srcKind = "postgres" => Passed(slotPos)'
  BY Zenon, <1>1, <1>5, PlacesStay
<1>15. srcKind # "postgres" => Passed(2 * fetched)'
  BY Zenon, <1>3, <1>7
<1>16. srcKind = "postgres" => srcLog'[fetched'] - RowsLeft' = 0
  BY <1>1, <1>3 DEF RowsLeft
<1>17. (srcKind = "postgres" /\ left > 0 =>
          \A r \in 1..(srcLog[fetched] - RowsLeft) : <<fetched, r>> \in handed \cup excused)'
  BY <1>1, <1>16
<1>18. StreamPlaces'
  BY Zenon, <1>1, <1>11, <1>12, <1>13, <1>14, <1>15, <1>17 DEF StreamPlaces
<1> QED  BY Zenon, <1>10, <1>18

\* The changes of an event of mysql or mongodb that is passed over are excused.
LEMMA UndecodableInv ==
  ASSUME StreamInv, Undecodable
  PROVE  StreamInv'
<1> USE DEF StreamInv
<1>1. UNCHANGED <<srcKind, keeper, srcLog, running, left, syncPos, heldPos, walPos, savedPos,
                  slotPos, handed, widePos>>
      /\ srcKind # "postgres" /\ left = 0 /\ fetched < Len(srcLog) /\ fetched' = fetched + 1
      /\ excused \subseteq excused'
      /\ \A r \in 1..srcLog[fetched + 1] : <<fetched + 1, r>> \in handed' \cup excused'
  BY Zenon DEF Undecodable, srcConfig
<1>2. PICK f \in 1..Len(srcLog) : f = fetched + 1
  BY <1>1 DEF StreamType
<1>3. fetched' = f /\ fetched = f - 1 /\ f \in Nat /\ Len(srcLog) \in Nat
  BY <1>1, <1>2, RowsOf DEF StreamType
<1>4. \A c : Accounted(c) => Accounted(c)'
  BY Zenon, <1>1, NothingInHand DEF Accounted
<1>5. \A p \in Nat : Passed(p) => Passed(p)'
  BY <1>1, <1>4, PassedStays DEF StreamType
<1>6. Passed(2 * (f - 1))
  BY Zenon, <1>1, <1>3 DEF StreamPlaces
<1>7. \A r \in 1..srcLog[f] : Accounted(<<f, r>>)'
  BY Zenon, <1>1, <1>2 DEF Accounted
<1>8. Passed(2 * f)'
  BY Zenon, <1>1, <1>5, <1>6, <1>7, PassedNext DEF StreamType
<1>9. StreamType'
  BY <1>1, <1>3 DEF StreamType
<1>10. PassedPos' = 2 * f
  BY <1>1, <1>3 DEF PassedPos
<1>11. Passed(PassedPos)' /\ Passed(2 * fetched)'
  BY Zenon, <1>3, <1>8, <1>10
<1>12. StreamPlaces'
  BY Zenon, <1>1, <1>5, <1>11, PlacesStay DEF StreamPlaces, OldPlaces
<1> QED  BY Zenon, <1>9, <1>12

\* A position that a wide message reached has been passed.
LEMMA PassedWide ==
  ASSUME StreamType', NEW p \in Nat, p <= widePos'
  PROVE  Passed(p)'
<1>1. ASSUME NEW c \in Before(p)'
      PROVE  Accounted(c)'
  <2>1. c \in (1..Len(srcLog')) \X (1..MaxRows) /\ 2 * c[1] <= p
    BY Zenon DEF Before
  <2>2. c[1] \in Nat  BY <2>1
  <2>3. 2 * c[1] <= widePos'
    BY SMTT(30), <2>1, <2>2 DEF StreamType
  <2> QED  BY Zenon, <2>3 DEF Accounted
<1> QED  BY Zenon, <1>1 DEF Passed

\* A message of postgres is noted with where it reaches if it is wide.
LEMMA ReceivedWide ==
  ASSUME StreamType, NEW width \in 0..MaxWide, Received(width), left > 0
  PROVE  /\ widePos' \in Nat /\ widePos <= widePos' /\ walPos' \in Nat
         /\ srcKind = "postgres" /\ walPos' = PassedPos + width
         /\ width # 0 => walPos' <= widePos'
<1>1. fetched \in 1..Len(srcLog)  BY Zenon DEF StreamType
<1>2. PICK w \in Nat : w = 2 * fetched - 1 + width
  <2>1. Len(srcLog) \in Nat  BY Zenon, <1>1, RowsOf
  <2> QED  BY <1>1, <2>1
<1>3. walPos' = w /\ widePos' = (IF width = 0 THEN widePos ELSE Max({widePos, w})) /\ srcKind = "postgres"
  BY Zenon, <1>2 DEF Received
<1>4. widePos \in Nat  BY Zenon DEF StreamType
<1>5. Max({widePos, w}) \in {widePos, w} /\ widePos <= Max({widePos, w}) /\ w <= Max({widePos, w})
  BY Zenon, <1>4, LargerOfTwo
<1>6. PassedPos = 2 * fetched - 1  BY Zenon DEF PassedPos
<1> QED  BY <1>1, <1>2, <1>3, <1>4, <1>5, <1>6

\* Where a message takes currentLSNValue has been passed.
LEMMA ReceivedPassed ==
  ASSUME StreamInv, StreamType', NEW width \in 0..MaxWide, Received(width), left > 0,
         \A p \in Nat : Passed(p) => Passed(p)'
  PROVE  Passed(walPos)'
<1> USE DEF StreamInv
<1>1. CASE width = 0
  <2>1. PassedPos \in Nat  BY Zenon, PlacesStay DEF OldPlaces
  <2>2. walPos' = PassedPos  BY <1>1, <2>1, ReceivedWide
  <2> QED  BY Zenon, <2>2, PlacesStay DEF OldPlaces
<1>2. CASE width # 0
  <2>1. PICK w : w = walPos'  BY Zenon
  <2>2. w \in Nat /\ w <= widePos'  BY Zenon, <1>2, <2>1, ReceivedWide
  <2>3. Passed(w)'  BY Zenon, <2>2, PassedWide
  <2> QED  BY Zenon, <2>1, <2>3
<1> QED  BY Zenon, <1>1, <1>2

\* A message that hands nothing over moves currentLSNValue only.
LEMMA OtherMessageInv ==
  ASSUME StreamInv, NEW width \in 0..MaxWide, OtherMessage(width)
  PROVE  StreamInv'
<1> USE DEF StreamInv
<1>1. UNCHANGED <<srcKind, keeper, srcLog, running, fetched, left, syncPos, heldPos, savedPos, slotPos,
                  handed, excused>>
      /\ left > 0 /\ Received(width)
  BY Zenon DEF OtherMessage, srcConfig
<1>2. InFlight' = InFlight /\ RowsLeft' = RowsLeft /\ PassedPos' = PassedPos /\ Messages(fetched)' = Messages(fetched)
  BY Zenon, <1>1 DEF InFlight, RowsLeft, PassedPos, Messages
<1>3. widePos \in Nat /\ widePos' \in Nat /\ widePos <= widePos' /\ walPos' \in Nat
  BY Zenon, <1>1, ReceivedWide DEF StreamType
<1>4. \A c \in Nat \X Nat : Accounted(c) => Accounted(c)'
  <2> SUFFICES ASSUME NEW c \in Nat \X Nat, 2 * c[1] <= widePos
               PROVE  2 * c[1] <= widePos'
    BY Zenon, <1>1, <1>2 DEF Accounted
  <2>1. c[1] \in Nat  BY Zenon
  <2> QED  BY <1>3, <2>1
<1>5. \A p \in Nat : Passed(p) => Passed(p)'
  BY Zenon, <1>1, <1>3, <1>4, PassedStays
<1>6. StreamType'
  BY Zenon, <1>1, <1>2, <1>3 DEF StreamType
<1>7. Passed(walPos)'
  BY Zenon, <1>1, <1>5, <1>6, ReceivedPassed
<1>8. StreamPlaces'
  BY Zenon, <1>1, <1>2, <1>5, <1>7, PlacesStay DEF StreamPlaces, OldPlaces
<1> QED  BY Zenon, <1>6, <1>8

\* A change goes on the channel, or is dropped by postgres: it leaves the changes in hand
\* and joins those that were handed over or have a cause.
LEMMA HandOverInv ==
  ASSUME StreamInv, NEW width \in 0..MaxWide, HandOver \/ RowDropped(width)
  PROVE  StreamInv'
<1> USE DEF StreamInv
<1>1. UNCHANGED <<srcKind, keeper, srcLog, running, fetched, syncPos, heldPos, savedPos, slotPos>>
      /\ running /\ RowsLeft > 0 /\ left' = left - 1
      /\ handed \cup excused \cup {<<fetched, srcLog[fetched] - RowsLeft + 1>>}
           \subseteq handed' \cup excused'
  <2>1. CASE HandOver
    <3>1. RowsLeft = left  BY Zenon, <2>1 DEF HandOver, RowsLeft
    <3> QED  BY Zenon, <2>1, <3>1 DEF HandOver, srcConfig
  <2>2. CASE RowDropped(width)
    BY Zenon, <2>2 DEF RowDropped, Received, srcConfig
  <2> QED  BY Zenon, <2>1, <2>2
<1>2. RowsLeft \in Nat /\ left \in Nat /\ left > 0 /\ left = (IF srcKind = "postgres" THEN RowsLeft + 1 ELSE RowsLeft)
  BY <1>1 DEF RowsLeft, StreamType
<1>3. PICK f \in 1..Len(srcLog) : f = fetched
  BY Zenon, <1>2 DEF StreamType
<1>4. srcLog[f] \in Nat /\ Len(srcLog) \in Nat /\ f \in Nat
  BY Zenon, RowsOf
<1>5. PICK m \in Nat, k \in Nat : m = srcLog[f] /\ k = RowsLeft /\ k > 0 /\ k <= m
  <2>1. left <= Messages(f)
    BY Zenon, <1>2, <1>3 DEF StreamType
  <2> QED  BY <1>1, <1>2, <1>4, <2>1 DEF Messages
<1>6. RowsLeft' = k - 1 /\ left' \in Nat
  BY <1>1, <1>2, <1>5 DEF RowsLeft
<1>7. handed \cup excused \subseteq handed' \cup excused' /\ <<f, m - k + 1>> \in handed' \cup excused'
  BY Zenon, <1>1, <1>3, <1>5
<1>8. widePos' \in Nat /\ widePos <= widePos' /\ walPos' \in Nat
      /\ ((srcKind # "postgres" /\ walPos' = walPos) \/ Received(width))
  <2>1. CASE HandOver
    BY <2>1 DEF HandOver, StreamType
  <2>2. CASE RowDropped(width)
    BY Zenon, <1>2, <2>2, ReceivedWide DEF RowDropped
  <2> QED  BY Zenon, <2>1, <2>2
<1>9. InFlight \subseteq InFlight' \cup handed' \cup excused'
  <2>1. InFlight = {<<f, r>> : r \in (m - k + 1)..m}
    BY <1>3, <1>5 DEF InFlight
  <2>2. k - 1 # 0 => InFlight' = {<<f, r>> : r \in (m - (k - 1) + 1)..m}
    BY Zenon, <1>1, <1>3, <1>5, <1>6 DEF InFlight
  <2> SUFFICES ASSUME NEW r \in (m - k + 1)..m
               PROVE  <<f, r>> \in InFlight' \cup handed' \cup excused'
    BY Zenon, <2>1
  <2>3. CASE r = m - k + 1
    BY Zenon, <1>7, <2>3
  <2>4. CASE r # m - k + 1
    <3>1. k - 1 # 0 /\ r \in (m - (k - 1) + 1)..m
      BY <1>5, <2>4
    <3> QED  BY Zenon, <2>2, <3>1
  <2> QED  BY Zenon, <2>3, <2>4
<1>10. \A c \in Nat \X Nat : Accounted(c) => Accounted(c)'
  <2> SUFFICES ASSUME NEW c \in Nat \X Nat, Accounted(c)
               PROVE  Accounted(c)'
    BY Zenon
  <2>1. CASE c \in handed \cup excused \/ (srcKind # "postgres" /\ c \in InFlight)
    BY Zenon, <1>1, <1>7, <1>9, <2>1 DEF Accounted
  <2>2. CASE 2 * c[1] <= widePos
    <3>1. c[1] \in Nat /\ widePos \in Nat  BY Zenon DEF StreamType
    <3>2. 2 * c[1] <= widePos'  BY <1>8, <2>2, <3>1
    <3> QED  BY Zenon, <3>2 DEF Accounted
  <2> QED  BY Zenon, <2>1, <2>2 DEF Accounted
<1>11. \A p \in Nat : Passed(p) => Passed(p)'
  BY Zenon, <1>1, <1>8, <1>10, PassedStays
<1>12. StreamType'
  <2>2. Messages(fetched)' = Messages(fetched) /\ Messages(f) \in Nat
    BY <1>1, <1>4 DEF Messages
  <2>3. left' > 0 => running' /\ fetched' \in 1..Len(srcLog') /\ left' <= Messages(fetched)'
    BY <1>1, <1>2, <1>3, <2>2 DEF StreamType
  <2> QED  BY Zenon, <1>1, <1>6, <1>8, <2>3 DEF StreamType
<1>13. Passed(walPos)'
  <2>1. CASE walPos' = walPos
    BY Zenon, <1>11, <2>1, PlacesStay DEF OldPlaces
  <2>2. CASE Received(width)
    BY Zenon, <1>2, <1>11, <1>12, <2>2, ReceivedPassed
  <2> QED  BY Zenon, <1>8, <2>1, <2>2
<1>14. Passed(PassedPos)'
  <2>1. CASE left' > 0
    <3>1. PassedPos' = PassedPos
      BY Zenon, <1>1, <1>2, <2>1 DEF PassedPos
    <3> QED  BY Zenon, <1>11, <3>1, PlacesStay DEF OldPlaces
  <2>2. CASE ~(left' > 0)
    <3>1. srcKind # "postgres" /\ PassedPos' = 2 * fetched'
      BY <1>1, <1>2, <1>5, <1>6, <2>2 DEF PassedPos
    <3> QED  BY Zenon, <1>1, <1>11, <3>1, PlacesStay
  <2> QED  BY Zenon, <2>1, <2>2
<1>15. (srcKind = "postgres" /\ left > 0 =>
          \A r \in 1..(srcLog[fetched] - RowsLeft) : <<fetched, r>> \in handed \cup excused)'
  <2> SUFFICES ASSUME srcKind = "postgres", NEW r \in 1..(m - (k - 1))
               PROVE  <<f, r>> \in handed' \cup excused'
    BY Zenon, <1>1, <1>3, <1>5, <1>6
  <2>1. CASE r = m - k + 1
    BY Zenon, <1>7, <2>1
  <2>2. CASE r # m - k + 1
    <3>1. r \in 1..(m - k)
      BY <1>5, <2>2
    <3>2. \A q \in 1..(m - k) : <<f, q>> \in handed \cup excused
      BY Zenon, <1>2, <1>3, <1>5 DEF StreamPlaces
    <3> QED  BY Zenon, <1>7, <3>1, <3>2
  <2> QED  BY Zenon, <2>1, <2>2
<1>16. Passed(savedPos)' /\ Passed(syncPos)' /\ Passed(heldPos)'
       /\ (srcKind = "postgres" => Passed(slotPos)') /\ (srcKind # "postgres" => Passed(2 * fetched)')
  BY Zenon, <1>1, <1>11, PlacesStay DEF OldPlaces
<1>17. StreamPlaces'
  BY Zenon, <1>1, <1>13, <1>14, <1>15, <1>16 DEF StreamPlaces
<1> QED  BY Zenon, <1>12, <1>17

\* A send that times out drops the rest of the event and excuses it.
LEMMA SendTimesOutInv ==
  ASSUME StreamInv, SendTimesOut
  PROVE  StreamInv'
<1> USE DEF StreamInv
<1>1. UNCHANGED <<srcKind, keeper, srcLog, running, fetched, syncPos, heldPos, walPos, savedPos,
                  slotPos, handed, widePos>>
      /\ srcKind # "postgres" /\ left' = 0
      /\ excused \subseteq excused' /\ InFlight \subseteq handed' \cup excused'
  BY Zenon DEF SendTimesOut, srcConfig
<1>2. \A c : Accounted(c) => Accounted(c)'
  BY Zenon, <1>1 DEF Accounted
<1>3. \A p \in Nat : Passed(p) => Passed(p)'
  BY <1>1, <1>2, PassedStays DEF StreamType
<1>4. StreamType'
  BY <1>1 DEF StreamType
<1>5. PassedPos' = 2 * fetched'
  BY <1>1 DEF PassedPos
<1>6. Passed(2 * fetched)'
  BY Zenon, <1>1, <1>3, PlacesStay
<1>7. Passed(PassedPos)'
  BY Zenon, <1>5, <1>6
<1>8. StreamPlaces'
  BY Zenon, <1>1, <1>3, <1>6, <1>7, PlacesStay DEF StreamPlaces, OldPlaces
<1> QED  BY Zenon, <1>4, <1>8

\* The commit message comes after every row of the transaction.
LEMMA CommitInv ==
  ASSUME StreamInv, CommitMessage
  PROVE  StreamInv'
<1> USE DEF StreamInv
<1>1. UNCHANGED <<srcKind, keeper, srcLog, running, fetched, heldPos, savedPos, slotPos, handed,
                  excused, widePos>>
      /\ srcKind = "postgres" /\ left = 1 /\ left' = 0
      /\ syncPos' = 2 * fetched /\ walPos' = 2 * fetched
  BY Zenon DEF CommitMessage, srcConfig, srcGhosts
<1>2. PICK f \in 1..Len(srcLog) : f = fetched
  BY <1>1 DEF StreamType
<1>3. srcLog[f] \in Nat /\ Len(srcLog) \in Nat /\ f \in Nat
  BY Zenon, RowsOf
<1>4. \A c : Accounted(c) => Accounted(c)'
  BY Zenon, <1>1 DEF Accounted
<1>5. \A p \in Nat : Passed(p) => Passed(p)'
  BY <1>1, <1>4, PassedStays DEF StreamType
<1>6. Passed(2 * (f - 1))
  <2>1. PassedPos = 2 * f - 1  BY <1>1, <1>2 DEF PassedPos
  <2>2. Passed(2 * f - 1)  BY Zenon, <2>1 DEF StreamPlaces
  <2> QED  BY <1>3, <2>2, PassedEarlier
<1>7. \A r \in 1..srcLog[f] : Accounted(<<f, r>>)'
  <2>1. srcLog[f] - RowsLeft = srcLog[f]
    BY <1>1, <1>3 DEF RowsLeft
  <2>2. \A r \in 1..srcLog[f] : <<f, r>> \in handed \cup excused
    BY <1>1, <1>2, <2>1 DEF StreamPlaces
  <2> QED  BY Zenon, <1>1, <2>2 DEF Accounted
<1>8. Passed(2 * f)'
  BY Zenon, <1>1, <1>5, <1>6, <1>7, PassedNext DEF StreamType
<1>9. StreamType'
  BY <1>1, <1>2, <1>3 DEF StreamType
<1>10. PassedPos' = 2 * f /\ syncPos' = 2 * f /\ walPos' = 2 * f
  BY <1>1, <1>2 DEF PassedPos
<1>11. Passed(PassedPos)' /\ Passed(syncPos)' /\ Passed(walPos)'
  BY Zenon, <1>8, <1>10
<1>12. StreamPlaces'
  BY <1>1, <1>5, <1>11, PlacesStay DEF StreamPlaces, OldPlaces
<1> QED  BY Zenon, <1>9, <1>12

\* The server's word on how far it has sent, the status update to the slot and the saver
\* of mysql copy a position.
LEMMA CopyInv ==
  ASSUME StreamInv, NEW save \in BOOLEAN, Keepalive \/ StandbyStatus \/ SaverTick(save)
  PROVE  StreamInv'
<1> USE DEF StreamInv
<1>1. UNCHANGED <<srcKind, keeper, srcLog, running, fetched, left, syncPos, handed, excused, widePos>>
  BY Zenon DEF Keepalive, StandbyStatus, SaverTick, srcConfig, srcGhosts, stream
<1>2. \A c : Accounted(c) => Accounted(c)'
  <2>1. InFlight' = InFlight  BY Zenon, <1>1 DEF InFlight, RowsLeft
  <2> QED  BY Zenon, <1>1, <2>1 DEF Accounted
<1>3. \A p \in Nat : Passed(p) => Passed(p)'
  BY <1>1, <1>2, PassedStays DEF StreamType
<1>4. PassedPos' = PassedPos /\ RowsLeft' = RowsLeft
  BY Zenon, <1>1 DEF PassedPos, RowsLeft
<1>5. /\ walPos' \in OldPlaces /\ heldPos' \in OldPlaces /\ savedPos' \in OldPlaces
      /\ slotPos' = slotPos \/ (slotPos' = walPos /\ walPos' = walPos)
  <2>1. CASE Keepalive
    <3>1. PICK a \in Nat, b \in Nat : a = walPos /\ b = 2 * fetched  BY DEF StreamType
    <3>2. left = 0 /\ walPos' = Max({a, b}) /\ UNCHANGED <<heldPos, savedPos, slotPos>>
      BY Zenon, <2>1, <3>1 DEF Keepalive
    <3>3. PassedPos = b  BY <3>1, <3>2 DEF PassedPos
    <3>4. walPos' \in {walPos, PassedPos}
      BY Zenon, <3>1, <3>2, <3>3, LargerOfTwo
    <3> QED  BY Zenon, <3>2, <3>4 DEF OldPlaces
  <2>2. CASE StandbyStatus
    <3>1. PICK a \in Nat, b \in Nat : a = slotPos /\ b = walPos  BY Zenon DEF StreamType
    <3>2. slotPos' = Max({a, b}) /\ UNCHANGED <<heldPos, savedPos, walPos>>
      BY Zenon, <2>2, <3>1 DEF StandbyStatus, stream
    <3>3. slotPos' \in {slotPos, walPos}
      BY Zenon, <3>1, <3>2, LargerOfTwo
    <3> QED  BY Zenon, <3>2, <3>3 DEF OldPlaces
  <2>3. CASE SaverTick(save)
    BY Zenon, <2>3 DEF SaverTick, OldPlaces
  <2> QED  BY Zenon, <2>1, <2>2, <2>3
<1>6. OldPlaces \subseteq Nat
  BY Zenon, <1>3, PlacesStay
<1>7. StreamType'
  <2>1. slotPos' \in Nat /\ walPos' \in Nat /\ heldPos' \in Nat /\ savedPos' \in Nat
    BY Zenon, <1>5, <1>6 DEF StreamType
  <2>2. Messages(fetched)' = Messages(fetched)
    BY Zenon, <1>1 DEF Messages
  <2> QED  BY Zenon, <1>1, <2>1, <2>2 DEF StreamType
<1>8. Passed(walPos)' /\ Passed(heldPos)' /\ Passed(savedPos)' /\ Passed(syncPos)' /\ Passed(PassedPos)'
      /\ (srcKind # "postgres" => Passed(2 * fetched)')
  BY Zenon, <1>1, <1>3, <1>4, <1>5, PlacesStay DEF OldPlaces
<1>9. srcKind = "postgres" => Passed(slotPos)'
  <2>1. CASE slotPos' = slotPos
    BY Zenon, <1>3, <2>1, PlacesStay
  <2>2. CASE slotPos' = walPos /\ walPos' = walPos
    BY Zenon, <1>8, <2>2
  <2> QED  BY Zenon, <1>5, <2>1, <2>2
<1>10. StreamPlaces'
  BY Zenon, <1>1, <1>4, <1>8, <1>9 DEF StreamPlaces
<1> QED  BY Zenon, <1>7, <1>10

\* The operator sets a position: the changes before it that were not handed over are excused.
LEMMA SetPositionInv ==
  ASSUME StreamInv, NEW n \in DOMAIN srcLog, NEW save \in BOOLEAN, SetPosition(n, save)
  PROVE  StreamInv'
<1> USE DEF StreamInv
<1>1. UNCHANGED <<srcKind, keeper, srcLog, running, fetched, left, slotPos, handed, widePos>>
      /\ excused' = excused \cup (Before(2 * n) \ handed)
  BY Zenon DEF SetPosition, srcConfig
<1>2. \A c : Accounted(c) => Accounted(c)'
  <2>1. InFlight' = InFlight  BY Zenon, <1>1 DEF InFlight, RowsLeft
  <2> QED  BY Zenon, <1>1, <2>1 DEF Accounted
<1>3. \A p \in Nat : Passed(p) => Passed(p)'
  BY <1>1, <1>2, PassedStays DEF StreamType
<1>4. PassedPos' = PassedPos /\ RowsLeft' = RowsLeft
  BY Zenon, <1>1 DEF PassedPos, RowsLeft
<1>5. n \in 1..Len(srcLog)
  BY DEF StreamType
<1>6. PICK a \in Nat : a = 2 * n /\ a <= 2 * Len(srcLog)
  BY <1>5, RowsOf
<1>7. Passed(a)'
  BY Zenon, <1>1, <1>6, PassedExcused
<1>8. /\ savedPos' \in {savedPos, a} /\ syncPos' \in {syncPos, a} /\ heldPos' \in {heldPos, a}
      /\ walPos' \in {walPos, a}
  BY Zenon, <1>6 DEF SetPosition
<1>9. StreamType'
  <2>1. walPos' \in Nat /\ heldPos' \in Nat /\ savedPos' \in Nat /\ syncPos' \in Nat
    BY Zenon, <1>8 DEF StreamType
  <2>2. Messages(fetched)' = Messages(fetched)
    BY Zenon, <1>1 DEF Messages
  <2> QED  BY Zenon, <1>1, <2>1, <2>2 DEF StreamType
<1>10. /\ savedPos' = a \/ savedPos' \in OldPlaces
       /\ syncPos' = a \/ syncPos' \in OldPlaces
       /\ heldPos' = a \/ heldPos' \in OldPlaces
       /\ walPos' = a \/ walPos' \in OldPlaces
  BY Zenon, <1>8 DEF OldPlaces
<1>11. Passed(savedPos)' /\ Passed(syncPos)' /\ Passed(heldPos)' /\ Passed(walPos)'
  BY Zenon, <1>3, <1>7, <1>10, PlacesStay
<1>12. Passed(PassedPos)' /\ (srcKind # "postgres" => Passed(2 * fetched)')
       /\ (srcKind = "postgres" => Passed(slotPos)')
  BY Zenon, <1>1, <1>3, <1>4, PlacesStay DEF OldPlaces
<1>13. StreamPlaces'
  BY Zenon, <1>1, <1>4, <1>11, <1>12 DEF StreamPlaces
<1> QED  BY Zenon, <1>9, <1>13

\* A connector that has not started yet, on an empty log, satisfies the
\* invariant.
LEMMA StreamInvInit ==
  ASSUME StreamInit
  PROVE  StreamInv
<1>1. StreamType
  <2>1. srcKind \in {"mysql", "mongo", "postgres"} /\ (keeper = "store" => srcKind = "mongo")
    BY Zenon, SourceBounds DEF StreamInit
  <2>2. srcLog = <<>> /\ srcLog \in Seq(0..MaxRows) /\ Len(srcLog) = 0
    BY DEF StreamInit
  <2>3. running \in BOOLEAN  BY Zenon DEF StreamInit
  <2> QED  BY <2>1, <2>2, <2>3 DEF StreamInit, StreamType
<1>2. /\ srcLog = <<>> /\ fetched = 0 /\ left = 0 /\ syncPos = 0 /\ heldPos = 0 /\ savedPos = 0
      /\ walPos = 0 /\ slotPos = 0
  BY Zenon DEF StreamInit
<1>3. PassedPos = 0 /\ 2 * fetched = 0
  BY <1>2 DEF PassedPos
<1>4. Passed(0)
  BY Zenon, <1>1, PassedNone
<1> QED  BY <1>1, <1>2, <1>3, <1>4 DEF StreamInv, StreamPlaces

\* Every step of the log, the reader and the connector keeps the invariant.
LEMMA StreamInvHolds == StreamSpec => []StreamInv
<1>1. StreamInit => StreamInv
  BY Zenon, StreamInvInit
<1>2. ASSUME StreamInv, [StreamNext]_srcVars
      PROVE  StreamInv'
  <2>1. ASSUME NEW rows \in 0..MaxRows, LogGrows(rows)
        PROVE  StreamInv'
    BY Zenon, <1>2, <2>1, LogGrowsInv
  <2>2. ASSUME NEW ok \in BOOLEAN, StartSource(ok) \/ Fetch(ok) \/ SaverTick(ok)
        PROVE  StreamInv'
    BY Zenon, <1>2, <2>2, StartInv, FetchInv, CopyInv
  <2>3. CASE StopSource \/ CrashSource \/ SendPanics
    BY Zenon, <1>2, <2>3, EndsInv
  <2>4. CASE Undecodable
    BY Zenon, <1>2, <2>4, UndecodableInv
  <2>5. ASSUME NEW width \in 0..MaxWide, OtherMessage(width) \/ RowDropped(width)
        PROVE  StreamInv'
    BY Zenon, <1>2, <2>5, HandOverInv, OtherMessageInv
  <2>11. CASE HandOver
    <3>1. 0 \in 0..MaxWide  BY SourceBounds
    <3> QED  BY Zenon, <1>2, <2>11, <3>1, HandOverInv
  <2>6. CASE SendTimesOut
    BY Zenon, <1>2, <2>6, SendTimesOutInv
  <2>7. CASE CommitMessage
    BY Zenon, <1>2, <2>7, CommitInv
  <2>8. CASE Keepalive \/ StandbyStatus
    BY Zenon, <1>2, <2>8, CopyInv
  <2>9. ASSUME NEW n \in DOMAIN srcLog, NEW ok \in BOOLEAN, SetPosition(n, ok)
        PROVE  StreamInv'
    BY Zenon, <1>2, <2>9, SetPositionInv
  <2>10. CASE UNCHANGED srcVars
    <3>1. UNCHANGED <<srcKind, keeper, srcLog, running, fetched, left, syncPos, heldPos, walPos,
                      savedPos, slotPos, handed, excused, widePos>>
      BY Zenon, <2>10 DEF srcVars, srcConfig, stream, srcGhosts
    <3>2. StreamType'
      BY Zenon, <1>2, <3>1 DEF StreamInv, StreamType, Messages
    <3>3. PassedPos' = PassedPos /\ RowsLeft' = RowsLeft /\ InFlight' = InFlight
      BY Zenon, <3>1 DEF PassedPos, RowsLeft, InFlight
    <3>4. \A p : Passed(p)' <=> Passed(p)
      BY Zenon, <3>1, <3>3 DEF Passed, Before, Accounted
    <3>5. StreamPlaces'
      BY Zenon, <1>2, <3>1, <3>3, <3>4 DEF StreamInv, StreamPlaces
    <3> QED  BY Zenon, <3>2, <3>5 DEF StreamInv
  <2> QED
    BY Zenon, <1>2, <2>1, <2>2, <2>3, <2>4, <2>5, <2>6, <2>7, <2>8, <2>9, <2>10, <2>11
    DEF StreamNext
<1> QED  BY <1>1, <1>2, PTL DEF StreamSpec

\* Whatever a source that is pushed changes has moved past, or would skip when it is
\* started again, was put on the channel or has one of the named causes, for any log, any
\* number of rows in an event, any number of starts and any width of a message
\* (binlog_syncer.go, changestream.go, replication.go).
THEOREM SkippedSafe == StreamSpec => []SkippedIsExcused
<1>1. StreamInv => SkippedIsExcused
  <2> SUFFICES ASSUME StreamInv
               PROVE  SkippedIsExcused
    BY Zenon
  <2> USE DEF StreamInv
  <2>1. PICK a \in Nat : a = ResumePos /\ Passed(a)
    <3>1. Passed(0)  BY Zenon, PassedNone
    <3> QED  BY Zenon, <3>1, StartPassed DEF ResumePos
  <2>2. PICK b \in Nat : b = PassedPos /\ Passed(b)
    <3>1. PassedPos \in Nat  BY DEF PassedPos, StreamType
    <3> QED  BY Zenon, <3>1 DEF StreamPlaces
  <2>3. PICK m \in Nat : m = Max({a, b}) /\ m \in {a, b}
    BY Zenon, LargerOfTwo
  <2>4. Passed(m)
    BY Zenon, <2>1, <2>2, <2>3
  <2> QED  BY Zenon, <2>1, <2>2, <2>3, <2>4 DEF SkippedIsExcused, Passed, Accounted
<1> QED  BY <1>1, StreamInvHolds, PTL

\* A position is bounded by the log and by the widest message.
StreamEnd == 2 * MaxLog + MaxWide

\* What else the type invariant says: only changes of the log are counted.
StreamLimits ==
  /\ keeper \in {"offsets", "store", "none"} /\ pinned \in BOOLEAN /\ srcKind \in SourceKinds
  /\ Len(srcLog) <= MaxLog
  /\ widePos <= StreamEnd /\ slotPos <= StreamEnd
  /\ handed \cup excused \subseteq Before(2 * Len(srcLog))

\* The bounds as numbers.
LEMMA StreamConstants ==
  /\ MaxLog \in Nat /\ MaxRows \in Nat /\ MaxWide \in Nat /\ StreamEnd \in Nat
  /\ 2 * MaxLog <= StreamEnd
<1>1. MaxLog \in Nat /\ MaxRows \in Nat /\ MaxWide \in Nat
  BY Zenon, SourceBounds
<1> QED  BY <1>1 DEF StreamEnd

\* A change of the log is before its end, whatever position it is before.
LEMMA BeforeEnd ==
  ASSUME StreamType
  PROVE  /\ \A p : Before(p) \subseteq Before(2 * Len(srcLog))
         /\ \A f \in 1..Len(srcLog), r \in 1..MaxRows :
              r <= srcLog[f] => <<f, r>> \in Before(2 * Len(srcLog))
<1>1. Len(srcLog) \in Nat /\ \A f \in 1..Len(srcLog) : 2 * f <= 2 * Len(srcLog)
  <2>1. srcLog \in Seq(0..MaxRows)  BY Zenon DEF StreamType
  <2>2. Len(srcLog) \in Nat  BY <2>1
  <2> QED  BY <2>2
<1>2. ASSUME NEW p, NEW c \in Before(p)
      PROVE  c \in Before(2 * Len(srcLog))
  <2>1. c \in (1..Len(srcLog)) \X (1..MaxRows) /\ c[2] <= srcLog[c[1]] /\ c[1] \in 1..Len(srcLog)
    BY Zenon DEF Before
  <2> QED  BY Zenon, <1>1, <2>1 DEF Before
<1>3. ASSUME NEW f \in 1..Len(srcLog), NEW r \in 1..MaxRows, r <= srcLog[f]
      PROVE  <<f, r>> \in Before(2 * Len(srcLog))
  <2>1. <<f, r>> \in (1..Len(srcLog)) \X (1..MaxRows) /\ <<f, r>>[1] = f /\ <<f, r>>[2] = r
    BY Zenon
  <2> QED  BY Zenon, <1>1, <1>3, <2>1 DEF Before
<1> QED  BY Zenon, <1>2, <1>3

\* The changes in hand are changes of the log, also the next one that is handed over.
LEMMA InHand ==
  ASSUME StreamType
  PROVE  /\ InFlight \subseteq Before(2 * Len(srcLog))
         /\ RowsLeft > 0 => <<fetched, srcLog[fetched] - RowsLeft + 1>> \in Before(2 * Len(srcLog))
<1>1. RowsLeft \in Nat /\ left \in Nat /\ RowsLeft <= left
  BY DEF RowsLeft, StreamType
<1>2. CASE RowsLeft = 0
  BY <1>1, <1>2 DEF InFlight
<1>3. CASE RowsLeft # 0
  <2>1. left > 0  BY <1>1, <1>3
  <2>2. fetched \in 1..Len(srcLog) /\ left <= Messages(fetched) /\ srcLog \in Seq(0..MaxRows)
    BY Zenon, <2>1 DEF StreamType
  <2>3. srcLog[fetched] \in 0..MaxRows  BY Zenon, <2>2, SeqElement
  <2>4. RowsLeft <= srcLog[fetched]
    BY <1>1, <2>1, <2>2, <2>3 DEF RowsLeft, Messages
  <2>5. \A r \in (srcLog[fetched] - RowsLeft + 1)..srcLog[fetched] :
          r \in 1..MaxRows /\ r <= srcLog[fetched]
    BY <1>1, <2>3, <2>4, StreamConstants
  <2>6. srcLog[fetched] - RowsLeft + 1 \in (srcLog[fetched] - RowsLeft + 1)..srcLog[fetched]
    BY <1>1, <1>3, <2>3, <2>4
  <2>7. \A r \in (srcLog[fetched] - RowsLeft + 1)..srcLog[fetched] :
          <<fetched, r>> \in Before(2 * Len(srcLog))
    BY Zenon, <2>2, <2>5, BeforeEnd
  <2> QED  BY Zenon, <1>3, <2>6, <2>7 DEF InFlight
<1> QED  BY Zenon, <1>2, <1>3

\* The log grows: the changes that were in it stay.
LEMMA GrowsLimits ==
  ASSUME StreamInv, StreamLimits, NEW rows \in 0..MaxRows, LogGrows(rows)
  PROVE  StreamLimits'
<1>1. srcLog \in Seq(0..MaxRows) /\ srcLog' = Append(srcLog, rows) /\ Len(srcLog) < MaxLog
      /\ UNCHANGED <<handed, excused, widePos, slotPos, srcConfig>>
  BY Zenon DEF StreamInv, StreamType, LogGrows, srcGhosts
<1>2. /\ Len(srcLog) \in Nat /\ Len(srcLog') = Len(srcLog) + 1
      /\ \A f \in 1..Len(srcLog) : srcLog'[f] = srcLog[f]
  BY <1>1
<1>3. Len(srcLog') <= MaxLog /\ \A f \in 1..Len(srcLog) : f \in 1..Len(srcLog') /\ 2 * f <= 2 * Len(srcLog')
  BY <1>1, <1>2, StreamConstants
<1>4. ASSUME NEW c \in Before(2 * Len(srcLog))
      PROVE  c \in Before(2 * Len(srcLog))'
  <2>1. PICK f \in 1..Len(srcLog), r \in 1..MaxRows : c = <<f, r>> /\ c[1] = f /\ c[2] = r /\ r <= srcLog[f]
    BY DEF Before
  <2>2. c \in (1..Len(srcLog')) \X (1..MaxRows)
    BY Zenon, <1>3, <2>1
  <2>3. 2 * c[1] <= 2 * Len(srcLog') /\ c[2] <= srcLog'[c[1]]
    BY Zenon, <1>2, <1>3, <2>1
  <2> QED  BY Zenon, <2>2, <2>3 DEF Before
<1> QED  BY Zenon, <1>1, <1>3, <1>4 DEF StreamLimits, srcConfig

\* Every other step counts changes of the log only, and no position goes beyond the bound.
LEMMA StreamStepLimits ==
  ASSUME StreamInv, StreamLimits, UNCHANGED <<srcConfig, srcLog>>,
         handed' \subseteq handed \cup Before(2 * Len(srcLog)),
         excused' \subseteq excused \cup Before(2 * Len(srcLog)),
         widePos' <= StreamEnd, slotPos' <= StreamEnd
  PROVE  StreamLimits'
<1>1. Before(2 * Len(srcLog))' = Before(2 * Len(srcLog))
  BY Zenon DEF Before
<1> QED  BY Zenon, <1>1 DEF StreamLimits, srcConfig

\* A position that the log or a wide message covers is within the bound.
LEMMA PassedBound ==
  ASSUME StreamInv, StreamLimits, NEW p \in Int, Passed(p)
  PROVE  p <= StreamEnd
<1>1. Len(srcLog) \in Nat /\ Len(srcLog) <= MaxLog /\ widePos \in Nat /\ widePos <= StreamEnd
  <2>1. srcLog \in Seq(0..MaxRows)  BY Zenon DEF StreamInv, StreamType
  <2>2. Len(srcLog) \in Nat  BY <2>1
  <2> QED  BY Zenon, <2>2 DEF StreamInv, StreamType, StreamLimits
<1>2. p <= 2 * Len(srcLog) \/ p <= widePos
  BY Zenon DEF Passed
<1> QED  BY <1>1, <1>2, StreamConstants

\* A message may reach past its transaction.
LEMMA WideLimits ==
  ASSUME StreamInv, StreamLimits, NEW width \in 0..MaxWide, Received(width), left > 0
  PROVE  widePos' <= StreamEnd
<1>1. widePos \in Nat /\ widePos <= StreamEnd /\ left \in Nat
  BY Zenon DEF StreamInv, StreamType, StreamLimits
<1>2. CASE widePos' = widePos
  BY Zenon, <1>1, <1>2
<1>3. CASE widePos' # widePos
  <2>1. walPos' = 2 * fetched - 1 + width /\ widePos' = Max({widePos, walPos'})
    BY Zenon, <1>3 DEF Received
  <2>3. fetched \in 1..Len(srcLog) /\ srcLog \in Seq(0..MaxRows) /\ Len(srcLog) <= MaxLog
    BY Zenon DEF StreamInv, StreamType, StreamLimits
  <2>4. walPos' \in Nat /\ walPos' <= StreamEnd
    BY <2>1, <2>3, StreamConstants DEF StreamEnd
  <2>5. Max({widePos, walPos'}) \in {widePos, walPos'}
    BY Zenon, <1>1, <2>4, LargerOfTwo
  <2> QED  BY Zenon, <1>1, <2>1, <2>4, <2>5
<1> QED  BY Zenon, <1>2, <1>3

\* The slot is told a position the connector holds.
LEMMA SlotLimits ==
  ASSUME StreamInv, StreamLimits, StandbyStatus
  PROVE  slotPos' <= StreamEnd
<1>1. walPos \in Nat /\ slotPos \in Nat /\ slotPos <= StreamEnd /\ Passed(walPos)
  BY Zenon DEF StreamInv, StreamType, StreamPlaces, StreamLimits
<1>2. walPos <= StreamEnd
  <2>1. walPos \in Int  BY <1>1
  <2> QED  BY Zenon, <1>1, <2>1, PassedBound
<1>3. slotPos' \in {slotPos, walPos}
  BY Zenon, <1>1, LargerOfTwo DEF StandbyStatus
<1> QED  BY Zenon, <1>1, <1>2, <1>3

\* Every step keeps the bounds.
LEMMA StreamKeepsLimits ==
  ASSUME StreamInv, StreamLimits, [StreamNext]_srcVars
  PROVE  StreamLimits'
<1>1. /\ widePos <= StreamEnd /\ slotPos <= StreamEnd
      /\ \A p : Before(p) \subseteq Before(2 * Len(srcLog))
      /\ InFlight \subseteq Before(2 * Len(srcLog))
  BY Zenon, BeforeEnd, InHand DEF StreamInv, StreamLimits
<1>2. ASSUME NEW ok \in BOOLEAN, StartSource(ok) \/ Fetch(ok) \/ SaverTick(ok)
      PROVE  StreamLimits'
  <2>1. /\ UNCHANGED <<srcConfig, srcLog, handed, widePos, slotPos>>
        /\ excused' \subseteq excused \cup Before(2 * Len(srcLog))
    BY Zenon, <1>1, <1>2 DEF StartSource, Fetch, SaverTick, srcGhosts
  <2> QED  BY Zenon, <1>1, <2>1, StreamStepLimits
<1>3. CASE StopSource \/ CrashSource \/ SendPanics \/ SendTimesOut
  <2>1. /\ UNCHANGED <<srcConfig, srcLog, handed, widePos, slotPos>>
        /\ excused' \subseteq excused \cup Before(2 * Len(srcLog))
    BY Zenon, <1>1, <1>3 DEF StopSource, CrashSource, SendPanics, SendTimesOut, Ended
  <2> QED  BY Zenon, <1>1, <2>1, StreamStepLimits
<1>4. CASE Undecodable
  <2>1. /\ UNCHANGED <<srcConfig, srcLog, handed, widePos, slotPos>>
        /\ \A c \in excused' : c \in excused \/ \E r \in 1..srcLog[fetched + 1] : c = <<fetched + 1, r>>
        /\ fetched < Len(srcLog)
    BY Zenon, <1>4 DEF Undecodable
  <2>2. fetched \in Nat /\ srcLog \in Seq(0..MaxRows)
    BY Zenon DEF StreamInv, StreamType
  <2>3. fetched + 1 \in 1..Len(srcLog)
    BY <2>1, <2>2
  <2>4. srcLog[fetched + 1] \in 0..MaxRows
    BY Zenon, <2>2, <2>3, SeqElement
  <2>5. \A r \in 1..srcLog[fetched + 1] : r \in 1..MaxRows /\ r <= srcLog[fetched + 1]
    BY <2>4, StreamConstants
  <2>6. \A r \in 1..srcLog[fetched + 1] : <<fetched + 1, r>> \in Before(2 * Len(srcLog))
    BY Zenon, <2>3, <2>5, BeforeEnd DEF StreamInv
  <2> QED  BY Zenon, <1>1, <2>1, <2>6, StreamStepLimits
<1>5. ASSUME NEW width \in 0..MaxWide, OtherMessage(width) \/ RowDropped(width)
      PROVE  StreamLimits'
  <2>1. /\ UNCHANGED <<srcConfig, srcLog, handed, slotPos>> /\ Received(width)
        /\ excused' = excused \/ (RowsLeft > 0 /\ excused' \subseteq
                                  excused \cup {<<fetched, srcLog[fetched] - RowsLeft + 1>>})
    BY Zenon, <1>5 DEF OtherMessage, RowDropped
  <2>2. RowsLeft > 0 => <<fetched, srcLog[fetched] - RowsLeft + 1>> \in Before(2 * Len(srcLog))
    BY Zenon, InHand DEF StreamInv
  <2>3. left > 0
    BY <1>5 DEF OtherMessage, RowDropped, RowsLeft, StreamInv, StreamType
  <2>4. widePos' <= StreamEnd
    BY Zenon, <2>1, <2>3, WideLimits
  <2> QED  BY Zenon, <1>1, <2>1, <2>2, <2>4, StreamStepLimits
<1>10. CASE HandOver
  <2>1. RowsLeft = left  BY Zenon, <1>10 DEF HandOver, RowsLeft
  <2>2. /\ UNCHANGED <<srcConfig, srcLog, excused, widePos, slotPos>> /\ RowsLeft > 0
        /\ handed' = handed \cup {<<fetched, srcLog[fetched] - RowsLeft + 1>>}
    BY Zenon, <1>10, <2>1 DEF HandOver
  <2>3. <<fetched, srcLog[fetched] - RowsLeft + 1>> \in Before(2 * Len(srcLog))
    BY Zenon, <2>2, InHand DEF StreamInv
  <2> QED  BY Zenon, <1>1, <2>2, <2>3, StreamStepLimits
<1>6. CASE CommitMessage \/ Keepalive
  <2>1. UNCHANGED <<srcConfig, srcLog, handed, excused, widePos, slotPos>>
    BY Zenon, <1>6 DEF CommitMessage, Keepalive, srcGhosts
  <2> QED  BY Zenon, <1>1, <2>1, StreamStepLimits
<1>7. CASE StandbyStatus
  <2>1. UNCHANGED <<srcConfig, srcLog, handed, excused, widePos>> /\ slotPos' <= StreamEnd
    BY Zenon, <1>7, SlotLimits DEF StandbyStatus, srcGhosts
  <2> QED  BY Zenon, <1>1, <2>1, StreamStepLimits
<1>8. ASSUME NEW n \in DOMAIN srcLog, NEW ok \in BOOLEAN, SetPosition(n, ok)
      PROVE  StreamLimits'
  <2>1. /\ UNCHANGED <<srcConfig, srcLog, handed, widePos, slotPos>>
        /\ excused' \subseteq excused \cup Before(2 * Len(srcLog))
    BY Zenon, <1>1, <1>8 DEF SetPosition
  <2> QED  BY Zenon, <1>1, <2>1, StreamStepLimits
<1>9. CASE UNCHANGED srcVars
  <2>1. UNCHANGED <<srcConfig, srcLog, handed, excused, widePos, slotPos>>
    BY Zenon, <1>9 DEF srcVars, srcGhosts
  <2> QED  BY Zenon, <1>1, <2>1, StreamStepLimits
<1> QED  BY Zenon, <1>2, <1>3, <1>4, <1>5, <1>6, <1>7, <1>8, <1>9, <1>10, GrowsLimits DEF StreamNext

\* The types and bounds of the streaming readers hold in every state, for any log: every
\* position the connector keeps lies within the log and what a wide message reaches past it,
\* messages of an event are left only while the connector runs, and only changes of the log
\* are handed over or counted as lost (binlog_syncer.go, pgoutput_handler.go, change_stream.go).
THEOREM StreamTypesHold == StreamSpec => []StreamTypeOK
<1>1. StreamInit => StreamLimits
  <2> SUFFICES ASSUME StreamInit
               PROVE  StreamLimits
    BY Zenon
  <2>1. Len(srcLog) <= MaxLog /\ widePos <= StreamEnd /\ slotPos <= StreamEnd
    BY StreamConstants DEF StreamInit
  <2>2. keeper \in {"offsets", "store", "none"}
    BY Zenon DEF StreamInit
  <2> QED  BY Zenon, <2>1, <2>2 DEF StreamInit, StreamLimits
<1>2. StreamInv /\ StreamLimits /\ [StreamNext]_srcVars => StreamLimits'
  BY Zenon, StreamKeepsLimits
<1>3. StreamInv /\ StreamLimits => StreamTypeOK
  <2> SUFFICES ASSUME StreamInv, StreamLimits
               PROVE  StreamTypeOK
    BY Zenon
  <2>1. /\ syncPos \in Nat /\ heldPos \in Nat /\ savedPos \in Nat /\ walPos \in Nat /\ slotPos \in Nat
        /\ widePos \in Nat /\ fetched \in Nat /\ left \in Nat /\ widePos <= StreamEnd /\ slotPos <= StreamEnd
        /\ Passed(savedPos) /\ Passed(syncPos) /\ Passed(heldPos) /\ Passed(walPos) /\ Passed(PassedPos)
    BY Zenon DEF StreamInv, StreamType, StreamPlaces, StreamLimits
  <2>2. Nat \subseteq Int /\ \A p \in Nat : p <= StreamEnd => p \in 0..StreamEnd
    BY StreamConstants
  <2>3. {syncPos, heldPos, savedPos, walPos, slotPos, widePos} \subseteq 0..StreamEnd
    BY Zenon, <2>1, <2>2, PassedBound
  <2>4. fetched \in 0..(MaxLog + MaxWide)
    <3>1. PassedPos \in Int /\ 2 * fetched - 1 <= PassedPos
      BY <2>1 DEF PassedPos
    <3>2. PassedPos <= StreamEnd
      BY Zenon, <2>1, <3>1, PassedBound
    <3> QED  BY <2>1, <3>1, <3>2, StreamConstants DEF StreamEnd
  <2>5. left > 0 => running /\ fetched \in 1..Len(srcLog) /\ left <= Messages(fetched)
    BY Zenon DEF StreamInv, StreamType
  <2>6. srcLog \in Seq(0..MaxRows) /\ DOMAIN srcLog = 1..Len(srcLog)
    <3>1. srcLog \in Seq(0..MaxRows)  BY Zenon DEF StreamInv, StreamType
    <3> QED  BY <3>1
  <2>7. left \in 0..(MaxRows + 1)
    <3>1. CASE left > 0
      <4>1. srcLog[fetched] \in 0..MaxRows  BY Zenon, <2>5, <2>6, <3>1, SeqElement
      <4>2. Messages(fetched) \in 0..(MaxRows + 1)
        BY <4>1, StreamConstants DEF Messages
      <4> QED  BY <2>1, <2>5, <3>1, <4>2, StreamConstants
    <3> QED  BY <2>1, <3>1, StreamConstants
  <2> QED  BY Zenon, <2>3, <2>4, <2>5, <2>6, <2>7
           DEF StreamInv, StreamType, StreamLimits, StreamTypeOK, StreamEnd
<1> QED  BY <1>1, <1>2, <1>3, StreamInvHolds, PTL DEF StreamSpec

-----------------------------------------------------------------------------

(***************************************************************************)
(* The polling readers (PollSources).                                      *)
(*                                                                         *)
(* The same argument for the positions of the readers (Covered). While a   *)
(* table is read, the changes up to the LSN it is read to are emitted,     *)
(* lost for a named cause, or among those found (PollPlaces).              *)
(***************************************************************************)

\* The changes of reader i up to the position p were put on the channel, or are lost for a
\* named cause; the next change of the log lies behind p.
Covered(i, p) ==
  /\ p <= 2 * Len(changeLog) + 1
  /\ \A n \in Mine(i) : LSN(n) <= p => n \in emitted \cup missed

\* The types the proof needs.
PollType ==
  /\ pollKind \in {"oracle", "sqlserver"}
  /\ changeLog \in Seq(Instances)
  /\ readerPos \in [Readers -> Nat]
  /\ toRead \subseteq Readers
  /\ reading \in Readers \cup {NoReader}
  /\ upTo \in Nat /\ latest \in Nat /\ pollPos \in Nat /\ keptPos \in Nat
  /\ read \in [Readers -> Nat]

\* Every position is covered; what a reader has found makes up for the changes up to the
\* LSN it has read to, which is the LSN of a change.
PollPlaces ==
  /\ \A i \in Readers :
       Covered(i, readerPos[i]) /\ Covered(i, keptPos) /\ Covered(i, pollPos) /\ Covered(i, read[i])
  /\ upTo <= 2 * Len(changeLog) /\ latest <= 2 * Len(changeLog)
  /\ \E h \in Nat : upTo = 2 * h
  /\ reading # NoReader =>
       \A n \in Mine(reading) : LSN(n) <= upTo => n \in emitted \cup missed \cup found
  /\ pollKind = "oracle" => Covered("miner", latest)

PollIInv == PollType /\ PollPlaces

\* The length of the log, and the place of a change in it.
LEMMA LogOf ==
  ASSUME PollType
  PROVE  /\ Len(changeLog) \in Nat /\ DOMAIN changeLog = 1..Len(changeLog)
         /\ \A i : Mine(i) \subseteq 1..Len(changeLog)
         /\ \A n \in 1..Len(changeLog) : changeLog[n] \in Instances
<1>1. changeLog \in Seq(Instances)  BY Zenon DEF PollType
<1>2. \A n \in 1..Len(changeLog) : changeLog[n] \in Instances  BY Zenon, <1>1, SeqElement
<1> QED  BY <1>1, <1>2 DEF Mine

\* Nothing lies before the first change.
LEMMA CoveredNone ==
  ASSUME PollType
  PROVE  \A i : Covered(i, 0)
<1> SUFFICES ASSUME NEW i, NEW n \in Mine(i), LSN(n) <= 0
             PROVE  FALSE
  BY LogOf DEF Covered
<1>1. n \in 1..Len(changeLog) /\ Len(changeLog) \in Nat  BY Zenon, LogOf
<1> QED  BY <1>1 DEF LSN

\* A step that does not take back a change that was sent or lost, and leaves the log alone,
\* keeps what is covered.
LEMMA CoveredStays ==
  ASSUME UNCHANGED <<pollKind, changeLog>>, emitted \cup missed \subseteq emitted' \cup missed'
  PROVE  \A i, p : Covered(i, p) => Covered(i, p)'
<1>1. \A i : Mine(i)' = Mine(i)  BY Zenon DEF Mine
<1> QED  BY Zenon, <1>1 DEF Covered

\* The log grows behind every covered position.
LEMMA CoveredGrows ==
  ASSUME PollType, NEW j \in Instances, changeLog' = Append(changeLog, j),
         UNCHANGED <<pollKind, emitted, missed>>,
         NEW p \in Nat, NEW i, Covered(i, p)
  PROVE  Covered(i, p)'
<1>1. Len(changeLog) \in Nat /\ Len(changeLog') = Len(changeLog) + 1
      /\ (\A n \in 1..Len(changeLog) : changeLog'[n] = changeLog[n])
      /\ DOMAIN changeLog = 1..Len(changeLog) /\ DOMAIN changeLog' = 1..Len(changeLog')
  BY DEF PollType
<1>2. ASSUME NEW n \in Mine(i)', LSN(n) <= p
      PROVE  n \in emitted' \cup missed'
  <2>1. n \in 1..Len(changeLog') /\ (pollKind = "oracle" \/ changeLog'[n] = i)
    BY Zenon, <1>1, <1>2 DEF Mine
  <2>2. 2 * n <= 2 * Len(changeLog) + 1
    BY <1>1, <1>2, <2>1 DEF Covered, LSN
  <2>3. n \in 1..Len(changeLog)
    BY <1>1, <2>1, <2>2
  <2>4. n \in Mine(i)
    BY Zenon, <1>1, <2>1, <2>3 DEF Mine
  <2> QED  BY Zenon, <1>2, <2>4 DEF Covered
<1>3. p <= 2 * Len(changeLog') + 1
  BY <1>1 DEF Covered
<1> QED  BY Zenon, <1>2, <1>3 DEF Covered, LSN

\* A change in the database lies behind every position of the readers.
LEMMA ChangeInv ==
  ASSUME PollIInv, NEW j \in Instances, Change(j)
  PROVE  PollIInv'
<1> USE DEF PollIInv
<1>1. changeLog' = Append(changeLog, j)
      /\ UNCHANGED <<pollKind, polling, readerPos, toRead, reading, found, upTo, latest, pollPos,
                     read, keptPos, emitted, missed>>
  BY Zenon DEF Change, pollState
<1>2. Len(changeLog) \in Nat /\ Len(changeLog') = Len(changeLog) + 1 /\ changeLog' \in Seq(Instances)
      /\ (\A n \in 1..Len(changeLog) : changeLog'[n] = changeLog[n])
      /\ DOMAIN changeLog = 1..Len(changeLog) /\ DOMAIN changeLog' = 1..Len(changeLog')
  BY <1>1 DEF PollType
<1>3. Readers' = Readers  BY Zenon, <1>1 DEF Readers
<1>4. PollType'
  BY Zenon, <1>1, <1>2, <1>3 DEF PollType
<1>5. \A p \in Nat : \A i : Covered(i, p) => Covered(i, p)'
  BY Zenon, <1>1, CoveredGrows
<1>6. ASSUME NEW i \in Readers
      PROVE  (Covered(i, readerPos[i]) /\ Covered(i, keptPos) /\ Covered(i, pollPos) /\ Covered(i, read[i]))'
  <2>1. PICK a \in Nat, b \in Nat, c \in Nat, d \in Nat :
          a = readerPos[i] /\ b = keptPos /\ c = pollPos /\ d = read[i]
    BY Zenon DEF PollType
  <2>2. Covered(i, a) /\ Covered(i, b) /\ Covered(i, c) /\ Covered(i, d)
    BY Zenon, <2>1 DEF PollPlaces
  <2>3. Covered(i, a)' /\ Covered(i, b)' /\ Covered(i, c)' /\ Covered(i, d)'
    BY Zenon, <1>5, <2>2
  <2>4. a = readerPos'[i] /\ b = keptPos' /\ c = pollPos' /\ d = read'[i]
    BY Zenon, <1>1, <2>1
  <2> QED  BY Zenon, <2>3, <2>4
<1>7. pollKind = "oracle" => Covered("miner", latest)'
  <2>1. PICK a \in Nat : a = latest /\ (pollKind = "oracle" => Covered("miner", a))
    BY Zenon DEF PollType, PollPlaces
  <2>2. pollKind = "oracle" => Covered("miner", a)'
    BY Zenon, <1>5, <2>1
  <2>3. a = latest'  BY Zenon, <1>1, <2>1
  <2> QED  BY Zenon, <2>2, <2>3
<1>8. ASSUME reading' # NoReader, NEW n \in Mine(reading)', LSN(n) <= upTo'
      PROVE  n \in emitted' \cup missed' \cup found'
  <2>1. n \in 1..Len(changeLog') /\ (pollKind = "oracle" \/ changeLog'[n] = reading)
    BY Zenon, <1>1, <1>2, <1>8 DEF Mine
  <2>2. 2 * n <= 2 * Len(changeLog)
    BY <1>1, <1>2, <1>8, <2>1 DEF LSN, PollPlaces, PollType
  <2>3. n \in 1..Len(changeLog)
    BY <1>2, <2>1, <2>2
  <2>4. n \in Mine(reading)
    BY Zenon, <1>2, <2>1, <2>3 DEF Mine
  <2> QED  BY Zenon, <1>1, <1>8, <2>4 DEF PollPlaces
<1>9. upTo' <= 2 * Len(changeLog') /\ latest' <= 2 * Len(changeLog') /\ \E h \in Nat : upTo' = 2 * h
  <2>1. upTo <= 2 * Len(changeLog) /\ latest <= 2 * Len(changeLog) /\ upTo \in Nat /\ latest \in Nat
    BY Zenon DEF PollPlaces, PollType
  <2>2. \E h \in Nat : upTo' = 2 * h
    BY Zenon, <1>1 DEF PollPlaces
  <2> QED  BY <1>1, <1>2, <2>1, <2>2
<1>10. PollPlaces'
  BY Zenon, <1>1, <1>3, <1>6, <1>7, <1>8, <1>9 DEF PollPlaces, LSN
<1> QED  BY Zenon, <1>4, <1>10

\* The positions of a reader, those of the connector, and what it has in hand.
LEMMA PlacesAt ==
  ASSUME PollIInv
  PROVE  /\ keptPos \in Nat /\ pollPos \in Nat /\ upTo \in Nat /\ latest \in Nat
         /\ \A i \in Readers : readerPos[i] \in Nat /\ read[i] \in Nat
         /\ \A i \in Readers : /\ Covered(i, readerPos[i]) /\ Covered(i, keptPos)
                               /\ Covered(i, pollPos) /\ Covered(i, read[i]) /\ Covered(i, 0)
         /\ NoReader \notin Readers
         /\ pollKind = "oracle" => Readers = {"miner"}
         /\ pollKind # "oracle" => Readers = Instances
<1> USE DEF PollIInv
<1>1. NoReader \notin Readers  BY Zenon, PollBounds DEF NoReader, Readers
<1> QED  BY Zenon, <1>1, CoveredNone DEF PollType, PollPlaces, Readers

\* A process starts at the kept position, or without one.
LEMMA StartPollingInv ==
  ASSUME PollIInv, NEW ok \in BOOLEAN, StartPolling(ok)
  PROVE  PollIInv'
<1> USE DEF PollIInv
<1>1. UNCHANGED <<pollKind, changeLog, toRead, reading, found, upTo, latest, keptPos, emitted,
                  missed, read>>
  BY Zenon DEF StartPolling
<1>2. PICK p \in {keptPos, 0} : readerPos' = [i \in Readers |-> p] /\ pollPos' = p
  BY Zenon DEF StartPolling
<1>3. Readers' = Readers /\ \A i, q : Covered(i, q) => Covered(i, q)'
  BY Zenon, <1>1, CoveredStays DEF Readers
<1>4. p \in Nat /\ \A i \in Readers : Covered(i, p)
  BY <1>2, PlacesAt
<1>5. PollType'
  BY Zenon, <1>1, <1>2, <1>3, <1>4 DEF PollType
<1>6. \A i \in Readers : readerPos'[i] = p
  BY Zenon, <1>2
<1>7. \A i \in Readers' :
        (Covered(i, readerPos[i]) /\ Covered(i, keptPos) /\ Covered(i, pollPos) /\ Covered(i, read[i]))'
  BY Zenon, <1>1, <1>2, <1>3, <1>4, <1>6, PlacesAt
<1>8. Mine(reading)' = Mine(reading)  BY Zenon, <1>1 DEF Mine
<1>9. PollPlaces'
  BY Zenon, <1>1, <1>3, <1>7, <1>8 DEF PollPlaces, LSN
<1> QED  BY Zenon, <1>5, <1>9

\* The operator sets the position, and what was not sent before it is lost.
LEMMA SetReadersInv ==
  ASSUME PollIInv, NEW n \in DOMAIN changeLog, SetReaders(n)
  PROVE  PollIInv'
<1> USE DEF PollIInv
<1>1. UNCHANGED <<pollKind, changeLog, toRead, reading, found, upTo, latest, emitted, read>>
      /\ missed' = missed \cup ((1..n) \ emitted)
  BY Zenon DEF SetReaders
<1>2. PICK p \in Nat : p = LSN(n) /\ p <= 2 * Len(changeLog)
  BY LogOf DEF LSN
<1>3. readerPos' = [i \in Readers |-> p] /\ pollPos' = p /\ keptPos' = p
  BY Zenon, <1>2 DEF SetReaders
<1>4. Readers' = Readers /\ \A i, q : Covered(i, q) => Covered(i, q)'
  BY Zenon, <1>1, CoveredStays DEF Readers
<1>5. ASSUME NEW i
      PROVE  Covered(i, p)'
  <2>1. Mine(i)' = Mine(i)  BY Zenon, <1>1 DEF Mine
  <2>2. Mine(i) \subseteq 1..Len(changeLog) /\ Len(changeLog) \in Nat /\ n \in 1..Len(changeLog)
    BY Zenon, LogOf
  <2>3. \A m \in Mine(i) : LSN(m) <= p => m \in 1..n
    BY <1>2, <2>2 DEF LSN
  <2>4. p <= 2 * Len(changeLog') + 1  BY <1>1, <1>2, <2>2
  <2>5. \A m \in Mine(i)' : LSN(m) <= p => m \in emitted' \cup missed'
    BY Zenon, <1>1, <2>1, <2>3
  <2> QED  BY Zenon, <2>4, <2>5 DEF Covered, LSN
<1>6. PollType'
  BY Zenon, <1>1, <1>2, <1>3, <1>4 DEF PollType
<1>7. \A i \in Readers : readerPos'[i] = p
  BY Zenon, <1>3
<1>8. \A i \in Readers' :
        (Covered(i, readerPos[i]) /\ Covered(i, keptPos) /\ Covered(i, pollPos) /\ Covered(i, read[i]))'
  BY Zenon, <1>1, <1>3, <1>4, <1>5, <1>7, PlacesAt
<1>9. Mine(reading)' = Mine(reading)  BY Zenon, <1>1 DEF Mine
<1>10. PollPlaces'
  BY Zenon, <1>1, <1>4, <1>8, <1>9 DEF PollPlaces, LSN
<1> QED  BY Zenon, <1>6, <1>10

\* Stop keeps the position of the last poll that ended; a crash keeps what was kept.
LEMMA PollerGoneInv ==
  ASSUME PollIInv, StopPolling \/ CrashPolling
  PROVE  PollIInv'
<1> USE DEF PollIInv
<1>1. PollerGone /\ keptPos' \in {keptPos, pollPos}
  BY Zenon DEF StopPolling, CrashPolling
<1>2. UNCHANGED <<pollKind, changeLog, emitted, missed>> /\ reading' = NoReader /\ toRead' = {}
      /\ upTo' = 0 /\ latest' = 0 /\ pollPos' = 0
      /\ readerPos' = [i \in Readers |-> 0] /\ read' = [i \in Readers |-> 0]
  BY Zenon, <1>1 DEF PollerGone
<1>3. Readers' = Readers /\ \A i, q : Covered(i, q) => Covered(i, q)'
  BY Zenon, <1>2, CoveredStays DEF Readers
<1>4. \A i : Covered(i, 0)'
  BY Zenon, <1>3, CoveredNone
<1>5. keptPos' \in Nat  BY Zenon, <1>1, PlacesAt
<1>6. PollType'
  BY Zenon, <1>2, <1>3, <1>5 DEF PollType
<1>7. \A i \in Readers : readerPos'[i] = 0 /\ read'[i] = 0
  BY Zenon, <1>2
<1>8. \A i \in Readers' :
        (Covered(i, readerPos[i]) /\ Covered(i, keptPos) /\ Covered(i, pollPos) /\ Covered(i, read[i]))'
  BY Zenon, <1>1, <1>2, <1>3, <1>4, <1>7, PlacesAt
<1>9. upTo' <= 2 * Len(changeLog') /\ latest' <= 2 * Len(changeLog') /\ \E h \in Nat : upTo' = 2 * h
  BY <1>2, LogOf
<1>10. PollPlaces'
  BY Zenon, <1>2, <1>4, <1>8, <1>9 DEF PollPlaces
<1> QED  BY Zenon, <1>6, <1>10

\* A poll begins, or a reader fails and is left out.
LEMMA BeginPollInv ==
  ASSUME PollIInv, BeginPoll \/ \E i \in Readers : ReadFails(i)
  PROVE  PollIInv'
<1> USE DEF PollIInv
<1>1. UNCHANGED <<pollKind, changeLog, readerPos, reading, found, upTo, pollPos, keptPos, emitted,
                  missed>>
      /\ toRead' \subseteq Readers
  BY Zenon DEF BeginPoll, ReadFails, PollType
<1>2. \/ latest' = latest /\ read' = read
      \/ latest' = 0 /\ read' = [i \in Readers |-> 0]
  BY Zenon DEF BeginPoll, ReadFails
<1>3. Readers' = Readers /\ \A i, q : Covered(i, q) => Covered(i, q)'
  BY Zenon, <1>1, CoveredStays DEF Readers
<1>4. PollType'
  BY <1>1, <1>2, <1>3 DEF PollType
<1>5. \A i \in Readers : read'[i] \in {read[i], 0}
  BY Zenon, <1>2
<1>6. \A i \in Readers' :
        (Covered(i, readerPos[i]) /\ Covered(i, keptPos) /\ Covered(i, pollPos) /\ Covered(i, read[i]))'
  BY Zenon, <1>1, <1>3, <1>5, PlacesAt
<1>7. latest' <= 2 * Len(changeLog') /\ (pollKind = "oracle" => Covered("miner", latest)')
  <2>1. latest' \in {latest, 0} /\ Covered("miner", 0)  BY Zenon, <1>2, CoveredNone
  <2> QED  BY <1>1, <1>3, <2>1, LogOf DEF PollPlaces
<1>8. Mine(reading)' = Mine(reading)  BY Zenon, <1>1 DEF Mine
<1>9. PollPlaces'
  BY Zenon, <1>1, <1>6, <1>7, <1>8 DEF PollPlaces, LSN
<1> QED  BY Zenon, <1>4, <1>9

\* A reader reads up to the end of the log: what it finds, what it had behind it and what a
\* LogMiner query leaves out for a named cause are all its changes.
LEMMA ReadInv ==
  ASSUME PollIInv, NEW i \in Readers, NEW unparsed, Read(i, unparsed)
  PROVE  PollIInv'
<1> USE DEF PollIInv
<1>1. UNCHANGED <<pollKind, changeLog, readerPos, latest, pollPos, keptPos, emitted, read>>
      /\ reading' = i /\ toRead' \subseteq Readers
  BY Zenon DEF Read, PollType
<1>2. upTo' = MaxLSN /\ missed \subseteq missed'
  <2>1. CASE pollKind = "oracle"
    BY Zenon, <2>1 DEF Read, ReadLog
  <2>2. CASE pollKind # "oracle"
    BY Zenon, <2>2 DEF Read, ReadInstance
  <2> QED  BY Zenon, <2>1, <2>2
<1>3. Len(changeLog) \in Nat /\ DOMAIN changeLog = 1..Len(changeLog) /\ upTo' = 2 * Len(changeLog)
      /\ Mine(i) \subseteq DOMAIN changeLog
  BY Zenon, <1>2, LogOf DEF MaxLSN, LSN
<1>4. Readers' = Readers /\ \A j, q : Covered(j, q) => Covered(j, q)'
  BY Zenon, <1>1, <1>2, CoveredStays DEF Readers
<1>5. PollType'
  BY <1>1, <1>3, <1>4 DEF PollType
<1>6. readerPos[i] \in Nat /\ \A n \in Mine(i) : LSN(n) <= readerPos[i] => n \in emitted \cup missed
  BY Zenon, PlacesAt DEF Covered
<1>7. ASSUME NEW n \in Mine(i)
      PROVE  n \in emitted' \cup missed' \cup found'
  <2>1. n \in 1..Len(changeLog) /\ LSN(n) \in Nat /\ LSN(n) <= MaxLSN
    BY <1>3 DEF LSN, MaxLSN
  <2>2. CASE pollKind = "oracle"
    <3>1. i = "miner" /\ ReadLog(unparsed)  BY <2>2, PlacesAt DEF Read
    <3>2. CASE readerPos[i] = 0
      <4>1. PICK X : found' = X /\ missed' = missed \cup ((DOMAIN changeLog \ emitted) \ X)
        BY Zenon, <3>1, <3>2 DEF ReadLog
      <4> QED  BY Zenon, <1>1, <1>3, <4>1
    <3>3. CASE readerPos[i] # 0
      <4>1. PICK X : found' = X
              /\ missed' = missed \cup (({m \in DOMAIN changeLog : LSN(m) > readerPos[i]} \ emitted) \ X)
        BY Zenon, <3>1, <3>3 DEF ReadLog
      <4>2. CASE LSN(n) <= readerPos[i]
        BY Zenon, <1>1, <1>2, <1>6, <4>2
      <4>3. CASE LSN(n) > readerPos[i]
        BY <1>1, <1>3, <4>1, <4>3
      <4> QED  BY <1>6, <2>1, <4>2, <4>3
    <3> QED  BY Zenon, <3>2, <3>3
  <2>3. CASE pollKind # "oracle"
    <3>4. CASE readerPos[i] = 0
      <4>1. missed' = missed \cup (Mine(i) \ (found' \cup emitted))
        BY Zenon, <2>3, <3>4 DEF Read, ReadInstance
      <4> QED  BY Zenon, <1>1, <4>1
    <3>5. CASE readerPos[i] # 0
      <4>1. readerPos[i] <= MaxLSN
            /\ found' = IF readerPos[i] = MaxLSN THEN {} ELSE {m \in Mine(i) : LSN(m) >= readerPos[i]}
        BY Zenon, <2>3, <3>5 DEF Read, ReadInstance
      <4>2. CASE LSN(n) <= readerPos[i]
        BY Zenon, <1>1, <1>2, <1>6, <4>2
      <4>3. CASE LSN(n) > readerPos[i]
        <5>1. readerPos[i] # MaxLSN  BY <1>6, <2>1, <4>3
        <5> QED  BY <1>6, <2>1, <4>1, <4>3, <5>1
      <4> QED  BY <1>6, <2>1, <4>2, <4>3
    <3> QED  BY Zenon, <3>4, <3>5
  <2> QED  BY Zenon, <2>2, <2>3
<1>8. \A j \in Readers' :
        (Covered(j, readerPos[j]) /\ Covered(j, keptPos) /\ Covered(j, pollPos) /\ Covered(j, read[j]))'
  BY Zenon, <1>1, <1>4, PlacesAt
<1>9. Mine(reading)' = Mine(i)  BY Zenon, <1>1 DEF Mine
<1>10. upTo' <= 2 * Len(changeLog') /\ latest' <= 2 * Len(changeLog') /\ \E h \in Nat : upTo' = 2 * h
  <2>1. upTo' <= 2 * Len(changeLog') /\ \E h \in Nat : upTo' = 2 * h
    BY <1>1, <1>3
  <2> QED  BY Zenon, <1>1, <2>1 DEF PollPlaces
<1>11. pollKind = "oracle" => Covered("miner", latest)'
  BY Zenon, <1>1, <1>4 DEF PollPlaces
<1>12. PollPlaces'
  BY Zenon, <1>1, <1>7, <1>8, <1>9, <1>10, <1>11 DEF PollPlaces
<1> QED  BY Zenon, <1>5, <1>12

\* A change that was found is put on the channel.
LEMMA EmitInv ==
  ASSUME PollIInv, Emit
  PROVE  PollIInv'
<1> USE DEF PollIInv
<1>1. UNCHANGED <<pollKind, changeLog, readerPos, toRead, reading, upTo, latest, pollPos, keptPos,
                  missed, read>>
  BY Zenon DEF Emit
<1>2. emitted \subseteq emitted' /\ found \subseteq emitted' \cup found'
  <2>1. PICK next : emitted' = emitted \cup {next} /\ found' = found \ {next}
    BY Zenon DEF Emit
  <2> QED  BY Zenon, <2>1
<1>3. Readers' = Readers /\ \A i, q : Covered(i, q) => Covered(i, q)'
  BY Zenon, <1>1, <1>2, CoveredStays DEF Readers
<1>4. PollType'
  BY Zenon, <1>1, <1>3 DEF PollType
<1>5. \A i \in Readers' :
        (Covered(i, readerPos[i]) /\ Covered(i, keptPos) /\ Covered(i, pollPos) /\ Covered(i, read[i]))'
  BY <1>1, <1>3, PlacesAt
<1>6. Mine(reading)' = Mine(reading)  BY Zenon, <1>1 DEF Mine
<1>7. reading' # NoReader =>
        \A n \in Mine(reading)' : LSN(n) <= upTo' => n \in emitted' \cup missed' \cup found'
  BY Zenon, <1>1, <1>2, <1>6 DEF PollPlaces
<1>8. pollKind = "oracle" => Covered("miner", latest)'
  BY Zenon, <1>1, <1>3 DEF PollPlaces
<1>9. PollPlaces'
  BY Zenon, <1>1, <1>5, <1>7, <1>8 DEF PollPlaces, LSN
<1> QED  BY Zenon, <1>4, <1>9

\* The reader that has handed over all it found moves on; an LSN plus one is past no
\* further change.
LEMMA EndReadInv ==
  ASSUME PollIInv, EndRead
  PROVE  PollIInv'
<1> USE DEF PollIInv
<1>1. UNCHANGED <<pollKind, changeLog, toRead, found, upTo, pollPos, keptPos, emitted, missed>>
      /\ reading # NoReader /\ found = {} /\ reading' = NoReader
      /\ read' = [read EXCEPT ![reading] = upTo] /\ latest' = Max({latest, upTo})
  BY Zenon DEF EndRead
<1>2. PICK r \in Readers : r = reading
  BY Zenon, <1>1 DEF PollType
<1>3. Readers' = Readers /\ \A i, q : Covered(i, q) => Covered(i, q)'
  BY Zenon, <1>1, CoveredStays DEF Readers
<1>4. PICK h \in Nat : upTo = 2 * h
  BY Zenon DEF PollPlaces
<1>5. Len(changeLog) \in Nat /\ upTo <= 2 * Len(changeLog) /\ latest <= 2 * Len(changeLog)
  BY Zenon, LogOf DEF PollPlaces
<1>6. Covered(r, upTo) /\ Covered(r, upTo + 1)
  <2>1. \A n \in Mine(r) : LSN(n) <= upTo => n \in emitted \cup missed
    BY <1>1, <1>2 DEF PollPlaces
  <2>2. \A n \in Mine(r) : LSN(n) <= upTo + 1 => LSN(n) <= upTo
    <3> TAKE n \in Mine(r)
    <3>1. n \in Nat  BY LogOf
    <3> QED  BY <1>4, <3>1 DEF LSN
  <2>3. upTo <= 2 * Len(changeLog) + 1 /\ upTo + 1 <= 2 * Len(changeLog) + 1
    BY <1>4, <1>5
  <2> QED  BY Zenon, <2>1, <2>2, <2>3 DEF Covered
<1>7. PICK w \in {upTo, upTo + 1} :
        readerPos' = readerPos \/ readerPos' = [readerPos EXCEPT ![r] = w]
  BY Zenon, <1>2 DEF EndRead
<1>8. w \in Nat /\ Covered(r, w)
  BY <1>4, <1>6, <1>7
<1>9. latest' \in {latest, upTo}
  <2>1. latest \in Nat /\ upTo \in Nat  BY Zenon, PlacesAt
  <2> QED  BY Zenon, <1>1, <2>1, LargerOfTwo
<1>10. PollType'
  <2>1. readerPos' \in [Readers -> Nat]
    BY Zenon, <1>7, <1>8 DEF PollType
  <2>2. read' \in [Readers -> Nat] /\ latest' \in Nat
    BY Zenon, <1>1, <1>9 DEF PollType
  <2> QED  BY Zenon, <1>1, <1>3, <2>1, <2>2 DEF PollType
<1>11. \A i \in Readers' :
         (Covered(i, readerPos[i]) /\ Covered(i, keptPos) /\ Covered(i, pollPos) /\ Covered(i, read[i]))'
  <2> SUFFICES ASSUME NEW i \in Readers
               PROVE  /\ Covered(i, readerPos'[i]) /\ Covered(i, keptPos')
                      /\ Covered(i, pollPos') /\ Covered(i, read'[i])
    BY Zenon, <1>3
  <2>1. CASE i = r
    <3>1. readerPos'[i] \in {readerPos[i], w} /\ read'[i] = upTo
      BY Zenon, <1>1, <1>2, <1>7, <2>1 DEF PollType
    <3> QED  BY Zenon, <1>1, <1>6, <1>8, <2>1, <3>1, PlacesAt
  <2>2. CASE i # r
    <3>1. readerPos'[i] = readerPos[i] /\ read'[i] = read[i]
      BY <1>1, <1>2, <1>7, <2>2 DEF PollType
    <3> QED  BY Zenon, <1>1, <3>1, PlacesAt
  <2> QED  BY Zenon, <2>1, <2>2
<1>12. latest' <= 2 * Len(changeLog') /\ (pollKind = "oracle" => Covered("miner", latest)')
  <2>1. pollKind = "oracle" => r = "miner"
    BY Zenon, PlacesAt
  <2>2. pollKind = "oracle" => Covered("miner", latest')
    BY Zenon, <1>6, <1>9, <2>1 DEF PollPlaces
  <2> QED  BY Zenon, <1>1, <1>3, <1>5, <1>9, <2>2
<1>13. PollPlaces'
  BY Zenon, <1>1, <1>11, <1>12 DEF PollPlaces
<1> QED  BY Zenon, <1>10, <1>13

\* The poll ends with the highest position over all its readers: what of a slower reader
\* lies before it is lost, and is noted so.
LEMMA EndPollInv ==
  ASSUME PollIInv, NEW save \in BOOLEAN, EndPoll(save)
  PROVE  PollIInv'
<1> USE DEF PollIInv
<1>1. UNCHANGED <<pollKind, changeLog, readerPos, toRead, reading, found, upTo, latest, emitted, read>>
      /\ missed \subseteq missed' /\ reading = NoReader
      /\ pollPos' \in {pollPos, latest} /\ keptPos' \in {keptPos, latest}
  BY Zenon DEF EndPoll
<1>2. Readers' = Readers /\ \A i, q : Covered(i, q) => Covered(i, q)'
  BY Zenon, <1>1, CoveredStays DEF Readers
<1>3. Len(changeLog) \in Nat /\ DOMAIN changeLog = 1..Len(changeLog) /\ latest <= 2 * Len(changeLog)
      /\ latest \in Nat
  BY Zenon, LogOf, PlacesAt DEF PollPlaces
<1>4. ASSUME NEW i \in Readers
      PROVE  Covered(i, latest)'
  <2>1. CASE pollKind = "oracle"
    <3>1. i = "miner"  BY Zenon, <2>1, PlacesAt
    <3> QED  BY Zenon, <1>1, <1>2, <2>1, <3>1 DEF PollPlaces
  <2>2. CASE pollKind # "oracle"
    <3>1. ASSUME NEW n \in Mine(i)', LSN(n) <= latest'
          PROVE  n \in emitted' \cup missed'
      <4>1. n \in Mine(i) /\ n \in DOMAIN changeLog /\ changeLog[n] = i /\ LSN(n) \in Nat
        BY <1>1, <1>3, <2>2, <3>1 DEF Mine, LSN
      <4>2. CASE LSN(n) <= read[i]
        BY Zenon, <1>1, <4>1, <4>2, PlacesAt DEF Covered
      <4>3. CASE read[i] < LSN(n)
        BY <1>1, <2>2, <3>1, <4>1, <4>3 DEF EndPoll
      <4> QED  BY <4>1, <4>2, <4>3, PlacesAt
    <3>2. latest' <= 2 * Len(changeLog') + 1
      BY <1>1, <1>3
    <3> QED  BY Zenon, <3>1, <3>2 DEF Covered, LSN
  <2> QED  BY <2>1, <2>2
<1>5. PollType'
  <2>1. pollPos' \in Nat /\ keptPos' \in Nat  BY Zenon, <1>1, PlacesAt
  <2> QED  BY Zenon, <1>1, <1>2, <2>1 DEF PollType
<1>6. \A i \in Readers' :
        (Covered(i, readerPos[i]) /\ Covered(i, keptPos) /\ Covered(i, pollPos) /\ Covered(i, read[i]))'
  <2> SUFFICES ASSUME NEW i \in Readers
               PROVE  (Covered(i, readerPos[i]) /\ Covered(i, keptPos) /\ Covered(i, pollPos) /\ Covered(i, read[i]))'
    BY Zenon, <1>2
  <2>1. Covered(i, latest)' /\ latest' = latest
    BY Zenon, <1>1, <1>4
  <2>2. Covered(i, readerPos[i])' /\ Covered(i, read[i])'
    BY Zenon, <1>1, <1>2, PlacesAt
  <2>3. Covered(i, keptPos)'
    <3>1. CASE keptPos' = latest  BY Zenon, <2>1, <3>1
    <3>2. CASE keptPos' = keptPos  BY Zenon, <1>2, <3>2, PlacesAt
    <3> QED  BY Zenon, <1>1, <3>1, <3>2
  <2>4. Covered(i, pollPos)'
    <3>1. CASE pollPos' = latest  BY Zenon, <2>1, <3>1
    <3>2. CASE pollPos' = pollPos  BY Zenon, <1>2, <3>2, PlacesAt
    <3> QED  BY Zenon, <1>1, <3>1, <3>2
  <2> QED  BY Zenon, <2>2, <2>3, <2>4
<1>7. pollKind = "oracle" => Covered("miner", latest)'
  BY Zenon, <1>1, <1>2 DEF PollPlaces
<1>8. PollPlaces'
  BY Zenon, <1>1, <1>6, <1>7 DEF PollPlaces
<1> QED  BY Zenon, <1>5, <1>8

\* Readers that have not started yet, on an empty log, satisfy the invariant.
LEMMA PollInvInit ==
  ASSUME PollInit
  PROVE  PollIInv
<1>1. PollType
  <2>1. changeLog \in Seq(Instances) /\ pollKind \in {"oracle", "sqlserver"}
    BY PollBounds DEF PollInit
  <2>2. readerPos \in [Readers -> Nat] /\ read \in [Readers -> Nat]
    BY Zenon DEF PollInit
  <2>3. toRead \subseteq Readers /\ reading \in Readers \cup {NoReader}
        /\ upTo \in Nat /\ latest \in Nat /\ pollPos \in Nat /\ keptPos \in Nat
    BY Zenon DEF PollInit
  <2> QED  BY <2>1, <2>2, <2>3 DEF PollType
<1>2. \A i : Covered(i, 0)
  BY Zenon, <1>1, CoveredNone
<1>3. \A i \in Readers : readerPos[i] = 0 /\ read[i] = 0
  BY Zenon DEF PollInit
<1>4. keptPos = 0 /\ pollPos = 0 /\ upTo = 0 /\ latest = 0 /\ reading = NoReader
  BY Zenon DEF PollInit
<1>5. upTo <= 2 * Len(changeLog) /\ latest <= 2 * Len(changeLog) /\ \E h \in Nat : upTo = 2 * h
  BY <1>1, <1>4, LogOf
<1> QED  BY Zenon, <1>1, <1>2, <1>3, <1>4, <1>5 DEF PollIInv, PollPlaces

\* Every step of the database, the readers and the connector keeps the
\* invariant.
LEMMA PollInvHolds == PollSpec => []PollIInv
<1>1. PollInit => PollIInv
  BY Zenon, PollInvInit
<1>2. ASSUME PollIInv, [PollNext]_pollVars
      PROVE  PollIInv'
  <2>1. ASSUME NEW i \in Instances, Change(i)
        PROVE  PollIInv'
    BY Zenon, <1>2, <2>1, ChangeInv
  <2>2. ASSUME NEW ok \in BOOLEAN, StartPolling(ok) \/ EndPoll(ok)
        PROVE  PollIInv'
    BY <1>2, <2>2, StartPollingInv, EndPollInv
  <2>3. CASE StopPolling \/ CrashPolling
    BY Zenon, <1>2, <2>3, PollerGoneInv
  <2>4. ASSUME NEW n \in DOMAIN changeLog, SetReaders(n)
        PROVE  PollIInv'
    BY Zenon, <1>2, <2>4, SetReadersInv
  <2>5. CASE BeginPoll \/ \E i \in Readers : ReadFails(i)
    BY Zenon, <1>2, <2>5, BeginPollInv
  <2>6. ASSUME NEW i \in Readers, NEW unparsed, Read(i, unparsed)
        PROVE  PollIInv'
    BY SMTT(30), <1>2, <2>6, ReadInv
  <2>7. CASE Emit
    BY Zenon, <1>2, <2>7, EmitInv
  <2>8. CASE EndRead
    BY Zenon, <1>2, <2>8, EndReadInv
  <2>9. CASE UNCHANGED pollVars
    BY <1>2, <2>9
       DEF pollVars, pollState, PollIInv, PollType, PollPlaces, Covered, Mine, LSN, Readers, NoReader
  <2> QED
    BY <1>2, <2>1, <2>2, <2>3, <2>4, <2>5, <2>6, <2>7, <2>8, <2>9 DEF PollNext
<1> QED  BY <1>1, <1>2, PTL DEF PollSpec

\* No change that a polling source has moved past, or would skip after a restart, is lost
\* without one of the named causes, for any set of capture instances, any batch size and any
\* log (logminer.go ReadChanges, cdc_reader.go ReadChanges, connector.go pollChanges, pollAll).
THEOREM PollSafe == PollSpec => []PollSkipsNothing
<1>1. PollIInv => PollSkipsNothing
  <2> SUFFICES ASSUME PollIInv, NEW i \in Readers
               PROVE  Behind(i, Max({readerPos[i], keptPos})) \subseteq emitted \cup missed
    BY Zenon DEF PollSkipsNothing
  <2>1. PICK m \in Nat : m = Max({readerPos[i], keptPos}) /\ Covered(i, m)
    <3>1. readerPos[i] \in Nat /\ keptPos \in Nat /\ Covered(i, readerPos[i]) /\ Covered(i, keptPos)
      BY Zenon, PlacesAt
    <3>2. Max({readerPos[i], keptPos}) \in {readerPos[i], keptPos}
      BY Zenon, <3>1, LargerOfTwo
    <3> QED  BY Zenon, <3>1, <3>2
  <2>2. \A n \in Mine(i) : LSN(n) \in Nat
    BY LogOf DEF PollIInv, LSN
  <2>3. \A n \in Behind(i, m) : n \in Mine(i) /\ LSN(n) <= m
    BY <2>2 DEF Behind
  <2> QED  BY Zenon, <2>1, <2>3 DEF Covered
<1> QED  BY <1>1, PollInvHolds, PTL

\* A set of numbers that is not empty has a least member.
LEMMA LeastIn ==
  ASSUME NEW S, S \subseteq Nat, S # {}
  PROVE  Min(S) \in S
<1> DEFINE R == OpToRel(<, Nat)
<1>1. IsWellFoundedOn(R, Nat)
  BY Zenon, NatLessThanWellFounded
<1>2. \E x \in S : \A y \in S : ~(<<y, x>> \in R)
  <2> HIDE DEF R
  <2> QED  BY Zenon, <1>1, WFMin
<1>3. \A x, y \in Nat : ~(<<y, x>> \in R) => x <= y
  BY DEF OpToRel
<1>4. \E x \in S : \A y \in S : x <= y
  BY Zenon, <1>2, <1>3
<1> QED  BY Zenon, <1>4 DEF Min

\* The highest LSN there can be.
PollEnd == 2 * MaxChanges

\* The changes a reader may have found.
OwnChanges == IF reading = NoReader THEN {} ELSE Mine(reading)

\* What else the type invariant says: a reader has changes of its own only, and only changes
\* of the log are counted.
PollLimits ==
  /\ pollKind \in PollKinds /\ polling \in {"down", "idle", "poll"}
  /\ Len(changeLog) <= MaxChanges
  /\ pollPos <= PollEnd /\ keptPos <= PollEnd /\ \A i \in Readers : read[i] <= PollEnd
  /\ found \subseteq OwnChanges
  /\ emitted \cup missed \subseteq DOMAIN changeLog

\* The bounds as numbers.
LEMMA PollConstants == MaxChanges \in Nat /\ PollEnd \in Nat /\ 0 <= PollEnd
<1>1. MaxChanges \in Nat  BY Zenon, PollBounds
<1> QED  BY <1>1 DEF PollEnd

\* No LSN is beyond the log, and no poll has come farther.
LEMMA PollEnds ==
  ASSUME PollIInv, PollLimits
  PROVE  /\ MaxLSN \in Nat /\ MaxLSN <= PollEnd
         /\ upTo <= PollEnd /\ latest <= PollEnd
         /\ \A n \in DOMAIN changeLog : LSN(n) \in Nat /\ LSN(n) <= PollEnd
         /\ \A i \in Readers : readerPos[i] \in 0..(PollEnd + 1)
         /\ DOMAIN changeLog = 1..Len(changeLog) /\ Len(changeLog) \in Nat
<1>1. /\ Len(changeLog) \in Nat /\ DOMAIN changeLog = 1..Len(changeLog) /\ Len(changeLog) <= MaxChanges
      /\ upTo \in Nat /\ latest \in Nat /\ upTo <= 2 * Len(changeLog) /\ latest <= 2 * Len(changeLog)
  BY Zenon, LogOf DEF PollIInv, PollType, PollPlaces, PollLimits
<1>2. MaxLSN \in Nat /\ MaxLSN <= PollEnd /\ upTo <= PollEnd /\ latest <= PollEnd
  BY <1>1, PollConstants DEF MaxLSN, LSN, PollEnd
<1>3. \A n \in 1..Len(changeLog) : LSN(n) \in Nat /\ LSN(n) <= PollEnd
  BY <1>1, PollConstants DEF LSN, PollEnd
<1>4. \A i \in Readers : readerPos[i] \in Nat /\ readerPos[i] <= 2 * Len(changeLog) + 1
  BY Zenon DEF PollIInv, PollType, PollPlaces, Covered
<1>5. \A i \in Readers : readerPos[i] \in 0..(PollEnd + 1)
  <2> TAKE i \in Readers
  <2>1. readerPos[i] \in Nat /\ readerPos[i] <= 2 * Len(changeLog) + 1  BY Zenon, <1>4
  <2> QED  BY <1>1, <2>1, PollConstants DEF PollEnd
<1> QED  BY Zenon, <1>1, <1>2, <1>3, <1>5

\* The log grows.
LEMMA ChangeLimits ==
  ASSUME PollIInv, PollLimits, NEW j \in Instances, Change(j)
  PROVE  PollLimits'
<1>1. /\ changeLog \in Seq(Instances) /\ changeLog' = Append(changeLog, j) /\ Len(changeLog) < MaxChanges
      /\ UNCHANGED <<pollKind, polling, reading, found, pollPos, keptPos, read, emitted, missed>>
  BY Zenon DEF PollIInv, PollType, Change, pollState
<1>2. /\ Len(changeLog) \in Nat /\ Len(changeLog') = Len(changeLog) + 1
      /\ DOMAIN changeLog = 1..Len(changeLog) /\ DOMAIN changeLog' = 1..Len(changeLog')
      /\ \A n \in 1..Len(changeLog) : changeLog'[n] = changeLog[n]
  BY <1>1
<1>3. Len(changeLog') <= MaxChanges /\ DOMAIN changeLog \subseteq DOMAIN changeLog'
  BY <1>1, <1>2, PollConstants
<1>4. \A i : Mine(i) \subseteq Mine(i)'
  BY Zenon, <1>1, <1>2, <1>3 DEF Mine
<1>5. OwnChanges \subseteq OwnChanges' /\ Readers' = Readers
  BY Zenon, <1>1, <1>4 DEF OwnChanges, Readers
<1> QED  BY Zenon, <1>1, <1>3, <1>5 DEF PollLimits

\* Every other step leaves the log alone.
LEMMA PollStepLimits ==
  ASSUME PollIInv, PollLimits, UNCHANGED <<pollKind, changeLog>>,
         polling' \in {"down", "idle", "poll"},
         pollPos' <= PollEnd, keptPos' <= PollEnd, \A i \in Readers : read'[i] <= PollEnd,
         found' \subseteq IF reading' = NoReader THEN {} ELSE Mine(reading'),
         emitted' \cup missed' \subseteq DOMAIN changeLog
  PROVE  PollLimits'
<1>1. Readers' = Readers /\ \A i : Mine(i)' = Mine(i)
  BY Zenon DEF Readers, Mine
<1>2. OwnChanges' = IF reading' = NoReader THEN {} ELSE Mine(reading')
  BY Zenon, <1>1 DEF OwnChanges
<1> QED  BY Zenon, <1>1, <1>2 DEF PollLimits

\* What a reader finds is its own, and what is lost by a read was in the log.
LEMMA ReadLimits ==
  ASSUME PollIInv, PollLimits, NEW i \in Readers, NEW unparsed \in SUBSET DOMAIN changeLog,
         Read(i, unparsed)
  PROVE  PollLimits'
<1>1. /\ reading' = i
      /\ UNCHANGED <<pollKind, changeLog, polling, pollPos, keptPos, read, emitted>>
  BY Zenon DEF Read
<1>2. i # NoReader
  BY Zenon, PollBounds DEF Readers, NoReader
<1>3. found' \subseteq Mine(i) /\ missed' \subseteq missed \cup DOMAIN changeLog
  <2>1. CASE pollKind = "oracle"
    <3>1. Mine(i) = DOMAIN changeLog
      BY Zenon, <2>1 DEF Mine
    <3>2. ReadLog(unparsed)
      BY Zenon, <2>1 DEF Read
    <3> QED  BY Zenon, <3>1, <3>2 DEF ReadLog
  <2>2. CASE pollKind # "oracle"
    <3>1. ReadInstance(i) /\ Mine(i) \subseteq DOMAIN changeLog
      BY Zenon, <2>2 DEF Read, Mine
    <3>2. missed' \subseteq missed \cup Mine(i)
      BY Zenon, <3>1 DEF ReadInstance
    <3>3. PICK from : found' = IF from = MaxLSN THEN {} ELSE {n \in Mine(i) : LSN(n) >= from}
      BY Zenon, <3>1 DEF ReadInstance
    <3> QED  BY Zenon, <3>1, <3>2, <3>3
  <2> QED  BY Zenon, <2>1, <2>2
<1>4. emitted' \cup missed' \subseteq DOMAIN changeLog
  BY Zenon, <1>1, <1>3 DEF PollLimits
<1>5. found' \subseteq IF reading' = NoReader THEN {} ELSE Mine(reading')
  BY Zenon, <1>1, <1>2, <1>3
<1>6. /\ pollPos' <= PollEnd /\ keptPos' <= PollEnd /\ polling' \in {"down", "idle", "poll"}
      /\ \A j \in Readers : read'[j] <= PollEnd
  BY Zenon, <1>1 DEF PollLimits
<1> QED  BY Zenon, <1>1, <1>4, <1>5, <1>6, PollStepLimits

\* A change that is handed over was found, so it is of the log.
LEMMA EmitLimits ==
  ASSUME PollIInv, PollLimits, Emit
  PROVE  PollLimits'
<1>1. /\ found # {} /\ emitted' = emitted \cup {Min(found)} /\ found' = found \ {Min(found)}
      /\ UNCHANGED <<pollKind, changeLog, polling, reading, pollPos, keptPos, read, missed>>
  BY Zenon DEF Emit
<1>2. found \subseteq DOMAIN changeLog
  BY Zenon DEF PollLimits, OwnChanges, Mine
<1>3. found \subseteq Nat
  BY <1>2, PollEnds
<1>4. Min(found) \in DOMAIN changeLog
  BY Zenon, <1>1, <1>2, <1>3, LeastIn
<1>5. /\ emitted' \cup missed' \subseteq DOMAIN changeLog
      /\ found' \subseteq IF reading' = NoReader THEN {} ELSE Mine(reading')
      /\ pollPos' <= PollEnd /\ keptPos' <= PollEnd /\ polling' \in {"down", "idle", "poll"}
      /\ \A j \in Readers : read'[j] <= PollEnd
  BY Zenon, <1>1, <1>4 DEF PollLimits, OwnChanges
<1> QED  BY Zenon, <1>1, <1>5, PollStepLimits

\* The steps that move positions.
LEMMA MoveLimits ==
  ASSUME PollIInv, PollLimits,
         \/ BeginPoll \/ EndRead \/ StopPolling \/ CrashPolling
         \/ \E ok \in BOOLEAN : StartPolling(ok) \/ EndPoll(ok)
         \/ \E n \in DOMAIN changeLog : SetReaders(n)
         \/ \E i \in Readers : ReadFails(i)
         \/ UNCHANGED pollVars
  PROVE  PollLimits'
<1>1. /\ 0 <= PollEnd /\ upTo <= PollEnd /\ latest <= PollEnd
      /\ \A n \in DOMAIN changeLog : LSN(n) <= PollEnd
  BY Zenon, PollEnds, PollConstants
<1>2. /\ pollPos <= PollEnd /\ keptPos <= PollEnd /\ polling \in {"down", "idle", "poll"}
      /\ (\A j \in Readers : read[j] <= PollEnd)
      /\ found \subseteq (IF reading = NoReader THEN {} ELSE Mine(reading))
      /\ emitted \cup missed \subseteq DOMAIN changeLog
      /\ read \in [Readers -> Nat]
  BY Zenon DEF PollLimits, OwnChanges, PollIInv, PollType
<1>3. CASE BeginPoll
  <2>1. \A j \in Readers : read'[j] <= PollEnd
    BY Zenon, <1>1, <1>3 DEF BeginPoll
  <2> QED  BY Zenon, <1>2, <1>3, <2>1, PollStepLimits DEF BeginPoll
<1>4. CASE EndRead
  <2>1. \A j \in Readers : read'[j] <= PollEnd
    BY Zenon, <1>1, <1>2, <1>4 DEF EndRead
  <2> QED  BY Zenon, <1>2, <1>4, <2>1, PollStepLimits DEF EndRead
<1>5. CASE StopPolling \/ CrashPolling
  <2>1. /\ \A j \in Readers : read'[j] <= PollEnd
        /\ keptPos' <= PollEnd /\ pollPos' <= PollEnd /\ found' = {} /\ polling' = "down"
        /\ UNCHANGED <<pollKind, changeLog, emitted, missed>>
    BY Zenon, <1>1, <1>2, <1>5 DEF StopPolling, CrashPolling, PollerGone
  <2> QED  BY Zenon, <1>2, <2>1, PollStepLimits
<1>6. ASSUME NEW ok \in BOOLEAN, StartPolling(ok)
      PROVE  PollLimits'
  <2>1. /\ pollPos' <= PollEnd /\ polling' = "idle"
        /\ UNCHANGED <<pollKind, changeLog, keptPos, read, found, reading, emitted, missed>>
    BY Zenon, <1>1, <1>2, <1>6 DEF StartPolling
  <2> QED  BY Zenon, <1>2, <2>1, PollStepLimits
<1>7. ASSUME NEW ok \in BOOLEAN, EndPoll(ok)
      PROVE  PollLimits'
  <2>1. /\ pollPos' <= PollEnd /\ keptPos' <= PollEnd /\ polling' = "idle"
        /\ missed' \subseteq missed \cup DOMAIN changeLog
        /\ UNCHANGED <<pollKind, changeLog, read, found, reading, emitted>>
    BY Zenon, <1>1, <1>2, <1>7 DEF EndPoll
  <2> QED  BY Zenon, <1>2, <2>1, PollStepLimits
<1>8. ASSUME NEW n \in DOMAIN changeLog, SetReaders(n)
      PROVE  PollLimits'
  <2>1. 1..n \subseteq DOMAIN changeLog
    <3>1. DOMAIN changeLog = 1..Len(changeLog) /\ Len(changeLog) \in Nat  BY Zenon, PollEnds
    <3> QED  BY <3>1
  <2>2. /\ pollPos' <= PollEnd /\ keptPos' <= PollEnd
        /\ missed' \subseteq missed \cup DOMAIN changeLog
        /\ UNCHANGED <<pollKind, changeLog, polling, read, found, reading, emitted>>
    BY Zenon, <1>1, <1>2, <1>8, <2>1 DEF SetReaders
  <2> QED  BY Zenon, <1>2, <2>2, PollStepLimits
<1>9. ASSUME (\E i \in Readers : ReadFails(i)) \/ UNCHANGED pollVars
      PROVE  PollLimits'
  <2>1. UNCHANGED <<pollKind, changeLog, polling, pollPos, keptPos, read, found, reading, emitted, missed>>
    BY Zenon, <1>9 DEF ReadFails, pollVars, pollState
  <2> QED  BY Zenon, <1>2, <2>1, PollStepLimits
<1> QED  BY Zenon, <1>3, <1>4, <1>5, <1>6, <1>7, <1>8, <1>9

\* The types and bounds of the polling readers hold in every state, for any log and any
\* number of capture instances: a reader hands over only changes of its own instance, no
\* position lies beyond the log, except that a reader of sqlserver goes on one LSN behind
\* it, and only changes of the log are handed over or counted as lost (logminer.go
\* ReadChanges, cdc_reader.go ReadChanges, UpdatePosition).
THEOREM PollTypesHold == PollSpec => []PollTypeOK
<1>1. PollInit => PollLimits
  <2> SUFFICES ASSUME PollInit
               PROVE  PollLimits
    BY Zenon
  <2>1. Len(changeLog) <= MaxChanges /\ 0 <= PollEnd
    BY PollConstants DEF PollInit
  <2> QED  BY Zenon, <2>1 DEF PollInit, PollLimits
<1>2. PollIInv /\ PollLimits /\ [PollNext]_pollVars => PollLimits'
  BY Zenon, ChangeLimits, ReadLimits, EmitLimits, MoveLimits DEF PollNext
<1>3. PollIInv /\ PollLimits => PollTypeOK
  <2> SUFFICES ASSUME PollIInv, PollLimits
               PROVE  PollTypeOK
    BY Zenon
  <2>1. /\ upTo \in Nat /\ latest \in Nat /\ pollPos \in Nat /\ keptPos \in Nat
        /\ upTo <= PollEnd /\ latest <= PollEnd /\ pollPos <= PollEnd /\ keptPos <= PollEnd
        /\ \A i \in Readers : read[i] \in Nat /\ read[i] <= PollEnd
        /\ readerPos \in [Readers -> Nat] /\ read \in [Readers -> Nat]
    BY Zenon, PollEnds DEF PollIInv, PollType, PollLimits
  <2>2. \A p \in Nat : p <= PollEnd => p \in 0..PollEnd
    BY PollConstants
  <2>3. {upTo, latest, pollPos, keptPos} \subseteq 0..PollEnd /\ read \in [Readers -> 0..PollEnd]
    BY Zenon, <2>1, <2>2
  <2>4. readerPos \in [Readers -> 0..(PollEnd + 1)]
    BY Zenon, <2>1, PollEnds
  <2> QED  BY Zenon, <2>3, <2>4 DEF PollIInv, PollType, PollLimits, OwnChanges, PollTypeOK, PollEnd
<1> QED  BY <1>1, <1>2, <1>3, PollInvHolds, PTL DEF PollSpec
=============================================================================
