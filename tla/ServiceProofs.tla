--------------------------- MODULE ServiceProofs ---------------------------
(***************************************************************************)
(* Proofs about the cluster managers, for any number of nodes, tasks and   *)
(* sessions, and about the events of the table manager, for any number of  *)
(* requests and tables.                                                    *)
(***************************************************************************)
EXTENDS ClusterManager, TableRequests, TLAPS

\* An element of a sequence.
LEMMA SeqElement ==
  ASSUME NEW S, NEW s \in Seq(S), NEW i \in 1..Len(s)
  PROVE  s[i] \in S
  OBVIOUS

\* Two sequences one behind the other.
LEMMA SeqConcat ==
  ASSUME NEW S, NEW a \in Seq(S), NEW b \in Seq(S)
  PROVE  /\ a \o b \in Seq(S) /\ Len(a \o b) = Len(a) + Len(b)
         /\ \A j \in 1..(Len(a) + Len(b)) :
              (a \o b)[j] = IF j <= Len(a) THEN a[j] ELSE b[j - Len(a)]
  OBVIOUS

\* A part of a sequence.
LEMMA SeqPart ==
  ASSUME NEW S, NEW s, NEW m \in Int, NEW n \in Int, \A i \in m..n : s[i] \in S
  PROVE  /\ SubSeq(s, m, n) \in Seq(S)
         /\ Len(SubSeq(s, m, n)) = IF m <= n THEN n - m + 1 ELSE 0
         /\ \A i \in 1..(n - m + 1) : SubSeq(s, m, n)[i] = s[m + i - 1]
  OBVIOUS

\* A sequence with one more element.
LEMMA SeqAppend ==
  ASSUME NEW S, NEW s \in Seq(S), NEW x \in S
  PROVE  /\ Append(s, x) \in Seq(S) /\ Len(Append(s, x)) = Len(s) + 1
         /\ \A j \in 1..Len(s) : Append(s, x)[j] = s[j]
         /\ Append(s, x)[Len(s) + 1] = x
  OBVIOUS

-----------------------------------------------------------------------------

(***************************************************************************)
(* The cluster managers (ClusterManager).                                  *)
(*                                                                         *)
(* ActsAsLeader rests on the queues of the elections: a session belongs to *)
(* one node (SessionsInv), and a node that waits for a task has its        *)
(* session in the queue and waits for all who are before it (WaitInv), so  *)
(* it is first when its wait ends.                                         *)
(***************************************************************************)

\* A candidate: a node and its lease.
Candidate == [node : ClusterNodes, lease : Nat]

\* The types the proof needs.
ClusterTypes ==
  /\ at \in [ClusterNodes -> LoopStates]
  /\ made \in Nat
  /\ lease \in [ClusterNodes -> 0..made] /\ leases \subseteq 1..made
  /\ election \in [Keys -> Seq(Candidate)]
  /\ DOMAIN ahead = ClusterNodes /\ DOMAIN wanted = ClusterNodes
  /\ DOMAIN target = ClusterNodes /\ DOMAIN shaken = ClusterNodes
  /\ localTasks \in [ClusterNodes -> SUBSET ClusterTasks]
  /\ \A n \in ClusterNodes : at[n] = "wait" => target[n] \in ClusterTasks

\* A session belongs to one node: a candidate with the session of a node is that node.
SessionsInv ==
  /\ \A m, n \in ClusterNodes : lease[m] = lease[n] /\ lease[m] # 0 => m = n
  /\ \A n \in ClusterNodes : at[n] = "down" => localTasks[n] = {}
  /\ \A k \in Keys : \A i \in 1..Len(election[k]) :
       /\ election[k][i].lease \in 1..made
       /\ \A m \in ClusterNodes : lease[m] = election[k][i].lease => m = election[k][i].node

\* A node that waits for a task has its session in the task's queue, and waits for all
\* who are before it.
HasPlace(n, k) ==
  \E p \in 1..Len(election[k]) :
    /\ election[k][p].lease = lease[n]
    /\ \A i \in 1..(p - 1) : election[k][i].lease \in ahead[n]

WaitInv ==
  \A n \in ClusterNodes : at[n] = "wait" /\ lease[n] \in leases => HasPlace(n, target[n])

ClusterIInv == ClusterTypes /\ SessionsInv /\ WaitInv /\ ActsAsLeader

-----------------------------------------------------------------------------

\* A queue without one of its members.
WithoutAt(s, q) == SubSeq(s, 1, q - 1) \o SubSeq(s, q + 1, Len(s))

\* A sequence without one of its elements: those behind it move up by one.
LEMMA WithoutAtIs ==
  ASSUME NEW S, NEW s \in Seq(S), NEW q \in 1..Len(s)
  PROVE  /\ WithoutAt(s, q) \in Seq(S) /\ Len(WithoutAt(s, q)) = Len(s) - 1 /\ Len(s) \in Nat
         /\ \A i \in 1..(Len(s) - 1) : WithoutAt(s, q)[i] = IF i < q THEN s[i] ELSE s[i + 1]
<1> DEFINE a == SubSeq(s, 1, q - 1)
           b == SubSeq(s, q + 1, Len(s))
<1>1. Len(s) \in Nat /\ \A i \in 1..Len(s) : s[i] \in S
  BY SeqElement
<1>2. a \in Seq(S) /\ Len(a) = q - 1 /\ \A i \in 1..(q - 1) : a[i] = s[i]
  <2>1. \A i \in 1..(q - 1) : s[i] \in S  BY <1>1
  <2>2. /\ SubSeq(s, 1, q - 1) \in Seq(S)
        /\ Len(SubSeq(s, 1, q - 1)) = IF 1 <= q - 1 THEN (q - 1) - 1 + 1 ELSE 0
        /\ \A i \in 1..((q - 1) - 1 + 1) : SubSeq(s, 1, q - 1)[i] = s[1 + i - 1]
    <3>1. 1 \in Int /\ q - 1 \in Int  BY <1>1
    <3> QED  BY <2>1, <3>1, SeqPart
  <2> QED  BY <1>1, <2>2
<1>3. b \in Seq(S) /\ Len(b) = Len(s) - q /\ \A i \in 1..(Len(s) - q) : b[i] = s[q + i]
  <2>1. \A i \in (q + 1)..Len(s) : s[i] \in S  BY <1>1
  <2>2. /\ SubSeq(s, q + 1, Len(s)) \in Seq(S)
        /\ Len(SubSeq(s, q + 1, Len(s))) = IF q + 1 <= Len(s) THEN Len(s) - (q + 1) + 1 ELSE 0
        /\ \A i \in 1..(Len(s) - (q + 1) + 1) : SubSeq(s, q + 1, Len(s))[i] = s[(q + 1) + i - 1]
    <3>1. q + 1 \in Int /\ Len(s) \in Int  BY <1>1
    <3> QED  BY <2>1, <3>1, SeqPart
  <2> QED  BY <1>1, <2>2
<1>4. WithoutAt(s, q) = a \o b
  BY Zenon DEF WithoutAt
<1> HIDE DEF a, b
<1>5. /\ a \o b \in Seq(S) /\ Len(a \o b) = Len(a) + Len(b)
      /\ \A i \in 1..(Len(a) + Len(b)) : (a \o b)[i] = IF i <= Len(a) THEN a[i] ELSE b[i - Len(a)]
  BY Zenon, <1>2, <1>3, SeqConcat
<1>6. Len(a) + Len(b) = Len(s) - 1
  BY <1>1, <1>2, <1>3
<1>7. ASSUME NEW i \in 1..(Len(s) - 1)
      PROVE  WithoutAt(s, q)[i] = IF i < q THEN s[i] ELSE s[i + 1]
  <2>1. CASE i < q
    <3>1. i <= Len(a) /\ i \in 1..(q - 1)  BY <1>1, <1>2, <2>1
    <3> QED  BY Zenon, <1>2, <1>4, <1>5, <1>6, <2>1, <3>1
  <2>2. CASE ~(i < q)
    <3>1. ~(i <= Len(a)) /\ i - Len(a) \in 1..(Len(s) - q) /\ q + (i - Len(a)) = i + 1
      BY <1>1, <1>2, <2>2
    <3> QED  BY <1>3, <1>4, <1>5, <1>6, <2>2, <3>1
  <2> QED  BY Zenon, <2>1, <2>2
<1> QED  BY Zenon, <1>1, <1>4, <1>5, <1>6, <1>7

\* What Place finds, and what Drop leaves.
LEMMA PlaceIs ==
  ASSUME ClusterTypes, NEW l, NEW k \in Keys
  PROVE  /\ election[k] \in Seq(Candidate) /\ DOMAIN election[k] = 1..Len(election[k])
         /\ Len(election[k]) \in Nat
         /\ Place(l, k) = 0 => \A i \in 1..Len(election[k]) : election[k][i].lease # l
         /\ Place(l, k) # 0 =>
              Place(l, k) \in 1..Len(election[k]) /\ election[k][Place(l, k)].lease = l
<1>1. election[k] \in Seq(Candidate)  BY Zenon DEF ClusterTypes
<1>2. DOMAIN election[k] = 1..Len(election[k]) /\ Len(election[k]) \in Nat  BY <1>1
<1> DEFINE its == {i \in DOMAIN election[k] : election[k][i].lease = l}
<1>3. Place(l, k) = IF its = {} THEN 0 ELSE CHOOSE i \in its : TRUE
  BY Zenon DEF Place
<1>4. its # {} => (CHOOSE i \in its : TRUE) \in its
  <2> HIDE DEF its
  <2> QED  BY Zenon
<1> QED  BY <1>1, <1>2, <1>3, <1>4

\* The queue of an election once a session is dropped from it: the same, or
\* without one entry of the session.
LEMMA DropIs ==
  ASSUME ClusterTypes, NEW l, NEW k \in Keys
  PROVE  /\ Drop(l, k) \in Seq(Candidate) /\ Len(Drop(l, k)) \in Nat
         /\ \/ Drop(l, k) = election[k]
            \/ \E q \in 1..Len(election[k]) :
                 /\ election[k][q].lease = l
                 /\ Len(Drop(l, k)) = Len(election[k]) - 1
                 /\ \A i \in 1..(Len(election[k]) - 1) :
                      Drop(l, k)[i] = IF i < q THEN election[k][i] ELSE election[k][i + 1]
         /\ \A i \in 1..Len(Drop(l, k)) : \E j \in 1..Len(election[k]) : Drop(l, k)[i] = election[k][j]
<1>1. election[k] \in Seq(Candidate) /\ Len(election[k]) \in Nat  BY Zenon, PlaceIs
<1>2. CASE Place(l, k) = 0
  BY Zenon, <1>1, <1>2 DEF Drop
<1>3. CASE Place(l, k) # 0
  <2>1. PICK q \in 1..Len(election[k]) : q = Place(l, k) /\ election[k][q].lease = l
    BY Zenon, <1>3, PlaceIs
  <2>2. Drop(l, k) = WithoutAt(election[k], q)
    BY Zenon, <1>3, <2>1 DEF Drop, WithoutAt
  <2>3. /\ Drop(l, k) \in Seq(Candidate) /\ Len(Drop(l, k)) = Len(election[k]) - 1
        /\ \A i \in 1..(Len(election[k]) - 1) :
             Drop(l, k)[i] = IF i < q THEN election[k][i] ELSE election[k][i + 1]
    BY Zenon, <1>1, <2>2, WithoutAtIs
  <2>4. Len(Drop(l, k)) \in Nat  BY <1>1, <2>3
  <2>5. \A i \in 1..Len(Drop(l, k)) : \E j \in 1..Len(election[k]) : Drop(l, k)[i] = election[k][j]
    <3> TAKE i \in 1..Len(Drop(l, k))
    <3>1. i \in 1..(Len(election[k]) - 1) /\ i \in 1..Len(election[k]) /\ i + 1 \in 1..Len(election[k])
      BY <1>1, <2>3
    <3> QED  BY Zenon, <2>3, <3>1
  <2> QED  BY Zenon, <2>1, <2>3, <2>4, <2>5
<1> QED  BY Zenon, <1>2, <1>3

\* A step may let a session join one queue ...
Joins(n, k) ==
  \/ election' = election
  \/ election' = [election EXCEPT ![k] = Append(election[k], [node |-> n, lease |-> lease[n]])]

\* ... or take one out of some queues.
Leaves(l) ==
  \E K : election' = [k \in Keys |-> IF k \in K THEN Drop(l, k) ELSE election[k]]

\* The sessions of the candidates are right.
QueuesOK ==
  \A k \in Keys : \A i \in 1..Len(election[k]) :
    /\ election[k][i].lease \in 1..made
    /\ \A m \in ClusterNodes : lease[m] = election[k][i].lease => m = election[k][i].node

\* Who joins goes to the end.
LEMMA JoinsKeeps ==
  ASSUME ClusterIInv, NEW n \in ClusterNodes, NEW k \in Keys, lease[n] \in leases, Joins(n, k),
         UNCHANGED <<lease, made>>
  PROVE  /\ election' \in [Keys -> Seq(Candidate)]
         /\ QueuesOK'
         /\ \A x \in Keys : election[x] # <<>> =>
              election'[x] # <<>> /\ Head(election'[x]) = Head(election[x])
         /\ \A x \in Keys, m \in ClusterNodes :
              HasPlace(m, x) /\ ahead'[m] = ahead[m] => HasPlace(m, x)'
<1> USE DEF ClusterIInv
<1>1. PICK c \in Candidate : c = [node |-> n, lease |-> lease[n]] /\ c.lease = lease[n] /\ c.node = n
  <2>1. lease[n] \in Nat  BY DEF ClusterTypes
  <2>2. [node |-> n, lease |-> lease[n]] \in Candidate  BY Zenon, <2>1 DEF Candidate
  <2> QED  BY Zenon, <2>2
<1>2. c.lease \in 1..made /\ \A m \in ClusterNodes : lease[m] = c.lease => m = c.node
  BY <1>1 DEF SessionsInv, ClusterTypes
<1>3. ASSUME NEW x \in Keys
      PROVE  /\ election'[x] \in Seq(Candidate) /\ Len(election'[x]) \in Nat
             /\ Len(election[x]) \in Nat /\ Len(election[x]) <= Len(election'[x])
             /\ \A i \in 1..Len(election[x]) : election'[x][i] = election[x][i]
             /\ \A i \in 1..Len(election'[x]) : i \in 1..Len(election[x]) \/ election'[x][i] = c
  <2>1. election[x] \in Seq(Candidate) /\ Len(election[x]) \in Nat  BY Zenon, PlaceIs
  <2>2. CASE election'[x] = election[x]
    BY <2>1, <2>2
  <2>3. CASE election'[x] # election[x]
    <3>1. election'[x] = Append(election[x], c)
      BY Zenon, <1>1, <2>3 DEF Joins, ClusterTypes
    <3> QED  BY <2>1, <3>1, SeqAppend
  <2> QED  BY Zenon, <2>2, <2>3
<1>4. election' \in [Keys -> Seq(Candidate)]
  <2>1. DOMAIN election' = Keys /\ election' = [x \in Keys |-> election'[x]]
    BY Zenon DEF Joins, ClusterTypes
  <2> QED  BY Zenon, <1>3, <2>1
<1>5. QueuesOK'
  <2> SUFFICES ASSUME NEW x \in Keys, NEW i \in 1..Len(election'[x])
               PROVE  /\ election'[x][i].lease \in 1..made
                      /\ \A m \in ClusterNodes : lease[m] = election'[x][i].lease => m = election'[x][i].node
    BY Zenon DEF QueuesOK
  <2>1. CASE i \in 1..Len(election[x])
    BY <1>3, <2>1 DEF SessionsInv
  <2>2. CASE election'[x][i] = c
    BY Zenon, <1>2, <2>2
  <2> QED  BY Zenon, <1>3, <2>1, <2>2
<1>6. ASSUME NEW x \in Keys, election[x] # <<>>
      PROVE  election'[x] # <<>> /\ Head(election'[x]) = Head(election[x])
  <2>1. election[x] \in Seq(Candidate) /\ Len(election[x]) # 0 /\ Head(election[x]) = election[x][1]
    BY <1>6, PlaceIs
  <2>2. election'[x] \in Seq(Candidate) /\ Len(election'[x]) # 0 /\ 1 \in 1..Len(election[x])
    BY <1>3, <2>1
  <2>3. Head(election'[x]) = election'[x][1] /\ election'[x] # <<>>
    BY <2>2
  <2> QED  BY Zenon, <1>3, <2>1, <2>2, <2>3
<1>7. ASSUME NEW x \in Keys, NEW m \in ClusterNodes, HasPlace(m, x), ahead'[m] = ahead[m]
      PROVE  HasPlace(m, x)'
  <2>1. PICK p \in 1..Len(election[x]) :
          election[x][p].lease = lease[m] /\ \A i \in 1..(p - 1) : election[x][i].lease \in ahead[m]
    BY Zenon, <1>7 DEF HasPlace
  <2>2. p \in 1..Len(election'[x]) /\ \A i \in 1..(p - 1) : i \in 1..Len(election[x])
    BY <1>3
  <2> QED  BY Zenon, <1>3, <1>7, <2>1, <2>2 DEF HasPlace
<1> QED  BY Zenon, <1>4, <1>5, <1>6, <1>7

\* Who stays keeps the order: the first stays the first, and nobody new comes before anyone.
LEMMA LeavesKeeps ==
  ASSUME ClusterIInv, NEW l, Leaves(l), UNCHANGED <<lease, made>>
  PROVE  /\ election' \in [Keys -> Seq(Candidate)]
         /\ QueuesOK'
         /\ \A x \in Keys : election[x] # <<>> /\ Head(election[x]).lease # l =>
              election'[x] # <<>> /\ Head(election'[x]) = Head(election[x])
         /\ \A x \in Keys, m \in ClusterNodes :
              HasPlace(m, x) /\ ahead'[m] = ahead[m] /\ lease[m] # l => HasPlace(m, x)'
<1> USE DEF ClusterIInv
<1>1. ASSUME NEW x \in Keys
      PROVE  /\ election'[x] \in Seq(Candidate) /\ Len(election'[x]) \in Nat
             /\ \A i \in 1..Len(election'[x]) : \E j \in 1..Len(election[x]) : election'[x][i] = election[x][j]
             /\ \/ election'[x] = election[x]
                \/ \E q \in 1..Len(election[x]) :
                     /\ election[x][q].lease = l /\ Len(election'[x]) = Len(election[x]) - 1
                     /\ \A i \in 1..(Len(election[x]) - 1) :
                          election'[x][i] = IF i < q THEN election[x][i] ELSE election[x][i + 1]
  <2>1. CASE election'[x] = election[x]
    BY Zenon, <2>1, PlaceIs
  <2>2. CASE election'[x] = Drop(l, x)
    BY <2>2, DropIs
  <2> QED  BY Zenon, <2>1, <2>2 DEF Leaves
<1>2. election' \in [Keys -> Seq(Candidate)]
  <2>1. election' = [x \in Keys |-> election'[x]]
    BY Zenon DEF Leaves
  <2> QED  BY Zenon, <1>1, <2>1
<1>3. QueuesOK'
  <2> SUFFICES ASSUME NEW x \in Keys, NEW i \in 1..Len(election'[x])
               PROVE  /\ election'[x][i].lease \in 1..made
                      /\ \A m \in ClusterNodes : lease[m] = election'[x][i].lease => m = election'[x][i].node
    BY Zenon DEF QueuesOK
  <2>1. PICK j \in 1..Len(election[x]) : election'[x][i] = election[x][j]
    BY Zenon, <1>1
  <2> QED  BY <2>1 DEF SessionsInv
<1>4. ASSUME NEW x \in Keys, election[x] # <<>>, Head(election[x]).lease # l
      PROVE  election'[x] # <<>> /\ Head(election'[x]) = Head(election[x])
  <2>1. election[x] \in Seq(Candidate) /\ Len(election[x]) \in Nat /\ Len(election[x]) # 0
        /\ Head(election[x]) = election[x][1]
    BY <1>4, PlaceIs
  <2>2. CASE election'[x] = election[x]
    BY Zenon, <1>4, <2>2
  <2>3. CASE election'[x] # election[x]
    <3>1. PICK q \in 1..Len(election[x]) :
            /\ election[x][q].lease = l /\ Len(election'[x]) = Len(election[x]) - 1
            /\ \A i \in 1..(Len(election[x]) - 1) :
                 election'[x][i] = IF i < q THEN election[x][i] ELSE election[x][i + 1]
      BY Zenon, <1>1, <2>3
    <3>2. q # 1  BY Zenon, <1>4, <2>1, <3>1
    <3>3. 1 < q /\ 1 \in 1..(Len(election[x]) - 1)
      BY <2>1, <3>2
    <3>4. election'[x][1] = election[x][1] /\ Len(election'[x]) # 0
      BY <2>1, <3>1, <3>3
    <3>5. election'[x] \in Seq(Candidate)  BY Zenon, <1>1
    <3>6. election'[x] # <<>> /\ Head(election'[x]) = election'[x][1]
      BY <3>4, <3>5
    <3> QED  BY Zenon, <2>1, <3>4, <3>6
  <2> QED  BY Zenon, <2>2, <2>3
<1>5. ASSUME NEW x \in Keys, NEW m \in ClusterNodes, HasPlace(m, x), ahead'[m] = ahead[m], lease[m] # l
      PROVE  HasPlace(m, x)'
  <2>1. PICK p \in 1..Len(election[x]) :
          election[x][p].lease = lease[m] /\ \A i \in 1..(p - 1) : election[x][i].lease \in ahead[m]
    BY Zenon, <1>5 DEF HasPlace
  <2>2. CASE election'[x] = election[x]
    BY Zenon, <1>5, <2>1, <2>2 DEF HasPlace
  <2>3. CASE election'[x] # election[x]
    <3>0. Len(election[x]) \in Nat  BY Zenon, PlaceIs
    <3>1. PICK q \in 1..Len(election[x]) :
            /\ election[x][q].lease = l /\ Len(election'[x]) = Len(election[x]) - 1
            /\ \A i \in 1..(Len(election[x]) - 1) :
                 election'[x][i] = IF i < q THEN election[x][i] ELSE election[x][i + 1]
      BY Zenon, <1>1, <2>3
    <3>2. p # q  BY Zenon, <1>5, <2>1, <3>1
    <3>3. CASE p < q
      <4>1. p \in 1..Len(election'[x]) /\ p \in 1..(Len(election[x]) - 1)
        BY <3>0, <3>1, <3>3
      <4>2. election'[x][p].lease = lease'[m]
        BY Zenon, <2>1, <3>1, <3>3, <4>1
      <4>3. ASSUME NEW i \in 1..(p - 1)
            PROVE  election'[x][i].lease \in ahead'[m]
        <5>1. i \in 1..(Len(election[x]) - 1) /\ i < q
          BY <3>0, <3>3, <4>1
        <5> QED  BY Zenon, <1>5, <2>1, <3>1, <5>1
      <4> QED  BY Zenon, <4>1, <4>2, <4>3 DEF HasPlace
    <3>4. CASE q < p
      <4>1. PICK r \in 1..(Len(election[x]) - 1) : r = p - 1
        BY <3>0, <3>4
      <4>2. r \in 1..Len(election'[x]) /\ ~(r < q) /\ r + 1 = p
        BY <3>0, <3>1, <3>4, <4>1
      <4>3. election'[x][r].lease = lease'[m]
        BY Zenon, <2>1, <3>1, <4>1, <4>2
      <4>4. ASSUME NEW i \in 1..(r - 1)
            PROVE  election'[x][i].lease \in ahead'[m]
        <5>1. i \in 1..(Len(election[x]) - 1) /\ i \in 1..(p - 1) /\ i + 1 \in 1..(p - 1)
          BY <3>0, <4>1, <4>2
        <5>2. election'[x][i] \in {election[x][i], election[x][i + 1]}
          BY Zenon, <3>1, <5>1
        <5> QED  BY Zenon, <1>5, <2>1, <5>1, <5>2
      <4> QED  BY Zenon, <4>2, <4>3, <4>4 DEF HasPlace
    <3> QED  BY <3>0, <3>2, <3>3, <3>4
  <2> QED  BY Zenon, <2>2, <2>3
<1> QED  BY Zenon, <1>2, <1>3, <1>4, <1>5

\* A node's hold on a task.
Held(n, t) ==
  \/ election[t] # <<>> /\ Head(election[t]).lease = lease[n]
  \/ lease[n] \notin leases

\* A step of one node that leaves the elections alone.
LEMMA LocalInv ==
  ASSUME ClusterIInv, NEW n \in ClusterNodes, NEW v \in LoopStates, v # "wait",
         UNCHANGED <<lease, leases, made, election, target>>,
         at' = [at EXCEPT ![n] = v],
         DOMAIN ahead' = ClusterNodes, \A m \in ClusterNodes \ {n} : ahead'[m] = ahead[m],
         DOMAIN wanted' = ClusterNodes,
         DOMAIN shaken' = ClusterNodes, \A m \in ClusterNodes \ {n} : shaken'[m] = shaken[m],
         v = "rebalance" => IsLeader(n, ClusterKey),
         localTasks' \in [ClusterNodes -> SUBSET ClusterTasks],
         \A m \in ClusterNodes \ {n} : localTasks'[m] = localTasks[m],
         v = "down" => localTasks'[n] = {},
         \A t \in localTasks'[n] : Held(n, t) \/ v = "stopped"
  PROVE  ClusterIInv'
<1> USE DEF ClusterIInv
<1>1. at'[n] = v /\ \A m \in ClusterNodes \ {n} : at'[m] = at[m]
  BY Zenon DEF ClusterTypes
<1>2. ClusterTypes'
  <2>1. at' \in [ClusterNodes -> LoopStates]  BY Zenon DEF ClusterTypes
  <2>2. \A m \in ClusterNodes : at'[m] = "wait" => target'[m] \in ClusterTasks
    BY Zenon, <1>1 DEF ClusterTypes
  <2> QED  BY Zenon, <2>1, <2>2 DEF ClusterTypes
<1>3. SessionsInv'
  BY <1>1 DEF SessionsInv
<1>4. WaitInv'
  <2> SUFFICES ASSUME NEW m \in ClusterNodes, at'[m] = "wait", lease'[m] \in leases'
               PROVE  HasPlace(m, target[m])'
    BY Zenon DEF WaitInv
  <2>1. m # n /\ at[m] = "wait" /\ ahead'[m] = ahead[m]  BY Zenon, <1>1
  <2>2. HasPlace(m, target[m])  BY Zenon, <2>1 DEF WaitInv
  <2> QED  BY Zenon, <2>1, <2>2 DEF HasPlace
<1>5. ActsAsLeader'
  <2> SUFFICES ASSUME NEW m \in ClusterNodes
               PROVE  /\ at'[m] = "rebalance" => IsLeader(m, ClusterKey)' \/ shaken'[m]
                      /\ \A t \in localTasks'[m] :
                           \/ election'[t] # <<>> /\ Head(election'[t]).lease = lease'[m]
                           \/ lease'[m] \notin leases'
                           \/ at'[m] = "stopped"
    BY Zenon DEF ActsAsLeader
  <2>1. CASE m = n
    BY Zenon, <1>1, <2>1 DEF Held, IsLeader
  <2>2. CASE m # n
    BY Zenon, <1>1, <2>2 DEF ActsAsLeader, IsLeader
  <2> QED  BY Zenon, <2>1, <2>2
<1> QED  BY Zenon, <1>2, <1>3, <1>4, <1>5

\* The steps of a node's loop without a campaign, and the end of its process.
LEMMA LoopInv ==
  ASSUME ClusterIInv, NEW n \in ClusterNodes,
         Elected(n) \/ VerifyLeader(n) \/ RebalanceCluster(n) \/ TaskAcquired(n) \/ ProcessEnds(n)
  PROVE  ClusterIInv'
<1> USE DEF ClusterIInv
<1>0. UNCHANGED <<lease, leases, made, election, target>>
  BY Zenon DEF Elected, VerifyLeader, RebalanceCluster, TaskAcquired, ProcessEnds
<1>1. DOMAIN ahead = ClusterNodes /\ DOMAIN wanted = ClusterNodes /\ DOMAIN shaken = ClusterNodes
      /\ localTasks \in [ClusterNodes -> SUBSET ClusterTasks]
  BY Zenon DEF ClusterTypes
<1>2. at[n] # "stopped" => \A t \in localTasks[n] : Held(n, t)
  BY Zenon DEF ActsAsLeader, Held
<1>3. CASE Elected(n)
  <2>1. at' = [at EXCEPT ![n] = "leading"] /\ UNCHANGED <<ahead, wanted, shaken, localTasks>>
        /\ at[n] = "campaign"
    BY Zenon, <1>3 DEF Elected
  <2> QED  BY Zenon, <1>0, <1>1, <1>2, <2>1, LocalInv DEF LoopStates
<1>4. CASE VerifyLeader(n)
  <2>1. PICK v \in {"rebalance", "check"} :
          at' = [at EXCEPT ![n] = v] /\ (v = "rebalance" => IsLeader(n, ClusterKey))
    BY Zenon, <1>4 DEF VerifyLeader
  <2>2. shaken' = [shaken EXCEPT ![n] = FALSE] /\ UNCHANGED <<ahead, wanted, localTasks>> /\ at[n] = "leading"
    BY Zenon, <1>4 DEF VerifyLeader
  <2>3. DOMAIN shaken' = ClusterNodes /\ \A m \in ClusterNodes \ {n} : shaken'[m] = shaken[m]
    BY Zenon, <1>1, <2>2
  <2> QED  BY Zenon, <1>0, <1>1, <1>2, <2>1, <2>2, <2>3, LocalInv DEF LoopStates
<1>5. CASE RebalanceCluster(n)
  <2>1. PICK v \in {"leading", "acquire"} : at' = [at EXCEPT ![n] = v]
    BY Zenon, <1>5 DEF RebalanceCluster
  <2>2. PICK w : wanted' = [wanted EXCEPT ![n] = w]
    BY Zenon, <1>5 DEF RebalanceCluster
  <2>3. ahead' = [ahead EXCEPT ![n] = {}] /\ UNCHANGED <<shaken, localTasks>> /\ at[n] = "rebalance"
    BY Zenon, <1>5 DEF RebalanceCluster
  <2>4. DOMAIN ahead' = ClusterNodes /\ DOMAIN wanted' = ClusterNodes
        /\ \A m \in ClusterNodes \ {n} : ahead'[m] = ahead[m]
    BY Zenon, <1>1, <2>2, <2>3
  <2> QED  BY Zenon, <1>0, <1>1, <1>2, <2>1, <2>3, <2>4, LocalInv DEF LoopStates
<1>6. CASE TaskAcquired(n)
  <2>1. PICK v \in {"leading", "acquire"} : at' = [at EXCEPT ![n] = v]
    BY Zenon, <1>6 DEF TaskAcquired, DoneWith
  <2>2. at[n] = "wait" /\ ~Waiting(n, target[n]) /\ UNCHANGED <<ahead, shaken>>
        /\ localTasks' = [localTasks EXCEPT ![n] = localTasks[n] \cup {target[n]}]
        /\ DOMAIN wanted' = DOMAIN wanted
    BY Zenon, <1>6 DEF TaskAcquired, DoneWith
  <2>3. PICK t \in ClusterTasks : t = target[n]
    BY Zenon, <2>2 DEF ClusterTypes
  <2>4. Held(n, t)
    <3>1. CASE lease[n] \in leases
      <4>0. t \in Keys  BY Zenon DEF Keys
      <4>1. PICK p \in 1..Len(election[t]) :
              election[t][p].lease = lease[n] /\ \A i \in 1..(p - 1) : election[t][i].lease \in ahead[n]
        BY Zenon, <2>2, <2>3, <3>1 DEF WaitInv, HasPlace
      <4>2. election[t] \in Seq(Candidate) /\ DOMAIN election[t] = 1..Len(election[t]) /\ Len(election[t]) \in Nat
        BY Zenon, <4>0, PlaceIs
      <4>3. p = 1
        <5> SUFFICES ASSUME p # 1 PROVE FALSE
          BY Zenon
        <5>1. 1 \in 1..(p - 1) /\ 1 \in DOMAIN election[t]  BY <4>2
        <5> QED  BY Zenon, <2>2, <2>3, <4>1, <5>1 DEF Waiting
      <4>4. election[t] # <<>> /\ Head(election[t]) = election[t][1]
        BY <4>1, <4>2
      <4> QED  BY Zenon, <4>1, <4>3, <4>4 DEF Held
    <3>2. CASE lease[n] \notin leases
      BY Zenon, <3>2 DEF Held
    <3> QED  BY Zenon, <3>1, <3>2
  <2>5. localTasks' \in [ClusterNodes -> SUBSET ClusterTasks]
        /\ (\A m \in ClusterNodes \ {n} : localTasks'[m] = localTasks[m])
        /\ localTasks'[n] = localTasks[n] \cup {t}
    BY Zenon, <1>1, <2>2, <2>3
  <2>6. \A u \in localTasks'[n] : Held(n, u)
    BY Zenon, <1>2, <2>2, <2>4, <2>5
  <2> QED  BY Zenon, <1>0, <1>1, <2>1, <2>2, <2>5, <2>6, LocalInv DEF LoopStates
<1>7. CASE ProcessEnds(n)
  <2>1. at' = [at EXCEPT ![n] = "down"] /\ localTasks' = [localTasks EXCEPT ![n] = {}]
        /\ wanted' = [wanted EXCEPT ![n] = {}] /\ UNCHANGED <<ahead, shaken>>
    BY Zenon, <1>7 DEF ProcessEnds
  <2>2. localTasks' \in [ClusterNodes -> SUBSET ClusterTasks] /\ localTasks'[n] = {}
        /\ (\A m \in ClusterNodes \ {n} : localTasks'[m] = localTasks[m]) /\ DOMAIN wanted' = ClusterNodes
    BY Zenon, <1>1, <2>1
  <2> QED  BY Zenon, <1>0, <1>1, <2>1, <2>2, LocalInv DEF LoopStates
<1> QED  BY Zenon, <1>3, <1>4, <1>5, <1>6, <1>7

\* A new process gets a session of its own, which no election has yet.
LEMMA StartManagerInv ==
  ASSUME ClusterIInv, NEW n \in ClusterNodes, StartManager(n)
  PROVE  ClusterIInv'
<1> USE DEF ClusterIInv
<1>1. /\ at[n] = "down" /\ made' = made + 1 /\ lease' = [lease EXCEPT ![n] = made + 1]
      /\ leases' = leases \cup {made + 1} /\ at' = [at EXCEPT ![n] = "check"]
      /\ shaken' = [shaken EXCEPT ![n] = FALSE]
      /\ UNCHANGED <<election, ahead, wanted, target, localTasks>>
  BY Zenon DEF StartManager
<1>2. /\ made \in Nat /\ lease \in [ClusterNodes -> 0..made] /\ leases \subseteq 1..made
      /\ at \in [ClusterNodes -> LoopStates] /\ DOMAIN shaken = ClusterNodes
  BY Zenon DEF ClusterTypes
<1>3. /\ lease'[n] = made + 1 /\ at'[n] = "check" /\ DOMAIN shaken' = ClusterNodes
      /\ \A m \in ClusterNodes \ {n} : lease'[m] = lease[m] /\ lease[m] \in 0..made /\ at'[m] = at[m] /\ shaken'[m] = shaken[m]
  BY Zenon, <1>1, <1>2
<1>4. ClusterTypes'
  <2>1. lease' \in [ClusterNodes -> 0..made'] /\ leases' \subseteq 1..made' /\ made' \in Nat
    BY <1>1, <1>2
  <2>2. at' \in [ClusterNodes -> LoopStates]  BY Zenon, <1>1, <1>2 DEF LoopStates
  <2>3. \A m \in ClusterNodes : at'[m] = "wait" => target'[m] \in ClusterTasks
    BY Zenon, <1>1, <1>3 DEF ClusterTypes
  <2> QED  BY Zenon, <1>1, <1>3, <2>1, <2>2, <2>3 DEF ClusterTypes
<1>5. localTasks[n] = {}
  BY Zenon, <1>1 DEF SessionsInv
<1>6. SessionsInv'
  <2>1. \A m, o \in ClusterNodes : lease'[m] = lease'[o] /\ lease'[m] # 0 => m = o
    BY <1>2, <1>3 DEF SessionsInv
  <2>2. \A m \in ClusterNodes : at'[m] = "down" => localTasks'[m] = {}
    BY <1>1, <1>3 DEF SessionsInv
  <2>3. ASSUME NEW k \in Keys, NEW i \in 1..Len(election[k])
        PROVE  /\ election[k][i].lease \in 1..made'
               /\ \A m \in ClusterNodes : lease'[m] = election[k][i].lease => m = election[k][i].node
    <3>1. election[k][i].lease \in 1..made
          /\ \A m \in ClusterNodes : lease[m] = election[k][i].lease => m = election[k][i].node
      BY Zenon DEF SessionsInv
    <3>2. election[k][i].lease # made + 1 /\ election[k][i].lease \in 1..made'
      BY <1>1, <1>2, <3>1
    <3> QED  BY Zenon, <1>3, <3>1, <3>2
  <2> QED  BY <1>1, <2>1, <2>2, <2>3 DEF SessionsInv
<1>7. \A m \in ClusterNodes \ {n} : lease'[m] \in leases' <=> lease[m] \in leases
  BY <1>1, <1>2, <1>3
<1>8. WaitInv'
  <2> SUFFICES ASSUME NEW m \in ClusterNodes, at'[m] = "wait", lease'[m] \in leases'
               PROVE  HasPlace(m, target[m])'
    BY Zenon DEF WaitInv
  <2>1. m # n /\ at[m] = "wait" /\ lease'[m] = lease[m] /\ lease[m] \in leases  BY Zenon, <1>3, <1>7
  <2>2. HasPlace(m, target[m])  BY Zenon, <2>1 DEF WaitInv
  <2> QED  BY Zenon, <1>1, <2>1, <2>2 DEF HasPlace
<1>9. ActsAsLeader'
  <2> SUFFICES ASSUME NEW m \in ClusterNodes
               PROVE  /\ at'[m] = "rebalance" => IsLeader(m, ClusterKey)' \/ shaken'[m]
                      /\ \A t \in localTasks'[m] :
                           \/ election'[t] # <<>> /\ Head(election'[t]).lease = lease'[m]
                           \/ lease'[m] \notin leases'
                           \/ at'[m] = "stopped"
    BY Zenon DEF ActsAsLeader
  <2>1. CASE m = n
    BY Zenon, <1>1, <1>3, <1>5, <2>1
  <2>2. CASE m # n
    BY SMTT(30), <1>1, <1>3, <1>7, <2>2 DEF ActsAsLeader, IsLeader
  <2> QED  BY Zenon, <2>1, <2>2
<1> QED  BY Zenon, <1>4, <1>6, <1>8, <1>9

\* A campaign: the node joins a queue, and waits behind those who are there.
LEMMA JoinedInv ==
  ASSUME ClusterIInv, NEW n \in ClusterNodes, NEW k \in Keys, lease[n] \in leases, Joins(n, k),
         UNCHANGED <<lease, leases, made, localTasks, shaken, wanted>>,
         at' \in [ClusterNodes -> LoopStates],
         DOMAIN ahead' = ClusterNodes, DOMAIN target' = ClusterNodes,
         \A m \in ClusterNodes \ {n} : at'[m] = at[m] /\ ahead'[m] = ahead[m] /\ target'[m] = target[m],
         \/ at'[n] = at[n] /\ ahead'[n] = ahead[n] /\ target'[n] = target[n]
         \/ at'[n] = "campaign" /\ at[n] # "stopped"
         \/ at'[n] = "wait" /\ at[n] # "stopped" /\ target'[n] \in ClusterTasks /\ HasPlace(n, target[n])'
  PROVE  ClusterIInv'
<1> USE DEF ClusterIInv
<1>1. /\ election' \in [Keys -> Seq(Candidate)] /\ QueuesOK'
      /\ \A x \in Keys : election[x] # <<>> =>
           election'[x] # <<>> /\ Head(election'[x]) = Head(election[x])
      /\ \A x \in Keys, m \in ClusterNodes :
           HasPlace(m, x) /\ ahead'[m] = ahead[m] => HasPlace(m, x)'
  BY Zenon, JoinsKeeps
<1>2. ClusterTypes'
  <2>1. \A m \in ClusterNodes : at'[m] = "wait" => target'[m] \in ClusterTasks
    BY Zenon DEF ClusterTypes
  <2> QED  BY Zenon, <1>1, <2>1 DEF ClusterTypes
<1>3. SessionsInv'
  <2>1. \A m \in ClusterNodes : at'[m] = "down" => localTasks'[m] = {}
    BY Zenon DEF SessionsInv
  <2>2. \A m, o \in ClusterNodes : lease'[m] = lease'[o] /\ lease'[m] # 0 => m = o
    BY Zenon DEF SessionsInv
  <2> QED  BY Zenon, <1>1, <2>1, <2>2 DEF SessionsInv, QueuesOK
<1>4. WaitInv'
  <2> SUFFICES ASSUME NEW m \in ClusterNodes, at'[m] = "wait", lease'[m] \in leases'
               PROVE  HasPlace(m, target[m])'
    BY Zenon DEF WaitInv
  <2>1. CASE at[m] = "wait" /\ ahead'[m] = ahead[m] /\ target'[m] = target[m]
    <3>1. PICK x \in Keys : x = target[m] /\ HasPlace(m, x)
      BY Zenon, <2>1 DEF WaitInv, ClusterTypes, Keys
    <3>2. HasPlace(m, x)'  BY Zenon, <1>1, <2>1, <3>1
    <3> QED  BY Zenon, <2>1, <3>1, <3>2
  <2>2. CASE ~(at[m] = "wait" /\ ahead'[m] = ahead[m] /\ target'[m] = target[m])
    BY Zenon, <2>2
  <2> QED  BY Zenon, <2>1, <2>2
<1>5. ActsAsLeader'
  <2> SUFFICES ASSUME NEW m \in ClusterNodes
               PROVE  /\ at'[m] = "rebalance" => IsLeader(m, ClusterKey)' \/ shaken'[m]
                      /\ \A t \in localTasks'[m] :
                           \/ election'[t] # <<>> /\ Head(election'[t]).lease = lease'[m]
                           \/ lease'[m] \notin leases'
                           \/ at'[m] = "stopped"
    BY Zenon DEF ActsAsLeader
  <2>1. ClusterKey \in Keys /\ \A t \in localTasks[m] : t \in Keys
    BY Zenon DEF Keys, ClusterTypes
  <2>2. (at'[m] = "rebalance" => at[m] = "rebalance") /\ (at[m] = "stopped" => at'[m] = "stopped")
    BY Zenon
  <2>3. at'[m] = "rebalance" => IsLeader(m, ClusterKey)' \/ shaken'[m]
    BY Zenon, <1>1, <2>1, <2>2 DEF ActsAsLeader, IsLeader
  <2>4. ASSUME NEW t \in localTasks[m]
        PROVE  \/ election'[t] # <<>> /\ Head(election'[t]).lease = lease'[m]
               \/ lease'[m] \notin leases'
               \/ at'[m] = "stopped"
    BY Zenon, <1>1, <2>1, <2>2 DEF ActsAsLeader
  <2> QED  BY Zenon, <2>3, <2>4
<1> QED  BY Zenon, <1>2, <1>3, <1>4, <1>5

\* What Join leaves: the node's place, with all before it in the set it waits for.
LEMMA JoinIs ==
  ASSUME ClusterIInv, NEW n \in ClusterNodes, NEW k \in Keys, Join(n, k), UNCHANGED <<lease, made>>
  PROVE  /\ lease[n] \in leases /\ Joins(n, k) /\ HasPlace(n, k)'
         /\ DOMAIN ahead' = ClusterNodes /\ \A m \in ClusterNodes \ {n} : ahead'[m] = ahead[m]
<1> USE DEF ClusterIInv
<1>1. /\ lease[n] \in leases
      /\ election' = IF Place(lease[n], k) # 0 THEN election
                     ELSE [election EXCEPT ![k] = Append(election[k], [node |-> n, lease |-> lease[n]])]
      /\ ahead' = [ahead EXCEPT ![n] =
           {election[k][i].lease : i \in 1..(IF Place(lease[n], k) = 0 THEN Len(election[k])
                                             ELSE Place(lease[n], k) - 1)}]
  BY Zenon DEF Join
<1>2. Joins(n, k)
  BY Zenon, <1>1 DEF Joins
<1>3. DOMAIN ahead' = ClusterNodes /\ (\A m \in ClusterNodes \ {n} : ahead'[m] = ahead[m])
      /\ ahead'[n] = {election[k][i].lease : i \in 1..(IF Place(lease[n], k) = 0 THEN Len(election[k])
                                                       ELSE Place(lease[n], k) - 1)}
  BY Zenon, <1>1 DEF ClusterTypes
<1>4. election[k] \in Seq(Candidate) /\ Len(election[k]) \in Nat
  BY Zenon, PlaceIs
<1>5. CASE Place(lease[n], k) # 0
  <2>1. PICK p \in 1..Len(election[k]) : p = Place(lease[n], k) /\ election[k][p].lease = lease[n]
    BY Zenon, <1>5, PlaceIs
  <2>2. ahead'[n] = {election[k][i].lease : i \in 1..(p - 1)} /\ election' = election
    BY Zenon, <1>1, <1>3, <1>5, <2>1
  <2>3. HasPlace(n, k)'
    BY Zenon, <2>1, <2>2 DEF HasPlace
  <2> QED  BY Zenon, <1>1, <1>2, <1>3, <2>3
<1>6. CASE Place(lease[n], k) = 0
  <2>1. PICK c \in Candidate : c = [node |-> n, lease |-> lease[n]] /\ c.lease = lease[n]
    <3>1. lease[n] \in Nat  BY DEF ClusterTypes
    <3>2. [node |-> n, lease |-> lease[n]] \in Candidate  BY Zenon, <3>1 DEF Candidate
    <3> QED  BY Zenon, <3>2
  <2>2. election'[k] = Append(election[k], c)
    BY Zenon, <1>1, <1>6, <2>1 DEF ClusterTypes
  <2>3. /\ Len(election'[k]) = Len(election[k]) + 1 /\ election'[k][Len(election[k]) + 1] = c
        /\ \A i \in 1..Len(election[k]) : election'[k][i] = election[k][i]
    BY <1>4, <2>2, SeqAppend
  <2>4. ahead'[n] = {election[k][i].lease : i \in 1..Len(election[k])}
    BY Zenon, <1>3, <1>6
  <2>5. PICK p \in 1..Len(election'[k]) : p = Len(election[k]) + 1 /\ p - 1 = Len(election[k])
    BY <1>4, <2>3
  <2>6. \A i \in 1..(p - 1) : election'[k][i].lease \in ahead'[n]
    BY Zenon, <2>3, <2>4, <2>5
  <2>7. HasPlace(n, k)'
    BY Zenon, <2>1, <2>3, <2>5, <2>6 DEF HasPlace
  <2> QED  BY Zenon, <1>1, <1>2, <1>3, <2>7
<1> QED  BY Zenon, <1>5, <1>6

\* The campaigns of a node, for the cluster (CheckLeader) and for a task.
LEMMA CampaignInv ==
  ASSUME ClusterIInv, NEW n \in ClusterNodes,
         \/ CheckLeader(n)
         \/ \E t \in ClusterTasks : AcquireTask(n, t) \/ OtherCampaigns(n, t)
  PROVE  ClusterIInv'
<1> USE DEF ClusterIInv
<1>0. ClusterKey \in Keys /\ \A t \in ClusterTasks : t \in Keys  BY Zenon DEF Keys
<1>1. /\ DOMAIN ahead = ClusterNodes /\ DOMAIN wanted = ClusterNodes /\ DOMAIN shaken = ClusterNodes
      /\ DOMAIN target = ClusterNodes /\ localTasks \in [ClusterNodes -> SUBSET ClusterTasks]
      /\ at \in [ClusterNodes -> LoopStates]
  BY Zenon DEF ClusterTypes
<1>2. at[n] # "stopped" => \A u \in localTasks[n] : Held(n, u)
  BY Zenon DEF ActsAsLeader, Held
<1>3. CASE CheckLeader(n) /\ IsLeader(n, ClusterKey)
  <2>1. at' = [at EXCEPT ![n] = "leading"] /\ at[n] = "check"
        /\ UNCHANGED <<election, ahead, lease, leases, made, wanted, target, localTasks, shaken>>
    BY Zenon, <1>3 DEF CheckLeader
  <2> QED  BY Zenon, <1>1, <1>2, <2>1, LocalInv DEF LoopStates
<1>4. CASE CheckLeader(n) /\ ~IsLeader(n, ClusterKey)
  <2>1. at' = [at EXCEPT ![n] = "campaign"] /\ at[n] = "check" /\ Join(n, ClusterKey)
        /\ UNCHANGED <<lease, leases, made, wanted, target, localTasks, shaken>>
    BY Zenon, <1>4 DEF CheckLeader
  <2>2. lease[n] \in leases /\ Joins(n, ClusterKey) /\ DOMAIN ahead' = ClusterNodes
        /\ \A m \in ClusterNodes \ {n} : ahead'[m] = ahead[m]
    BY Zenon, <1>0, <2>1, JoinIs
  <2>3. at' \in [ClusterNodes -> LoopStates] /\ at'[n] = "campaign"
        /\ \A m \in ClusterNodes \ {n} : at'[m] = at[m]
    BY Zenon, <1>1, <2>1 DEF LoopStates
  <2> QED  BY Zenon, <1>0, <1>1, <2>1, <2>2, <2>3, JoinedInv
<1>5. ASSUME NEW t \in ClusterTasks, AcquireTask(n, t) /\ Join(n, t) /\ at' = [at EXCEPT ![n] = "wait"]
           /\ target' = [target EXCEPT ![n] = t] /\ wanted' = wanted
      PROVE  ClusterIInv'
  <2>1. at[n] = "acquire" /\ UNCHANGED <<lease, leases, made, localTasks, shaken>>
    BY Zenon, <1>5 DEF AcquireTask
  <2>2. lease[n] \in leases /\ Joins(n, t) /\ HasPlace(n, t)' /\ DOMAIN ahead' = ClusterNodes
        /\ \A m \in ClusterNodes \ {n} : ahead'[m] = ahead[m]
    BY Zenon, <1>0, <1>5, <2>1, JoinIs
  <2>3. at' \in [ClusterNodes -> LoopStates] /\ at'[n] = "wait" /\ target'[n] = t
        /\ DOMAIN target' = ClusterNodes
        /\ \A m \in ClusterNodes \ {n} : at'[m] = at[m] /\ target'[m] = target[m]
    BY Zenon, <1>1, <1>5 DEF LoopStates
  <2>4. HasPlace(n, target[n])'
    BY Zenon, <2>2, <2>3
  <2> QED  BY Zenon, <1>0, <1>1, <1>5, <2>1, <2>2, <2>3, <2>4, JoinedInv
<1>6. ASSUME NEW t \in ClusterTasks, AcquireTask(n, t) /\ lease[n] \notin leases /\ DoneWith(n, t)
           /\ UNCHANGED <<election, ahead, target>>
      PROVE  ClusterIInv'
  <2>1. PICK v \in {"leading", "acquire"} : at' = [at EXCEPT ![n] = v]
    BY Zenon, <1>6 DEF DoneWith
  <2>2. at[n] = "acquire" /\ UNCHANGED <<lease, leases, made, localTasks, shaken>>
        /\ DOMAIN wanted' = ClusterNodes
    BY Zenon, <1>1, <1>6 DEF AcquireTask, DoneWith
  <2> QED  BY Zenon, <1>1, <1>2, <1>6, <2>1, <2>2, LocalInv DEF LoopStates
<1>7. ASSUME NEW t \in ClusterTasks, OtherCampaigns(n, t)
      PROVE  ClusterIInv'
  <2>1. lease[n] \in leases /\ Joins(n, t)
        /\ UNCHANGED <<at, lease, leases, made, ahead, wanted, target, localTasks, shaken>>
    BY Zenon, <1>7 DEF OtherCampaigns, Joins
  <2> QED  BY Zenon, <1>0, <1>1, <2>1, JoinedInv
<1>8. \A t \in ClusterTasks : AcquireTask(n, t) =>
        \/ Join(n, t) /\ at' = [at EXCEPT ![n] = "wait"] /\ target' = [target EXCEPT ![n] = t] /\ wanted' = wanted
        \/ lease[n] \notin leases /\ DoneWith(n, t) /\ UNCHANGED <<election, ahead, target>>
  BY Zenon DEF AcquireTask
<1> QED  BY Zenon, <1>3, <1>4, <1>5, <1>6, <1>7, <1>8

\* A session leaves queues: its node is stopped, or has lost it.
LEMMA LeftInv ==
  ASSUME ClusterIInv, NEW l, Leaves(l), UNCHANGED <<lease, made, ahead, target, localTasks>>,
         leases' \subseteq leases, at' \in [ClusterNodes -> LoopStates],
         DOMAIN wanted' = ClusterNodes, DOMAIN shaken' = ClusterNodes,
         \A m \in ClusterNodes : at'[m] = at[m] \/ at'[m] = "stopped",
         \A m \in ClusterNodes : lease[m] = l => at'[m] = "stopped" \/ l \notin leases',
         \A m \in ClusterNodes : shaken[m] => shaken'[m],
         \A m \in ClusterNodes : at'[m] = "rebalance" /\ IsLeader(m, ClusterKey) =>
           Head(election[ClusterKey]).lease # l \/ shaken'[m]
  PROVE  ClusterIInv'
<1> USE DEF ClusterIInv
<1>1. /\ election' \in [Keys -> Seq(Candidate)] /\ QueuesOK'
      /\ \A x \in Keys : election[x] # <<>> /\ Head(election[x]).lease # l =>
           election'[x] # <<>> /\ Head(election'[x]) = Head(election[x])
      /\ \A x \in Keys, m \in ClusterNodes :
           HasPlace(m, x) /\ ahead'[m] = ahead[m] /\ lease[m] # l => HasPlace(m, x)'
  BY Zenon, LeavesKeeps
<1>2. ClusterTypes'
  <2>1. \A m \in ClusterNodes : at'[m] = "wait" => target'[m] \in ClusterTasks
    BY Zenon DEF ClusterTypes
  <2> QED  BY Zenon, <1>1, <2>1 DEF ClusterTypes
<1>3. SessionsInv'
  <2>1. \A m \in ClusterNodes : at'[m] = "down" => localTasks'[m] = {}
    BY Zenon DEF SessionsInv
  <2>2. \A m, o \in ClusterNodes : lease'[m] = lease'[o] /\ lease'[m] # 0 => m = o
    BY Zenon DEF SessionsInv
  <2> QED  BY Zenon, <1>1, <2>1, <2>2 DEF SessionsInv, QueuesOK
<1>4. WaitInv'
  <2> SUFFICES ASSUME NEW m \in ClusterNodes, at'[m] = "wait", lease'[m] \in leases'
               PROVE  HasPlace(m, target[m])'
    BY Zenon DEF WaitInv
  <2>1. at[m] = "wait" /\ lease[m] \in leases /\ lease[m] # l
    BY Zenon
  <2>2. PICK x \in Keys : x = target[m] /\ HasPlace(m, x)
    BY Zenon, <2>1 DEF WaitInv, ClusterTypes, Keys
  <2>3. HasPlace(m, x)'  BY Zenon, <1>1, <2>1, <2>2
  <2> QED  BY Zenon, <2>2, <2>3
<1>5. ActsAsLeader'
  <2> SUFFICES ASSUME NEW m \in ClusterNodes
               PROVE  /\ at'[m] = "rebalance" => IsLeader(m, ClusterKey)' \/ shaken'[m]
                      /\ \A t \in localTasks'[m] :
                           \/ election'[t] # <<>> /\ Head(election'[t]).lease = lease'[m]
                           \/ lease'[m] \notin leases'
                           \/ at'[m] = "stopped"
    BY Zenon DEF ActsAsLeader
  <2>1. ClusterKey \in Keys /\ \A t \in localTasks[m] : t \in Keys
    BY Zenon DEF Keys, ClusterTypes
  <2>2. at'[m] = "rebalance" => IsLeader(m, ClusterKey)' \/ shaken'[m]
    <3> SUFFICES ASSUME at'[m] = "rebalance", ~shaken'[m]  PROVE IsLeader(m, ClusterKey)'
      BY Zenon
    <3>1. IsLeader(m, ClusterKey)
      BY Zenon DEF ActsAsLeader
    <3> QED  BY Zenon, <1>1, <2>1, <3>1 DEF IsLeader
  <2>3. ASSUME NEW t \in localTasks[m]
        PROVE  \/ election'[t] # <<>> /\ Head(election'[t]).lease = lease'[m]
               \/ lease'[m] \notin leases'
               \/ at'[m] = "stopped"
    <3> SUFFICES ASSUME lease[m] \in leases', at'[m] # "stopped"
                 PROVE  election'[t] # <<>> /\ Head(election'[t]).lease = lease[m]
      BY Zenon
    <3>1. election[t] # <<>> /\ Head(election[t]).lease = lease[m] /\ lease[m] # l
      BY Zenon DEF ActsAsLeader
    <3> QED  BY Zenon, <1>1, <2>1, <3>1
  <2> QED  BY Zenon, <2>2, <2>3
<1> QED  BY Zenon, <1>2, <1>3, <1>4, <1>5

\* Stop, a lost session and a lost registration.
LEMMA GoneInv ==
  ASSUME ClusterIInv
  PROVE  /\ \A n \in ClusterNodes : StopManager(n) \/ NodeExpires(n) => ClusterIInv'
         /\ \A l \in 1..MaxSessions : LeaseExpires(l) => ClusterIInv'
<1> USE DEF ClusterIInv
<1>0. /\ DOMAIN wanted = ClusterNodes /\ DOMAIN shaken = ClusterNodes
      /\ at \in [ClusterNodes -> LoopStates] /\ ClusterKey \in Keys
  BY Zenon DEF ClusterTypes, Keys
<1>1. ASSUME NEW n \in ClusterNodes, StopManager(n)
      PROVE  ClusterIInv'
  <2>1. /\ at' = [at EXCEPT ![n] = "stopped"] /\ wanted' = [wanted EXCEPT ![n] = {}]
        /\ UNCHANGED <<lease, leases, made, ahead, target, localTasks, shaken>>
        /\ Leaves(lease[n]) /\ Up(n)
    BY Zenon, <1>1 DEF StopManager, Leaves
  <2>2. /\ at' \in [ClusterNodes -> LoopStates] /\ at'[n] = "stopped" /\ DOMAIN wanted' = ClusterNodes
        /\ \A m \in ClusterNodes \ {n} : at'[m] = at[m]
    BY Zenon, <1>0, <2>1 DEF LoopStates
  <2>3. CASE lease[n] \in 1..made
    <3>1. \A m \in ClusterNodes : lease[m] = lease[n] => m = n
      BY SMTT(30), <2>3 DEF SessionsInv
    <3>2. ASSUME NEW m \in ClusterNodes, at'[m] = "rebalance", IsLeader(m, ClusterKey)
          PROVE  Head(election[ClusterKey]).lease # lease[n]
      <4>1. m # n /\ election[ClusterKey] \in Seq(Candidate) /\ election[ClusterKey] # <<>>
        BY Zenon, <1>0, <2>2, <3>2 DEF ClusterTypes, IsLeader
      <4>2. 1 \in 1..Len(election[ClusterKey]) /\ Head(election[ClusterKey]) = election[ClusterKey][1]
        BY <4>1
      <4> QED  BY SMTT(30), <1>0, <3>2, <4>1, <4>2 DEF SessionsInv, IsLeader
    <3> QED  BY Zenon, <1>0, <2>1, <2>2, <3>1, <3>2, LeftInv
  <2>4. CASE lease[n] \notin 1..made
    <3>1. lease[n] \notin leases /\ \A x \in Keys : \A i \in 1..Len(election[x]) : election[x][i].lease # lease[n]
      BY Zenon, <2>4 DEF ClusterTypes, SessionsInv
    <3>2. ASSUME NEW m \in ClusterNodes, at'[m] = "rebalance", IsLeader(m, ClusterKey)
          PROVE  Head(election[ClusterKey]).lease # lease[n]
      <4>1. election[ClusterKey] \in Seq(Candidate) /\ election[ClusterKey] # <<>>
        BY Zenon, <1>0, <3>2 DEF ClusterTypes, IsLeader
      <4>2. 1 \in 1..Len(election[ClusterKey]) /\ Head(election[ClusterKey]) = election[ClusterKey][1]
        BY <4>1
      <4> QED  BY Zenon, <1>0, <3>1, <4>2
    <3> QED  BY Zenon, <1>0, <2>1, <2>2, <3>1, <3>2, LeftInv
  <2> QED  BY Zenon, <2>3, <2>4
<1>2. ASSUME NEW n \in ClusterNodes, NodeExpires(n)
      PROVE  ClusterIInv'
  <2>1. UNCHANGED <<at, lease, leases, made, election, ahead, wanted, target, localTasks, shaken>>
    BY Zenon, <1>2 DEF NodeExpires
  <2> QED  BY <2>1 DEF ClusterTypes, SessionsInv, WaitInv, HasPlace, ActsAsLeader, IsLeader
<1>3. ASSUME NEW l \in 1..MaxSessions, LeaseExpires(l)
      PROVE  ClusterIInv'
  <2>1. /\ leases' = leases \ {l} /\ UNCHANGED <<at, lease, made, ahead, wanted, target, localTasks>>
        /\ shaken' = [n \in ClusterNodes |->
             shaken[n] \/ (IsLeader(n, ClusterKey) /\ Head(election[ClusterKey]).lease = l)]
    BY Zenon, <1>3 DEF LeaseExpires
  <2>2. Leaves(l)
    <3>1. election' = [k \in Keys |-> IF k \in Keys THEN Drop(l, k) ELSE election[k]]
      BY Zenon, <1>3 DEF LeaseExpires
    <3> QED  BY Zenon, <3>1 DEF Leaves
  <2>3. /\ DOMAIN shaken' = ClusterNodes
        /\ \A m \in ClusterNodes : shaken[m] => shaken'[m]
        /\ \A m \in ClusterNodes : IsLeader(m, ClusterKey) =>
             Head(election[ClusterKey]).lease # l \/ shaken'[m]
    BY <2>1, Zenon
  <2> QED  BY Zenon, <1>0, <2>1, <2>2, <2>3, LeftInv
<1> QED  BY Zenon, <1>1, <1>2, <1>3

\* With no session and no candidate the invariant holds.
LEMMA ClusterInvInit ==
  ClusterInit => ClusterIInv
<1> SUFFICES ASSUME ClusterInit PROVE ClusterIInv
  BY Zenon
<1>1. ClusterTypes
  <2>1. <<>> \in Seq(Candidate)  OBVIOUS
  <2>2. at \in [ClusterNodes -> LoopStates] /\ made \in Nat /\ leases \subseteq 1..made
        /\ lease \in [ClusterNodes -> 0..made]
    BY DEF ClusterInit, LoopStates
  <2>3. election \in [Keys -> Seq(Candidate)]
    BY Zenon, <2>1 DEF ClusterInit
  <2>4. /\ DOMAIN ahead = ClusterNodes /\ DOMAIN wanted = ClusterNodes /\ DOMAIN target = ClusterNodes
        /\ DOMAIN shaken = ClusterNodes /\ localTasks \in [ClusterNodes -> SUBSET ClusterTasks]
        /\ \A n \in ClusterNodes : at[n] # "wait"
    BY Zenon DEF ClusterInit
  <2> QED  BY Zenon, <2>2, <2>3, <2>4 DEF ClusterTypes
<1>2. \A k \in Keys : 1..Len(election[k]) = {}
  <2>1. \A k \in Keys : election[k] = <<>>  BY Zenon DEF ClusterInit
  <2> QED  BY <2>1
<1>3. SessionsInv
  BY Zenon, <1>2 DEF ClusterInit, SessionsInv
<1>4. WaitInv /\ ActsAsLeader
  BY Zenon DEF ClusterInit, WaitInv, ActsAsLeader
<1> QED  BY Zenon, <1>1, <1>3, <1>4 DEF ClusterIInv

\* Every step of the managers, of their elections and of etcd keeps the
\* invariant.
LEMMA ClusterInvHolds ==
  ClusterSpec => []ClusterIInv
<1>1. ClusterInit => ClusterIInv
  BY Zenon, ClusterInvInit
<1>2. ClusterIInv /\ [ClusterNext]_clusterVars => ClusterIInv'
  <2> SUFFICES ASSUME ClusterIInv, [ClusterNext]_clusterVars PROVE ClusterIInv'
    BY Zenon
  <2>1. CASE UNCHANGED clusterVars
    BY <2>1 DEF clusterVars, ClusterIInv, ClusterTypes, SessionsInv, WaitInv, HasPlace,
       ActsAsLeader, IsLeader
  <2>2. ASSUME NEW n \in ClusterNodes, LoopStep(n)
        PROVE  ClusterIInv'
    <3> QED  BY Zenon, <2>2, LoopInv, CampaignInv DEF LoopStep
  <2> QED  BY Zenon, <2>1, <2>2, StartManagerInv, CampaignInv, LoopInv, GoneInv DEF ClusterNext
<1> QED  BY <1>1, <1>2, PTL DEF ClusterSpec

\* A node that rebalances leads the cluster, unless the lease by which it led has expired
\* since it looked, and a node that holds a task is first in the task's election with its
\* own session, unless it lost the session or its manager was stopped (cluster.go
\* leaderTasks, acquireTask, Stop; etcd.go AcquireLeadership).
THEOREM LeaderSafe ==
  ClusterSpec => []ActsAsLeader
<1>1. ClusterIInv => ActsAsLeader
  BY Zenon DEF ClusterIInv
<1> QED  BY <1>1, ClusterInvHolds, PTL

\* A queue of an election in which the sessions are alive and each stands once.
LiveQueue(s, live) ==
  /\ \A i \in 1..Len(s) : s[i].lease \in live
  /\ \A i, j \in 1..Len(s) : s[i].lease = s[j].lease => i = j

\* What else the type invariant says.
ClusterLimits ==
  /\ made <= MaxSessions
  /\ \A k \in Keys : LiveQueue(election[k], leases)
  /\ ahead \in [ClusterNodes -> SUBSET (1..made)]
  /\ registered \subseteq ClusterNodes
  /\ wanted \in [ClusterNodes -> SUBSET ClusterTasks]
  /\ target \in [ClusterNodes -> ClusterTasks]
  /\ expired \in 0..MaxExpired
  /\ shaken \in [ClusterNodes -> BOOLEAN]

\* A sequence is one over the set its elements are in.
LEMMA SeqOver ==
  ASSUME NEW S, NEW T, NEW s \in Seq(S), \A i \in 1..Len(s) : s[i] \in T
  PROVE  s \in Seq(T)
  OBVIOUS

\* A session that leaves a queue in which each stands once is no longer in it.
LEMMA DropOnce ==
  ASSUME ClusterTypes, NEW l, NEW k \in Keys, LiveQueue(election[k], leases)
  PROVE  LiveQueue(Drop(l, k), leases \ {l}) /\ LiveQueue(Drop(l, k), leases)
<1>1. election[k] \in Seq(Candidate) /\ Len(election[k]) \in Nat  BY Zenon, PlaceIs
<1>2. CASE Place(l, k) = 0
  BY Zenon, <1>2, PlaceIs DEF Drop, LiveQueue
<1>3. CASE Place(l, k) # 0
  <2>1. PICK q \in 1..Len(election[k]) : q = Place(l, k) /\ election[k][q].lease = l
    BY Zenon, <1>3, PlaceIs
  <2>2. Drop(l, k) = WithoutAt(election[k], q)
    BY Zenon, <1>3, <2>1 DEF Drop, WithoutAt
  <2> DEFINE from(i) == IF i < q THEN i ELSE i + 1
  <2>3. /\ Len(Drop(l, k)) = Len(election[k]) - 1
        /\ \A i \in 1..(Len(election[k]) - 1) :
             Drop(l, k)[i] = IF i < q THEN election[k][i] ELSE election[k][i + 1]
    BY Zenon, <1>1, <2>2, WithoutAtIs
  <2>4. \A i \in 1..Len(Drop(l, k)) :
          Drop(l, k)[i] = election[k][from(i)] /\ from(i) \in 1..Len(election[k]) /\ from(i) # q
    BY <1>1, <2>3
  <2>5. \A i, j \in 1..Len(Drop(l, k)) : from(i) = from(j) => i = j
    BY <1>1, <2>3
  <2> HIDE DEF from
  <2>6. ASSUME NEW i \in 1..Len(Drop(l, k))
        PROVE  Drop(l, k)[i].lease \in leases \ {l}
    BY Zenon, <2>1, <2>4 DEF LiveQueue
  <2>7. ASSUME NEW i \in 1..Len(Drop(l, k)), NEW j \in 1..Len(Drop(l, k)),
               Drop(l, k)[i].lease = Drop(l, k)[j].lease
        PROVE  i = j
    <3>1. from(i) = from(j)
      BY Zenon, <2>4, <2>7 DEF LiveQueue
    <3> QED  BY Zenon, <2>5, <3>1
  <2> QED  BY Zenon, <2>6, <2>7 DEF LiveQueue
<1> QED  BY Zenon, <1>2, <1>3

\* A session that leaves some queues, and one that expires, which leaves all.
LEMMA LeaveOnce ==
  ASSUME ClusterTypes, ClusterLimits, NEW l,
         \/ Leaves(l) /\ leases' = leases
         \/ election' = [k \in Keys |-> Drop(l, k)] /\ leases' = leases \ {l}
  PROVE  \A k \in Keys : LiveQueue(election'[k], leases')
<1>1. \A k \in Keys : LiveQueue(Drop(l, k), leases \ {l}) /\ LiveQueue(Drop(l, k), leases)
  BY Zenon, DropOnce DEF ClusterLimits
<1> QED  BY Zenon, <1>1 DEF Leaves, ClusterLimits

\* A session joins a queue only when it is not in it.
LEMMA JoinOnce ==
  ASSUME ClusterTypes, ClusterLimits, NEW n \in ClusterNodes, NEW k \in Keys, lease[n] \in leases,
         leases' = leases,
         \/ election' = election
         \/ /\ Place(lease[n], k) = 0
            /\ election' = [election EXCEPT ![k] = Append(election[k], [node |-> n, lease |-> lease[n]])]
  PROVE  \A x \in Keys : LiveQueue(election'[x], leases')
<1>1. PICK c \in Candidate : c = [node |-> n, lease |-> lease[n]] /\ c.lease = lease[n]
  <2>1. lease[n] \in Nat  BY DEF ClusterTypes
  <2>2. [node |-> n, lease |-> lease[n]] \in Candidate  BY Zenon, <2>1 DEF Candidate
  <2> QED  BY Zenon, <2>2
<1>2. ASSUME NEW x \in Keys
      PROVE  LiveQueue(election'[x], leases)
  <2>1. CASE election'[x] = election[x]
    BY Zenon, <2>1 DEF ClusterLimits
  <2>2. CASE election'[x] # election[x]
    <3>1. x = k /\ election'[k] = Append(election[k], c) /\ Place(lease[n], k) = 0
      BY Zenon, <1>1, <2>2 DEF ClusterTypes
    <3>2. election[k] \in Seq(Candidate) /\ Len(election[k]) \in Nat
          /\ \A i \in 1..Len(election[k]) : election[k][i].lease # lease[n]
      BY Zenon, <3>1, PlaceIs
    <3>3. /\ Len(election'[k]) = Len(election[k]) + 1
          /\ \A j \in 1..Len(election[k]) : election'[k][j] = election[k][j]
          /\ election'[k][Len(election[k]) + 1] = c
      BY <3>1, <3>2, SeqAppend
    <3>4. \A i \in 1..Len(election'[k]) : i \in 1..Len(election[k]) \/ i = Len(election[k]) + 1
      BY <3>2, <3>3
    <3>5. LiveQueue(election[k], leases)  BY Zenon DEF ClusterLimits
    <3>6. \A i \in 1..Len(election'[k]) :
            \/ /\ i \in 1..Len(election[k]) /\ election'[k][i] = election[k][i]
               /\ election'[k][i].lease \in leases /\ election'[k][i].lease # lease[n]
            \/ i = Len(election[k]) + 1 /\ election'[k][i].lease = lease[n]
      BY Zenon, <1>1, <3>2, <3>3, <3>4, <3>5 DEF LiveQueue
    <3>7. ASSUME NEW i \in 1..Len(election'[k]), NEW j \in 1..Len(election'[k]),
                 election'[k][i].lease = election'[k][j].lease
          PROVE  i = j
      BY Zenon, <3>5, <3>6, <3>7 DEF LiveQueue
    <3> QED  BY Zenon, <3>1, <3>6, <3>7 DEF LiveQueue
  <2> QED  BY Zenon, <2>1, <2>2
<1> QED  BY Zenon, <1>2

\* Campaign joins a queue: the node waits for sessions that were made.
LEMMA JoinLimits ==
  ASSUME ClusterIInv, ClusterLimits, NEW n \in ClusterNodes, NEW k \in Keys, Join(n, k),
         UNCHANGED <<leases, made>>
  PROVE  /\ \A x \in Keys : LiveQueue(election'[x], leases')
         /\ ahead' \in [ClusterNodes -> SUBSET (1..made')]
<1>1. /\ election' = election
         \/ /\ Place(lease[n], k) = 0
            /\ election' = [election EXCEPT ![k] = Append(election[k], [node |-> n, lease |-> lease[n]])]
      /\ lease[n] \in leases
  BY Zenon DEF Join
<1>2. \A x \in Keys : LiveQueue(election'[x], leases')
  BY Zenon, <1>1, JoinOnce DEF ClusterIInv
<1>3. PICK b : /\ b = IF Place(lease[n], k) = 0 THEN Len(election[k]) ELSE Place(lease[n], k) - 1
               /\ ahead' = [ahead EXCEPT ![n] = {election[k][i].lease : i \in 1..b}]
  BY Zenon DEF Join
<1>4. Len(election[k]) \in Nat /\ (Place(lease[n], k) # 0 => Place(lease[n], k) \in 1..Len(election[k]))
  BY Zenon, PlaceIs DEF ClusterIInv
<1>5. \A i \in 1..b : i \in 1..Len(election[k])
  BY <1>3, <1>4
<1>6. {election[k][i].lease : i \in 1..b} \subseteq 1..made
  <2>1. \A i \in 1..b : election[k][i].lease \in 1..made
    BY Zenon, <1>5 DEF ClusterIInv, SessionsInv
  <2> QED  BY Zenon, <2>1
<1> QED  BY Zenon, <1>2, <1>3, <1>6 DEF ClusterLimits

\* The steps of a node's loop.
LEMMA LoopLimits ==
  ASSUME ClusterIInv, ClusterLimits, NEW n \in ClusterNodes, LoopStep(n)
  PROVE  ClusterLimits'
<1>1. ClusterKey \in Keys /\ \A t \in ClusterTasks : t \in Keys
  BY Zenon DEF Keys
<1>2. CASE CheckLeader(n)
  BY Zenon, <1>1, <1>2, JoinLimits DEF CheckLeader, ClusterLimits
<1>3. CASE Elected(n) \/ VerifyLeader(n)
  BY Zenon, <1>3 DEF Elected, VerifyLeader, ClusterLimits
<1>4. CASE RebalanceCluster(n)
  BY Zenon, <1>4 DEF RebalanceCluster, ClusterLimits
<1>5. ASSUME NEW t \in ClusterTasks, AcquireTask(n, t)
      PROVE  ClusterLimits'
  BY Zenon, <1>1, <1>5, JoinLimits DEF AcquireTask, DoneWith, ClusterLimits
<1>6. CASE TaskAcquired(n)
  BY Zenon, <1>6 DEF TaskAcquired, DoneWith, ClusterLimits
<1> QED  BY Zenon, <1>2, <1>3, <1>4, <1>5, <1>6 DEF LoopStep

\* A process starts with a session of its own.
LEMMA StartLimits ==
  ASSUME ClusterIInv, ClusterLimits, NEW n \in ClusterNodes, StartManager(n)
  PROVE  ClusterLimits'
<1>1. made \in Nat /\ made' = made + 1 /\ made < MaxSessions /\ MaxSessions \in Nat
  BY Zenon, ClusterBounds DEF StartManager, ClusterIInv, ClusterTypes
<1>2. made' <= MaxSessions /\ 1..made \subseteq 1..made'
  BY <1>1
<1>3. \A k \in Keys : LiveQueue(election[k], leases \cup {made + 1})
  BY Zenon DEF ClusterLimits, LiveQueue
<1> QED  BY Zenon, <1>2, <1>3 DEF StartManager, ClusterLimits

\* The other steps of a node.
LEMMA GoneLimits ==
  ASSUME ClusterIInv, ClusterLimits, NEW n \in ClusterNodes,
         \/ StopManager(n) \/ ProcessEnds(n) \/ NodeExpires(n)
         \/ \E t \in ClusterTasks : OtherCampaigns(n, t)
  PROVE  ClusterLimits'
<1>1. CASE ProcessEnds(n) \/ NodeExpires(n)
  BY Zenon, <1>1 DEF ProcessEnds, NodeExpires, ClusterLimits
<1>2. CASE StopManager(n)
  <2>1. Leaves(lease[n]) /\ leases' = leases
    BY Zenon, <1>2 DEF StopManager, Leaves
  <2>2. \A k \in Keys : LiveQueue(election'[k], leases')
    BY Zenon, <2>1, LeaveOnce DEF ClusterIInv
  <2> QED  BY Zenon, <1>2, <2>2 DEF StopManager, ClusterLimits
<1>3. ASSUME NEW t \in ClusterTasks, OtherCampaigns(n, t)
      PROVE  ClusterLimits'
  <2>1. \A k \in Keys : LiveQueue(election'[k], leases')
    BY Zenon, <1>3, JoinOnce DEF OtherCampaigns, ClusterIInv, Keys
  <2> QED  BY Zenon, <1>3, <2>1 DEF OtherCampaigns, ClusterLimits
<1> QED  BY Zenon, <1>1, <1>2, <1>3

\* A lease that expires takes its entries along.
LEMMA ExpireLimits ==
  ASSUME ClusterIInv, ClusterLimits, NEW l \in 1..MaxSessions, LeaseExpires(l)
  PROVE  ClusterLimits'
<1>1. \A k \in Keys : LiveQueue(election'[k], leases')
  BY Zenon, LeaveOnce DEF LeaseExpires, ClusterIInv
<1>2. expired \in 0..MaxExpired /\ MaxExpired \in Nat
  BY Zenon, ClusterBounds DEF ClusterLimits
<1>3. expired' = expired \/ (expired < MaxExpired /\ expired' = expired + 1)
  BY Zenon DEF LeaseExpires
<1>4. expired' \in 0..MaxExpired  BY <1>2, <1>3
<1>5. shaken' \in [ClusterNodes -> BOOLEAN]
  BY Zenon DEF LeaseExpires, IsLeader, ClusterLimits
<1> QED  BY Zenon, <1>1, <1>4, <1>5 DEF LeaseExpires, ClusterLimits

\* The types and bounds of the cluster managers hold in every state, for any number of nodes
\* and sessions and any tasks, as long as there is one: the candidates of an election are
\* nodes with a session that is alive, and no session stands twice in one election, so a lease
\* that is lost leaves nothing behind (etcd.go Campaign, AcquireLeadership, Initialize).
THEOREM ClusterTypesHold ==
  ASSUME ClusterTasks # {}
  PROVE  ClusterSpec => []ClusterTypeOK
<1>1. ClusterInit => ClusterLimits
  <2> SUFFICES ASSUME ClusterInit
               PROVE  ClusterLimits
    BY Zenon
  <2>1. made <= MaxSessions /\ expired \in 0..MaxExpired
    BY ClusterBounds DEF ClusterInit
  <2>2. 1..Len(<<>>) = {}  OBVIOUS
  <2>3. \A k \in Keys : LiveQueue(election[k], leases)
    BY Zenon, <2>2 DEF ClusterInit, LiveQueue
  <2>4. target \in [ClusterNodes -> ClusterTasks]
    BY Zenon DEF ClusterInit
  <2> QED  BY Zenon, <2>1, <2>3, <2>4 DEF ClusterInit, ClusterLimits
<1>2. ClusterIInv /\ ClusterLimits /\ [ClusterNext]_clusterVars => ClusterLimits'
  <2> SUFFICES ASSUME ClusterIInv, ClusterLimits, [ClusterNext]_clusterVars
               PROVE  ClusterLimits'
    BY Zenon
  <2>1. CASE UNCHANGED clusterVars
    BY Zenon, <2>1 DEF ClusterLimits, clusterVars
  <2> QED  BY Zenon, <2>1, LoopLimits, StartLimits, GoneLimits, ExpireLimits DEF ClusterNext
<1>3. ClusterIInv /\ ClusterLimits => ClusterTypeOK
  <2> SUFFICES ASSUME ClusterIInv, ClusterLimits
               PROVE  ClusterTypeOK
    BY Zenon
  <2>1. ASSUME NEW k \in Keys
        PROVE  /\ election[k] \in Seq([node : ClusterNodes, lease : leases])
               /\ DOMAIN election[k] = 1..Len(election[k])
    <3>1. election[k] \in Seq(Candidate) /\ DOMAIN election[k] = 1..Len(election[k])
      BY Zenon, PlaceIs DEF ClusterIInv
    <3>2. \A i \in 1..Len(election[k]) : election[k][i] \in Candidate /\ election[k][i].lease \in leases
      BY Zenon, <3>1, SeqElement DEF ClusterLimits, LiveQueue
    <3>3. \A i \in 1..Len(election[k]) : election[k][i] \in [node : ClusterNodes, lease : leases]
      BY <3>2 DEF Candidate
    <3> QED  BY Zenon, <3>1, <3>3, SeqOver
  <2>2. ASSUME NEW k \in Keys, NEW i \in DOMAIN election[k], NEW j \in DOMAIN election[k],
               election[k][i].lease = election[k][j].lease
        PROVE  i = j
    <3>1. i \in 1..Len(election[k]) /\ j \in 1..Len(election[k])
      BY Zenon, <2>1
    <3> QED  BY Zenon, <2>2, <3>1 DEF ClusterLimits, LiveQueue
  <2>3. /\ at \in [ClusterNodes -> LoopStates] /\ lease \in [ClusterNodes -> 0..made]
        /\ leases \subseteq 1..made /\ localTasks \in [ClusterNodes -> SUBSET ClusterTasks]
    BY Zenon DEF ClusterIInv, ClusterTypes
  <2>4. \A k \in Keys :
          /\ election[k] \in Seq([node : ClusterNodes, lease : leases])
          /\ \A i, j \in DOMAIN election[k] : election[k][i].lease = election[k][j].lease => i = j
    BY Zenon, <2>1, <2>2
  <2> QED  BY Zenon, <2>3, <2>4 DEF ClusterLimits, ClusterTypeOK
<1> QED  BY <1>1, <1>2, <1>3, ClusterInvHolds, PTL DEF ClusterSpec

-----------------------------------------------------------------------------

(***************************************************************************)
(* The events of the table manager (TableRequests).                        *)
(*                                                                         *)
(* ReaderAgrees speaks of a table none of whose events is on its way. The  *)
(* invariant follows the event that brings the present status: it is still *)
(* with its request and the only one there (ToSend), or it is the last one *)
(* of the table in the channel (Sent), or it was taken (Seen).             *)
(***************************************************************************)

EventRec == [op : Ops, table : Managed]

Statuses == {"none", "active", "paused"}

TableType ==
  /\ syncTables \in [Managed -> Statuses]
  /\ view \in [Managed -> Statuses]
  /\ unsent \in [Requests -> Seq(EventRec)]
  /\ eventCh \in Seq(EventRec)

\* No request has an event of the table to send.
NoneToSend(t) == \A q \in Requests : \A j \in DOMAIN unsent[q] : unsent[q][j].table # t

ToSend(t) ==
  \E r \in Requests : \E i \in DOMAIN unsent[r] :
    /\ unsent[r][i].table = t
    /\ Becomes(unsent[r][i].op) = syncTables[t]
    /\ \A q \in Requests : \A j \in DOMAIN unsent[q] : unsent[q][j].table = t => q = r /\ j = i

Sent(t) ==
  /\ NoneToSend(t)
  /\ \E i \in DOMAIN eventCh :
       /\ eventCh[i].table = t
       /\ Becomes(eventCh[i].op) = syncTables[t]
       /\ \A j \in DOMAIN eventCh : j > i => eventCh[j].table # t

Seen(t) ==
  /\ NoneToSend(t)
  /\ \A i \in DOMAIN eventCh : eventCh[i].table # t
  /\ view[t] = syncTables[t]

Followed(t) == t \in astray \/ ToSend(t) \/ Sent(t) \/ Seen(t)

\* The inductive invariant.
TableInv == TableType /\ \A t \in Managed : Followed(t)

\* An operation gives a status.
LEMMA BecomesStatus == \A op \in Ops : Becomes(op) \in Statuses
  BY Zenon DEF Ops, Becomes, Statuses

\* Append, Head and Tail of a sequence of events.
LEMMA EventSeq ==
  ASSUME NEW s \in Seq(EventRec)
  PROVE  /\ DOMAIN s = 1..Len(s) /\ Len(s) \in Nat
         /\ \A i \in DOMAIN s : s[i] \in EventRec
         /\ \A e \in EventRec : /\ Append(s, e) \in Seq(EventRec)
                                /\ DOMAIN Append(s, e) = 1..(Len(s) + 1)
                                /\ Append(s, e)[Len(s) + 1] = e
                                /\ \A i \in 1..Len(s) : Append(s, e)[i] = s[i]
         /\ s # <<>> => /\ Len(s) >= 1 /\ Head(s) = s[1] /\ Head(s) \in EventRec
                        /\ Tail(s) \in Seq(EventRec)
                        /\ DOMAIN Tail(s) = 1..(Len(s) - 1)
                        /\ \A i \in 1..(Len(s) - 1) : Tail(s)[i] = s[i + 1]
<1>1. DOMAIN s = 1..Len(s) /\ Len(s) \in Nat /\ \A i \in DOMAIN s : s[i] \in EventRec
  OBVIOUS
<1>2. ASSUME NEW e \in EventRec
      PROVE  /\ Append(s, e) \in Seq(EventRec)
             /\ DOMAIN Append(s, e) = 1..(Len(s) + 1)
             /\ Append(s, e)[Len(s) + 1] = e
             /\ \A i \in 1..Len(s) : Append(s, e)[i] = s[i]
  BY <1>2
<1>3. ASSUME s # <<>>
      PROVE  /\ Len(s) >= 1 /\ Head(s) = s[1] /\ Head(s) \in EventRec
             /\ Tail(s) \in Seq(EventRec)
             /\ DOMAIN Tail(s) = 1..(Len(s) - 1)
             /\ \A i \in 1..(Len(s) - 1) : Tail(s)[i] = s[i + 1]
  BY <1>3
<1> QED  BY Zenon, <1>1, <1>2, <1>3

\* The tables of a request are a sequence.
LEMMA DoneTables ==
  ASSUME NEW ts, ts \in {<<t>> : t \in Managed} \cup (Managed \X Managed), NEW n \in 0..Len(ts)
  PROVE  /\ ts \in Seq(Managed) /\ Len(ts) \in Nat
         /\ \A i \in 1..n : ts[i] \in Managed
<1>1. ts \in Seq(Managed) /\ Len(ts) \in Nat
  <2>1. CASE \E t \in Managed : ts = <<t>>
    BY <2>1
  <2>2. CASE ts \in Managed \X Managed
    <3>1. PICK a \in Managed, b \in Managed : ts = <<a, b>>
      BY <2>2
    <3> QED  BY <3>1
  <2> QED  BY Zenon, <2>1, <2>2
<1> QED  BY <1>1

\* A request follows its own events for the tables it changed, or leaves them
\* astray, and the other tables as they were.
LEMMA RequestInv ==
  ASSUME TableInv, NEW r \in Requests, NEW op \in Ops, NEW ts,
         ts \in {<<t>> : t \in Managed} \cup (Managed \X Managed),
         NEW n \in 0..Len(ts), Request(r, op, ts, n)
  PROVE  TableInv'
<1>1. /\ ts \in Seq(Managed) /\ Len(ts) \in Nat
      /\ \A i \in 1..n : ts[i] \in Managed
  BY Zenon, DoneTables
<1>2. PICK D : D = {ts[i] : i \in 1..n}
  BY Zenon
<1>3. PICK e : e = IF n = Len(ts) THEN EventsOf(op, ts) ELSE <<>>
  BY Zenon
<1>4. /\ unsent[r] = <<>> /\ unsent' = [unsent EXCEPT ![r] = e]
      /\ eventCh' = eventCh /\ view' = view
      /\ \A i \in 1..n : \A j \in 1..(i - 1) : ts[j] # ts[i]
      /\ syncTables' = [t \in Managed |-> IF t \in D THEN Becomes(op) ELSE syncTables[t]]
      /\ n < Len(ts) => astray' = astray \cup D
      /\ n = Len(ts) => astray' = (astray \ D) \cup {t \in D : Overlaps(r, t)}
  BY SMTT(30), <1>1, <1>2, <1>3 DEF Request
<1>5. /\ e \in Seq(EventRec)
      /\ n = Len(ts) => DOMAIN e = 1..n /\ \A i \in 1..n : e[i].op = op /\ e[i].table = ts[i]
      /\ n # Len(ts) => e = <<>>
  <2>1. CASE n = Len(ts)
    <3>1. DOMAIN ts = 1..n /\ n \in Nat /\ \A i \in 1..n : ts[i] \in Managed
      BY <1>1, <2>1
    <3>2. e = [i \in 1..n |-> [op |-> op, table |-> ts[i]]]
      BY Zenon, <1>3, <2>1, <3>1 DEF EventsOf
    <3>3. \A i \in 1..n : e[i] \in EventRec /\ e[i].op = op /\ e[i].table = ts[i]
      BY Zenon, <3>1, <3>2 DEF EventRec
    <3>4. e \in [1..n -> EventRec]
      BY Zenon, <3>2, <3>3
    <3>5. e \in Seq(EventRec)
      BY <3>1, <3>4
    <3> QED  BY Zenon, <2>1, <3>3, <3>4, <3>5
  <2>2. CASE n # Len(ts)
    BY <1>3, <2>2
  <2> QED  BY Zenon, <2>1, <2>2
<1>6. TableType'
  BY Zenon, <1>4, <1>5, BecomesStatus DEF TableInv, TableType
<1>7. unsent'[r] = e /\ \A q \in Requests \ {r} : unsent'[q] = unsent[q]
  BY Zenon, <1>4 DEF TableInv, TableType
<1>8. ASSUME NEW t \in Managed
      PROVE  Followed(t)'
  <2>1. CASE t \in D /\ n # Len(ts)
    BY <1>1, <1>4, <2>1 DEF Followed
  <2>2. CASE t \in D /\ n = Len(ts) /\ Overlaps(r, t)
    BY Zenon, <1>4, <2>2 DEF Followed
  <2>3. CASE t \in D /\ n = Len(ts) /\ ~Overlaps(r, t)
    <3>1. PICK i \in 1..n : ts[i] = t
      BY Zenon, <1>2, <2>3
    <3>2. /\ i \in DOMAIN unsent'[r] /\ unsent'[r][i].table = t
          /\ Becomes(unsent'[r][i].op) = syncTables'[t]
      BY <1>4, <1>5, <1>7, <2>3, <3>1
    <3>3. ASSUME NEW q \in Requests, NEW j \in DOMAIN unsent'[q], unsent'[q][j].table = t
          PROVE  q = r /\ j = i
      <4>1. q = r
        BY Zenon, <1>7, <2>3, <3>3 DEF Overlaps
      <4>2. j \in 1..n /\ ts[j] = t
        BY Zenon, <1>5, <1>7, <2>3, <3>3, <4>1
      <4>3. i \in Nat /\ j \in Nat /\ (i < j => i \in 1..(j - 1)) /\ (j < i => j \in 1..(i - 1))
        BY <4>2
      <4> QED  BY <1>4, <3>1, <4>1, <4>2, <4>3
    <3>4. ToSend(t)'
      BY <3>2, <3>3 DEF ToSend
    <3> QED  BY Zenon, <3>4 DEF Followed
  <2>4. CASE t \notin D
    <3>1. syncTables'[t] = syncTables[t] /\ (t \in astray => t \in astray')
      BY <1>1, <1>4, <2>4
    <3>2. \A j \in DOMAIN e : e[j].table # t
      BY <1>2, <1>5, <2>4
    <3>3. \A q \in Requests : \A j \in DOMAIN unsent[q] : q # r
      BY <1>4
    <3>4. ToSend(t) => ToSend(t)'
      BY <1>7, <3>1, <3>2, <3>3 DEF ToSend
    <3>5. NoneToSend(t) => NoneToSend(t)'
      BY <1>7, <3>2 DEF NoneToSend
    <3> QED  BY <1>4, <3>1, <3>4, <3>5 DEF TableInv, Followed, Sent, Seen
  <2> QED  BY Zenon, <2>1, <2>2, <2>3, <2>4
<1> QED  BY Zenon, <1>6, <1>8 DEF TableInv

\* The event a request sends becomes the last one of its table in the channel.
LEMMA SendInv ==
  ASSUME TableInv, NEW r \in Requests, SendTableEvent(r)
  PROVE  TableInv'
<1>1. PICK s : s = unsent[r]
  BY Zenon
<1>2. PICK h : h = Head(s)
  BY Zenon
<1>3. s \in Seq(EventRec) /\ s # <<>> /\ eventCh \in Seq(EventRec)
  BY Zenon, <1>1 DEF TableInv, TableType, SendTableEvent
<1>4. /\ DOMAIN s = 1..Len(s) /\ Len(s) \in Nat /\ Len(s) >= 1 /\ h = s[1] /\ h \in EventRec
      /\ Tail(s) \in Seq(EventRec) /\ DOMAIN Tail(s) = 1..(Len(s) - 1)
      /\ \A i \in 1..(Len(s) - 1) : Tail(s)[i] = s[i + 1]
  BY Zenon, <1>2, <1>3, EventSeq
<1>5. /\ DOMAIN eventCh = 1..Len(eventCh) /\ Len(eventCh) \in Nat
      /\ Append(eventCh, h) \in Seq(EventRec)
      /\ DOMAIN Append(eventCh, h) = 1..(Len(eventCh) + 1)
      /\ Append(eventCh, h)[Len(eventCh) + 1] = h
      /\ \A i \in 1..Len(eventCh) : Append(eventCh, h)[i] = eventCh[i]
  BY <1>3, <1>4, EventSeq
<1>6. /\ eventCh' = Append(eventCh, h) /\ unsent'[r] = Tail(s)
      /\ \A q \in Requests \ {r} : unsent'[q] = unsent[q]
      /\ syncTables' = syncTables /\ view' = view /\ astray' = astray
      /\ unsent' \in [Requests -> Seq(EventRec)]
  BY Zenon, <1>1, <1>2, <1>4 DEF SendTableEvent, TableInv, TableType
<1>a. \A i \in DOMAIN eventCh : i \in DOMAIN eventCh' /\ eventCh'[i] = eventCh[i]
  <2>1. eventCh' = Append(eventCh, h)  BY Zenon, <1>6
  <2> QED  BY <1>5, <2>1
<1>7. TableType'
  BY Zenon, <1>5, <1>6 DEF TableInv, TableType
<1>8. ASSUME NEW t \in Managed
      PROVE  Followed(t)'
  <2>1. ASSUME NoneToSend(t)
        PROVE  NoneToSend(t)' /\ h.table # t
    <3>1. \A j \in DOMAIN s : s[j].table # t
      BY Zenon, <1>1, <2>1 DEF NoneToSend
    <3>2. \A j \in DOMAIN Tail(s) : j + 1 \in DOMAIN s /\ Tail(s)[j] = s[j + 1]
      BY <1>4
    <3>3. \A j \in DOMAIN Tail(s) : Tail(s)[j].table # t
      BY Zenon, <3>1, <3>2
    <3>4. h.table # t
      BY <1>4, <3>1
    <3>5. NoneToSend(t)'
      BY Zenon, <1>6, <2>1, <3>3 DEF NoneToSend
    <3> QED  BY Zenon, <3>4, <3>5
  <2>2. CASE t \in astray
    BY Zenon, <1>6, <2>2 DEF Followed
  <2>3. CASE ToSend(t)
    <3>0. PICK q \in Requests : \E i \in DOMAIN unsent[q] :
            /\ unsent[q][i].table = t
            /\ Becomes(unsent[q][i].op) = syncTables[t]
            /\ \A p \in Requests : \A j \in DOMAIN unsent[p] : unsent[p][j].table = t => p = q /\ j = i
      BY Zenon, <2>3 DEF ToSend
    <3>1. PICK i \in DOMAIN unsent[q] :
            /\ unsent[q][i].table = t
            /\ Becomes(unsent[q][i].op) = syncTables[t]
            /\ \A p \in Requests : \A j \in DOMAIN unsent[p] : unsent[p][j].table = t => p = q /\ j = i
      BY Zenon, <3>0
    <3>2. CASE q # r
      <4>1. \A j \in DOMAIN s : s[j].table # t
        BY <1>1, <3>1, <3>2
      <4>2. \A j \in DOMAIN Tail(s) : j + 1 \in DOMAIN s /\ Tail(s)[j] = s[j + 1]
        BY <1>4
      <4>3. \A j \in DOMAIN Tail(s) : Tail(s)[j].table # t
        BY Zenon, <4>1, <4>2
      <4>4. unsent'[q] = unsent[q]
        BY Zenon, <1>6, <3>2
      <4>5. \A p \in Requests : \A j \in DOMAIN unsent'[p] : unsent'[p][j].table = t => p = q /\ j = i
        <5> SUFFICES ASSUME NEW p \in Requests, NEW j \in DOMAIN unsent'[p], unsent'[p][j].table = t
                     PROVE  p = q /\ j = i
          BY Zenon
        <5>1. p # r
          BY Zenon, <1>6, <4>3
        <5>2. unsent'[p] = unsent[p]
          BY Zenon, <1>6, <5>1
        <5> QED  BY Zenon, <3>1, <5>2
      <4>6. ToSend(t)'
        BY <1>6, <3>1, <4>4, <4>5 DEF ToSend
      <4> QED  BY Zenon, <4>6 DEF Followed
    <3>3. CASE q = r /\ i = 1
      <4>1. \A j \in DOMAIN s : s[j].table = t => j = 1
        BY Zenon, <1>1, <3>1, <3>3
      <4>2. \A j \in DOMAIN Tail(s) : j + 1 \in DOMAIN s /\ j + 1 # 1 /\ Tail(s)[j] = s[j + 1]
        BY <1>4
      <4>3. \A j \in DOMAIN Tail(s) : Tail(s)[j].table # t
        BY Zenon, <4>1, <4>2
      <4>4. NoneToSend(t)'
        BY Zenon, <1>6, <3>1, <3>3, <4>3 DEF NoneToSend
      <4>5. h.table = t /\ Becomes(h.op) = syncTables[t]
        BY Zenon, <1>1, <1>4, <3>1, <3>3
      <4>6. PICK k : k = Len(eventCh) + 1
        BY Zenon
      <4>7. /\ k \in DOMAIN eventCh' /\ eventCh'[k] = h
            /\ \A j \in DOMAIN eventCh' : ~(j > k)
        BY <1>5, <1>6, <4>6
      <4>8. Sent(t)'
        BY Zenon, <1>6, <4>4, <4>5, <4>7 DEF Sent
      <4> QED  BY Zenon, <4>8 DEF Followed
    <3>4. CASE q = r /\ i # 1
      <4>1. i \in DOMAIN s /\ s[i].table = t /\ Becomes(s[i].op) = syncTables[t]
            /\ \A j \in DOMAIN s : s[j].table = t => j = i
        BY Zenon, <1>1, <3>1, <3>4
      <4>2. i - 1 \in DOMAIN Tail(s) /\ Tail(s)[i - 1] = s[i]
        BY <1>4, <3>4, <4>1
      <4>3. \A j \in DOMAIN Tail(s) : j + 1 \in DOMAIN s /\ Tail(s)[j] = s[j + 1] /\ (j + 1 = i => j = i - 1)
        BY <1>4
      <4>4. \A j \in DOMAIN Tail(s) : Tail(s)[j].table = t => j = i - 1
        BY Zenon, <4>1, <4>3
      <4>5. \A p \in Requests : \A j \in DOMAIN unsent'[p] : unsent'[p][j].table = t => p = r /\ j = i - 1
        BY Zenon, <1>6, <3>1, <3>4, <4>4
      <4>6. ToSend(t)'
        BY <1>6, <4>1, <4>2, <4>5 DEF ToSend
      <4> QED  BY Zenon, <4>6 DEF Followed
    <3> QED  BY Zenon, <3>2, <3>3, <3>4
  <2>4. CASE Sent(t)
    <3>1. NoneToSend(t)' /\ h.table # t
      BY Zenon, <2>1, <2>4 DEF Sent
    <3>2. PICK i \in DOMAIN eventCh :
            /\ eventCh[i].table = t /\ Becomes(eventCh[i].op) = syncTables[t]
            /\ \A j \in DOMAIN eventCh : j > i => eventCh[j].table # t
      BY Zenon, <2>4 DEF Sent
    <3>3. \A j \in DOMAIN eventCh' : j > i => eventCh'[j].table # t
      BY <1>5, <1>6, <3>1, <3>2
    <3>4. i \in DOMAIN eventCh' /\ eventCh'[i] = eventCh[i]
      BY Zenon, <1>a, <3>2
    <3>5. Sent(t)'
      BY Zenon, <1>6, <3>1, <3>2, <3>3, <3>4 DEF Sent
    <3> QED  BY Zenon, <3>5 DEF Followed
  <2>5. CASE Seen(t)
    <3>1. NoneToSend(t)' /\ h.table # t
      BY Zenon, <2>1, <2>5 DEF Seen
    <3>2. Seen(t)'
      BY <1>5, <1>6, <2>5, <3>1 DEF Seen
    <3> QED  BY Zenon, <3>2 DEF Followed
  <2> QED  BY Zenon, <2>2, <2>3, <2>4, <2>5 DEF TableInv, Followed
<1> QED  BY Zenon, <1>7, <1>8 DEF TableInv

\* The tables whose events a cancelled request loses go astray.
LEMMA CancelInv ==
  ASSUME TableInv, NEW r \in Requests, CancelRequest(r)
  PROVE  TableInv'
<1>1. /\ unsent'[r] = <<>> /\ \A q \in Requests \ {r} : unsent'[q] = unsent[q]
      /\ unsent' \in [Requests -> Seq(EventRec)]
      /\ syncTables' = syncTables /\ view' = view /\ eventCh' = eventCh
      /\ astray' = astray \cup {unsent[r][i].table : i \in DOMAIN unsent[r]}
  BY DEF CancelRequest, TableInv, TableType
<1>2. TableType'
  BY Zenon, <1>1 DEF TableInv, TableType
<1>3. \A q \in Requests : \A j \in DOMAIN unsent'[q] : q # r /\ unsent'[q] = unsent[q]
  BY <1>1
<1>4. ASSUME NEW t \in Managed, t \notin astray'
      PROVE  Followed(t)'
  <2>1. t \notin astray /\ \A j \in DOMAIN unsent[r] : unsent[r][j].table # t
    BY Zenon, <1>1, <1>4
  <2>2. ASSUME ToSend(t)
        PROVE  ToSend(t)'
    <3>1. PICK q \in Requests : \E i \in DOMAIN unsent[q] :
            /\ unsent[q][i].table = t
            /\ Becomes(unsent[q][i].op) = syncTables[t]
            /\ \A p \in Requests : \A j \in DOMAIN unsent[p] : unsent[p][j].table = t => p = q /\ j = i
      BY Zenon, <2>2 DEF ToSend
    <3>2. unsent'[q] = unsent[q]
      BY Zenon, <1>1, <2>1, <3>1
    <3>3. \A p \in Requests : \A j \in DOMAIN unsent'[p] : j \in DOMAIN unsent[p] /\ unsent'[p][j] = unsent[p][j]
      BY <1>3
    <3>4. PICK i \in DOMAIN unsent[q] :
            /\ unsent[q][i].table = t
            /\ Becomes(unsent[q][i].op) = syncTables[t]
            /\ \A p \in Requests : \A j \in DOMAIN unsent[p] : unsent[p][j].table = t => p = q /\ j = i
      BY Zenon, <3>1
    <3>5. \A p \in Requests : \A j \in DOMAIN unsent'[p] : unsent'[p][j].table = t => p = q /\ j = i
      BY <3>3, <3>4
    <3> QED  BY <1>1, <3>2, <3>4, <3>5 DEF ToSend
  <2>3. NoneToSend(t) => NoneToSend(t)'
    BY Zenon, <1>3 DEF NoneToSend
  <2> QED  BY <1>1, <2>1, <2>2, <2>3 DEF TableInv, Followed, Sent, Seen
<1> QED  BY Zenon, <1>2, <1>4 DEF TableInv, Followed

\* UpdateTableStatus changes a table that goes astray.
LEMMA UpdateInv ==
  ASSUME TableInv, NEW t \in Managed, NEW s \in {"active", "paused"}, UpdateTableStatus(t, s)
  PROVE  TableInv'
<1>1. /\ syncTables' \in [Managed -> Statuses] /\ \A u \in Managed \ {t} : syncTables'[u] = syncTables[u]
      /\ unsent' = unsent /\ view' = view /\ eventCh' = eventCh /\ astray' = astray \cup {t}
  BY Zenon DEF UpdateTableStatus, TableInv, TableType, Statuses
<1>2. TableType'
  BY Zenon, <1>1 DEF TableInv, TableType
<1>3. ASSUME NEW u \in Managed, u # t
      PROVE  Followed(u)'
  BY <1>1, <1>3 DEF TableInv, Followed, ToSend, Sent, Seen, NoneToSend
<1>4. Followed(t)'
  BY Zenon, <1>1 DEF Followed
<1> QED  BY Zenon, <1>2, <1>3, <1>4 DEF TableInv

\* The reader takes the status the last event of the table brings.
LEMMA TakeInv ==
  ASSUME TableInv, TakeTableEvent
  PROVE  TableInv'
<1>1. PICK h : h = Head(eventCh)
  BY Zenon
<1>2. eventCh \in Seq(EventRec) /\ eventCh # <<>>
  BY Zenon DEF TableInv, TableType, TakeTableEvent
<1>3. /\ DOMAIN eventCh = 1..Len(eventCh) /\ Len(eventCh) \in Nat /\ Len(eventCh) >= 1
      /\ h = eventCh[1] /\ h \in EventRec
      /\ Tail(eventCh) \in Seq(EventRec) /\ DOMAIN Tail(eventCh) = 1..(Len(eventCh) - 1)
      /\ \A i \in 1..(Len(eventCh) - 1) : Tail(eventCh)[i] = eventCh[i + 1]
  BY Zenon, <1>1, <1>2, EventSeq
<1>4. h.table \in Managed /\ h.op \in Ops /\ Becomes(h.op) \in Statuses
  BY Zenon, <1>3, BecomesStatus DEF EventRec
<1>5. /\ eventCh' = Tail(eventCh) /\ syncTables' = syncTables /\ unsent' = unsent
      /\ astray' = astray /\ view' \in [Managed -> Statuses]
      /\ view'[h.table] = Becomes(h.op)
      /\ \A t \in Managed \ {h.table} : view'[t] = view[t]
  BY Zenon, <1>1, <1>4 DEF TakeTableEvent, TableInv, TableType
<1>6. TableType'
  BY Zenon, <1>3, <1>5 DEF TableInv, TableType
<1>7. \A j \in DOMAIN eventCh' : j \in Nat /\ j + 1 \in DOMAIN eventCh /\ eventCh'[j] = eventCh[j + 1]
  BY <1>3, <1>5
<1>8. ASSUME NEW t \in Managed
      PROVE  Followed(t)'
  <2>1. NoneToSend(t) => NoneToSend(t)'
    BY Zenon, <1>5 DEF NoneToSend
  <2>2. CASE t \in astray \/ ToSend(t)
    BY <1>5, <2>2 DEF Followed, ToSend
  <2>3. CASE Sent(t)
    <3>1. PICK i \in DOMAIN eventCh :
            /\ eventCh[i].table = t /\ Becomes(eventCh[i].op) = syncTables[t]
            /\ \A j \in DOMAIN eventCh : j > i => eventCh[j].table # t
      BY Zenon, <2>3 DEF Sent
    <3>2. CASE i = 1
      <4>1. \A j \in DOMAIN eventCh' : eventCh'[j].table # t
        <5>1. \A j \in DOMAIN eventCh' : j + 1 > 1
          BY <1>3, <1>5
        <5> QED  BY <1>7, <3>1, <3>2, <5>1
      <4>2. view'[t] = syncTables'[t]
        BY <1>3, <1>5, <3>1, <3>2
      <4> QED  BY Zenon, <2>1, <2>3, <4>1, <4>2 DEF Followed, Seen, Sent
    <3>3. CASE i # 1
      <4>1. i \in Nat /\ i - 1 \in DOMAIN eventCh' /\ eventCh'[i - 1] = eventCh[i]
        BY <1>3, <1>5, <3>3
      <4>2. \A j \in DOMAIN eventCh' : j > i - 1 => eventCh'[j].table # t
        <5>1. \A j \in DOMAIN eventCh' : j > i - 1 => j + 1 > i
          BY <1>7, <4>1
        <5> QED  BY Zenon, <1>7, <3>1, <5>1
      <4> QED  BY <1>5, <2>1, <2>3, <3>1, <4>1, <4>2 DEF Followed, Sent
    <3> QED  BY Zenon, <3>2, <3>3
  <2>4. CASE Seen(t)
    <3>1. h.table # t
      BY <1>3, <2>4 DEF Seen
    <3>2. \A j \in DOMAIN eventCh' : eventCh'[j].table # t
      BY Zenon, <1>7, <2>4 DEF Seen
    <3> QED  BY <1>5, <2>1, <2>4, <3>1, <3>2 DEF Followed, Seen
  <2> QED  BY Zenon, <2>2, <2>3, <2>4 DEF TableInv, Followed
<1> QED  BY Zenon, <1>6, <1>8 DEF TableInv

\* Every step keeps the invariant.
LEMMA TableStepInv == TableInv /\ [TableNext]_tableVars => TableInv'
<1> SUFFICES ASSUME TableInv, [TableNext]_tableVars
             PROVE  TableInv'
  BY Zenon
<1>1. ASSUME NEW r \in Requests, NEW op \in {"add", "remove"},
             NEW ts \in {<<t>> : t \in Managed} \cup (Managed \X Managed),
             NEW n \in 0..Len(ts), Request(r, op, ts, n)
      PROVE  TableInv'
  <2>1. op \in Ops
    BY Zenon DEF Ops
  <2> QED  BY Zenon, <1>1, <2>1, RequestInv
<1>2. ASSUME NEW r \in Requests, NEW op \in {"pause", "resume"}, NEW t \in Managed,
             Request(r, op, <<t>>, 1)
      PROVE  TableInv'
  <2>1. op \in Ops /\ <<t>> \in {<<u>> : u \in Managed} /\ 1 \in 0..Len(<<t>>)
    BY DEF Ops
  <2> QED  BY Zenon, <1>2, <2>1, RequestInv
<1>3. ASSUME NEW r \in Requests, SendTableEvent(r)
      PROVE  TableInv'
  BY <1>3, SendInv
<1>4. ASSUME NEW r \in Requests, CancelRequest(r)
      PROVE  TableInv'
  BY Zenon, <1>4, CancelInv
<1>5. ASSUME NEW t \in Managed, NEW s \in {"active", "paused"}, UpdateTableStatus(t, s)
      PROVE  TableInv'
  BY Zenon, <1>5, UpdateInv
<1>6. ASSUME TakeTableEvent
      PROVE  TableInv'
  BY Zenon, <1>6, TakeInv
<1>7. ASSUME UNCHANGED tableVars
      PROVE  TableInv'
  BY <1>7 DEF tableVars, TableInv, TableType, Followed, ToSend, Sent, Seen, NoneToSend
<1> QED  BY Zenon, <1>1, <1>2, <1>3, <1>4, <1>5, <1>6, <1>7 DEF TableNext

\* The table manager and its reader start with the same tables.
LEMMA TableInitInv == TableInit => TableInv
<1> SUFFICES ASSUME TableInit
             PROVE  TableInv
  BY Zenon
<1>1. TableType
  BY DEF TableInit, TableType, Statuses
<1>2. ASSUME NEW t \in Managed
      PROVE  Seen(t)
  BY DEF TableInit, Seen, NoneToSend
<1> QED  BY Zenon, <1>1, <1>2 DEF TableInv, Followed

\* For any tables, any number of concurrent requests and any channel: a table none
\* of whose events is on its way is as the reader of the events has it, or is one
\* of the exceptions (table_manager.go AddTables, RemoveTables, PauseTable,
\* ResumeTable).
THEOREM ReaderSafe == TableSpec => []ReaderAgrees
<1>1. TableInv => ReaderAgrees
  BY DEF TableInv, Followed, ToSend, Sent, Seen, ReaderAgrees
<1> QED  BY <1>1, TableInitInv, TableStepInv, PTL DEF TableSpec

\* What a request changes beside the tables and their events stays within its bounds.
TableBounds ==
  /\ Len(eventCh) <= EventCap
  /\ served \in 0..MaxRequests
  /\ astray \subseteq Managed

\* Every step keeps the bounds: an event is sent only when the channel has room.
LEMMA TableStepBounds ==
  ASSUME TableInv, TableBounds, [TableNext]_tableVars
  PROVE  TableBounds'
<1>1. /\ eventCh \in Seq(EventRec) /\ unsent \in [Requests -> Seq(EventRec)]
      /\ EventCap \in Nat /\ MaxRequests \in Nat
  BY Zenon, RequestBounds DEF TableInv, TableType
<1>2. served < MaxRequests => served + 1 \in 0..MaxRequests
  BY <1>1 DEF TableBounds
<1>3. ASSUME NEW r \in Requests, NEW op \in Ops, NEW ts,
             ts \in {<<t>> : t \in Managed} \cup (Managed \X Managed),
             NEW n \in 0..Len(ts), Request(r, op, ts, n)
      PROVE  TableBounds'
  <2>1. \A i \in 1..n : ts[i] \in Managed
    BY Zenon, <1>3, DoneTables
  <2>2. PICK D : D = {ts[i] : i \in 1..n}
    BY Zenon
  <2>3. D \subseteq Managed
    BY Zenon, <2>1, <2>2
  <2>4. /\ astray' = astray \cup D \/ astray' = (astray \ D) \cup {t \in D : Overlaps(r, t)}
        /\ served < MaxRequests /\ served' = served + 1 /\ eventCh' = eventCh
    BY Zenon, <1>3, <2>2 DEF Request
  <2>5. astray' \subseteq Managed
    BY Zenon, <2>3, <2>4 DEF TableBounds
  <2> QED  BY Zenon, <1>2, <2>4, <2>5 DEF TableBounds
<1>4. ASSUME NEW r \in Requests, NEW op \in {"pause", "resume"}, NEW t \in Managed,
             Request(r, op, <<t>>, 1)
      PROVE  TableBounds'
  <2>1. op \in Ops /\ <<t>> \in {<<u>> : u \in Managed} /\ 1 \in 0..Len(<<t>>)
    BY DEF Ops
  <2> QED  BY Zenon, <1>3, <1>4, <2>1
<1>5. ASSUME NEW r \in Requests, SendTableEvent(r)
      PROVE  TableBounds'
  <2>1. PICK e : e = Head(unsent[r]) /\ e \in EventRec
    <3>1. unsent[r] \in Seq(EventRec) /\ unsent[r] # <<>>
      BY Zenon, <1>1, <1>5 DEF SendTableEvent
    <3> QED  BY <3>1
  <2>2. /\ eventCh' = Append(eventCh, e) /\ Len(eventCh) < EventCap
        /\ served' = served /\ astray' = astray
    BY Zenon, <1>5, <2>1 DEF SendTableEvent
  <2>3. Len(eventCh') <= EventCap
    BY <1>1, <2>1, <2>2
  <2> QED  BY Zenon, <2>2, <2>3 DEF TableBounds
<1>6. ASSUME NEW r \in Requests, CancelRequest(r)
      PROVE  TableBounds'
  <2>1. unsent[r] \in Seq(EventRec)
    BY Zenon, <1>1
  <2>2. \A i \in DOMAIN unsent[r] : unsent[r][i].table \in Managed
    BY Zenon, <2>1, EventSeq DEF EventRec
  <2> QED  BY Zenon, <1>6, <2>2 DEF CancelRequest, TableBounds
<1>7. ASSUME NEW t \in Managed, NEW s \in {"active", "paused"}, UpdateTableStatus(t, s)
      PROVE  TableBounds'
  BY Zenon, <1>2, <1>7 DEF UpdateTableStatus, TableBounds
<1>8. CASE TakeTableEvent
  <2>1. eventCh # <<>> /\ eventCh' = Tail(eventCh) /\ served' = served /\ astray' = astray
    BY Zenon, <1>8 DEF TakeTableEvent
  <2>2. Len(eventCh') <= EventCap
    BY <1>1, <2>1 DEF TableBounds
  <2> QED  BY Zenon, <2>1, <2>2 DEF TableBounds
<1>9. CASE UNCHANGED tableVars
  BY Zenon, <1>9 DEF TableBounds, tableVars
<1>10. {"add", "remove"} \subseteq Ops
  BY Zenon DEF Ops
<1> QED  BY Zenon, <1>3, <1>4, <1>5, <1>6, <1>7, <1>8, <1>9, <1>10 DEF TableNext

\* The types and bounds of the table manager hold in every state, whatever the requests:
\* the channel of events keeps to its capacity (table_manager.go AddTables) and an event
\* on its way is one of an operation on a managed table.
THEOREM TableTypesHold == TableSpec => []TableTypeOK
<1>1. TableInit => TableBounds
  BY RequestBounds DEF TableInit, TableBounds
<1>2. TableInv /\ TableBounds => TableTypeOK
  BY Zenon DEF TableInv, TableType, TableBounds, TableTypeOK, EventRec, Statuses
<1>3. TableInv /\ TableBounds /\ [TableNext]_tableVars => TableBounds'
  BY Zenon, TableStepBounds
<1> QED  BY <1>1, <1>2, <1>3, TableInitInv, TableStepInv, PTL DEF TableSpec
=============================================================================
