--------------------------- MODULE RecoveryProofs ---------------------------
(***************************************************************************)
(* Proofs about what is found again after a crash: the records of the      *)
(* cache files, for any number of tables and files, and the definition of  *)
(* a table, for any log of schema changes.                                 *)
(***************************************************************************)
EXTENDS CacheFiles, DDLHandling, WellFoundedInduction, TLAPS

\* An element of a sequence.
LEMMA SeqElement ==
  ASSUME NEW S, NEW s \in Seq(S), NEW i \in 1..Len(s)
  PROVE  s[i] \in S
  OBVIOUS

\* A sequence is a function on an initial segment of the numbers.
LEMMA SeqIsFunction ==
  ASSUME NEW S
  PROVE  Seq(S) = UNION {[1..m -> S] : m \in Nat}
  OBVIOUS

\* A sequence with one element replaced.
LEMMA SeqExcept ==
  ASSUME NEW S, NEW s \in Seq(S), NEW k \in 1..Len(s), NEW x \in S
  PROVE  /\ [s EXCEPT ![k] = x] \in Seq(S) /\ Len([s EXCEPT ![k] = x]) = Len(s)
         /\ \A j \in 1..Len(s) : [s EXCEPT ![k] = x][j] = IF j = k THEN x ELSE s[j]
  OBVIOUS

\* Two sequences one behind the other.
LEMMA SeqConcat ==
  ASSUME NEW S, NEW a \in Seq(S), NEW b \in Seq(S)
  PROVE  /\ a \o b \in Seq(S) /\ Len(a \o b) = Len(a) + Len(b)
         /\ \A j \in 1..(Len(a) + Len(b)) :
              (a \o b)[j] = IF j <= Len(a) THEN a[j] ELSE b[j - Len(a)]
  OBVIOUS

\* A part of a sequence.
LEMMA SeqPart ==
  ASSUME NEW S, NEW s, NEW m \in Int, NEW n \in Int, \A i \in m..n : s[i] \in S
  PROVE  /\ SubSeq(s, m, n) \in Seq(S)
         /\ Len(SubSeq(s, m, n)) = IF m <= n THEN n - m + 1 ELSE 0
         /\ \A i \in 1..(n - m + 1) : SubSeq(s, m, n)[i] = s[m + i - 1]
  OBVIOUS

-----------------------------------------------------------------------------

(***************************************************************************)
(* The cache files (CacheFiles).                                           *)
(*                                                                         *)
(* CacheReadsBack needs to know which file a name and a handle are on: a   *)
(* handle is on the file of its table's name unless another table with     *)
(* that name removed it (NamesInv), and the events of a file are those its *)
(* tables wrote since their last Delete (EventsInv).                       *)
(***************************************************************************)

\* A record of a cache file.
FileRecord == [ev : Nat, whole : BOOLEAN]

\* Records before others stay readable, and both are in the file.
LEMMA AppendedRecords ==
  ASSUME NEW a \in Seq(FileRecord), NEW b \in Seq(FileRecord)
  PROVE  /\ a \o b \in Seq(FileRecord)
         /\ EventsIn(a \o b) = EventsIn(a) \cup EventsIn(b)
         /\ Readable(a) \subseteq Readable(a \o b)
         /\ Readable(a) \subseteq EventsIn(a)
<1>1. /\ a \o b \in Seq(FileRecord) /\ Len(a \o b) = Len(a) + Len(b)
      /\ \A i \in 1..(Len(a) + Len(b)) : (a \o b)[i] = IF i <= Len(a) THEN a[i] ELSE b[i - Len(a)]
  BY Zenon, SeqConcat
<1>2. /\ Len(a) \in Nat /\ Len(b) \in Nat /\ DOMAIN a = 1..Len(a) /\ DOMAIN b = 1..Len(b)
      /\ DOMAIN (a \o b) = 1..(Len(a) + Len(b))
  BY <1>1
<1> DEFINE c == a \o b
<1>3. \A i \in DOMAIN a : i \in DOMAIN c /\ c[i] = a[i] /\ \A k \in 1..i : k \in DOMAIN a /\ c[k] = a[k]
  BY <1>1, <1>2
<1>4. \A i \in DOMAIN b : \E j \in DOMAIN c : c[j] = b[i]
  <2> TAKE i \in DOMAIN b
  <2>1. PICK j \in Nat : j = Len(a) + i  BY <1>2
  <2>2. j \in DOMAIN c /\ ~(j <= Len(a)) /\ j - Len(a) = i  BY <1>2, <2>1
  <2>3. c[j] = b[i]  BY Zenon, <1>1, <1>2, <2>2
  <2> QED  BY Zenon, <2>2, <2>3
<1>5. \A j \in DOMAIN c : (\E i \in DOMAIN a : c[j] = a[i]) \/ (\E i \in DOMAIN b : c[j] = b[i])
  <2> TAKE j \in DOMAIN c
  <2>1. CASE j <= Len(a)
    <3>1. j \in DOMAIN a  BY <1>2, <2>1
    <3> QED  BY Zenon, <1>3, <3>1
  <2>2. CASE ~(j <= Len(a))
    <3>1. PICK i \in Nat : i = j - Len(a)  BY <1>2, <2>2
    <3>2. i \in DOMAIN b /\ c[j] = b[i]  BY <1>1, <1>2, <2>2, <3>1
    <3> QED  BY Zenon, <3>2
  <2> QED  BY Zenon, <2>1, <2>2
<1> HIDE DEF c
<1>6. EventsIn(c) = EventsIn(a) \cup EventsIn(b)
  BY <1>3, <1>4, <1>5 DEF EventsIn
<1>7. Readable(a) \subseteq Readable(c)
  <2> SUFFICES ASSUME NEW i \in DOMAIN a, \A k \in 1..i : a[k].whole
               PROVE  a[i].ev \in Readable(c)
    BY Zenon DEF Readable
  <2>1. i \in DOMAIN c /\ c[i] = a[i] /\ \A k \in 1..i : c[k].whole
    BY Zenon, <1>3
  <2> QED  BY Zenon, <2>1 DEF Readable
<1>8. Readable(a) \subseteq EventsIn(a)
  BY Zenon DEF Readable, EventsIn
<1> QED  BY Zenon, <1>1, <1>6, <1>7, <1>8 DEF c

\* Of a file without a record that was cut off, all is read.
LEMMA WholeIsRead ==
  ASSUME NEW s \in Seq(FileRecord), \A i \in DOMAIN s : s[i].whole
  PROVE  Readable(s) = EventsIn(s)
<1>1. DOMAIN s = 1..Len(s) /\ Len(s) \in Nat  OBVIOUS
<1>2. \A i \in DOMAIN s : \A k \in 1..i : s[k].whole
  <2> TAKE i \in DOMAIN s
  <2> TAKE k \in 1..i
  <2>1. k \in DOMAIN s  BY <1>1
  <2> QED  BY Zenon, <2>1
<1> QED  BY Zenon, <1>2 DEF Readable, EventsIn

\* What is left of a file that is cut, and what can be read of it.
LEMMA CutFile ==
  ASSUME NEW s \in Seq(FileRecord), NEW k \in 0..Len(s)
  PROVE  /\ SubSeq(s, 1, k) \in Seq(FileRecord)
         /\ EventsIn(SubSeq(s, 1, k)) \subseteq EventsIn(s)
         /\ Readable(s) \subseteq Readable(SubSeq(s, 1, k)) \cup EventsIn(SubSeq(s, k + 1, Len(s)))
<1>0. Len(s) \in Nat /\ DOMAIN s = 1..Len(s) /\ \A i \in 1..Len(s) : s[i] \in FileRecord
  BY SeqElement
<1> DEFINE a == SubSeq(s, 1, k)
           b == SubSeq(s, k + 1, Len(s))
<1>1. a \in Seq(FileRecord) /\ Len(a) = k /\ \A i \in 1..k : a[i] = s[i]
  <2>1. \A i \in 1..k : s[i] \in FileRecord  BY <1>0
  <2>2. /\ SubSeq(s, 1, k) \in Seq(FileRecord)
        /\ Len(SubSeq(s, 1, k)) = IF 1 <= k THEN k - 1 + 1 ELSE 0
        /\ \A i \in 1..(k - 1 + 1) : SubSeq(s, 1, k)[i] = s[1 + i - 1]
    <3>1. 1 \in Int /\ k \in Int  BY <1>0
    <3> QED  BY <2>1, <3>1, SeqPart
  <2> QED  BY <1>0, <2>2
<1>2. /\ b \in Seq(FileRecord)
      /\ Len(b) = IF k + 1 <= Len(s) THEN Len(s) - (k + 1) + 1 ELSE 0
      /\ \A i \in 1..(Len(s) - (k + 1) + 1) : b[i] = s[(k + 1) + i - 1]
  <2>1. \A i \in (k + 1)..Len(s) : s[i] \in FileRecord  BY <1>0
  <2>2. k + 1 \in Int /\ Len(s) \in Int  BY <1>0
  <2> QED  BY <2>1, <2>2, SeqPart
<1> HIDE DEF a, b
<1>6. Len(b) = Len(s) - k
  <2>1. PICK n \in Nat : n = Len(s)  BY Zenon, <1>0
  <2>2. k \in 0..n  BY Zenon, <2>1
  <2>3. Len(b) = IF k + 1 <= n THEN n - (k + 1) + 1 ELSE 0  BY Zenon, <1>2, <2>1
  <2>4. CASE k + 1 <= n  BY <2>1, <2>2, <2>3, <2>4
  <2>5. CASE ~(k + 1 <= n)  BY <2>1, <2>2, <2>3, <2>5
  <2> QED  BY Zenon, <2>4, <2>5
<1>7. ASSUME NEW i \in 1..(Len(s) - k)
      PROVE  b[i] = s[k + i]
  <2>1. i \in 1..(Len(s) - (k + 1) + 1) /\ (k + 1) + i - 1 = k + i  BY <1>0
  <2> QED  BY Zenon, <1>2, <2>1
<1>3. DOMAIN a = 1..k /\ DOMAIN b = 1..(Len(s) - k)
  BY <1>1, <1>2, <1>6
<1>4. EventsIn(a) \subseteq EventsIn(s)
  <2>1. \A i \in DOMAIN a : i \in DOMAIN s /\ a[i] = s[i]  BY <1>0, <1>1, <1>3
  <2> QED  BY Zenon, <2>1 DEF EventsIn
<1>5. Readable(s) \subseteq Readable(a) \cup EventsIn(b)
  <2> SUFFICES ASSUME NEW i \in DOMAIN s, \A j \in 1..i : s[j].whole
               PROVE  s[i].ev \in Readable(a) \cup EventsIn(b)
    BY Zenon DEF Readable
  <2>1. CASE i <= k
    <3>1. i \in DOMAIN a /\ a[i] = s[i] /\ \A j \in 1..i : a[j] = s[j]
      BY <1>0, <1>1, <1>3, <2>1
    <3>2. \A j \in 1..i : a[j].whole  BY Zenon, <3>1
    <3> QED  BY Zenon, <3>1, <3>2 DEF Readable
  <2>2. CASE ~(i <= k)
    <3>1. PICK j \in Nat : j = i - k  BY <1>0, <2>2
    <3>2. j \in DOMAIN b /\ k + j = i  BY <1>0, <1>3, <2>2, <3>1
    <3>3. b[j] = s[i]  BY Zenon, <1>3, <1>7, <3>2
    <3> QED  BY Zenon, <3>2, <3>3 DEF EventsIn
  <2> QED  BY Zenon, <2>1, <2>2
<1> QED  BY Zenon, <1>1, <1>4, <1>5 DEF a, b

-----------------------------------------------------------------------------

\* The tables with a file name.
Sharers(x) == {u \in CacheTables : fileOf[u] = x}

\* The types the proof needs.
CacheType ==
  /\ fileOf \in [CacheTables -> FileNames]
  /\ content \in Seq(Seq(FileRecord))
  /\ nameAt \in [FileNames -> 0..Len(content)]
  /\ handle \in [CacheTables -> 0..Len(content)]
  /\ cached \in Nat
  /\ ackedEvents \in [CacheTables -> SUBSET Nat]
  /\ current \in [CacheTables -> SUBSET (1..cached)]

\* A file has one name, a handle is not on the file of another name, and the handle of a
\* table that shares its name with none is on the file of its name.
NamesInv ==
  /\ \A x, y \in FileNames : nameAt[x] = nameAt[y] /\ nameAt[x] # 0 => x = y
  /\ \A t \in CacheTables, x \in FileNames : handle[t] # 0 /\ handle[t] = nameAt[x] => fileOf[t] = x
  /\ \A t \in CacheTables : handle[t] # 0 /\ nameAt[fileOf[t]] # handle[t] =>
       \E u \in CacheTables \ {t} : fileOf[u] = fileOf[t]

\* An event is of one table, and a file holds events its tables wrote since their Delete.
EventsInv ==
  /\ \A t \in CacheTables : ackedEvents[t] \subseteq current[t]
  /\ \A t, u \in CacheTables : t # u => current[t] \cap current[u] = {}
  /\ \A x \in FileNames : nameAt[x] # 0 =>
       EventsIn(content[nameAt[x]]) \subseteq UNION {current[u] : u \in Sharers(x)}

\* The acknowledged events are read back.
AckedInv == \A t \in CacheTables : ackedEvents[t] \ gone \subseteq ReadBack(t)

CacheIInv == CacheType /\ NamesInv /\ EventsInv /\ AckedInv

\* The invariant gives the property: what a file gives back was written to it
\* under its name.
LEMMA CacheSafeNow ==
  CacheIInv => CacheReadsBack
<1> SUFFICES ASSUME CacheIInv, NEW t \in CacheTables
             PROVE  ReadBack(t) \subseteq UNION {current[u] : u \in Sharers(fileOf[t])}
  BY Zenon DEF CacheReadsBack, CacheIInv, AckedInv, Sharers
<1>1. CASE nameAt[fileOf[t]] = 0
  BY Zenon, <1>1 DEF ReadBack
<1>2. CASE nameAt[fileOf[t]] # 0
  <2>1. ReadBack(t) = Readable(content[nameAt[fileOf[t]]])
    BY Zenon, <1>2 DEF ReadBack
  <2>2. Readable(content[nameAt[fileOf[t]]]) \subseteq EventsIn(content[nameAt[fileOf[t]]])
    BY Zenon DEF Readable, EventsIn
  <2>3. fileOf[t] \in FileNames
    BY Zenon DEF CacheIInv, CacheType
  <2>4. EventsIn(content[nameAt[fileOf[t]]]) \subseteq UNION {current[u] : u \in Sharers(fileOf[t])}
    BY Zenon, <1>2, <2>3 DEF CacheIInv, EventsInv
  <2> QED  BY Zenon, <2>1, <2>2, <2>4
<1> QED  BY Zenon, <1>1, <1>2

\* A file that was created.
LEMMA FileIs ==
  ASSUME CacheType
  PROVE  /\ Len(content) \in Nat /\ DOMAIN content = 1..Len(content)
         /\ \A f \in 1..Len(content) : content[f] \in Seq(FileRecord)
         /\ \A x \in FileNames : nameAt[x] \in Nat /\ (nameAt[x] # 0 => nameAt[x] \in 1..Len(content))
         /\ \A t \in CacheTables : fileOf[t] \in FileNames /\ handle[t] \in Nat
              /\ (handle[t] # 0 => handle[t] \in 1..Len(content))
<1>1. content \in Seq(Seq(FileRecord))  BY Zenon DEF CacheType
<1>2. Len(content) \in Nat /\ DOMAIN content = 1..Len(content)  BY <1>1
<1>3. \A f \in 1..Len(content) : content[f] \in Seq(FileRecord)  BY Zenon, <1>1, SeqElement
<1>4. /\ \A x \in FileNames : nameAt[x] \in 0..Len(content)
      /\ \A t \in CacheTables : handle[t] \in 0..Len(content) /\ fileOf[t] \in FileNames
  BY Zenon DEF CacheType
<1> QED  BY <1>2, <1>3, <1>4

\* The records a write adds.
NewRecords(n, cut) == [i \in 1..n |-> [ev |-> cached + i, whole |-> ~(cut /\ i = n)]]

\* The records a Put adds: the next events, whole unless the last one is cut.
LEMMA NewRecordsAre ==
  ASSUME cached \in Nat, NEW n \in 1..2, NEW cut \in BOOLEAN
  PROVE  /\ NewRecords(n, cut) \in Seq(FileRecord)
         /\ EventsIn(NewRecords(n, cut)) = (cached + 1)..(cached + n)
         /\ cut = FALSE => \A i \in DOMAIN NewRecords(n, cut) : NewRecords(n, cut)[i].whole
<1> DEFINE new == NewRecords(n, cut)
<1>1. DOMAIN new = 1..n /\ n \in Nat /\ \A i \in 1..n : new[i] = [ev |-> cached + i, whole |-> ~(cut /\ i = n)]
  BY DEF NewRecords
<1>2. \A i \in 1..n : new[i] \in FileRecord /\ new[i].ev = cached + i /\ (cut = FALSE => new[i].whole)
  <2> TAKE i \in 1..n
  <2>1. PICK e \in Nat : e = cached + i  OBVIOUS
  <2>2. PICK w \in BOOLEAN : w = ~(cut /\ i = n)  BY Zenon
  <2>3. new[i] = [ev |-> e, whole |-> w]  BY <1>1, <2>1, <2>2, Zenon
  <2>4. cut = FALSE => w = TRUE  BY <2>2, Zenon
  <2>5. new[i].whole = w  BY <2>3
  <2>6. cut = FALSE => new[i].whole  BY <2>4, <2>5, Zenon
  <2> QED  BY <2>1, <2>3, <2>6 DEF FileRecord
<1>3. new \in [1..n -> FileRecord]
  <2>1. new = [i \in 1..n |-> new[i]]  BY Zenon DEF NewRecords
  <2> QED  BY <1>2, <2>1, Zenon
<1>4. new \in Seq(FileRecord)
  <2> HIDE DEF new
  <2>1. [1..n -> FileRecord] \subseteq UNION {[1..m -> FileRecord] : m \in Nat}
    BY <1>1, Zenon
  <2> QED  BY <1>3, <2>1, SeqIsFunction, Zenon
<1>5. cut = FALSE => \A i \in DOMAIN new : new[i].whole
  BY <1>1, <1>2, Zenon
<1> HIDE DEF new
<1>6. EventsIn(new) = (cached + 1)..(cached + n)
  <2>1. EventsIn(new) \subseteq (cached + 1)..(cached + n)
    BY <1>1, <1>2 DEF EventsIn
  <2>2. ASSUME NEW e \in (cached + 1)..(cached + n)
        PROVE  e \in EventsIn(new)
    <3>1. PICK i \in 1..n : e = cached + i
      <4>1. e - cached \in 1..n /\ e = cached + (e - cached)  BY <1>1
      <4> QED  BY Zenon, <4>1
    <3> QED  BY Zenon, <1>1, <1>2, <3>1 DEF EventsIn
  <2> QED  BY Zenon, <2>1, <2>2
<1> QED  BY Zenon, <1>4, <1>5, <1>6 DEF new

\* What a write does to the files: the records `new' go behind the records `old' of the
\* file f, which is the file of the table's name, or one whose name was removed by a table
\* that shares it.
FilePut(t, f, old, new) ==
  /\ f \in Nat \ {0} /\ old \in Seq(FileRecord)
  /\ content' \in Seq(Seq(FileRecord))
  /\ Len(content') \in Nat /\ Len(content) <= Len(content') /\ f <= Len(content')
  /\ content'[f] = old \o new
  /\ \A i \in 1..Len(content) : i # f => content'[i] = content[i]
  /\ f \in 1..Len(content) => old = content[f]
  /\ f \notin 1..Len(content) => old = <<>>

\* What a Put does, whichever way it comes to its file: the records are added
\* behind the old ones.
LEMMA PutIs ==
  ASSUME CacheIInv, NEW t \in CacheTables, NEW n \in 1..2, NEW cut \in BOOLEAN, NEW sync,
         PutRecords(t, n, cut, sync)
  PROVE  \E f, old :
           /\ FilePut(t, f, old, NewRecords(n, cut))
           /\ f = FileFor(t)
           /\ gone \subseteq gone'
           /\ nameAt'[fileOf[t]] # f /\ (\E u \in CacheTables \ {t} : fileOf[u] = fileOf[t]) =>
                EventsIn(NewRecords(n, cut)) \subseteq gone'
           /\ (\E i \in DOMAIN old : ~old[i].whole) => EventsIn(NewRecords(n, cut)) \subseteq gone'
<1> DEFINE f == FileFor(t)
           old == IF f \in DOMAIN content THEN content[f] ELSE <<>>
           new == NewRecords(n, cut)
<1>0. CacheType  BY Zenon DEF CacheIInv
<1>1. /\ content' = [i \in DOMAIN content \cup {f} |-> IF i = f THEN old \o new ELSE content[i]]
      /\ gone' = IF \/ nameAt'[fileOf[t]] # f /\ \E u \in CacheTables \ {t} : fileOf[u] = fileOf[t]
                    \/ \E i \in DOMAIN old : ~old[i].whole
                 THEN gone \cup EventsIn(new) ELSE gone
  BY Zenon DEF PutRecords, NewRecords
<1>2. Len(content) \in Nat /\ DOMAIN content = 1..Len(content)
      /\ \A i \in 1..Len(content) : content[i] \in Seq(FileRecord)
  BY Zenon, <1>0, FileIs
<1>3. f \in Nat \ {0} /\ (f \in 1..Len(content) \/ f = Len(content) + 1)
  BY <1>0, FileIs DEF FileFor
<1>4. cached \in Nat /\ new \in Seq(FileRecord)
  <2>1. cached \in Nat  BY Zenon, <1>0 DEF CacheType
  <2> QED  BY Zenon, <2>1, NewRecordsAre
<1>5. old \in Seq(FileRecord)
  <2>1. CASE f \in DOMAIN content  BY Zenon, <1>2, <2>1
  <2>2. CASE f \notin DOMAIN content  BY <2>2
  <2> QED  BY Zenon, <2>1, <2>2
<1>6. old \o new \in Seq(FileRecord)
  BY Zenon, <1>4, <1>5, AppendedRecords
<1>7. (f \in 1..Len(content) => old = content[f]) /\ (f \notin 1..Len(content) => old = <<>>)
  BY Zenon, <1>2
<1> HIDE DEF f, old, new
<1>8. PICK m \in Nat : /\ DOMAIN content \cup {f} = 1..m /\ Len(content) <= m /\ f \in 1..m /\ m # 0
  <2>1. CASE f \in 1..Len(content)
    <3>1. DOMAIN content \cup {f} = 1..Len(content)  BY Zenon, <1>2, <2>1
    <3> QED  BY <1>2, <2>1, <3>1
  <2>2. CASE f = Len(content) + 1
    <3>1. DOMAIN content \cup {f} = 1..(Len(content) + 1)  BY <1>2, <2>2
    <3>2. Len(content) + 1 \in Nat /\ f \in 1..(Len(content) + 1)  BY <1>2, <2>2
    <3> QED  BY <1>2, <3>1, <3>2
  <2> QED  BY Zenon, <1>3, <2>1, <2>2
<1>9. content' = [i \in 1..m |-> IF i = f THEN old \o new ELSE content[i]]
  BY Zenon, <1>1, <1>8
<1>10. content' \in [1..m -> Seq(FileRecord)]
  <2>1. ASSUME NEW i \in 1..m
        PROVE  (IF i = f THEN old \o new ELSE content[i]) \in Seq(FileRecord)
    <3>1. i = f \/ i \in 1..Len(content)  BY Zenon, <1>2, <1>8
    <3> QED  BY Zenon, <1>2, <1>6, <3>1
  <2> QED  BY Zenon, <1>9, <2>1
<1>11. content' \in Seq(Seq(FileRecord))
  <2>1. [1..m -> Seq(FileRecord)] \subseteq UNION {[1..j -> Seq(FileRecord)] : j \in Nat}
    BY Zenon
  <2> QED  BY <1>10, <2>1, SeqIsFunction, Zenon
<1>12. Len(content') = m
  BY <1>8, <1>9, <1>11
<1>13. content'[f] = old \o new /\ \A i \in 1..Len(content) : i # f => content'[i] = content[i]
  BY Zenon, <1>2, <1>8, <1>9
<1>14. FilePut(t, f, old, new)
  BY <1>3, <1>5, <1>7, <1>8, <1>11, <1>12, <1>13 DEF FilePut
<1> QED  BY Zenon, <1>1, <1>14 DEF f, new

\* Where the names and the handles are after it.
LEMMA PutNames ==
  ASSUME CacheIInv, NEW t \in CacheTables, NEW n \in 1..2, NEW cut \in BOOLEAN, NEW sync,
         PutRecords(t, n, cut, sync), UNCHANGED fileOf,
         NEW f, NEW old, FilePut(t, f, old, NewRecords(n, cut)), f = FileFor(t)
  PROVE  /\ nameAt' \in [FileNames -> 0..Len(content')] /\ handle' \in [CacheTables -> 0..Len(content')]
         /\ NamesInv'
         /\ \A x \in FileNames \ {fileOf[t]} : nameAt'[x] = nameAt[x] /\ nameAt[x] # f
         /\ \/ nameAt'[fileOf[t]] = f /\ nameAt[fileOf[t]] = f
            \/ nameAt'[fileOf[t]] = f /\ nameAt[fileOf[t]] = 0
            \/ /\ nameAt'[fileOf[t]] = nameAt[fileOf[t]] /\ nameAt[fileOf[t]] # f
               /\ \E u \in CacheTables \ {t} : fileOf[u] = fileOf[t]
<1>0. CacheType /\ NamesInv  BY Zenon DEF CacheIInv
<1>1. /\ handle' = [handle EXCEPT ![t] = f]
      /\ nameAt' = IF handle[t] = 0 THEN [nameAt EXCEPT ![fileOf[t]] = f] ELSE nameAt
  BY Zenon DEF PutRecords
<1>2. /\ Len(content) \in Nat
      /\ \A x \in FileNames : nameAt[x] \in Nat /\ nameAt[x] <= Len(content)
      /\ \A u \in CacheTables : fileOf[u] \in FileNames /\ handle[u] \in Nat /\ handle[u] <= Len(content)
  BY <1>0, FileIs
<1>3. f \in Nat \ {0} /\ f <= Len(content') /\ Len(content) <= Len(content') /\ Len(content') \in Nat
  BY Zenon DEF FilePut
<1>4. \/ handle[t] # 0 /\ f = handle[t]
      \/ handle[t] = 0 /\ nameAt[fileOf[t]] # 0 /\ f = nameAt[fileOf[t]]
      \/ handle[t] = 0 /\ nameAt[fileOf[t]] = 0 /\ f = Len(content) + 1
  BY Zenon DEF FileFor
<1>5. nameAt' \in [FileNames -> 0..Len(content')] /\ handle' \in [CacheTables -> 0..Len(content')]
  BY <1>0, <1>1, <1>2, <1>3 DEF CacheType
<1>6. /\ handle'[t] = f /\ \A u \in CacheTables \ {t} : handle'[u] = handle[u]
      /\ \A x \in FileNames \ {fileOf[t]} : nameAt'[x] = nameAt[x]
      /\ handle[t] = 0 => nameAt'[fileOf[t]] = f
      /\ handle[t] # 0 => nameAt' = nameAt
  BY Zenon, <1>0, <1>1, <1>2 DEF CacheType
<1>7. \A x \in FileNames \ {fileOf[t]} : nameAt[x] # f
  BY <1>0, <1>2, <1>3, <1>4 DEF NamesInv
<1>8. \/ nameAt'[fileOf[t]] = f /\ nameAt[fileOf[t]] = f
      \/ nameAt'[fileOf[t]] = f /\ nameAt[fileOf[t]] = 0
      \/ /\ nameAt'[fileOf[t]] = nameAt[fileOf[t]] /\ nameAt[fileOf[t]] # f
         /\ \E u \in CacheTables \ {t} : fileOf[u] = fileOf[t]
  BY Zenon, <1>0, <1>4, <1>6 DEF NamesInv
<1>9. \A x, y \in FileNames : nameAt'[x] = nameAt'[y] /\ nameAt'[x] # 0 => x = y
  <2> SUFFICES ASSUME NEW x \in FileNames, NEW y \in FileNames, nameAt'[x] = nameAt'[y], nameAt'[x] # 0
               PROVE  x = y
    BY Zenon
  <2>1. CASE nameAt'[fileOf[t]] = f
    BY <1>0, <1>6, <1>7, <2>1 DEF NamesInv
  <2>2. CASE nameAt'[fileOf[t]] = nameAt[fileOf[t]]
    BY <1>0, <1>6, <2>2 DEF NamesInv
  <2> QED  BY Zenon, <1>8, <2>1, <2>2
<1>10. ASSUME NEW u \in CacheTables, NEW x \in FileNames, handle'[u] # 0, handle'[u] = nameAt'[x]
       PROVE  fileOf[u] = x
  <2>1. CASE u = t
    BY Zenon, <1>6, <1>7, <1>10, <2>1
  <2>2. CASE u # t /\ x # fileOf[t]
    BY <1>0, <1>6, <1>10, <2>2 DEF NamesInv
  <2>3. CASE u # t /\ x = fileOf[t]
    <3>1. handle[u] = handle'[u] /\ handle[u] # 0  BY Zenon, <1>6, <1>10, <2>3
    <3>2. CASE nameAt'[x] = nameAt[x]
      BY Zenon, <1>0, <1>10, <3>1, <3>2 DEF NamesInv
    <3>3. CASE nameAt'[x] = f /\ nameAt[x] = 0
      <4>1. handle[t] = 0 \/ (handle[t] # 0 /\ nameAt'[x] = nameAt[x])  BY Zenon, <1>6
      <4>2. handle[t] = 0 /\ f = Len(content) + 1  BY Zenon, <1>3, <1>4, <2>3, <3>3, <4>1
      <4>3. handle[u] = Len(content) + 1  BY Zenon, <1>10, <3>1, <3>3, <4>2
      <4> QED  BY <1>2, <4>3
    <3> QED  BY Zenon, <1>8, <2>3, <3>2, <3>3
  <2> QED  BY Zenon, <2>1, <2>2, <2>3
<1>11. ASSUME NEW u \in CacheTables, handle'[u] # 0, nameAt'[fileOf[u]] # handle'[u]
       PROVE  \E v \in CacheTables \ {u} : fileOf[v] = fileOf[u]
  <2>1. CASE u = t
    BY Zenon, <1>6, <1>8, <1>11, <2>1
  <2>2. CASE u # t /\ fileOf[u] = fileOf[t]
    BY Zenon, <2>2
  <2>3. CASE u # t /\ fileOf[u] # fileOf[t]
    BY Zenon, <1>0, <1>2, <1>6, <1>11, <2>3 DEF NamesInv
  <2> QED  BY Zenon, <2>1, <2>2, <2>3
<1>12. NamesInv'
  BY Zenon, <1>9, <1>10, <1>11 DEF NamesInv
<1> QED  BY Zenon, <1>5, <1>6, <1>7, <1>8, <1>12

\* Write and WriteBatch, with or without an error.
LEMMA PutEventsInv ==
  ASSUME CacheIInv, NEW t \in CacheTables, NEW n \in 1..2, NEW cut \in BOOLEAN, NEW sync,
         PutRecords(t, n, cut, sync), UNCHANGED fileOf,
         \/ ackedEvents' = ackedEvents
         \/ cut = FALSE /\ ackedEvents' = [ackedEvents EXCEPT
                             ![t] = ackedEvents[t] \cup (cached + 1)..(cached + n)]
  PROVE  CacheIInv'
<1> DEFINE new == NewRecords(n, cut)
           N == (cached + 1)..(cached + n)
<1>0. CacheType /\ NamesInv /\ EventsInv /\ AckedInv /\ cached \in Nat
  BY Zenon DEF CacheIInv, CacheType
<1>1. PICK f, old :
        /\ FilePut(t, f, old, new) /\ f = FileFor(t) /\ gone \subseteq gone'
        /\ nameAt'[fileOf[t]] # f /\ (\E u \in CacheTables \ {t} : fileOf[u] = fileOf[t]) =>
             EventsIn(new) \subseteq gone'
        /\ (\E i \in DOMAIN old : ~old[i].whole) => EventsIn(new) \subseteq gone'
  BY Zenon, PutIs
<1>2. /\ nameAt' \in [FileNames -> 0..Len(content')] /\ handle' \in [CacheTables -> 0..Len(content')]
      /\ NamesInv'
      /\ \A x \in FileNames \ {fileOf[t]} : nameAt'[x] = nameAt[x] /\ nameAt[x] # f
      /\ \/ nameAt'[fileOf[t]] = f /\ nameAt[fileOf[t]] = f
         \/ nameAt'[fileOf[t]] = f /\ nameAt[fileOf[t]] = 0
         \/ /\ nameAt'[fileOf[t]] = nameAt[fileOf[t]] /\ nameAt[fileOf[t]] # f
            /\ \E u \in CacheTables \ {t} : fileOf[u] = fileOf[t]
  BY <1>1, PutNames
<1>3. new \in Seq(FileRecord) /\ EventsIn(new) = N
      /\ (cut = FALSE => \A i \in DOMAIN new : new[i].whole)
  BY Zenon, <1>0, NewRecordsAre
<1>4. /\ f # 0 /\ old \in Seq(FileRecord) /\ content'[f] = old \o new
      /\ \A i \in 1..Len(content) : i # f => content'[i] = content[i]
      /\ (f \in 1..Len(content) => old = content[f]) /\ (f \notin 1..Len(content) => old = <<>>)
  BY Zenon, <1>1 DEF FilePut
<1>5. /\ cached' = cached + n /\ current' = [current EXCEPT ![t] = current[t] \cup EventsIn(new)]
  BY Zenon DEF PutRecords, NewRecords
<1>6. /\ Len(content) \in Nat
      /\ \A x \in FileNames : nameAt[x] # 0 => nameAt[x] \in 1..Len(content)
      /\ \A u \in CacheTables : fileOf[u] \in FileNames
  BY Zenon, <1>0, FileIs
<1>7. /\ EventsIn(old \o new) = EventsIn(old) \cup N
      /\ Readable(old) \subseteq Readable(old \o new)
      /\ old \o new \in Seq(FileRecord)
  BY Zenon, <1>3, <1>4, AppendedRecords
<1>8. (\A i \in DOMAIN old : old[i].whole) /\ cut = FALSE => N \subseteq Readable(old \o new)
  <2> SUFFICES ASSUME \A i \in DOMAIN old : old[i].whole, cut = FALSE
               PROVE  N \subseteq Readable(old \o new)
    BY Zenon
  <2>1. \A i \in DOMAIN (old \o new) : (old \o new)[i].whole
    <3>1. /\ Len(old \o new) = Len(old) + Len(new)
          /\ \A i \in 1..(Len(old) + Len(new)) :
               (old \o new)[i] = IF i <= Len(old) THEN old[i] ELSE new[i - Len(old)]
      BY <1>3, <1>4, SeqConcat
    <3>2. /\ Len(old) \in Nat /\ Len(new) \in Nat /\ DOMAIN old = 1..Len(old) /\ DOMAIN new = 1..Len(new)
          /\ DOMAIN (old \o new) = 1..(Len(old) + Len(new))
      BY <1>3, <1>4, <1>7, <3>1
    <3> TAKE i \in DOMAIN (old \o new)
    <3>3. CASE i <= Len(old)
      <4>1. i \in DOMAIN old /\ (old \o new)[i] = old[i]  BY <3>1, <3>2, <3>3
      <4> QED  BY Zenon, <4>1
    <3>4. CASE ~(i <= Len(old))
      <4>1. PICK j \in DOMAIN new : j = i - Len(old)  BY <3>2, <3>4
      <4>2. (old \o new)[i] = new[j]  BY Zenon, <3>1, <3>2, <3>4, <4>1
      <4>3. new[j].whole  BY Zenon, <1>3
      <4> QED  BY Zenon, <4>2, <4>3
    <3> QED  BY Zenon, <3>3, <3>4
  <2>2. Readable(old \o new) = EventsIn(old \o new)
    BY Zenon, <1>7, <2>1, WholeIsRead
  <2> QED  BY Zenon, <1>7, <2>2
<1> HIDE DEF new
<1>9. /\ \A u \in CacheTables : current[u] \subseteq current'[u]
      /\ current'[t] = current[t] \cup N /\ \A u \in CacheTables \ {t} : current'[u] = current[u]
  BY Zenon, <1>0, <1>3, <1>5 DEF CacheType
<1>10. /\ ackedEvents'[t] \subseteq ackedEvents[t] \cup N
       /\ cut = FALSE \/ ackedEvents'[t] = ackedEvents[t]
       /\ \A u \in CacheTables \ {t} : ackedEvents'[u] = ackedEvents[u]
  BY Zenon, <1>0 DEF CacheType
<1>11. N \subseteq Nat /\ (\A e \in N : e > cached) /\ N \subseteq 1..(cached + n)
  BY <1>0
<1> HIDE DEF N
<1>12. CacheType'
  <2>1. current' \in [CacheTables -> SUBSET (1..cached')]
    <3>1. DOMAIN current' = CacheTables /\ current' = [u \in CacheTables |-> current'[u]]
      BY Zenon, <1>0, <1>5 DEF CacheType
    <3>2. \A u \in CacheTables : current[u] \subseteq 1..cached  BY Zenon, <1>0 DEF CacheType
    <3>3. 1..cached \subseteq 1..(cached + n)  BY <1>0
    <3>4. \A u \in CacheTables : current'[u] \subseteq 1..cached'
      BY Zenon, <1>5, <1>9, <1>11, <3>2, <3>3
    <3> QED  BY Zenon, <3>1, <3>4
  <2>2. ackedEvents' \in [CacheTables -> SUBSET Nat]
    <3>1. ackedEvents' = [u \in CacheTables |-> ackedEvents'[u]]
      BY Zenon, <1>0 DEF CacheType
    <3>2. \A u \in CacheTables : ackedEvents'[u] \subseteq Nat
      BY Zenon, <1>0, <1>10, <1>11 DEF CacheType
    <3> QED  BY Zenon, <3>1, <3>2
  <2>3. cached' \in Nat  BY <1>0, <1>5
  <2>4. content' \in Seq(Seq(FileRecord))  BY Zenon, <1>1 DEF FilePut
  <2>5. fileOf' \in [CacheTables -> FileNames]  BY Zenon, <1>0 DEF CacheType
  <2> QED  BY Zenon, <1>2, <2>1, <2>2, <2>3, <2>4, <2>5 DEF CacheType
<1>13. EventsInv'
  <2>1. \A u \in CacheTables : ackedEvents'[u] \subseteq current'[u]
    BY Zenon, <1>0, <1>9, <1>10 DEF EventsInv
  <2>2. \A u \in CacheTables : current[u] \cap N = {}
    <3>1. \A u \in CacheTables : \A e \in current[u] : e \in 1..cached  BY Zenon, <1>0 DEF CacheType
    <3>2. \A e \in 1..cached : ~(e > cached)  BY <1>0
    <3> QED  BY Zenon, <1>11, <3>1, <3>2
  <2>3. \A u, v \in CacheTables : u # v => current'[u] \cap current'[v] = {}
    BY <1>0, <1>9, <2>2 DEF EventsInv
  <2>4. ASSUME NEW x \in FileNames, nameAt'[x] # 0
        PROVE  EventsIn(content'[nameAt'[x]]) \subseteq UNION {current'[u] : u \in Sharers(x)}
    <3>0. UNION {current[u] : u \in Sharers(x)} \subseteq UNION {current'[u] : u \in Sharers(x)}
      BY Zenon, <1>9 DEF Sharers
    <3>1. CASE nameAt'[x] = nameAt[x] /\ nameAt[x] # f
      <4>1. content'[nameAt'[x]] = content[nameAt[x]]
        BY Zenon, <1>4, <1>6, <2>4, <3>1
      <4>2. EventsIn(content[nameAt[x]]) \subseteq UNION {current[u] : u \in Sharers(x)}
        BY Zenon, <1>0, <2>4, <3>1 DEF EventsInv
      <4> QED  BY Zenon, <3>0, <4>1, <4>2
    <3>2. CASE x = fileOf[t] /\ nameAt'[x] = f
      <4>1. EventsIn(content'[nameAt'[x]]) = EventsIn(old) \cup N
        BY Zenon, <1>4, <1>7, <3>2
      <4>2. N \subseteq UNION {current'[u] : u \in Sharers(x)}
        BY Zenon, <1>9, <3>2 DEF Sharers
      <4>3. EventsIn(old) \subseteq UNION {current[u] : u \in Sharers(x)}
        <5>1. CASE nameAt[x] = f
          <6>1. old = content[nameAt[x]] /\ nameAt[x] # 0  BY Zenon, <1>4, <1>6, <5>1
          <6> QED  BY Zenon, <1>0, <6>1 DEF EventsInv
        <5>2. CASE nameAt[x] = 0
          <6>1. handle[t] = 0
            <7>1. nameAt' # nameAt  BY Zenon, <1>4, <3>2, <5>2
            <7> QED  BY Zenon, <7>1 DEF PutRecords
          <6>2. f = Len(content) + 1  BY Zenon, <1>1, <3>2, <5>2, <6>1 DEF FileFor
          <6>3. old = <<>>  BY <1>4, <1>6, <6>2
          <6>4. EventsIn(old) = {}
            <7>1. DOMAIN old = {}  BY <6>3
            <7> QED  BY Zenon, <7>1 DEF EventsIn
          <6> QED  BY Zenon, <6>4
        <5> QED  BY Zenon, <1>2, <3>2, <5>1, <5>2
      <4> QED  BY Zenon, <3>0, <4>1, <4>2, <4>3
    <3> QED  BY Zenon, <1>2, <3>1, <3>2
  <2>5. \A x : Sharers(x)' = Sharers(x)  BY Zenon DEF Sharers
  <2> QED  BY Zenon, <2>1, <2>3, <2>4, <2>5 DEF EventsInv
<1>14. AckedInv'
  <2> SUFFICES ASSUME NEW u \in CacheTables
               PROVE  ackedEvents'[u] \ gone' \subseteq ReadBack(u)'
    BY Zenon DEF AckedInv
  <2>0. ackedEvents[u] \ gone \subseteq ReadBack(u)  BY Zenon, <1>0 DEF AckedInv
  <2>9. fileOf[u] \in FileNames /\ fileOf[t] \in FileNames  BY Zenon, <1>6
  <2>1. CASE fileOf[u] # fileOf[t]
    <3>1. nameAt'[fileOf[u]] = nameAt[fileOf[u]] /\ nameAt[fileOf[u]] # f
      BY Zenon, <1>2, <2>1, <2>9
    <3>2. nameAt[fileOf[u]] # 0 => content'[nameAt[fileOf[u]]] = content[nameAt[fileOf[u]]]
      BY Zenon, <1>4, <1>6, <2>9, <3>1
    <3>3. ReadBack(u)' = ReadBack(u)  BY Zenon, <3>1, <3>2 DEF ReadBack
    <3>4. ackedEvents'[u] = ackedEvents[u]  BY Zenon, <1>10, <2>1
    <3> QED  BY Zenon, <1>1, <2>0, <3>3, <3>4
  <2>2. CASE fileOf[u] = fileOf[t] /\ nameAt'[fileOf[t]] = f
    <3>1. ReadBack(u)' = Readable(old \o new)
      BY Zenon, <1>4, <2>2 DEF ReadBack
    <3>2. ReadBack(u) \subseteq Readable(old \o new)
      <4>1. CASE nameAt[fileOf[t]] = 0
        BY Zenon, <2>2, <4>1 DEF ReadBack
      <4>2. CASE nameAt[fileOf[t]] = f
        <5>1. old = content[f]  BY Zenon, <1>4, <1>6, <2>9, <4>2
        <5>2. ReadBack(u) = Readable(old)  BY Zenon, <1>4, <2>2, <4>2, <5>1 DEF ReadBack
        <5> QED  BY Zenon, <1>7, <5>2
      <4> QED  BY Zenon, <1>2, <2>2, <4>1, <4>2
    <3>3. N \subseteq gone' \/ (cut = FALSE => N \subseteq Readable(old \o new))
      BY Zenon, <1>1, <1>3, <1>8
    <3>4. ackedEvents'[u] \subseteq ackedEvents[u] \/ (cut = FALSE /\ ackedEvents'[u] \subseteq ackedEvents[u] \cup N)
      BY Zenon, <1>10
    <3> QED  BY Zenon, <1>1, <2>0, <3>1, <3>2, <3>3, <3>4
  <2>3. CASE /\ fileOf[u] = fileOf[t] /\ nameAt'[fileOf[t]] = nameAt[fileOf[t]] /\ nameAt[fileOf[t]] # f
             /\ \E v \in CacheTables \ {t} : fileOf[v] = fileOf[t]
    <3>1. nameAt[fileOf[u]] # 0 => content'[nameAt[fileOf[u]]] = content[nameAt[fileOf[u]]]
      BY <1>4, <1>6, <2>3, <2>9
    <3>2. ReadBack(u)' = ReadBack(u)  BY Zenon, <2>3, <3>1 DEF ReadBack
    <3>3. N \subseteq gone'  BY Zenon, <1>1, <1>3, <2>3
    <3>4. ackedEvents'[u] \subseteq ackedEvents[u] \cup N  BY Zenon, <1>10
    <3> QED  BY Zenon, <1>1, <2>0, <3>2, <3>3, <3>4
  <2> QED  BY Zenon, <1>2, <2>1, <2>2, <2>3
<1> QED  BY Zenon, <1>2, <1>12, <1>13, <1>14 DEF CacheIInv

\* Delete removes the name: what another table loses is counted.
LEMMA DeleteCacheInv ==
  ASSUME CacheIInv, NEW t \in CacheTables, DeleteCache(t)
  PROVE  CacheIInv'
<1>0. CacheType /\ NamesInv /\ EventsInv /\ AckedInv
  BY Zenon DEF CacheIInv
<1>1. /\ handle' = [handle EXCEPT ![t] = 0] /\ nameAt' = [nameAt EXCEPT ![fileOf[t]] = 0]
      /\ ackedEvents' = [ackedEvents EXCEPT ![t] = {}] /\ current' = [current EXCEPT ![t] = {}]
      /\ gone' = IF nameAt[fileOf[t]] = 0 THEN gone
                 ELSE gone \cup (EventsIn(content[nameAt[fileOf[t]]]) \ current[t])
      /\ UNCHANGED <<fileOf, content, cached>>
  BY Zenon DEF DeleteCache
<1>2. \A u \in CacheTables : fileOf[u] \in FileNames
  BY Zenon, <1>0, FileIs
<1>3. /\ handle'[t] = 0 /\ \A u \in CacheTables \ {t} : handle'[u] = handle[u]
      /\ nameAt'[fileOf[t]] = 0 /\ \A x \in FileNames \ {fileOf[t]} : nameAt'[x] = nameAt[x]
      /\ ackedEvents'[t] = {} /\ \A u \in CacheTables \ {t} : ackedEvents'[u] = ackedEvents[u]
      /\ current'[t] = {} /\ \A u \in CacheTables \ {t} : current'[u] = current[u]
  <2>1. handle'[t] = 0 /\ \A u \in CacheTables \ {t} : handle'[u] = handle[u]
    BY Zenon, <1>0, <1>1 DEF CacheType
  <2>2. nameAt'[fileOf[t]] = 0 /\ \A x \in FileNames \ {fileOf[t]} : nameAt'[x] = nameAt[x]
    BY Zenon, <1>0, <1>1, <1>2 DEF CacheType
  <2>3. ackedEvents'[t] = {} /\ \A u \in CacheTables \ {t} : ackedEvents'[u] = ackedEvents[u]
    BY Zenon, <1>0, <1>1 DEF CacheType
  <2>4. current'[t] = {} /\ \A u \in CacheTables \ {t} : current'[u] = current[u]
    BY Zenon, <1>0, <1>1 DEF CacheType
  <2> QED  BY Zenon, <2>1, <2>2, <2>3, <2>4
<1>4. CacheType'
  <2>1. 0 \in 0..Len(content)  BY <1>0, FileIs
  <2>2. handle' \in [CacheTables -> 0..Len(content')] /\ nameAt' \in [FileNames -> 0..Len(content')]
    BY Zenon, <1>0, <1>1, <2>1 DEF CacheType
  <2>3. ackedEvents' \in [CacheTables -> SUBSET Nat] /\ current' \in [CacheTables -> SUBSET (1..cached')]
    BY Zenon, <1>0, <1>1 DEF CacheType
  <2> QED  BY Zenon, <1>0, <1>1, <2>2, <2>3 DEF CacheType
<1>5. NamesInv'
  <2>1. \A x, y \in FileNames : nameAt'[x] = nameAt'[y] /\ nameAt'[x] # 0 => x = y
    BY <1>0, <1>2, <1>3 DEF NamesInv
  <2>2. \A u \in CacheTables, x \in FileNames : handle'[u] # 0 /\ handle'[u] = nameAt'[x] => fileOf[u] = x
    BY <1>0, <1>2, <1>3 DEF NamesInv
  <2>3. ASSUME NEW u \in CacheTables, handle'[u] # 0, nameAt'[fileOf[u]] # handle'[u]
        PROVE  \E v \in CacheTables \ {u} : fileOf[v] = fileOf[u]
    <3>1. u # t /\ handle'[u] = handle[u]  BY Zenon, <1>3, <2>3
    <3>2. CASE fileOf[u] = fileOf[t]
      BY Zenon, <3>1, <3>2
    <3>3. CASE fileOf[u] # fileOf[t]
      BY <1>0, <1>2, <1>3, <2>3, <3>1, <3>3 DEF NamesInv
    <3> QED  BY Zenon, <3>2, <3>3
  <2> QED  BY Zenon, <1>1, <2>1, <2>2, <2>3 DEF NamesInv
<1>6. EventsInv'
  <2>1. \A u \in CacheTables : ackedEvents'[u] \subseteq current'[u]
    BY Zenon, <1>0, <1>3 DEF EventsInv
  <2>2. \A u, v \in CacheTables : u # v => current'[u] \cap current'[v] = {}
    BY <1>0, <1>3 DEF EventsInv
  <2>3. ASSUME NEW x \in FileNames, nameAt'[x] # 0
        PROVE  EventsIn(content[nameAt'[x]]) \subseteq UNION {current'[u] : u \in Sharers(x)}
    <3>1. x # fileOf[t] /\ nameAt'[x] = nameAt[x]  BY Zenon, <1>3, <2>3
    <3>2. \A u \in Sharers(x) : current'[u] = current[u]  BY Zenon, <1>3, <3>1 DEF Sharers
    <3>3. EventsIn(content[nameAt[x]]) \subseteq UNION {current[u] : u \in Sharers(x)}
      BY <1>0, <2>3, <3>1 DEF EventsInv
    <3> QED  BY Zenon, <3>1, <3>2, <3>3
  <2>4. \A x : Sharers(x)' = Sharers(x)  BY Zenon, <1>1 DEF Sharers
  <2> QED  BY Zenon, <1>1, <2>1, <2>2, <2>3, <2>4 DEF EventsInv
<1>7. AckedInv'
  <2> SUFFICES ASSUME NEW u \in CacheTables, u # t
               PROVE  ackedEvents[u] \ gone' \subseteq ReadBack(u)'
    BY Zenon, <1>3 DEF AckedInv
  <2>0. ackedEvents[u] \ gone \subseteq ReadBack(u) /\ gone \subseteq gone'
    BY Zenon, <1>0, <1>1 DEF AckedInv
  <2>1. CASE fileOf[u] # fileOf[t]
    <3>1. ReadBack(u)' = ReadBack(u)  BY <1>1, <1>2, <1>3, <2>1 DEF ReadBack
    <3> QED  BY Zenon, <2>0, <3>1
  <2>2. CASE fileOf[u] = fileOf[t] /\ nameAt[fileOf[t]] = 0
    <3>1. ReadBack(u) = {}  BY Zenon, <2>2 DEF ReadBack
    <3> QED  BY Zenon, <2>0, <3>1
  <2>3. CASE fileOf[u] = fileOf[t] /\ nameAt[fileOf[t]] # 0
    <3>1. ReadBack(u) \subseteq EventsIn(content[nameAt[fileOf[t]]])
      BY Zenon, <2>3 DEF ReadBack, Readable, EventsIn
    <3>2. ackedEvents[u] \cap current[t] = {}
      BY Zenon, <1>0 DEF EventsInv
    <3>3. gone' = gone \cup (EventsIn(content[nameAt[fileOf[t]]]) \ current[t])
      BY Zenon, <1>1, <2>3
    <3> QED  BY Zenon, <2>0, <3>1, <3>2, <3>3
  <2> QED  BY Zenon, <2>1, <2>2, <2>3
<1> QED  BY Zenon, <1>4, <1>5, <1>6, <1>7 DEF CacheIInv

\* A step that gives up handles and may cut files, and counts what is lost.
LEMMA CutFilesInv ==
  ASSUME CacheIInv, UNCHANGED <<fileOf, nameAt, cached, ackedEvents, current>>,
         content' \in Seq(Seq(FileRecord)), Len(content') = Len(content), gone \subseteq gone',
         handle' \in [CacheTables -> 0..Len(content)],
         \A t \in CacheTables : handle'[t] # 0 => handle'[t] = handle[t],
         \A f \in 1..Len(content) :
           /\ EventsIn(content'[f]) \subseteq EventsIn(content[f])
           /\ Readable(content[f]) \subseteq Readable(content'[f]) \cup gone'
  PROVE  CacheIInv'
<1>0. CacheType /\ NamesInv /\ EventsInv /\ AckedInv
  BY Zenon DEF CacheIInv
<1>1. CacheType'
  BY Zenon, <1>0 DEF CacheType
<1>2. NamesInv'
  BY Zenon, <1>0 DEF NamesInv
<1>3. /\ \A x \in FileNames : nameAt[x] # 0 => nameAt[x] \in 1..Len(content)
      /\ \A u \in CacheTables : fileOf[u] \in FileNames
  BY Zenon, <1>0, FileIs
<1>4. EventsInv'
  <2>1. ASSUME NEW x \in FileNames, nameAt[x] # 0
        PROVE  EventsIn(content'[nameAt[x]]) \subseteq UNION {current[u] : u \in Sharers(x)}
    <3>1. EventsIn(content'[nameAt[x]]) \subseteq EventsIn(content[nameAt[x]])
      BY Zenon, <1>3, <2>1
    <3>2. EventsIn(content[nameAt[x]]) \subseteq UNION {current[u] : u \in Sharers(x)}
      BY Zenon, <1>0, <2>1 DEF EventsInv
    <3> QED  BY Zenon, <3>1, <3>2
  <2>2. \A x : Sharers(x)' = Sharers(x)  BY Zenon DEF Sharers
  <2>3. /\ \A t \in CacheTables : ackedEvents'[t] \subseteq current'[t]
        /\ \A t, u \in CacheTables : t # u => current'[t] \cap current'[u] = {}
    BY Zenon, <1>0 DEF EventsInv
  <2>4. \A x \in FileNames : nameAt'[x] # 0 =>
          EventsIn(content'[nameAt'[x]]) \subseteq UNION {current'[u] : u \in Sharers(x)'}
    <3> SUFFICES ASSUME NEW x \in FileNames, nameAt[x] # 0, NEW e \in EventsIn(content'[nameAt[x]])
                 PROVE  \E u \in Sharers(x)' : e \in current'[u]
      BY Zenon
    <3>0. EventsIn(content'[nameAt[x]]) \subseteq UNION {current[v] : v \in Sharers(x)}
      BY <2>1, Zenon
    <3>1. PICK u \in Sharers(x) : e \in current[u]  BY Zenon, <3>0
    <3> QED  BY Zenon, <2>2, <3>1
  <2> QED  BY Zenon, <2>3, <2>4 DEF EventsInv
<1>5. AckedInv'
  <2> SUFFICES ASSUME NEW u \in CacheTables
               PROVE  ackedEvents[u] \ gone' \subseteq ReadBack(u)'
    BY Zenon DEF AckedInv
  <2>1. ackedEvents[u] \ gone \subseteq ReadBack(u)
    BY Zenon, <1>0 DEF AckedInv
  <2>2. ReadBack(u) \subseteq ReadBack(u)' \cup gone'
    <3>1. CASE nameAt[fileOf[u]] = 0
      BY Zenon, <3>1 DEF ReadBack
    <3>2. CASE nameAt[fileOf[u]] # 0
      <4>1. nameAt[fileOf[u]] \in 1..Len(content)  BY Zenon, <1>3, <3>2
      <4>2. /\ ReadBack(u) = Readable(content[nameAt[fileOf[u]]])
            /\ ReadBack(u)' = Readable(content'[nameAt[fileOf[u]]])
        BY Zenon, <3>2 DEF ReadBack
      <4> QED  BY Zenon, <4>1, <4>2
    <3> QED  BY Zenon, <3>1, <3>2
  <2> QED  BY Zenon, <2>1, <2>2
<1> QED  BY Zenon, <1>1, <1>2, <1>4, <1>5 DEF CacheIInv

\* TruncateToLastComplete never finds a record to keep: the checksums never agree.
LEMMA TruncateEmpties ==
  ASSUME CacheIInv, NEW t \in CacheTables, TruncateToLastComplete(t)
  PROVE  /\ UNCHANGED <<fileOf, nameAt, cached, ackedEvents, current, handle>>
         /\ content' \in Seq(Seq(FileRecord)) /\ Len(content') = Len(content) /\ gone \subseteq gone'
         /\ \A g \in 1..Len(content) :
              /\ EventsIn(content'[g]) \subseteq EventsIn(content[g])
              /\ Readable(content[g]) \subseteq Readable(content'[g]) \cup gone'
         /\ \E g \in 1..Len(content) :
              /\ \A i \in 1..Len(content) : i # g => content'[i] = content[i]
              /\ synced' = [synced EXCEPT ![g] = IF synced[g] < 0 THEN synced[g] ELSE 0]
              /\ gone' = gone \cup EventsIn(SubSeq(content[g], 0 + 1, Len(content[g])))
<1> DEFINE f == nameAt[fileOf[t]]
           valid == {i \in DOMAIN content[f] :
                       content[f][i].whole
                       /\ WriterChecksum(content[f][i].ev) = ScanChecksum(content[f][i].ev)}
           last == IF valid = {} THEN 0 ELSE CHOOSE i \in valid : \A j \in valid : j <= i
<1>0. CacheType  BY Zenon DEF CacheIInv
<1>1. /\ f # 0 /\ content' = [content EXCEPT ![f] = SubSeq(content[f], 1, last)]
      /\ handle' = IF last = 0 THEN handle ELSE [handle EXCEPT ![t] = 0]
      /\ gone' = gone \cup EventsIn(SubSeq(content[f], last + 1, Len(content[f])))
      /\ UNCHANGED <<fileOf, nameAt, cached, ackedEvents, current>>
  BY Zenon DEF TruncateToLastComplete
<1>2. \A e : WriterChecksum(e) # ScanChecksum(e)
  <2> TAKE e
  <2>1. WriterChecksum(e)[2] = PayloadFront(e) /\ ScanChecksum(e)[2] = WriterChecksum(e)
    BY Zenon DEF WriterChecksum, ScanChecksum
  <2>2. Len(PayloadFront(e)) = 2 /\ Len(WriterChecksum(e)) = 3
    BY Zenon DEF PayloadFront, WriterChecksum
  <2> QED  BY <2>1, <2>2
<1>3. last = 0
  BY Zenon, <1>2
<1> HIDE DEF last, f
<1>4. f \in 1..Len(content) /\ content[f] \in Seq(FileRecord)
  BY Zenon, <1>0, <1>1, FileIs DEF f
<1>5. /\ SubSeq(content[f], 1, 0) \in Seq(FileRecord)
      /\ EventsIn(SubSeq(content[f], 1, 0)) \subseteq EventsIn(content[f])
      /\ Readable(content[f]) \subseteq
           Readable(SubSeq(content[f], 1, 0)) \cup EventsIn(SubSeq(content[f], 0 + 1, Len(content[f])))
  <2>1. 0 \in 0..Len(content[f])  BY <1>4
  <2> QED  BY Zenon, <1>4, <2>1, CutFile
<1>6. PICK c \in Seq(FileRecord) : c = SubSeq(content[f], 1, 0)
  BY Zenon, <1>5
<1>7. content' = [content EXCEPT ![f] = c] /\ content \in Seq(Seq(FileRecord))
  BY Zenon, <1>0, <1>1, <1>3, <1>6 DEF CacheType
<1>8. /\ content' \in Seq(Seq(FileRecord)) /\ Len(content') = Len(content)
      /\ content'[f] = c /\ \A g \in 1..Len(content) : g # f => content'[g] = content[g]
  BY <1>4, <1>7, SeqExcept
<1>9. EventsIn(SubSeq(content[f], 0 + 1, Len(content[f]))) \subseteq gone' /\ gone \subseteq gone'
  BY Zenon, <1>1, <1>3
<1>10. \A g \in 1..Len(content) :
         /\ EventsIn(content'[g]) \subseteq EventsIn(content[g])
         /\ Readable(content[g]) \subseteq Readable(content'[g]) \cup gone'
  BY Zenon, <1>5, <1>6, <1>8, <1>9
<1>11. /\ handle' = handle
       /\ synced' = [synced EXCEPT ![f] = IF synced[f] < 0 THEN synced[f] ELSE 0]
       /\ gone' = gone \cup EventsIn(SubSeq(content[f], 0 + 1, Len(content[f])))
  <2>1. /\ synced' = [synced EXCEPT ![f] = IF synced[f] < last THEN synced[f] ELSE last]
        /\ gone' = gone \cup EventsIn(SubSeq(content[f], last + 1, Len(content[f])))
    BY Zenon DEF TruncateToLastComplete, f, last
  <2> QED  BY Zenon, <1>1, <1>3, <2>1
<1> QED  BY Zenon, <1>1, <1>4, <1>8, <1>9, <1>10, <1>11

\* So it keeps the invariant.
LEMMA TruncateInv ==
  ASSUME CacheIInv, NEW t \in CacheTables, TruncateToLastComplete(t)
  PROVE  CacheIInv'
<1>1. handle \in [CacheTables -> 0..Len(content)]
  BY Zenon DEF CacheIInv, CacheType
<1> QED  BY Zenon, <1>1, TruncateEmpties, CutFilesInv

\* A power failure leaves a part of each file, and counts the rest.
LEMMA PowerFailsLeaves ==
  ASSUME CacheIInv, PowerFails
  PROVE  /\ UNCHANGED <<fileOf, nameAt, cached, ackedEvents, current>>
         /\ handle' = [t \in CacheTables |-> 0]
         /\ content' \in Seq(Seq(FileRecord)) /\ Len(content') = Len(content) /\ gone \subseteq gone'
         /\ \A f \in 1..Len(content) :
              /\ EventsIn(content'[f]) \subseteq EventsIn(content[f])
              /\ Readable(content[f]) \subseteq Readable(content'[f]) \cup gone'
<1>0. CacheType  BY Zenon DEF CacheIInv
<1>1. /\ handle' = [t \in CacheTables |-> 0]
      /\ UNCHANGED <<fileOf, nameAt, cached, ackedEvents, current>>
  BY Zenon DEF PowerFails
<1>2. PICK keep \in [DOMAIN content -> 0..MaxCached], cut \in BOOLEAN :
        /\ \A f \in DOMAIN content : keep[f] \in synced[f]..Len(content[f])
        /\ content' = [f \in DOMAIN content |->
             IF cut /\ keep[f] < Len(content[f])
             THEN SubSeq(content[f], 1, keep[f]) \o <<[content[f][keep[f] + 1] EXCEPT !.whole = FALSE]>>
             ELSE SubSeq(content[f], 1, keep[f])]
        /\ gone' = gone \cup UNION {EventsIn(SubSeq(content[f], keep[f] + 1, Len(content[f]))) :
                                      f \in DOMAIN content}
  BY Zenon DEF PowerFails
<1>3. /\ Len(content) \in Nat /\ DOMAIN content = 1..Len(content)
      /\ \A f \in 1..Len(content) : content[f] \in Seq(FileRecord)
  BY Zenon, <1>0, FileIs
<1>4. ASSUME NEW f \in 1..Len(content)
      PROVE  /\ content'[f] \in Seq(FileRecord)
             /\ EventsIn(content'[f]) \subseteq EventsIn(content[f])
             /\ Readable(content[f]) \subseteq Readable(content'[f]) \cup gone'
  <2>1. PICK s \in Seq(FileRecord) : s = content[f]  BY Zenon, <1>3
  <2>2. PICK k \in 0..Len(s) : k = keep[f]
    <3>1. keep[f] \in 0..MaxCached /\ keep[f] <= Len(s) /\ Len(s) \in Nat
      <4>1. keep[f] \in 0..MaxCached  BY Zenon, <1>2, <1>3
      <4>2. keep[f] \in synced[f]..Len(s)  BY Zenon, <1>2, <1>3, <2>1
      <4>3. Len(s) \in Nat  OBVIOUS
      <4> QED  BY <4>1, <4>2, <4>3
    <3> QED  BY <3>1, CacheBounds
  <2>3. /\ SubSeq(s, 1, k) \in Seq(FileRecord)
        /\ EventsIn(SubSeq(s, 1, k)) \subseteq EventsIn(s)
        /\ Readable(s) \subseteq Readable(SubSeq(s, 1, k)) \cup EventsIn(SubSeq(s, k + 1, Len(s)))
    BY Zenon, CutFile
  <2>4. EventsIn(SubSeq(s, k + 1, Len(s))) \subseteq gone'
    BY Zenon, <1>2, <1>3, <2>1, <2>2
  <2>5. CASE ~(cut /\ k < Len(s))
    <3>1. content'[f] = SubSeq(s, 1, k)  BY Zenon, <1>2, <1>3, <2>1, <2>2, <2>5
    <3> QED  BY Zenon, <2>1, <2>3, <2>4, <3>1
  <2>6. CASE cut /\ k < Len(s)
    <3>1. content'[f] = SubSeq(s, 1, k) \o <<[s[k + 1] EXCEPT !.whole = FALSE]>>
      BY Zenon, <1>2, <1>3, <2>1, <2>2, <2>6
    <3>2. k + 1 \in 1..Len(s) /\ DOMAIN s = 1..Len(s) /\ s[k + 1] \in FileRecord
      BY <2>6
    <3>3. PICK r \in FileRecord : r = [s[k + 1] EXCEPT !.whole = FALSE] /\ r.ev = s[k + 1].ev
      <4>1. PICK q \in FileRecord : q = s[k + 1]  BY Zenon, <3>2
      <4>2. [q EXCEPT !.whole = FALSE] \in FileRecord /\ [q EXCEPT !.whole = FALSE].ev = q.ev
        BY Zenon DEF FileRecord
      <4> QED  BY Zenon, <4>1, <4>2
    <3>4. <<r>> \in Seq(FileRecord) /\ EventsIn(<<r>>) = {r.ev}
      <4>1. <<r>> \in Seq(FileRecord)  OBVIOUS
      <4>2. DOMAIN <<r>> = {1} /\ <<r>>[1] = r  OBVIOUS
      <4> QED  BY Zenon, <4>1, <4>2 DEF EventsIn
    <3>5. r.ev \in EventsIn(s)  BY Zenon, <3>2, <3>3 DEF EventsIn
    <3>6. /\ content'[f] \in Seq(FileRecord)
          /\ EventsIn(content'[f]) = EventsIn(SubSeq(s, 1, k)) \cup EventsIn(<<r>>)
          /\ Readable(SubSeq(s, 1, k)) \subseteq Readable(content'[f])
      BY Zenon, <2>3, <3>1, <3>3, <3>4, AppendedRecords
    <3> QED  BY Zenon, <2>1, <2>3, <2>4, <3>4, <3>5, <3>6
  <2> QED  BY Zenon, <2>5, <2>6
<1>5. DOMAIN content' = 1..Len(content) /\ content' = [f \in 1..Len(content) |-> content'[f]]
  BY Zenon, <1>2, <1>3
<1>6. content' \in [1..Len(content) -> Seq(FileRecord)]
  BY Zenon, <1>4, <1>5
<1>7. content' \in Seq(Seq(FileRecord))
  <2>1. [1..Len(content) -> Seq(FileRecord)] \subseteq UNION {[1..j -> Seq(FileRecord)] : j \in Nat}
    BY <1>3, Zenon
  <2> QED  BY <1>6, <2>1, SeqIsFunction, Zenon
<1>8. Len(content') = Len(content)
  BY <1>3, <1>5, <1>7
<1>9. gone \subseteq gone'  BY Zenon, <1>2
<1> QED  BY Zenon, <1>1, <1>4, <1>7, <1>8, <1>9

\* So it keeps the invariant.
LEMMA PowerFailsInv ==
  ASSUME CacheIInv, PowerFails
  PROVE  CacheIInv'
<1>1. Len(content) \in Nat
  BY Zenon, FileIs DEF CacheIInv
<1>2. 0 \in 0..Len(content)
  BY <1>1
<1>3. handle' \in [CacheTables -> 0..Len(content)] /\ \A t \in CacheTables : handle'[t] = 0
  BY Zenon, <1>2, PowerFailsLeaves
<1> QED  BY Zenon, <1>3, PowerFailsLeaves, CutFilesInv

\* The other steps touch the handles only.
LEMMA HandlesInv ==
  ASSUME CacheIInv, CloseFiles \/ \E t \in CacheTables : DeleteCacheFails(t) \/ SyncCache(t)
  PROVE  CacheIInv'
<1>0. CacheType  BY Zenon DEF CacheIInv
<1>1. UNCHANGED <<fileOf, nameAt, cached, ackedEvents, current, content, gone>>
  BY Zenon DEF CloseFiles, DeleteCacheFails, SyncCache, cacheGhosts
<1>2. /\ Len(content) \in Nat /\ content \in Seq(Seq(FileRecord))
      /\ handle \in [CacheTables -> 0..Len(content)]
  BY Zenon, <1>0, FileIs DEF CacheType
<1>3. /\ handle' \in [CacheTables -> 0..Len(content)]
      /\ \A t \in CacheTables : handle'[t] # 0 => handle'[t] = handle[t]
  <2>1. CASE CloseFiles
    BY <1>2, <2>1 DEF CloseFiles
  <2>2. ASSUME NEW t \in CacheTables, DeleteCacheFails(t)  PROVE <1>3!1 /\ <1>3!2
    BY <1>2, <2>2 DEF DeleteCacheFails
  <2>3. ASSUME NEW t \in CacheTables, SyncCache(t)  PROVE <1>3!1 /\ <1>3!2
    BY Zenon, <1>2, <2>3 DEF SyncCache
  <2> QED  BY Zenon, <2>1, <2>2, <2>3
<1> QED  BY Zenon, <1>1, <1>2, <1>3, CutFilesInv

\* With no file and no event the invariant holds.
LEMMA CacheInvInit ==
  CacheInit => CacheIInv
<1> SUFFICES ASSUME CacheInit PROVE CacheIInv
  BY Zenon
<1>1. content = <<>> /\ content \in Seq(Seq(FileRecord)) /\ Len(content) = 0
  BY DEF CacheInit
<1>2. CacheType
  BY <1>1 DEF CacheInit, CacheType
<1>3. NamesInv /\ EventsInv /\ AckedInv
  BY Zenon, <1>2 DEF CacheInit, CacheType, NamesInv, EventsInv, AckedInv
<1> QED  BY Zenon, <1>2, <1>3 DEF CacheIInv

\* Every operation of the cache and a power failure keep the invariant.
LEMMA CacheInvHolds ==
  CacheSpec => []CacheIInv
<1>1. CacheInit => CacheIInv
  BY Zenon, CacheInvInit
<1>2. CacheIInv /\ [CacheNext]_cacheVars => CacheIInv'
  <2> SUFFICES ASSUME CacheIInv, [CacheNext]_cacheVars PROVE CacheIInv'
    BY Zenon
  <2>1. CASE UNCHANGED cacheVars
    <3>1. UNCHANGED <<fileOf, nameAt, cached, ackedEvents, current, content, gone, handle>>
      BY Zenon, <2>1 DEF cacheVars, cacheGhosts
    <3>2. content \in Seq(Seq(FileRecord)) /\ handle \in [CacheTables -> 0..Len(content)]
      BY Zenon DEF CacheIInv, CacheType
    <3> QED  BY Zenon, <3>1, <3>2, CutFilesInv
  <2>2. ASSUME NEW t \in CacheTables, NEW n \in 1..2, WriteEvents(t, n)
        PROVE  CacheIInv'
    <3>1. /\ PutRecords(t, n, FALSE, IF n = 1 THEN syncMode = "every" ELSE syncMode # "none")
          /\ ackedEvents' = [ackedEvents EXCEPT ![t] = ackedEvents[t] \cup (cached + 1)..(cached + n)]
          /\ fileOf' = fileOf
      BY Zenon, <2>2 DEF WriteEvents
    <3> QED  BY Zenon, <3>1, PutEventsInv
  <2>3. ASSUME NEW t \in CacheTables, NEW n \in 1..2, NEW cut \in BOOLEAN, WriteError(t, n, cut)
        PROVE  CacheIInv'
    <3>1. PutRecords(t, n, cut, FALSE) /\ ackedEvents' = ackedEvents /\ fileOf' = fileOf
      BY Zenon, <2>3 DEF WriteError
    <3> QED  BY Zenon, <3>1, PutEventsInv
  <2> QED  BY Zenon, <2>1, <2>2, <2>3, DeleteCacheInv, TruncateInv, PowerFailsInv, HandlesInv DEF
              CacheNext
<1> QED  BY <1>1, <1>2, PTL DEF CacheSpec

\* What a reader of the cache gets: every event whose write was acknowledged, unless its
\* loss has one of the named causes, and nothing that was not written since the last Delete
\* to the table or to one that shares its file name (local_backend.go Write, Read, Delete,
\* getFile).
THEOREM ReadsBackSafe ==
  CacheSpec => []CacheReadsBack
BY CacheInvHolds, CacheSafeNow, PTL

\* What else the type invariant says: no more of a file is synced than it holds, and only
\* events that were given to the cache are in the files or counted as lost.
CacheLimits ==
  /\ Len(content) <= MaxFiles
  /\ DOMAIN synced = 1..Len(content)
  /\ \A f \in 1..Len(content) :
       synced[f] \in 0..Len(content[f]) /\ EventsIn(content[f]) \subseteq 1..cached
  /\ cached <= MaxCached /\ failures \in 0..MaxFailures
  /\ gone \subseteq 1..cached

\* The rest of a file holds events of the file.
LEMMA RestEvents ==
  ASSUME NEW s \in Seq(FileRecord), NEW k \in Nat
  PROVE  EventsIn(SubSeq(s, k + 1, Len(s))) \subseteq EventsIn(s)
<1>0. Len(s) \in Nat /\ DOMAIN s = 1..Len(s) /\ \A i \in 1..Len(s) : s[i] \in FileRecord
  BY SeqElement
<1> DEFINE b == SubSeq(s, k + 1, Len(s))
<1>1. /\ b \in Seq(FileRecord)
      /\ Len(b) = IF k + 1 <= Len(s) THEN Len(s) - (k + 1) + 1 ELSE 0
      /\ \A i \in 1..(Len(s) - (k + 1) + 1) : b[i] = s[(k + 1) + i - 1]
  <2>1. \A i \in (k + 1)..Len(s) : s[i] \in FileRecord  BY <1>0
  <2>2. k + 1 \in Int /\ Len(s) \in Int  BY <1>0
  <2> QED  BY <2>1, <2>2, SeqPart
<1> HIDE DEF b
<1>2. DOMAIN b = 1..Len(b)  BY <1>1
<1>3. ASSUME NEW i \in DOMAIN b
      PROVE  \E j \in DOMAIN s : b[i] = s[j]
  <2>1. PICK m \in Nat : m = Len(s)  BY Zenon, <1>0
  <2>2. PICK c : c = Len(b)  BY Zenon
  <2>3. c = (IF k + 1 <= m THEN m - (k + 1) + 1 ELSE 0) /\ i \in 1..c
    BY Zenon, <1>1, <1>2, <2>1, <2>2
  <2>4. i \in 1..(m - (k + 1) + 1) /\ (k + 1) + i - 1 \in 1..m
    BY <2>3
  <2>5. /\ i \in 1..(Len(s) - (k + 1) + 1) /\ (k + 1) + i - 1 \in DOMAIN s
    BY Zenon, <1>0, <2>1, <2>4
  <2> QED  BY Zenon, <1>1, <2>5
<1>4. EventsIn(b) \subseteq EventsIn(s)
  BY Zenon, <1>3 DEF EventsIn
<1> QED  BY Zenon, <1>4 DEF b

\* A write: the sync after it covers what the file holds then.
LEMMA PutLimits ==
  ASSUME CacheIInv, CacheIInv', CacheLimits, NEW t \in CacheTables, NEW n \in 1..2, NEW cut \in BOOLEAN,
         NEW sync \in BOOLEAN, PutRecords(t, n, cut, sync), failures' \in 0..MaxFailures
  PROVE  CacheLimits'
<1> DEFINE f == FileFor(t)
           old == IF f \in DOMAIN content THEN content[f] ELSE <<>>
           same == IF f \in DOMAIN content THEN synced[f] ELSE 0
           new == NewRecords(n, cut)
<1>1. /\ f <= MaxFiles /\ cached + n <= MaxCached /\ cached' = cached + n
      /\ content' = [i \in DOMAIN content \cup {f} |-> IF i = f THEN old \o new ELSE content[i]]
      /\ synced' = [i \in DOMAIN content \cup {f} |->
           IF i # f THEN synced[i] ELSE IF sync THEN Len(old) + n ELSE same]
      /\ gone' \subseteq gone \cup EventsIn(new)
  BY Zenon DEF PutRecords, NewRecords
<1>2. /\ Len(content) \in Nat /\ DOMAIN content = 1..Len(content)
      /\ \A i \in 1..Len(content) : content[i] \in Seq(FileRecord)
      /\ Len(content') \in Nat /\ DOMAIN content' = 1..Len(content')
      /\ \A i \in 1..Len(content') : content'[i] \in Seq(FileRecord)
      /\ cached \in Nat
  <2>1. CacheType /\ CacheType'  BY Zenon DEF CacheIInv
  <2>2. /\ Len(content') \in Nat /\ DOMAIN content' = 1..Len(content')
        /\ \A i \in 1..Len(content') : content'[i] \in Seq(FileRecord)
    <3>1. content' \in Seq(Seq(FileRecord))  BY Zenon, <2>1 DEF CacheType
    <3>2. Len(content') \in Nat /\ DOMAIN content' = 1..Len(content')  BY <3>1
    <3> QED  BY Zenon, <3>1, <3>2, SeqElement
  <2> QED  BY Zenon, <2>1, <2>2, FileIs DEF CacheType
<1>3. /\ old \in Seq(FileRecord) /\ Len(old) \in Nat /\ EventsIn(old) \subseteq 1..cached
      /\ same \in 0..Len(old)
  <2>1. CASE f \in DOMAIN content
    <3>1. old = content[f] /\ same = synced[f] /\ content[f] \in Seq(FileRecord) /\ f \in 1..Len(content)
      BY Zenon, <1>2, <2>1
    <3>2. Len(old) \in Nat  BY <3>1
    <3> QED  BY Zenon, <3>1, <3>2 DEF CacheLimits
  <2>2. CASE f \notin DOMAIN content
    <3>1. old = <<>> /\ same = 0  BY Zenon, <2>2
    <3>2. <<>> \in Seq(FileRecord) /\ Len(<<>>) \in Nat /\ 0 \in 0..Len(<<>>) /\ DOMAIN <<>> = {}
      OBVIOUS
    <3>3. EventsIn(<<>>) = {}  BY Zenon, <3>2 DEF EventsIn
    <3> QED  BY Zenon, <3>1, <3>2, <3>3
  <2> QED  BY Zenon, <2>1, <2>2
<1>4. /\ new \in Seq(FileRecord) /\ EventsIn(new) = (cached + 1)..(cached + n) /\ Len(new) = n
  <2>1. new \in Seq(FileRecord) /\ EventsIn(new) = (cached + 1)..(cached + n)
    BY Zenon, <1>2, NewRecordsAre
  <2>2. DOMAIN new = 1..n /\ n \in Nat
    BY DEF NewRecords
  <2> HIDE DEF new
  <2>3. Len(new) = n
    BY <2>1, <2>2
  <2> QED  BY Zenon, <2>1, <2>3
<1>5. PICK x \in Nat : x = f
  <2>1. f \in Nat  BY <1>2, FileIs DEF FileFor, CacheIInv
  <2> QED  BY Zenon, <2>1
<1> HIDE DEF f, old, same, new
<1>6. /\ EventsIn(old \o new) = EventsIn(old) \cup EventsIn(new) /\ Len(old \o new) = Len(old) + n
  BY Zenon, <1>3, <1>4, AppendedRecords, SeqConcat
<1>7. /\ 1..cached \subseteq 1..cached' /\ (cached + 1)..(cached + n) \subseteq 1..cached'
      /\ cached' <= MaxCached
  BY <1>1, <1>2
<1>8. EventsIn(old \o new) \subseteq 1..cached'
  BY Zenon, <1>3, <1>4, <1>6, <1>7
<1>9. /\ Len(old) + n \in 0..(Len(old) + n) /\ same \in 0..(Len(old) + n)
  BY <1>3
<1>10. DOMAIN content' = DOMAIN content \cup {f} /\ DOMAIN synced' = DOMAIN content'
  BY Zenon, <1>1
<1>11. ASSUME NEW g \in 1..Len(content')
       PROVE  synced'[g] \in 0..Len(content'[g]) /\ EventsIn(content'[g]) \subseteq 1..cached'
  <2>1. CASE g = f
    <3>1. content'[g] = old \o new /\ synced'[g] = IF sync THEN Len(old) + n ELSE same
      BY Zenon, <1>1, <1>2, <1>10, <2>1
    <3> QED  BY Zenon, <1>6, <1>8, <1>9, <3>1
  <2>2. CASE g # f
    <3>1. content'[g] = content[g] /\ synced'[g] = synced[g] /\ g \in 1..Len(content)
      BY Zenon, <1>1, <1>2, <1>10, <2>2
    <3> QED  BY Zenon, <1>7, <3>1 DEF CacheLimits
  <2> QED  BY Zenon, <2>1, <2>2
<1>12. Len(content') <= MaxFiles
  <2>1. PICK c \in Nat, d \in Nat : c = Len(content) /\ d = Len(content')
    BY Zenon, <1>2
  <2>2. 1..d = 1..c \cup {x} /\ x <= MaxFiles /\ c <= MaxFiles
    BY Zenon, <1>1, <1>2, <1>5, <1>10, <2>1 DEF CacheLimits
  <2>3. MaxFiles \in Nat  BY Zenon, CacheBounds
  <2>4. d = 0 \/ d \in 1..d
    BY <2>1
  <2>5. d = 0 \/ d \in 1..c \/ d = x
    BY Zenon, <2>2, <2>4
  <2>6. d <= MaxFiles
    BY <2>1, <2>2, <2>3, <2>5
  <2> QED  BY Zenon, <2>1, <2>6
<1>13. gone' \subseteq 1..cached'
  BY Zenon, <1>1, <1>4, <1>7 DEF CacheLimits
<1> QED  BY Zenon, <1>2, <1>7, <1>10, <1>11, <1>12, <1>13 DEF CacheLimits

\* One more failure is within the bound.
LEMMA OneMoreFailure ==
  ASSUME CacheLimits, failures < MaxFailures
  PROVE  failures + 1 \in 0..MaxFailures
<1>1. failures \in 0..MaxFailures /\ MaxFailures \in Nat
  BY Zenon, CacheBounds DEF CacheLimits
<1> QED  BY <1>1

\* Files that lose records: none is synced that is not there.
LEMMA CutLimits ==
  ASSUME CacheIInv, CacheLimits, PowerFails \/ \E t \in CacheTables : TruncateToLastComplete(t)
  PROVE  CacheLimits'
<1>0. /\ Len(content) \in Nat /\ DOMAIN content = 1..Len(content)
      /\ \A f \in 1..Len(content) : content[f] \in Seq(FileRecord)
  BY Zenon, FileIs DEF CacheIInv
<1>1. failures' \in 0..MaxFailures
  BY Zenon, OneMoreFailure DEF PowerFails, TruncateToLastComplete
<1>2. /\ UNCHANGED cached
      /\ content' \in Seq(Seq(FileRecord)) /\ Len(content') = Len(content)
      /\ \A f \in 1..Len(content) : EventsIn(content'[f]) \subseteq EventsIn(content[f])
  BY Zenon, PowerFailsLeaves, TruncateEmpties
<1>3. \A f \in 1..Len(content) : content'[f] \in Seq(FileRecord)
  BY Zenon, <1>2, SeqElement
<1>4. \A f \in 1..Len(content) : Len(content'[f]) \in Nat
  <2> TAKE f \in 1..Len(content)
  <2>1. content'[f] \in Seq(FileRecord)  BY Zenon, <1>3
  <2> QED  BY <2>1
<1>5. \A f \in 1..Len(content) : 0 \in 0..Len(content'[f]) /\ Len(content'[f]) \in 0..Len(content'[f])
  BY <1>4
<1>6. CASE PowerFails
  <2>1. /\ DOMAIN synced' = 1..Len(content) /\ \A f \in 1..Len(content) : synced'[f] = Len(content'[f])
    BY Zenon, <1>0, <1>6 DEF PowerFails
  <2>2. PICK keep \in [DOMAIN content -> 0..MaxCached] :
          gone' = gone \cup UNION {EventsIn(SubSeq(content[f], keep[f] + 1, Len(content[f]))) :
                                     f \in DOMAIN content}
    BY Zenon, <1>6 DEF PowerFails
  <2>3. ASSUME NEW f \in DOMAIN content
        PROVE  EventsIn(SubSeq(content[f], keep[f] + 1, Len(content[f]))) \subseteq 1..cached
    <3>1. keep[f] \in 0..MaxCached  BY Zenon, <2>2
    <3>2. keep[f] \in Nat  BY <3>1
    <3>3. EventsIn(SubSeq(content[f], keep[f] + 1, Len(content[f]))) \subseteq EventsIn(content[f])
      BY Zenon, <1>0, <3>2, RestEvents
    <3> QED  BY Zenon, <1>0, <3>3 DEF CacheLimits
  <2>4. gone' \subseteq 1..cached
    BY Zenon, <2>2, <2>3 DEF CacheLimits
  <2> QED  BY Zenon, <1>1, <1>2, <1>5, <2>1, <2>4 DEF CacheLimits
<1>7. ASSUME NEW t \in CacheTables, TruncateToLastComplete(t)
      PROVE  CacheLimits'
  <2>1. PICK g \in 1..Len(content) :
          /\ \A i \in 1..Len(content) : i # g => content'[i] = content[i]
          /\ synced' = [synced EXCEPT ![g] = IF synced[g] < 0 THEN synced[g] ELSE 0]
          /\ gone' = gone \cup EventsIn(SubSeq(content[g], 0 + 1, Len(content[g])))
    BY Zenon, <1>7, TruncateEmpties
  <2>2. ~(synced[g] < 0) /\ DOMAIN synced = 1..Len(content)
    <3>1. synced[g] \in 0..Len(content[g]) /\ DOMAIN synced = 1..Len(content)  BY Zenon DEF CacheLimits
    <3> QED  BY <3>1
  <2>3. /\ DOMAIN synced' = 1..Len(content)
        /\ \A i \in 1..Len(content) : synced'[i] = IF i = g THEN 0 ELSE synced[i]
    BY Zenon, <2>1, <2>2
  <2>4. \A i \in 1..Len(content) : synced'[i] \in 0..Len(content'[i])
    BY Zenon, <1>5, <2>1, <2>3 DEF CacheLimits
  <2>5. EventsIn(SubSeq(content[g], 0 + 1, Len(content[g]))) \subseteq EventsIn(content[g])
    <3>1. 0 \in Nat  OBVIOUS
    <3> QED  BY Zenon, <1>0, <3>1, RestEvents
  <2>6. gone' \subseteq 1..cached
    BY Zenon, <2>1, <2>5 DEF CacheLimits
  <2> QED  BY Zenon, <1>1, <1>2, <2>3, <2>4, <2>6 DEF CacheLimits
<1> QED  BY Zenon, <1>6, <1>7

\* The steps that leave the records alone.
LEMMA HandleLimits ==
  ASSUME CacheIInv, CacheLimits,
         \/ CloseFiles \/ UNCHANGED cacheVars
         \/ \E t \in CacheTables : DeleteCache(t) \/ DeleteCacheFails(t) \/ SyncCache(t)
  PROVE  CacheLimits'
<1>1. CASE CloseFiles \/ UNCHANGED cacheVars \/ \E t \in CacheTables : DeleteCacheFails(t)
  <2>1. /\ UNCHANGED <<content, synced, cached, gone>> /\ failures' \in 0..MaxFailures
    BY Zenon, <1>1, OneMoreFailure
       DEF CloseFiles, DeleteCacheFails, cacheVars, cacheGhosts, CacheLimits
  <2> QED  BY Zenon, <2>1 DEF CacheLimits
<1>2. ASSUME NEW t \in CacheTables, DeleteCache(t)
      PROVE  CacheLimits'
  <2>1. UNCHANGED <<content, synced, cached, failures>>
    BY Zenon, <1>2 DEF DeleteCache
  <2>2. nameAt[fileOf[t]] # 0 => nameAt[fileOf[t]] \in 1..Len(content)
    BY Zenon, FileIs DEF CacheIInv
  <2>3. gone' \subseteq 1..cached
    BY Zenon, <1>2, <2>2 DEF DeleteCache, CacheLimits
  <2> QED  BY Zenon, <2>1, <2>3 DEF CacheLimits
<1>3. ASSUME NEW t \in CacheTables, SyncCache(t)
      PROVE  CacheLimits'
  <2>1. /\ UNCHANGED <<content, cached, gone, failures>>
        /\ synced' = [synced EXCEPT ![handle[t]] = Len(content[handle[t]])]
        /\ handle[t] \in 1..Len(content) /\ DOMAIN synced = 1..Len(content)
    BY Zenon, <1>3, FileIs DEF SyncCache, cacheGhosts, CacheIInv, CacheLimits
  <2>2. Len(content[handle[t]]) \in 0..Len(content[handle[t]])
    <3>1. content[handle[t]] \in Seq(FileRecord)  BY Zenon, <2>1, FileIs DEF CacheIInv
    <3> QED  BY <3>1
  <2>3. /\ DOMAIN synced' = 1..Len(content)
        /\ \A f \in 1..Len(content) : synced'[f] \in 0..Len(content[f])
    BY Zenon, <2>1, <2>2 DEF CacheLimits
  <2> QED  BY Zenon, <2>1, <2>3 DEF CacheLimits
<1> QED  BY Zenon, <1>1, <1>2, <1>3

\* Every step keeps the bounds.
LEMMA CacheKeepsLimits ==
  ASSUME CacheIInv, CacheIInv', CacheLimits, [CacheNext]_cacheVars
  PROVE  CacheLimits'
<1>1. ASSUME NEW t \in CacheTables, NEW n \in 1..2, WriteEvents(t, n)
      PROVE  CacheLimits'
  <2>1. PICK sync \in BOOLEAN : PutRecords(t, n, FALSE, sync) /\ failures' = failures
    BY Zenon, <1>1 DEF WriteEvents
  <2>2. FALSE \in BOOLEAN /\ failures' \in 0..MaxFailures
    BY Zenon, <2>1 DEF CacheLimits
  <2> QED  BY Zenon, <2>1, <2>2, PutLimits
<1>2. ASSUME NEW t \in CacheTables, NEW n \in 1..2, NEW cut \in BOOLEAN, WriteError(t, n, cut)
      PROVE  CacheLimits'
  <2>1. PutRecords(t, n, cut, FALSE) /\ failures' = failures + 1 /\ failures < MaxFailures
    BY Zenon, <1>2 DEF WriteError
  <2>2. FALSE \in BOOLEAN /\ failures' \in 0..MaxFailures
    BY Zenon, <2>1, OneMoreFailure
  <2> QED  BY Zenon, <2>1, <2>2, PutLimits
<1> QED  BY Zenon, <1>1, <1>2, CutLimits, HandleLimits DEF CacheNext

\* A sequence is one over the set its elements are in.
LEMMA SeqOver ==
  ASSUME NEW S, NEW T, NEW s \in Seq(S), \A i \in 1..Len(s) : s[i] \in T
  PROVE  s \in Seq(T)
  OBVIOUS

\* The types and bounds of the cache files hold in every state, for any number of tables,
\* files and events: a name and a handle are on a file that was created, no more of a file is
\* synced than it holds, also after it was truncated or cut by a power failure, and only
\* events that were given to the cache are in a file (local_backend.go getFile, Sync,
\* TruncateToLastComplete).
THEOREM CacheTypesHold == CacheSpec => []CacheTypeOK
<1>1. CacheInit => CacheLimits
  <2> SUFFICES ASSUME CacheInit
               PROVE  CacheLimits
    BY Zenon
  <2>1. Len(<<>>) <= MaxFiles /\ 1..Len(<<>>) = {} /\ DOMAIN <<>> = {}
    BY CacheBounds
  <2>2. cached <= MaxCached /\ failures \in 0..MaxFailures
    BY CacheBounds DEF CacheInit
  <2> QED  BY Zenon, <2>1, <2>2 DEF CacheInit, CacheLimits
<1>2. CacheIInv /\ CacheIInv' /\ CacheLimits /\ [CacheNext]_cacheVars => CacheLimits'
  BY Zenon, CacheKeepsLimits
<1>3. CacheIInv /\ CacheLimits => CacheTypeOK
  <2> SUFFICES ASSUME CacheIInv, CacheLimits
               PROVE  CacheTypeOK
    BY Zenon
  <2>1. /\ Len(content) \in Nat /\ DOMAIN content = 1..Len(content) /\ cached \in Nat
        /\ \A f \in 1..Len(content) : content[f] \in Seq(FileRecord)
    BY Zenon, FileIs DEF CacheIInv, CacheType
  <2>2. /\ 1..Len(content) \subseteq 1..MaxFiles /\ 1..cached \subseteq 1..MaxCached
        /\ cached \in 0..MaxCached /\ 0..Len(content) \subseteq {0} \cup 1..Len(content)
    BY <2>1, CacheBounds DEF CacheLimits
  <2>3. ASSUME NEW f \in 1..Len(content)
        PROVE  content[f] \in Seq(CacheRecords)
    <3>1. PICK s \in Seq(FileRecord) : s = content[f]  BY Zenon, <2>1
    <3>2. DOMAIN s = 1..Len(s)  OBVIOUS
    <3>3. EventsIn(s) \subseteq 1..MaxCached
      BY Zenon, <2>2, <3>1 DEF CacheLimits
    <3>4. \A i \in 1..Len(s) : s[i] \in FileRecord /\ s[i].ev \in 1..MaxCached
      BY Zenon, <3>2, <3>3, SeqElement DEF EventsIn
    <3>5. \A i \in 1..Len(s) : s[i] \in CacheRecords
      BY <3>4 DEF FileRecord, CacheRecords
    <3>6. s \in Seq(CacheRecords)  BY Zenon, <3>5, SeqOver
    <3> QED  BY Zenon, <3>1, <3>6
  <2>4. \A t \in CacheTables : ackedEvents[t] \subseteq 1..cached
    BY Zenon DEF CacheIInv, CacheType, EventsInv
  <2>5. /\ nameAt \in [FileNames -> {0} \cup DOMAIN content]
        /\ handle \in [CacheTables -> {0} \cup DOMAIN content]
    BY Zenon, <2>1, <2>2 DEF CacheIInv, CacheType
  <2>6. ackedEvents \in [CacheTables -> SUBSET (1..cached)]
    BY Zenon, <2>4 DEF CacheIInv, CacheType
  <2> QED  BY Zenon, <2>1, <2>2, <2>3, <2>5, <2>6 DEF CacheIInv, CacheType, CacheLimits, CacheTypeOK
<1> QED  BY <1>1, <1>2, <1>3, CacheInvHolds, PTL DEF CacheSpec

-----------------------------------------------------------------------------

(***************************************************************************)
(* Schema changes (DDLHandling).                                           *)
(*                                                                         *)
(* Its types, that the definition in memory follows the one in the target  *)
(* database, and that a row change meets the schema it was made in.        *)
(***************************************************************************)

\* A statement is pending.
HasRow == row.status # "none"

\* The definition the history ends with.
Settled == IF history = <<>> THEN Absent ELSE history[Len(history)].def

\* The rows of the history.
HistoryRows == [def : Seq(1..Len(log)), by : {"consumer", "syncer"}]

\* The log and what is remembered of a paused table have their types.
BaseTypes ==
  /\ log \in Seq({"create", "alter", "drop", "dml"})
  /\ DDLTypeOK
  /\ lc.state = "paused" => lc.prev \in {"catching_up", "streaming"}

\* The statement in hand is the one of the row, and while its history is written it
\* cannot be applied a second time.
WorkInv ==
  /\ HasRow => row.ddl \in 1..Len(log) /\ log[row.ddl] \in DDLs
  /\ h.pc \in {"exec", "history", "delete", "fail"} => row.status = "applying"
  /\ h.pc \in {"retry", "pause"} => row.status = "failed"
  /\ h.pc \in {"retry", "exec", "history", "delete", "fail", "pause"} => h.ddl = row.ddl
  /\ row.status = "applying" => row.retry = 0
  /\ h.pc \in {"history", "delete"} => ~Accepts(row.ddl)

\* The history ends with the target's definition, or with a row of the syncer.
SettledOr == EndsAhead \/ target = Settled

\* Target, history and memory agree until the pending statement has reached the target,
\* which then refuses it for good.
FollowInv ==
  /\ ~HasRow => SettledOr
  /\ ~HasRow /\ h.pc = "idle" => tables = target
  /\ HasRow /\ Accepts(row.ddl) => SettledOr /\ (h.pc # "down" => tables = target)
  /\ h.pc = "history" => tables = target
  /\ h.pc = "delete" => SettledOr /\ tables = target

\* The target has the definition of the source at the consumer's position, or the one
\* before the pending statement.
SchemaInv ==
  /\ ~HasRow => target = SourceDef[cursor]
  /\ HasRow => /\ row.ddl <= cursor /\ SourceDef[cursor] = SourceDef[row.ddl]
               /\ target \in {SourceDef[row.ddl - 1], SourceDef[row.ddl]}
  /\ h.pc \in {"history", "delete"} => target = SourceDef[row.ddl]

\* Every cached row was made in the definition the target has.
CacheInv == \A i \in DOMAIN cache : target = SourceDef[cache[i]]

FollowSlips == {"overwritten", "unloaded", "dropnull", "ahead"}
CacheSlips == SchemaSlips \cup {"overtook"}

\* The inductive invariant.
DDLInv ==
  /\ BaseTypes
  /\ WorkInv
  /\ Without(FollowSlips) => FollowInv
  /\ Without(SchemaSlips) => SchemaInv
  /\ Without(CacheSlips) => CacheInv

-----------------------------------------------------------------------------
(* Definitions along the log and along the history.                        *)

\* A set of naturals that is not empty has a least member.
LEMMA LeastOf ==
  ASSUME NEW S, S \subseteq Nat, S # {}
  PROVE  \E p \in S : \A q \in S : p <= q
<1> DEFINE R == OpToRel(<, Nat)
<1>1. IsWellFoundedOn(R, Nat)
  BY Zenon, NatLessThanWellFounded
<1>2. \E x \in S : \A y \in S : ~(<<y, x>> \in R)
  <2> HIDE DEF R
  <2> QED  BY Zenon, <1>1, WFMin
<1>3. \A x, y \in Nat : ~(<<y, x>> \in R) => x <= y
  BY DEF OpToRel
<1> QED  BY Zenon, <1>2, <1>3

\* The source's definition is there for every position of the log, and each entry makes
\* it from the one before.
LEMMA SourceDefIs ==
  ASSUME Len(log) \in Nat
  PROVE  /\ SourceDef[0] = Absent
         /\ \A n \in 1..Len(log) : SourceDef[n] = Change(SourceDef[n - 1], n)
<1> DEFINE Is(f, N) == f = [n \in 0..N |-> IF n = 0 THEN Absent ELSE Change(f[n - 1], n)]
           Bad == {N \in Nat : ~\E f : Is(f, N)}
<1>1. ASSUME Bad # {}
      PROVE  FALSE
  <2>1. PICK N \in Bad : \A M \in Bad : N <= M
    <3> HIDE DEF Bad
    <3>1. Bad \subseteq Nat  BY Zenon DEF Bad
    <3> QED  BY Zenon, <1>1, <3>1, LeastOf
  <2>2. CASE N = 0
    <3>1. Is([n \in 0..0 |-> Absent], 0)
      BY Z3
    <3> QED  BY Zenon, <2>1, <2>2, <3>1
  <2>3. CASE N # 0
    <3>1. N \in Nat /\ N - 1 \in Nat /\ N - 1 \notin Bad
      <4>1. Bad \subseteq Nat  BY Zenon DEF Bad
      <4> HIDE DEF Bad
      <4> QED  BY <2>1, <2>3, <4>1
    <3>2. PICK f : Is(f, N - 1)
      BY Zenon, <3>1
    <3> DEFINE g == [n \in 0..N |-> IF n = N THEN Change(f[N - 1], N) ELSE f[n]]
    <3>3. \A n \in 0..(N - 1) : f[n] = IF n = 0 THEN Absent ELSE Change(f[n - 1], n)
      BY Zenon, <3>2, <3>1
    <3>4. \A n \in 0..N : g[n] = IF n = 0 THEN Absent ELSE Change(g[n - 1], n)
      <4> TAKE n \in 0..N
      <4>1. CASE n = N
        <5>1. g[n - 1] = f[N - 1]  BY <4>1, <3>1, <2>3
        <5> QED  BY Zenon, <5>1, <4>1, <3>1, <2>3
      <4>2. CASE n # N
        <5>1. n \in 0..(N - 1)  BY <4>2, <3>1
        <5>2. n # 0 => g[n - 1] = f[n - 1]  BY <5>1, <3>1
        <5> QED  BY Zenon, <5>1, <5>2, <4>2, <3>3
      <4> QED  BY Zenon, <4>1, <4>2
    <3>5. Is(g, N)
      <4>1. g = [n \in 0..N |-> g[n]]  BY Zenon
      <4> HIDE DEF g
      <4> QED  BY Zenon, <3>4, <4>1
    <3> HIDE DEF g, Is
    <3> QED  BY <3>5, <2>1 DEF Bad
  <2> QED  BY Zenon, <2>2, <2>3
<1>2. \E f : Is(f, Len(log))
  BY Zenon, <1>1
<1>3. SourceDef = CHOOSE f : Is(f, Len(log))
  BY Zenon DEF SourceDef
<1>4. Is(SourceDef, Len(log))
  <2> HIDE DEF Is
  <2> QED  BY Zenon, <1>2, <1>3
<1>5. \A n \in 0..Len(log) :
         SourceDef[n] = IF n = 0 THEN Absent ELSE Change(SourceDef[n - 1], n)
  <2> PICK f : f = SourceDef  BY Zenon
  <2> QED  BY Zenon, <1>4
<1> QED  BY <1>5

\* The same of the history that is read back.
LEMMA RecoveredIs ==
  ASSUME Len(history) \in Nat
  PROVE  /\ Recovered[0] = Absent
         /\ \A n \in 1..Len(history) : Recovered[n] = RecoverRow(Recovered[n - 1], history[n].def)
<1> DEFINE Is(f, N) == f = [n \in 0..N |-> IF n = 0 THEN Absent
                                            ELSE RecoverRow(f[n - 1], history[n].def)]
           Bad == {N \in Nat : ~\E f : Is(f, N)}
<1>1. ASSUME Bad # {}
      PROVE  FALSE
  <2>1. PICK N \in Bad : \A M \in Bad : N <= M
    <3> HIDE DEF Bad
    <3>1. Bad \subseteq Nat  BY Zenon DEF Bad
    <3> QED  BY Zenon, <1>1, <3>1, LeastOf
  <2>2. CASE N = 0
    <3>1. Is([n \in 0..0 |-> Absent], 0)
      BY Z3
    <3> QED  BY Zenon, <2>1, <2>2, <3>1
  <2>3. CASE N # 0
    <3>1. N \in Nat /\ N - 1 \in Nat /\ N - 1 \notin Bad
      <4>1. Bad \subseteq Nat  BY Zenon DEF Bad
      <4> HIDE DEF Bad
      <4> QED  BY <2>1, <2>3, <4>1
    <3>2. PICK f : Is(f, N - 1)
      BY Zenon, <3>1
    <3> DEFINE g == [n \in 0..N |-> IF n = N THEN RecoverRow(f[N - 1], history[N].def) ELSE f[n]]
    <3>3. \A n \in 0..(N - 1) : f[n] = IF n = 0 THEN Absent ELSE RecoverRow(f[n - 1], history[n].def)
      BY Zenon, <3>2, <3>1
    <3>4. \A n \in 0..N : g[n] = IF n = 0 THEN Absent ELSE RecoverRow(g[n - 1], history[n].def)
      <4> TAKE n \in 0..N
      <4>1. CASE n = N
        <5>1. g[n - 1] = f[N - 1]  BY <4>1, <3>1, <2>3
        <5> QED  BY Zenon, <5>1, <4>1, <3>1, <2>3
      <4>2. CASE n # N
        <5>1. n \in 0..(N - 1)  BY <4>2, <3>1
        <5>2. n # 0 => g[n - 1] = f[n - 1]  BY <5>1, <3>1
        <5> QED  BY Zenon, <5>1, <5>2, <4>2, <3>3
      <4> QED  BY Zenon, <4>1, <4>2
    <3>5. Is(g, N)
      <4>1. g = [n \in 0..N |-> g[n]]  BY Zenon
      <4> HIDE DEF g
      <4> QED  BY Zenon, <3>4, <4>1
    <3> HIDE DEF g, Is
    <3> QED  BY Zenon, <3>5, <2>1 DEF Bad
  <2> QED  BY Zenon, <2>2, <2>3
<1>2. \E f : Is(f, Len(history))
  BY Zenon, <1>1
<1>3. Recovered = CHOOSE f : Is(f, Len(history))
  BY Zenon DEF Recovered
<1>4. Is(Recovered, Len(history))
  <2> HIDE DEF Is
  <2> QED  BY Zenon, <1>2, <1>3
<1>5. \A n \in 0..Len(history) :
         Recovered[n] = IF n = 0 THEN Absent ELSE RecoverRow(Recovered[n - 1], history[n].def)
  <2> PICK f : f = Recovered  BY Zenon
  <2> QED  BY Zenon, <1>4
<1> QED  BY <1>5

\* Between two positions without a statement the source's definition stays.
LEMMA SameDef ==
  ASSUME Len(log) \in Nat, NEW a \in 0..Len(log), NEW b \in 0..Len(log), a <= b,
         \A i \in (a + 1)..b : log[i] \notin DDLs
  PROVE  SourceDef[a] = SourceDef[b]
<1> DEFINE Bad == {n \in Nat : n \in a..b /\ SourceDef[n] # SourceDef[a]}
<1>1. ASSUME Bad # {}
      PROVE  FALSE
  <2>1. PICK n \in Bad : \A m \in Bad : n <= m
    <3>1. Bad \subseteq Nat  BY Zenon DEF Bad
    <3> HIDE DEF Bad
    <3> QED  BY Zenon, <1>1, <3>1, LeastOf
  <2>2. n \in (a + 1)..b /\ n - 1 \in a..b /\ n - 1 \in Nat /\ n \in 1..Len(log)
    BY <2>1
  <2>3. n - 1 \notin Bad
    <3>1. n \in Nat /\ ~(n <= n - 1)  BY <2>2
    <3> HIDE DEF Bad
    <3> QED  BY Zenon, <2>1, <3>1
  <2>4. SourceDef[n - 1] = SourceDef[a]
    BY Zenon, <2>2, <2>3
  <2>5. SourceDef[n] = Change(SourceDef[n - 1], n)
    BY Zenon, <2>2, SourceDefIs
  <2>6. Change(SourceDef[n - 1], n) = SourceDef[n - 1]
    BY Zenon, <2>2 DEF Change, DDLs
  <2> QED  BY Zenon, <2>1, <2>4, <2>5, <2>6
<1> QED  BY <1>1

\* The source's definition depends on the log alone.
LEMMA SourceDefStays ==
  ASSUME log' = log
  PROVE  SourceDef' = SourceDef
  BY DEF SourceDef, Change

\* A history without a DROP is read back as its last definition.
LEMMA RecoveredLast ==
  ASSUME NEW D, history \in Seq(D), ~HoldsDrop
  PROVE  Recovered[Len(history)] = Settled
<1>1. Len(history) \in Nat  OBVIOUS
<1>2. CASE history = <<>>
  BY Zenon, <1>1, <1>2, RecoveredIs DEF Settled
<1>3. CASE history # <<>>
  <2>1. Len(history) \in 1..Len(history)
    BY <1>3
  <2>2. history[Len(history)].def # Absent
    BY <2>1 DEF HoldsDrop
  <2>3. Recovered[Len(history)] = RecoverRow(Recovered[Len(history) - 1],
                                             history[Len(history)].def)
    BY Zenon, <1>1, <2>1, RecoveredIs
  <2> QED  BY Zenon, <1>3, <2>2, <2>3 DEF Settled, RecoverRow
<1> QED  BY Zenon, <1>2, <1>3

\* What recovery reads back is a definition.
LEMMA RecoveredType ==
  ASSUME NEW D, NEW W, history \in Seq([def : Seq(D), by : W])
  PROVE  Recovered[Len(history)] \in Seq(D)
<1>1. Len(history) \in Nat  OBVIOUS
<1> DEFINE Bad == {n \in Nat : n \in 0..Len(history) /\ Recovered[n] \notin Seq(D)}
<1>2. ASSUME Bad # {}
      PROVE  FALSE
  <2>1. PICK n \in Bad : \A m \in Bad : n <= m
    <3>1. Bad \subseteq Nat  BY Zenon DEF Bad
    <3> HIDE DEF Bad
    <3> QED  BY Zenon, <1>2, <3>1, LeastOf
  <2>2. n # 0
    <3>1. Recovered[0] = Absent  BY Zenon, <1>1, RecoveredIs
    <3>2. Absent \in Seq(D)  BY DEF Absent
    <3> QED  BY Zenon, <2>1, <3>1, <3>2
  <2>3. n \in 1..Len(history) /\ n - 1 \in 0..Len(history) /\ n - 1 \in Nat
    BY <1>1, <2>1, <2>2
  <2>4. n - 1 \notin Bad
    <3>1. n \in Nat /\ ~(n <= n - 1)  BY <2>3
    <3> HIDE DEF Bad
    <3> QED  BY Zenon, <2>1, <3>1
  <2>5. Recovered[n - 1] \in Seq(D)
    BY Zenon, <2>3, <2>4
  <2>6. Recovered[n] = RecoverRow(Recovered[n - 1], history[n].def)
    BY Zenon, <1>1, <2>3, RecoveredIs
  <2>7. history[n].def \in Seq(D)
    <3>1. history[n] \in [def : Seq(D), by : W]  BY Zenon, <2>3, SeqElement
    <3> QED  BY Zenon, <3>1
  <2> QED  BY Zenon, <2>1, <2>5, <2>6, <2>7 DEF RecoverRow
<1> QED  BY <1>1, <1>2

\* A statement makes a definition of a definition.
LEMMA ChangeType ==
  ASSUME Len(log) \in Nat, NEW def \in Seq(1..Len(log)), NEW i \in 1..Len(log)
  PROVE  Change(def, i) \in Seq(1..Len(log))
<1>1. Absent \in Seq(1..Len(log))  BY DEF Absent
<1>2. <<i>> \in Seq(1..Len(log))  OBVIOUS
<1>3. Append(def, i) \in Seq(1..Len(log))  OBVIOUS
<1> QED  BY <1>1, <1>2, <1>3, Zenon DEF Change

\* The target refuses a statement that it has executed.
LEMMA AcceptsOnce ==
  ASSUME NEW D, target \in Seq(D), NEW i \in D, log[i] \in DDLs, log' = log,
         Accepts(i), target' = Change(target, i)
  PROVE  ~Accepts(i)'
<1>1. CASE log[i] = "create"
  BY Zenon, <1>1 DEF Accepts, Change, Absent
<1>2. CASE log[i] = "alter"
  <2>1. target' = Append(target, i)
    BY Zenon, <1>2 DEF Change
  <2>2. i \in Range(target')
    <3>1. Len(target') \in 1..Len(target') /\ target'[Len(target')] = i
      BY <2>1
    <3> QED  BY <3>1 DEF Range
  <2> QED  BY Zenon, <1>2, <2>2 DEF Accepts
<1>3. CASE log[i] = "drop"
  BY Zenon, <1>3 DEF Accepts, Change, Absent
<1> QED  BY Zenon, <1>1, <1>2, <1>3 DEF DDLs

\* Moving a table on, pausing and resuming it keep its type.
LEMMA LifecycleMoves ==
  ASSUME NEW l \in Lifecycle, l.state = "paused" => l.prev \in {"catching_up", "streaming"},
         NEW m,
         \/ \E new \in {"snapshotting", "catching_up", "streaming"} : m = TransitionTo(l, new, NoPos)
         \/ CanPause(l) /\ m = Pause(l)
         \/ CanResume(l) /\ m = Resume(l)
         \/ m = l
         \/ m = NewTableLifecycle(NoPos)
  PROVE  m \in Lifecycle /\ (m.state = "paused" => m.prev \in {"catching_up", "streaming"})
<1> USE DEF Lifecycle, States, NoState, Position, NoPos
<1>1. ASSUME NEW new \in {"snapshotting", "catching_up", "streaming"}, m = TransitionTo(l, new, NoPos)
      PROVE  m \in Lifecycle /\ m.state # "paused"
  <2>1. m = [l EXCEPT !.prev = l.state, !.state = new]
    BY Zenon, <1>1 DEF TransitionTo
  <2> QED  BY Zenon, <2>1
<1>2. ASSUME CanPause(l), m = Pause(l)
      PROVE  m \in Lifecycle /\ m.prev \in {"catching_up", "streaming"}
  BY Zenon, <1>2 DEF CanPause, Pause
<1>3. ASSUME CanResume(l), m = Resume(l)
      PROVE  m \in Lifecycle /\ m.state # "paused"
  BY Zenon, <1>3 DEF CanResume, Resume
<1>4. ASSUME m = NewTableLifecycle(NoPos)
      PROVE  m \in Lifecycle /\ m.state # "paused"
  BY Zenon, <1>4 DEF NewTableLifecycle
<1> QED  BY Zenon, <1>1, <1>2, <1>3, <1>4

-----------------------------------------------------------------------------
(* Types.                                                                  *)

\* The rows of ddl_state and the values of the handler.
RowType == [status : {"none", "applying", "failed"}, ddl : 0..Len(log), retry : 0..1]
HandlerType ==
  [pc : {"idle", "retry", "exec", "history", "delete", "fail", "pause", "down"},
   ddl : 0..Len(log)]

\* A statement that is left alone in a target that is left alone is refused as before.
LEMMA AcceptsStays ==
  ASSUME log' = log, target' = target, row'.ddl = row.ddl
  PROVE  Accepts(row.ddl)' <=> Accepts(row.ddl)
  BY Zenon DEF Accepts

\* Every action keeps the row and the statement in hand together.
LEMMA StepWork ==
  ASSUME BaseTypes, WorkInv, [DDLNext]_ddlVars
  PROVE  WorkInv'
<1> USE DEF BaseTypes, DDLTypeOK, WorkInv, HasRow
<1> DEFINE Same == /\ log' = log /\ target' = target /\ row' = row
                   /\ h' = h \/ h'.pc \in {"idle", "down"}
<1>a. ASSUME Same
      PROVE  WorkInv'
  BY Zenon, <1>a, AcceptsStays
<1> HIDE DEF Same
<1>1. ASSUME NEW ok \in BOOLEAN, NEW eff \in BOOLEAN, RouteDDL(ok, eff)
      PROVE  WorkInv'
  <2>1. log' = log /\ target' = target /\ h.pc = "idle"
        /\ cursor + 1 \in 1..Len(log) /\ log[cursor + 1] \in DDLs
    BY <1>1 DEF RouteDDL
  <2>2. CASE eff
    <3>1. row' = [status |-> "applying", ddl |-> cursor + 1, retry |-> 0]
          /\ h' \in {[pc |-> "exec", ddl |-> cursor + 1], [pc |-> "idle", ddl |-> 0]}
      BY <1>1, <2>2, Zenon DEF RouteDDL, SaveApplying, AtRest
    <3> QED  BY SMTT(30), <2>1, <3>1
  <2>3. CASE ~eff
    <3>1. row' = row /\ h' = [pc |-> "idle", ddl |-> 0]
      BY <1>1, <2>3, Zenon DEF RouteDDL, SaveApplying, AtRest, Outcome
    <3> QED  BY Zenon, <2>1, <3>1, <1>a DEF Same
  <2> QED  BY Zenon, <2>2, <2>3
<1>2. ASSUME NEW ok \in BOOLEAN, NEW eff \in BOOLEAN, RetryDDL(ok, eff)
      PROVE  WorkInv'
  <2>1. log' = log /\ target' = target /\ h.pc = "retry"
    BY Zenon, <1>2 DEF RetryDDL
  <2>2. CASE eff
    <3>1. row' = [status |-> "applying", ddl |-> h.ddl, retry |-> 0]
          /\ h' \in {[pc |-> "exec", ddl |-> h.ddl], [pc |-> "idle", ddl |-> 0]}
      BY <1>2, <2>2, Zenon DEF RetryDDL, SaveApplying, AtRest
    <3> QED  BY SMTT(30), <2>1, <3>1
  <2>3. CASE ~eff
    <3>1. row' = row /\ h' = [pc |-> "idle", ddl |-> 0]
      BY <1>2, <2>3, Zenon DEF RetryDDL, SaveApplying, AtRest, Outcome
    <3> QED  BY Zenon, <2>1, <3>1, <1>a DEF Same
  <2> QED  BY Zenon, <2>2, <2>3
<1>3. ASSUME NEW ok \in BOOLEAN, NEW eff \in BOOLEAN, ExecDDL(ok, eff)
      PROVE  WorkInv'
  <2>1. log' = log /\ row' = row /\ h.pc = "exec" /\ row.ddl \in 1..Len(log)
        /\ log[row.ddl] \in DDLs /\ h.ddl = row.ddl /\ row.status = "applying" /\ (ok => eff)
    BY Zenon, <1>3 DEF ExecDDL, store, Outcome
  <2>2. h' = [h EXCEPT !.pc = IF ok THEN "history" ELSE "fail"]
    BY Zenon, <1>3 DEF ExecDDL
  <2>3. CASE eff
    <3>1. Accepts(row.ddl) /\ target' = Change(target, row.ddl)
      BY Zenon, <1>3, <2>1, <2>3 DEF ExecDDL
    <3>2. PICK i \in 1..Len(log) : i = row.ddl
      BY Zenon, <2>1
    <3>3. ~Accepts(i)'
      BY Zenon, <2>1, <3>1, <3>2, AcceptsOnce
    <3>4. ~Accepts(row.ddl)'
      BY Zenon, <2>1, <3>2, <3>3 DEF Accepts
    <3> QED  BY Zenon, <2>1, <2>2, <3>4
  <2>4. CASE ~eff
    BY Zenon, <2>1, <2>2, <2>4
  <2> QED  BY Zenon, <2>3, <2>4
<1>4. ASSUME NEW ok \in BOOLEAN, NEW eff \in BOOLEAN, SaveSchemaHistory(ok, eff)
      PROVE  WorkInv'
  <2>1. log' = log /\ target' = target /\ row' = row /\ h.pc = "history"
        /\ h' \in {[h EXCEPT !.pc = "delete"], [pc |-> "idle", ddl |-> 0]}
    BY <1>4, Zenon DEF SaveSchemaHistory, AtRest
  <2> QED  BY <2>1, AcceptsStays
<1>5. ASSUME NEW ok \in BOOLEAN, NEW eff \in BOOLEAN, DeleteDDLState(ok, eff)
      PROVE  WorkInv'
  <2>1. log' = log /\ h' = [pc |-> "idle", ddl |-> 0]
        /\ row' \in {row, [status |-> "none", ddl |-> 0, retry |-> 0]}
    BY <1>5, Zenon DEF DeleteDDLState, AtRest, NoRow
  <2> QED  BY <2>1
<1>6. ASSUME NEW ok \in BOOLEAN, NEW eff \in BOOLEAN, NEW load \in BOOLEAN,
             handleDDLFailure(load, ok, eff)
      PROVE  WorkInv'
  <2>1. log' = log /\ target' = target /\ h.pc = "fail" /\ h.ddl = row.ddl
        /\ row.status = "applying"
    BY Zenon, <1>6 DEF handleDDLFailure
  <2>2. CASE eff
    <3>1. PICK r : row' = [status |-> "failed", ddl |-> h.ddl, retry |-> r]
      BY <1>6, <2>2, Zenon DEF handleDDLFailure
    <3>2. h' \in {[h EXCEPT !.pc = "pause"], [pc |-> "idle", ddl |-> 0]}
      BY <1>6, Zenon DEF handleDDLFailure, AtRest
    <3> QED  BY <2>1, <3>1, <3>2
  <2>3. CASE ~eff
    <3>1. row' = row /\ h' = [pc |-> "idle", ddl |-> 0]
      BY <1>6, <2>3, Zenon DEF handleDDLFailure, AtRest, Outcome
    <3> QED  BY Zenon, <2>1, <3>1, <1>a DEF Same
  <2> QED  BY Zenon, <2>2, <2>3
<1>7. ASSUME NEW ok \in BOOLEAN, NEW eff \in BOOLEAN, NEW load \in BOOLEAN,
             recoverFromStore(load, ok, eff)
      PROVE  WorkInv'
  <2>1. log' = log /\ h' = [pc |-> "idle", ddl |-> 0]
    BY Zenon, <1>7 DEF recoverFromStore, AtRest
  <2>2. row' = row \/ (row.status = "applying" /\ row'.status = "failed" /\ row'.ddl = row.ddl)
    BY Zenon, <1>7 DEF recoverFromStore
  <2> QED  BY Zenon, <2>1, <2>2
<1>8. ASSUME FailurePause
      PROVE  WorkInv'
  <2>1. Same  BY Zenon, <1>8 DEF Same, AtRest, FailurePause, store, ghosts
  <2> QED  BY Zenon, <2>1, <1>a
<1>9. ASSUME DMLBlocked
      PROVE  WorkInv'
  <2>1. Same  BY Zenon, <1>9 DEF Same, AtRest, DMLBlocked, TakeDML, store
  <2> QED  BY Zenon, <2>1, <1>a
<1>10. ASSUME DMLRetries
      PROVE  WorkInv'
  <2>1. log' = log /\ row' = row /\ h' = [pc |-> "retry", ddl |-> row.ddl]
        /\ row.status = "failed"
    BY Zenon, <1>10 DEF DMLRetries, TakeDML, Retryable, store
  <2> QED  BY Zenon, <2>1
<1>11. ASSUME NEW load \in BOOLEAN, DMLCached(load)
      PROVE  WorkInv'
  <2>1. Same  BY Zenon, <1>11 DEF Same, AtRest, DMLCached, DMLPasses, TakeDML, Blame, store
  <2> QED  BY Zenon, <2>1, <1>a
<1>12. ASSUME NEW load \in BOOLEAN, DMLToSink(load) \/ DMLDiscarded(load)
      PROVE  WorkInv'
  <2>1. Same  BY Zenon, <1>12 DEF Same, AtRest, DMLToSink, DMLDiscarded, DMLPasses, TakeDML, Blame,
                 store
  <2> QED  BY Zenon, <2>1, <1>a
<1>13. ASSUME NEW new \in States, Advance(new)
      PROVE  WorkInv'
  <2>1. Same  BY Zenon, <1>13 DEF Same, AtRest, Advance, store, ghosts
  <2> QED  BY Zenon, <2>1, <1>a
<1>14. ASSUME ReplayCached
      PROVE  WorkInv'
  <2>1. Same  BY Zenon, <1>14 DEF Same, AtRest, ReplayCached, store, ghosts
  <2> QED  BY Zenon, <2>1, <1>a
<1>15. ASSUME PauseOrResume
      PROVE  WorkInv'
  <2>1. Same  BY Zenon, <1>15 DEF Same, AtRest, PauseOrResume, store, ghosts
  <2> QED  BY Zenon, <2>1, <1>a
<1>16. ASSUME runPositionSaver
      PROVE  WorkInv'
  <2>1. Same  BY Zenon, <1>16 DEF Same, AtRest, runPositionSaver, store, ghosts
  <2> QED  BY Zenon, <2>1, <1>a
<1>17. ASSUME Crash
      PROVE  WorkInv'
  <2>1. Same  BY Zenon, <1>17 DEF Same, AtRest, Crash, store
  <2> QED  BY Zenon, <2>1, <1>a
<1>18. ASSUME UNCHANGED ddlVars
      PROVE  WorkInv'
  <2>1. Same  BY Zenon, <1>18 DEF Same, AtRest, ddlVars
  <2> QED  BY Zenon, <2>1, <1>a
<1>19. ASSUME NEW ok \in BOOLEAN, NEW eff \in BOOLEAN, ReadEvent(ok, eff)
      PROVE  WorkInv'
  <2>1. Same  BY Zenon, <1>19 DEF Same, ReadEvent
  <2> QED  BY Zenon, <2>1, <1>a
<1> QED
  BY Zenon, <1>1, <1>2, <1>3, <1>4, <1>5, <1>6, <1>7, <1>8, <1>9,
     <1>10, <1>11, <1>12, <1>13, <1>14, <1>15, <1>16, <1>17, <1>18, <1>19
     DEF DDLNext, DDLStep, DMLStep, EnvStep

\* Every action keeps the types.
LEMMA StepDDLTypes ==
  ASSUME BaseTypes, WorkInv, [DDLNext]_ddlVars
  PROVE  BaseTypes'
<1>0. Len(log) \in Nat /\ Absent \in Seq(1..Len(log))
  BY DEF BaseTypes, Absent
<1> DEFINE Data == /\ read' \in 0..Len(log) /\ known' \in Seq(1..Len(log))
                   /\ cursor' \in 0..Len(log) /\ saved' \in 0..Len(log)
                   /\ tables' \in Seq(1..Len(log)) /\ target' \in Seq(1..Len(log))
                   /\ history' \in Seq(HistoryRows) /\ cache' \in Seq(1..Len(log))
                   /\ cause' \subseteq Causes
           Records == row' \in RowType /\ h' \in HandlerType
           Moved == \/ \E new \in {"snapshotting", "catching_up", "streaming"} :
                          lc' = TransitionTo(lc, new, NoPos)
                    \/ CanPause(lc) /\ lc' = Pause(lc)
                    \/ CanResume(lc) /\ lc' = Resume(lc)
                    \/ lc' = lc
                    \/ lc' = NewTableLifecycle(NoPos)
<1>a. ASSUME log' = log, Data, Records, Moved
      PROVE  BaseTypes'
  <2>1. lc' \in Lifecycle /\ (lc'.state = "paused" => lc'.prev \in {"catching_up", "streaming"})
    BY Zenon, <1>a, LifecycleMoves DEF BaseTypes, DDLTypeOK
  <2>2. Len(log') = Len(log) /\ HistoryRows' = HistoryRows  BY Zenon, <1>a DEF HistoryRows
  <2> QED  BY Zenon, <1>a, <2>1, <2>2 DEF BaseTypes, DDLTypeOK, RowType, HandlerType, HistoryRows
<1>b. /\ read \in 0..Len(log) /\ known \in Seq(1..Len(log))
      /\ cursor \in 0..Len(log) /\ saved \in 0..Len(log)
      /\ tables \in Seq(1..Len(log)) /\ target \in Seq(1..Len(log))
      /\ history \in Seq(HistoryRows) /\ cache \in Seq(1..Len(log))
      /\ cause \subseteq Causes
      /\ row \in RowType /\ h \in HandlerType
      /\ row.status = "applying" => row.retry = 0
  BY Zenon DEF BaseTypes, DDLTypeOK, RowType, HandlerType, HistoryRows, WorkInv
<1> HIDE DEF Data, Records, Moved
<1>1. ASSUME NEW ok \in BOOLEAN, NEW eff \in BOOLEAN, RouteDDL(ok, eff)
      PROVE  BaseTypes'
  <2>1. log' = log  BY Zenon, <1>1 DEF RouteDDL, SaveApplying, Outcome
  <2>2. Data
    BY <1>1, <1>b, <1>0 DEF Data, RouteDDL, Causes
  <2>3. Records
    <3>1. cursor + 1 \in 0..Len(log)  BY <1>1, <1>b, <1>0 DEF RouteDDL
    <3>2. row' \in {row, [status |-> "applying", ddl |-> cursor + 1, retry |-> 0]}
          /\ h' \in {[pc |-> "exec", ddl |-> cursor + 1], [pc |-> "idle", ddl |-> 0]}
      BY <1>1, Zenon DEF RouteDDL, SaveApplying, AtRest
    <3> QED  BY <1>b, <1>0, <3>1, <3>2 DEF Records, RowType, HandlerType
  <2>4. Moved
    BY Zenon, <1>1 DEF Moved, RouteDDL, SaveApplying, Outcome
  <2> QED  BY Zenon, <2>1, <2>2, <2>3, <2>4, <1>a
<1>2. ASSUME NEW ok \in BOOLEAN, NEW eff \in BOOLEAN, RetryDDL(ok, eff)
      PROVE  BaseTypes'
  <2>1. log' = log  BY Zenon, <1>2 DEF RetryDDL, SaveApplying, Outcome
  <2>2. Data
    BY Zenon, <1>2, <1>b, <1>0 DEF Data, RetryDDL, SaveApplying, Outcome, Causes
  <2>3. Records
    <3>1. h.ddl \in 0..Len(log)  BY Zenon, <1>b DEF HandlerType
    <3>2. row' \in {row, [status |-> "applying", ddl |-> h.ddl, retry |-> 0]}
          /\ h' \in {[pc |-> "exec", ddl |-> h.ddl], [pc |-> "idle", ddl |-> 0]}
      BY <1>2, Zenon DEF RetryDDL, SaveApplying, AtRest
    <3> QED  BY <1>b, <1>0, <3>1, <3>2 DEF Records, RowType, HandlerType
  <2>4. Moved
    BY Zenon, <1>2 DEF Moved, RetryDDL, SaveApplying, Outcome
  <2> QED  BY Zenon, <2>1, <2>2, <2>3, <2>4, <1>a
<1>3. ASSUME NEW ok \in BOOLEAN, NEW eff \in BOOLEAN, ExecDDL(ok, eff)
      PROVE  BaseTypes'
  <2>1. log' = log  BY Zenon, <1>3 DEF ExecDDL, Blame, store
  <2>2. Data
    <3>1. h.ddl \in 1..Len(log)
      BY Zenon, <1>3, <1>b DEF ExecDDL, WorkInv, HasRow
    <3>2. Change(target, h.ddl) \in Seq(1..Len(log)) /\ Change(tables, h.ddl) \in Seq(1..Len(log))
      BY Zenon, <1>0, <1>b, <3>1, ChangeType
    <3>3. target' \in Seq(1..Len(log)) /\ tables' \in Seq(1..Len(log))
      BY <1>3, <1>b, <3>2, Zenon DEF ExecDDL
    <3>4. cause' \subseteq Causes
      BY Zenon, <1>3, <1>b DEF ExecDDL, Blame, Causes
    <3> QED  BY Zenon, <1>3, <1>b, <3>3, <3>4 DEF Data, ExecDDL, store
  <2>3. Records
    <3>1. h' \in {[h EXCEPT !.pc = "history"], [h EXCEPT !.pc = "fail"]}
      BY <1>3, Zenon DEF ExecDDL
    <3> QED  BY Zenon, <1>3, <1>b, <3>1 DEF Records, HandlerType, ExecDDL, store
  <2>4. Moved
    BY Zenon, <1>3 DEF Moved, ExecDDL, Blame, store
  <2> QED  BY Zenon, <2>1, <2>2, <2>3, <2>4, <1>a
<1>4. ASSUME NEW ok \in BOOLEAN, NEW eff \in BOOLEAN, SaveSchemaHistory(ok, eff)
      PROVE  BaseTypes'
  <2>1. log' = log  BY Zenon, <1>4 DEF SaveSchemaHistory
  <2>2. Data
    <3>1. HistoryRow(tables, "consumer") \in HistoryRows
      BY Zenon, <1>b DEF HistoryRow, HistoryRows
    <3>a. Append(history, HistoryRow(tables, "consumer")) \in Seq(HistoryRows)
      <4> PICK x \in HistoryRows : x = HistoryRow(tables, "consumer")  BY Zenon, <3>1
      <4> QED  BY <1>b
    <3>2. history' \in Seq(HistoryRows)
      BY <1>4, <1>b, <3>a, Zenon DEF SaveSchemaHistory
    <3> QED  BY Zenon, <1>4, <1>b, <3>2 DEF Data, SaveSchemaHistory
  <2>3. Records
    <3>1. h' \in {[h EXCEPT !.pc = "delete"], [pc |-> "idle", ddl |-> 0]}
      BY <1>4, Zenon DEF SaveSchemaHistory, AtRest
    <3>2. [h EXCEPT !.pc = "delete"] \in HandlerType  BY Zenon, <1>b DEF HandlerType
    <3>3. [pc |-> "idle", ddl |-> 0] \in HandlerType  BY <1>0 DEF HandlerType
    <3>4. row' = row  BY Zenon, <1>4 DEF SaveSchemaHistory
    <3> QED  BY Zenon, <1>b, <3>1, <3>2, <3>3, <3>4 DEF Records
  <2>4. Moved
    BY Zenon, <1>4 DEF Moved, SaveSchemaHistory
  <2> QED  BY Zenon, <2>1, <2>2, <2>3, <2>4, <1>a
<1>5. ASSUME NEW ok \in BOOLEAN, NEW eff \in BOOLEAN, DeleteDDLState(ok, eff)
      PROVE  BaseTypes'
  <2>1. log' = log  BY Zenon, <1>5 DEF DeleteDDLState
  <2>2. Data
    BY Zenon, <1>5, <1>b, <1>0 DEF Data, DeleteDDLState, Causes
  <2>3. Records
    <3>1. row' \in {row, [status |-> "none", ddl |-> 0, retry |-> 0]}
          /\ h' = [pc |-> "idle", ddl |-> 0]
      BY <1>5, Zenon DEF DeleteDDLState, AtRest, NoRow
    <3> QED  BY <1>b, <1>0, <3>1 DEF Records, RowType, HandlerType
  <2>4. Moved
    BY Zenon, <1>5 DEF Moved, DeleteDDLState
  <2> QED  BY Zenon, <2>1, <2>2, <2>3, <2>4, <1>a
<1>6. ASSUME NEW ok \in BOOLEAN, NEW eff \in BOOLEAN, NEW load \in BOOLEAN,
             handleDDLFailure(load, ok, eff)
      PROVE  BaseTypes'
  <2>1. log' = log  BY Zenon, <1>6 DEF handleDDLFailure
  <2>2. Data
    BY Zenon, <1>6, <1>b, <1>0 DEF Data, handleDDLFailure, Causes
  <2>3. Records
    <3>1. h' \in {[h EXCEPT !.pc = "pause"], [pc |-> "idle", ddl |-> 0]}
      BY <1>6, Zenon DEF handleDDLFailure, AtRest
    <3>2. row.retry = 0
      BY Zenon, <1>6 DEF handleDDLFailure, WorkInv
    <3>3. (IF load THEN row.retry ELSE 0) + 1 = 1
      BY <3>2
    <3>4. row' \in {row, [status |-> "failed", ddl |-> h.ddl, retry |-> 1]}
      BY <1>6, <3>3, Zenon DEF handleDDLFailure
    <3>5. h.ddl \in 0..Len(log)  BY Zenon, <1>b DEF HandlerType
    <3>6. row' \in RowType
      <4>1. [status |-> "failed", ddl |-> h.ddl, retry |-> 1] \in RowType
        BY <3>5 DEF RowType
      <4> QED  BY Zenon, <1>b, <3>4, <4>1
    <3>7. h' \in HandlerType
      <4>1. [h EXCEPT !.pc = "pause"] \in HandlerType  BY Zenon, <1>b DEF HandlerType
      <4>2. [pc |-> "idle", ddl |-> 0] \in HandlerType  BY <1>0 DEF HandlerType
      <4> QED  BY Zenon, <3>1, <4>1, <4>2
    <3> QED  BY Zenon, <3>6, <3>7 DEF Records
  <2>4. Moved
    BY Zenon, <1>6 DEF Moved, handleDDLFailure
  <2> QED  BY Zenon, <2>1, <2>2, <2>3, <2>4, <1>a
<1>7. ASSUME NEW ok \in BOOLEAN, NEW eff \in BOOLEAN, NEW load \in BOOLEAN,
             recoverFromStore(load, ok, eff)
      PROVE  BaseTypes'
  <2>1. log' = log  BY Zenon, <1>7 DEF recoverFromStore
  <2>2. Data
    <3>1. Recovered[Len(history)] \in Seq(1..Len(log))
      BY Zenon, <1>b, RecoveredType DEF HistoryRows
    <3>2. tables' \in Seq(1..Len(log))
      BY <1>7, <1>0, <3>1, Zenon DEF recoverFromStore
    <3>3. cause' \subseteq Causes
      BY Zenon, <1>7, <1>b DEF recoverFromStore, Causes
    <3>4. known' = tables'  BY Zenon, <1>7 DEF recoverFromStore
    <3> QED  BY Zenon, <1>7, <1>b, <3>2, <3>3, <3>4 DEF Data, recoverFromStore
  <2>3. Records
    <3>1. CASE row' = row
      BY <1>7, <1>b, <1>0, <3>1 DEF Records, HandlerType, AtRest, recoverFromStore
    <3>2. CASE row' # row
      <4>1. row.retry = 0 /\ row' = [row EXCEPT !.status = "failed", !.retry = row.retry + 1]
        BY Zenon, <1>7, <1>b, <3>2 DEF recoverFromStore
      <4>2. PICK s \in {"none", "applying", "failed"}, n \in 0..1 :
              row' = [row EXCEPT !.status = s, !.retry = n]
        BY <4>1
      <4>3. row' \in RowType  BY Zenon, <1>b, <4>2 DEF RowType
      <4>4. h' = [pc |-> "idle", ddl |-> 0]  BY Zenon, <1>7 DEF recoverFromStore, AtRest
      <4> QED  BY <1>0, <4>3, <4>4 DEF Records, HandlerType
    <3> QED  BY Zenon, <3>1, <3>2
  <2>4. Moved
    BY Zenon, <1>7 DEF Moved, recoverFromStore
  <2> QED  BY Zenon, <2>1, <2>2, <2>3, <2>4, <1>a
<1>8. ASSUME FailurePause
      PROVE  BaseTypes'
  <2>1. log' = log  BY Zenon, <1>8 DEF FailurePause, store, ghosts
  <2>2. Data
    BY Zenon, <1>8, <1>b, <1>0 DEF Data, FailurePause, store, ghosts, Causes
  <2>3. Records
    BY <1>8, <1>b, <1>0 DEF Records, RowType, HandlerType, AtRest, NoRow, FailurePause, store,
       ghosts
  <2>4. Moved
    BY Zenon, <1>8 DEF Moved, FailurePause, store, ghosts
  <2> QED  BY Zenon, <2>1, <2>2, <2>3, <2>4, <1>a
<1>9. ASSUME DMLBlocked
      PROVE  BaseTypes'
  <2>1. log' = log  BY Zenon, <1>9 DEF DMLBlocked, TakeDML, store
  <2>2. Data
    BY <1>9, <1>b, <1>0 DEF Data, DMLBlocked, TakeDML, store, Causes
  <2>3. Records
    BY Zenon, <1>9, <1>b, <1>0 DEF Records, RowType, HandlerType, AtRest, NoRow, DMLBlocked,
       TakeDML, store
  <2>4. Moved
    BY Zenon, <1>9 DEF Moved, DMLBlocked, TakeDML, store
  <2> QED  BY Zenon, <2>1, <2>2, <2>3, <2>4, <1>a
<1>10. ASSUME DMLRetries
      PROVE  BaseTypes'
  <2>1. log' = log  BY Zenon, <1>10 DEF DMLRetries, TakeDML, Retryable, store
  <2>2. Data
    BY <1>10, <1>b, <1>0 DEF Data, DMLRetries, TakeDML, Retryable, store, Causes
  <2>3. Records
    <3>1. row.ddl \in 0..Len(log)  BY Zenon, <1>b DEF RowType
    <3> QED  BY Zenon, <1>10, <1>b, <3>1 DEF Records, HandlerType, DMLRetries, TakeDML, store
  <2>4. Moved
    BY Zenon, <1>10 DEF Moved, DMLRetries, TakeDML, Retryable, store
  <2> QED  BY Zenon, <2>1, <2>2, <2>3, <2>4, <1>a
<1>11. ASSUME NEW load \in BOOLEAN, DMLCached(load)
      PROVE  BaseTypes'
  <2>1. log' = log  BY Zenon, <1>11 DEF DMLCached, DMLPasses, TakeDML, Blame, store
  <2>2. Data
    BY <1>11, <1>b, <1>0 DEF Data, DMLCached, DMLPasses, TakeDML, Blame, store, Causes
  <2>3. Records
    BY Zenon, <1>11, <1>b, <1>0 DEF Records, RowType, HandlerType, AtRest, NoRow, DMLCached,
       DMLPasses, TakeDML, Blame, store
  <2>4. Moved
    BY Zenon, <1>11 DEF Moved, DMLCached, DMLPasses, TakeDML, Blame, store
  <2> QED  BY Zenon, <2>1, <2>2, <2>3, <2>4, <1>a
<1>12. ASSUME NEW load \in BOOLEAN, DMLToSink(load) \/ DMLDiscarded(load)
      PROVE  BaseTypes'
  <2>1. log' = log  BY Zenon, <1>12 DEF DMLToSink, DMLDiscarded, DMLPasses, TakeDML, Blame, store
  <2>2. Data
    <3>1. UNCHANGED <<read, known, saved, tables, target, history, cache>> /\ cursor' = cursor + 1
          /\ cursor < read
      BY Zenon, <1>12 DEF DMLToSink, DMLDiscarded, DMLPasses, TakeDML, store
    <3>2. cause' \subseteq Causes
      BY Zenon, <1>12, <1>b DEF DMLToSink, DMLDiscarded, DMLPasses, Blame, Causes
    <3> QED  BY <1>b, <1>0, <3>1, <3>2 DEF Data
  <2>3. Records
    BY Zenon, <1>12, <1>b, <1>0 DEF Records, RowType, HandlerType, AtRest, NoRow, DMLToSink,
       DMLDiscarded, DMLPasses, TakeDML, Blame, store
  <2>4. Moved
    BY Zenon, <1>12 DEF Moved, DMLToSink, DMLDiscarded, DMLPasses, TakeDML, Blame, store
  <2> QED  BY Zenon, <2>1, <2>2, <2>3, <2>4, <1>a
<1>13. ASSUME NEW new \in States, Advance(new)
      PROVE  BaseTypes'
  <2>1. log' = log  BY Zenon, <1>13 DEF Advance, store, ghosts
  <2>2. Data
    BY Zenon, <1>13, <1>b, <1>0 DEF Data, Advance, store, ghosts, Causes
  <2>3. Records
    BY Zenon, <1>13, <1>b, <1>0 DEF Records, RowType, HandlerType, AtRest, NoRow, Advance, store,
       ghosts
  <2>4. Moved
    BY Zenon, <1>13 DEF Moved, Advance, store, ghosts
  <2> QED  BY Zenon, <2>1, <2>2, <2>3, <2>4, <1>a
<1>14. ASSUME ReplayCached
      PROVE  BaseTypes'
  <2>1. log' = log  BY Zenon, <1>14 DEF ReplayCached, store, ghosts
  <2>2. Data
    BY <1>14, <1>b, <1>0 DEF Data, ReplayCached, store, ghosts, Causes
  <2>3. Records
    BY Zenon, <1>14, <1>b, <1>0 DEF Records, RowType, HandlerType, AtRest, NoRow, ReplayCached,
       store, ghosts
  <2>4. Moved
    BY Zenon, <1>14 DEF Moved, ReplayCached, store, ghosts
  <2> QED  BY Zenon, <2>1, <2>2, <2>3, <2>4, <1>a
<1>15. ASSUME PauseOrResume
      PROVE  BaseTypes'
  <2>1. log' = log  BY Zenon, <1>15 DEF PauseOrResume, store, ghosts
  <2>2. Data
    BY Zenon, <1>15, <1>b, <1>0 DEF Data, PauseOrResume, store, ghosts, Causes
  <2>3. Records
    BY Zenon, <1>15, <1>b, <1>0 DEF Records, RowType, HandlerType, AtRest, NoRow, PauseOrResume,
       store, ghosts
  <2>4. Moved
    BY Zenon, <1>15 DEF Moved, PauseOrResume, store, ghosts
  <2> QED  BY Zenon, <2>1, <2>2, <2>3, <2>4, <1>a
<1>16. ASSUME runPositionSaver
      PROVE  BaseTypes'
  <2>1. log' = log  BY Zenon, <1>16 DEF runPositionSaver, store, ghosts
  <2>2. Data
    BY <1>16, <1>b, <1>0 DEF Data, runPositionSaver, store, ghosts, Causes
  <2>3. Records
    BY Zenon, <1>16, <1>b, <1>0 DEF Records, RowType, HandlerType, AtRest, NoRow, runPositionSaver,
       store, ghosts
  <2>4. Moved
    BY Zenon, <1>16 DEF Moved, runPositionSaver, store, ghosts
  <2> QED  BY Zenon, <2>1, <2>2, <2>3, <2>4, <1>a
<1>17. ASSUME Crash
      PROVE  BaseTypes'
  <2>1. log' = log  BY Zenon, <1>17 DEF Crash, store
  <2>2. Data
    BY Zenon, <1>17, <1>b, <1>0 DEF Data, Crash, store, Causes
  <2>3. Records
    <3>1. h' = [pc |-> "down", ddl |-> 0]
      BY Zenon, <1>17 DEF Crash, AtRest
    <3>2. row' = row  BY Zenon, <1>17 DEF Crash, store
    <3> QED  BY <1>b, <1>0, <3>1, <3>2 DEF Records, HandlerType
  <2>4. Moved
    BY Zenon, <1>17 DEF Moved, Crash, store
  <2> QED  BY Zenon, <2>1, <2>2, <2>3, <2>4, <1>a
<1>18. ASSUME UNCHANGED ddlVars
      PROVE  BaseTypes'
  <2>1. log' = log  BY Zenon, <1>18 DEF ddlVars
  <2>2. Data
    BY Zenon, <1>18, <1>b, <1>0 DEF Data, ddlVars, Causes
  <2>3. Records
    BY Zenon, <1>18, <1>b, <1>0 DEF Records, RowType, HandlerType, AtRest, NoRow, ddlVars
  <2>4. Moved
    BY Zenon, <1>18 DEF Moved, ddlVars
  <2> QED  BY Zenon, <2>1, <2>2, <2>3, <2>4, <1>a
<1>19. ASSUME NEW ok \in BOOLEAN, NEW eff \in BOOLEAN, ReadEvent(ok, eff)
      PROVE  BaseTypes'
  <2>1. log' = log  BY Zenon, <1>19 DEF ReadEvent
  <2>2. Data
    <3>1. read + 1 \in 1..Len(log) /\ read' = read + 1 /\ read + 1 \in 0..Len(log)
      BY <1>19, <1>b, <1>0 DEF ReadEvent
    <3>2. Change(known, read + 1) \in Seq(1..Len(log))
      BY Zenon, <1>0, <1>b, <3>1, ChangeType
    <3>3. known' \in Seq(1..Len(log))
      BY <1>19, <1>b, <3>2, Zenon DEF ReadEvent
    <3>4. PICK x \in HistoryRows : x = HistoryRow(known', "syncer")
      BY Zenon, <3>3 DEF HistoryRow, HistoryRows
    <3>5. Append(history, x) \in Seq(HistoryRows)
      BY <1>b
    <3>6. history' \in {history, Append(history, x)}
      BY <1>19, <3>4, Zenon DEF ReadEvent
    <3> QED  BY Zenon, <1>19, <1>b, <3>1, <3>3, <3>5, <3>6 DEF Data, ReadEvent
  <2>3. Records
    BY Zenon, <1>19, <1>b DEF Records, ReadEvent
  <2>4. Moved
    BY Zenon, <1>19 DEF Moved, ReadEvent
  <2> QED  BY Zenon, <2>1, <2>2, <2>3, <2>4, <1>a
<1> QED
  BY Zenon, <1>1, <1>2, <1>3, <1>4, <1>5, <1>6, <1>7, <1>8, <1>9,
     <1>10, <1>11, <1>12, <1>13, <1>14, <1>15, <1>16, <1>17, <1>18, <1>19
     DEF DDLNext, DDLStep, DMLStep, EnvStep

-----------------------------------------------------------------------------
(* What the steps do.                                                      *)

\* A step that leaves the target and the memory alone and keeps the pending statement, if
\* any; it may take a row change from the log, or let the history end ahead of the target.
Calm ==
  /\ UNCHANGED <<log, target, tables>>
  /\ history' = history \/ EndsAhead'
  /\ row'.ddl = row.ddl /\ (row'.status = "none" <=> row.status = "none")
  /\ \/ h' = h
     \/ h.pc # "down" /\ h'.pc \notin {"down", "history", "delete"}
  /\ \/ cursor' = cursor
     \/ cursor < read /\ log[cursor + 1] = "dml" /\ cursor' = cursor + 1

\* The other steps.
Telling ==
  \/ \E ok, eff \in BOOLEAN : RouteDDL(ok, eff) \/ ExecDDL(ok, eff)
                              \/ SaveSchemaHistory(ok, eff) \/ DeleteDDLState(ok, eff)
  \/ \E load, ok, eff \in BOOLEAN : recoverFromStore(load, ok, eff)
  \/ Crash

\* The consumer takes one entry or none, the log stays and no cause is forgotten.
LEMMA CauseGrows ==
  ASSUME [DDLNext]_ddlVars
  PROVE  log' = log /\ cause \subseteq cause'
<1>1. ASSUME NEW ok \in BOOLEAN, NEW eff \in BOOLEAN, RouteDDL(ok, eff)
      PROVE  log' = log /\ cause \subseteq cause'
  BY Zenon, <1>1 DEF RouteDDL, SaveApplying, Outcome
<1>2. ASSUME NEW ok \in BOOLEAN, NEW eff \in BOOLEAN, RetryDDL(ok, eff)
      PROVE  log' = log /\ cause \subseteq cause'
  BY Zenon, <1>2 DEF RetryDDL, SaveApplying, Outcome
<1>3. ASSUME NEW ok \in BOOLEAN, NEW eff \in BOOLEAN, ExecDDL(ok, eff)
      PROVE  log' = log /\ cause \subseteq cause'
  BY Zenon, <1>3 DEF ExecDDL, Blame, store
<1>4. ASSUME NEW ok \in BOOLEAN, NEW eff \in BOOLEAN, SaveSchemaHistory(ok, eff)
      PROVE  log' = log /\ cause \subseteq cause'
  BY Zenon, <1>4 DEF SaveSchemaHistory
<1>5. ASSUME NEW ok \in BOOLEAN, NEW eff \in BOOLEAN, DeleteDDLState(ok, eff)
      PROVE  log' = log /\ cause \subseteq cause'
  BY Zenon, <1>5 DEF DeleteDDLState
<1>6. ASSUME NEW ok \in BOOLEAN, NEW eff \in BOOLEAN, NEW load \in BOOLEAN,
             handleDDLFailure(load, ok, eff)
      PROVE  log' = log /\ cause \subseteq cause'
  BY Zenon, <1>6 DEF handleDDLFailure
<1>7. ASSUME NEW ok \in BOOLEAN, NEW eff \in BOOLEAN, NEW load \in BOOLEAN,
             recoverFromStore(load, ok, eff)
      PROVE  log' = log /\ cause \subseteq cause'
  BY Zenon, <1>7 DEF recoverFromStore
<1>8. ASSUME FailurePause
      PROVE  log' = log /\ cause \subseteq cause'
  BY Zenon, <1>8 DEF FailurePause, store, ghosts
<1>9. ASSUME DMLBlocked
      PROVE  log' = log /\ cause \subseteq cause'
  BY Zenon, <1>9 DEF DMLBlocked, TakeDML, store
<1>10. ASSUME DMLRetries
      PROVE  log' = log /\ cause \subseteq cause'
  BY Zenon, <1>10 DEF DMLRetries, TakeDML, Retryable, store
<1>11. ASSUME NEW load \in BOOLEAN, DMLCached(load)
      PROVE  log' = log /\ cause \subseteq cause'
  BY Zenon, <1>11 DEF DMLCached, DMLPasses, TakeDML, Blame, store
<1>12. ASSUME NEW load \in BOOLEAN, DMLToSink(load) \/ DMLDiscarded(load)
      PROVE  log' = log /\ cause \subseteq cause'
  BY Zenon, <1>12 DEF DMLToSink, DMLDiscarded, DMLPasses, TakeDML, Blame, store
<1>13. ASSUME NEW new \in States, Advance(new)
      PROVE  log' = log /\ cause \subseteq cause'
  BY Zenon, <1>13 DEF Advance, store, ghosts
<1>14. ASSUME ReplayCached
      PROVE  log' = log /\ cause \subseteq cause'
  BY Zenon, <1>14 DEF ReplayCached, store, ghosts
<1>15. ASSUME PauseOrResume
      PROVE  log' = log /\ cause \subseteq cause'
  BY Zenon, <1>15 DEF PauseOrResume, store, ghosts
<1>16. ASSUME runPositionSaver
      PROVE  log' = log /\ cause \subseteq cause'
  BY Zenon, <1>16 DEF runPositionSaver, store, ghosts
<1>17. ASSUME Crash
      PROVE  log' = log /\ cause \subseteq cause'
  BY Zenon, <1>17 DEF Crash, store
<1>18. ASSUME UNCHANGED ddlVars
      PROVE  log' = log /\ cause \subseteq cause'
  BY Zenon, <1>18 DEF ddlVars
<1>19. ASSUME NEW ok \in BOOLEAN, NEW eff \in BOOLEAN, ReadEvent(ok, eff)
      PROVE  log' = log /\ cause \subseteq cause'
  BY Zenon, <1>19 DEF ReadEvent
<1> QED
  BY Zenon, <1>1, <1>2, <1>3, <1>4, <1>5, <1>6, <1>7, <1>8, <1>9,
     <1>10, <1>11, <1>12, <1>13, <1>14, <1>15, <1>16, <1>17, <1>18, <1>19
     DEF DDLNext, DDLStep, DMLStep, EnvStep

\* Every step is of one of the two kinds.
LEMMA StepKinds ==
  ASSUME BaseTypes, WorkInv, [DDLNext]_ddlVars
  PROVE  Calm \/ Telling
<1>1. ASSUME NEW ok \in BOOLEAN, NEW eff \in BOOLEAN, RouteDDL(ok, eff)
      PROVE  Calm \/ Telling
  BY Zenon, <1>1 DEF Telling
<1>2. ASSUME NEW ok \in BOOLEAN, NEW eff \in BOOLEAN, RetryDDL(ok, eff)
      PROVE  Calm \/ Telling
  <2>1. UNCHANGED <<log, target, history, tables, cursor>> /\ h.pc = "retry"
        /\ row.status = "failed" /\ h.ddl = row.ddl
    BY Zenon, <1>2 DEF RetryDDL, WorkInv
  <2>2. row' \in {row, [status |-> "applying", ddl |-> h.ddl, retry |-> 0]}
        /\ h' \in {[pc |-> "exec", ddl |-> h.ddl], [pc |-> "idle", ddl |-> 0]}
    BY <1>2, Zenon DEF RetryDDL, SaveApplying, AtRest
  <2> QED  BY <2>1, <2>2 DEF Calm
<1>3. ASSUME NEW ok \in BOOLEAN, NEW eff \in BOOLEAN, ExecDDL(ok, eff)
      PROVE  Calm \/ Telling
  BY Zenon, <1>3 DEF Telling
<1>4. ASSUME NEW ok \in BOOLEAN, NEW eff \in BOOLEAN, SaveSchemaHistory(ok, eff)
      PROVE  Calm \/ Telling
  BY Zenon, <1>4 DEF Telling
<1>5. ASSUME NEW ok \in BOOLEAN, NEW eff \in BOOLEAN, DeleteDDLState(ok, eff)
      PROVE  Calm \/ Telling
  BY Zenon, <1>5 DEF Telling
<1>6. ASSUME NEW ok \in BOOLEAN, NEW eff \in BOOLEAN, NEW load \in BOOLEAN,
             handleDDLFailure(load, ok, eff)
      PROVE  Calm \/ Telling
  <2>1. UNCHANGED <<log, target, history, tables, cursor>> /\ h.pc = "fail"
        /\ row.status = "applying" /\ h.ddl = row.ddl
    BY Zenon, <1>6 DEF handleDDLFailure, WorkInv
  <2>2. PICK r : row' \in {row, [status |-> "failed", ddl |-> h.ddl, retry |-> r]}
    BY <1>6, Zenon DEF handleDDLFailure
  <2>3. h'.pc \in {"pause", "idle"}
    <3>1. h' \in {[h EXCEPT !.pc = "pause"], [pc |-> "idle", ddl |-> 0]}
      BY <1>6, Zenon DEF handleDDLFailure, AtRest
    <3> QED  BY <3>1 DEF BaseTypes, DDLTypeOK
  <2> QED  BY <2>1, <2>2, <2>3 DEF Calm
<1>7. ASSUME NEW ok \in BOOLEAN, NEW eff \in BOOLEAN, NEW load \in BOOLEAN,
             recoverFromStore(load, ok, eff)
      PROVE  Calm \/ Telling
  BY Zenon, <1>7 DEF Telling
<1>8. ASSUME FailurePause
      PROVE  Calm \/ Telling
  BY Zenon, <1>8 DEF Calm, AtRest, FailurePause, store, ghosts
<1>9. ASSUME DMLBlocked
      PROVE  Calm \/ Telling
  BY Zenon, <1>9 DEF Calm, AtRest, DMLBlocked, TakeDML, store
<1>10. ASSUME DMLRetries
      PROVE  Calm \/ Telling
  BY Zenon, <1>10 DEF Calm, AtRest, DMLRetries, TakeDML, Retryable, store
<1>11. ASSUME NEW load \in BOOLEAN, DMLCached(load)
      PROVE  Calm \/ Telling
  BY Zenon, <1>11 DEF Calm, AtRest, DMLCached, DMLPasses, TakeDML, Blame, store
<1>12. ASSUME NEW load \in BOOLEAN, DMLToSink(load) \/ DMLDiscarded(load)
      PROVE  Calm \/ Telling
  BY Zenon, <1>12 DEF Calm, AtRest, DMLToSink, DMLDiscarded, DMLPasses, TakeDML, Blame, store
<1>13. ASSUME NEW new \in States, Advance(new)
      PROVE  Calm \/ Telling
  BY Zenon, <1>13 DEF Calm, AtRest, Advance, store, ghosts
<1>14. ASSUME ReplayCached
      PROVE  Calm \/ Telling
  BY Zenon, <1>14 DEF Calm, AtRest, ReplayCached, store, ghosts
<1>15. ASSUME PauseOrResume
      PROVE  Calm \/ Telling
  BY Zenon, <1>15 DEF Calm, AtRest, PauseOrResume, store, ghosts
<1>16. ASSUME runPositionSaver
      PROVE  Calm \/ Telling
  BY Zenon, <1>16 DEF Calm, AtRest, runPositionSaver, store, ghosts
<1>17. ASSUME Crash
      PROVE  Calm \/ Telling
  BY Zenon, <1>17 DEF Telling
<1>18. ASSUME UNCHANGED ddlVars
      PROVE  Calm \/ Telling
  BY Zenon, <1>18 DEF Calm, AtRest, ddlVars
<1>19. ASSUME NEW ok \in BOOLEAN, NEW eff \in BOOLEAN, ReadEvent(ok, eff)
      PROVE  Calm \/ Telling
  <2>1. /\ UNCHANGED <<log, target, tables, row, h, cursor>>
        /\ history' \in {history, Append(history, HistoryRow(known', "syncer"))}
    BY <1>19, Zenon DEF ReadEvent
  <2>2. EndsAhead' \/ history' = history
    <3>1. SUFFICES ASSUME history' = Append(history, HistoryRow(known', "syncer"))
                   PROVE  EndsAhead'
      BY Zenon, <2>1
    <3>2. history \in Seq(HistoryRows)  BY Zenon DEF BaseTypes, DDLTypeOK, HistoryRows
    <3>3. PICK x : x = HistoryRow(known', "syncer")  BY Zenon
    <3>4. history' # <<>> /\ history'[Len(history')] = x
      BY <3>1, <3>2, <3>3
    <3>5. x.by = "syncer"  BY <3>3 DEF HistoryRow
    <3> QED  BY Zenon, <3>4, <3>5 DEF EndsAhead
  <2> QED  BY Zenon, <2>1, <2>2 DEF Calm
<1> QED
  BY Zenon, <1>1, <1>2, <1>3, <1>4, <1>5, <1>6, <1>7, <1>8, <1>9,
     <1>10, <1>11, <1>12, <1>13, <1>14, <1>15, <1>16, <1>17, <1>18, <1>19
     DEF DDLNext, DDLStep, DMLStep, EnvStep

-----------------------------------------------------------------------------
(* The definition in memory follows the target.                            *)

\* Every step keeps target, history and memory together, unless one of the causes is
\* added.
LEMMA StepFollow ==
  ASSUME BaseTypes, WorkInv, Without(FollowSlips) => FollowInv, [DDLNext]_ddlVars
  PROVE  Without(FollowSlips)' => FollowInv'
<1> SUFFICES ASSUME Without(FollowSlips)'
             PROVE  FollowInv'
  BY Zenon
<1>0. Without(FollowSlips)
  BY Zenon, CauseGrows DEF Without
<1> HIDE DEF Without
<1> FollowInv
  BY Zenon, <1>0
<1>1. ASSUME NEW ok \in BOOLEAN, NEW eff \in BOOLEAN, RouteDDL(ok, eff)
      PROVE  FollowInv'
  <2>1. UNCHANGED <<log, target, history, tables>> /\ h.pc = "idle"
    BY Zenon, <1>1 DEF RouteDDL
  <2>2. row.status = "none"
    <3>1. "overwritten" \notin cause'  BY Zenon DEF Without, FollowSlips
    <3> QED  BY Zenon, <1>1, <3>1 DEF RouteDDL
  <2>3. SettledOr /\ tables = target
    BY Zenon, <2>1, <2>2 DEF FollowInv, HasRow
  <2>4. SettledOr' <=> SettledOr  BY Zenon, <2>1 DEF SettledOr, Settled, EndsAhead
  <2>5. h'.pc \in {"exec", "idle"}
    BY Zenon, <1>1 DEF RouteDDL, SaveApplying, AtRest
  <2> QED  BY Zenon, <2>1, <2>3, <2>4, <2>5 DEF FollowInv
<1>2. ASSUME NEW ok \in BOOLEAN, NEW eff \in BOOLEAN, ExecDDL(ok, eff)
      PROVE  FollowInv'
  <2>1. UNCHANGED <<log, history, row>> /\ h.pc = "exec" /\ HasRow /\ h.ddl = row.ddl
        /\ (ok => eff)
    BY Zenon, <1>2 DEF ExecDDL, store, Outcome, WorkInv, HasRow
  <2>2. target' = target => (SettledOr' <=> SettledOr)
    BY Zenon, <2>1 DEF SettledOr, Settled, EndsAhead
  <2>3. h'.pc = IF ok THEN "history" ELSE "fail"
    BY Zenon, <1>2 DEF ExecDDL, BaseTypes, DDLTypeOK
  <2>4. CASE eff
    <3>1. Accepts(row.ddl) /\ target' = Change(target, row.ddl)
      BY Zenon, <1>2, <2>1, <2>4 DEF ExecDDL
    <3>2. tables = target
      BY Zenon, <2>1, <3>1 DEF FollowInv
    <3>3. row.ddl \in 1..Len(log) /\ log[row.ddl] \in DDLs
      BY Zenon, <2>1 DEF WorkInv
    <3>4. ~Accepts(row.ddl)'
      <4>1. PICK i \in 1..Len(log) : i = row.ddl
        BY Zenon, <3>3
      <4>2. ~Accepts(i)'
        BY Zenon, <2>1, <3>1, <3>3, <4>1, AcceptsOnce DEF BaseTypes, DDLTypeOK
      <4> QED  BY Zenon, <2>1, <4>1, <4>2 DEF Accepts
    <3>5. ok => tables' = target'
      BY Zenon, <1>2, <2>1, <3>1, <3>2 DEF ExecDDL
    <3> QED  BY Zenon, <2>1, <2>2, <2>3, <3>4, <3>5 DEF FollowInv, HasRow
  <2>5. CASE ~eff
    <3>1. UNCHANGED <<target, tables>>
      BY Zenon, <1>2, <2>1, <2>5 DEF ExecDDL
    <3>2. Accepts(row.ddl)' <=> Accepts(row.ddl)
      BY Zenon, <2>1, <3>1, AcceptsStays
    <3> QED  BY Zenon, <2>1, <2>2, <2>3, <2>5, <3>1, <3>2 DEF FollowInv, HasRow
  <2> QED  BY Zenon, <2>4, <2>5
<1>3. ASSUME NEW ok \in BOOLEAN, NEW eff \in BOOLEAN, SaveSchemaHistory(ok, eff)
      PROVE  FollowInv'
  <2>1. UNCHANGED <<log, target, tables, row>> /\ h.pc = "history" /\ HasRow
        /\ ~Accepts(row.ddl) /\ (ok => eff)
    BY Zenon, <1>3 DEF SaveSchemaHistory, Outcome, WorkInv, HasRow
  <2>2. ~Accepts(row.ddl)'
    BY Zenon, <2>1, AcceptsStays
  <2>3. h'.pc = IF ok THEN "delete" ELSE "idle"
    BY Zenon, <1>3 DEF SaveSchemaHistory, AtRest, BaseTypes, DDLTypeOK
  <2>4. tables = target
    BY Zenon, <2>1 DEF FollowInv
  <2>5. eff => Settled' = tables
    <3>1. PICK x : x = HistoryRow(tables, "consumer")  BY Zenon
    <3>2. history \in Seq(HistoryRows)  BY Zenon DEF BaseTypes, DDLTypeOK, HistoryRows
    <3>3. Append(history, x) # <<>> /\ Append(history, x)[Len(Append(history, x))] = x
      BY <3>2
    <3>4. eff => history' = Append(history, x)
      BY Zenon, <1>3, <3>1 DEF SaveSchemaHistory
    <3>5. x.def = tables  BY <3>1 DEF HistoryRow
    <3> QED  BY Zenon, <3>3, <3>4, <3>5 DEF Settled
  <2>6. eff => SettledOr'
    BY Zenon, <2>1, <2>4, <2>5 DEF SettledOr
  <2> QED  BY Zenon, <2>1, <2>2, <2>3, <2>4, <2>6 DEF FollowInv, HasRow
<1>4. ASSUME NEW ok \in BOOLEAN, NEW eff \in BOOLEAN, DeleteDDLState(ok, eff)
      PROVE  FollowInv'
  <2>1. UNCHANGED <<log, target, tables, history>> /\ h.pc = "delete" /\ h'.pc = "idle"
    BY Zenon, <1>4 DEF DeleteDDLState, AtRest
  <2>2. SettledOr' <=> SettledOr  BY Zenon, <2>1 DEF SettledOr, Settled, EndsAhead
  <2> QED  BY Zenon, <2>1, <2>2 DEF FollowInv
<1>5. ASSUME NEW ok \in BOOLEAN, NEW eff \in BOOLEAN, NEW load \in BOOLEAN,
             recoverFromStore(load, ok, eff)
      PROVE  FollowInv'
  <2>1. UNCHANGED <<log, target, history>> /\ h.pc = "down" /\ h'.pc = "idle"
    BY Zenon, <1>5 DEF recoverFromStore, AtRest
  <2>2. load /\ ~HoldsDrop /\ ~EndsAhead
    <3>1. "unloaded" \notin cause' /\ "dropnull" \notin cause' /\ "ahead" \notin cause'
      BY Zenon DEF Without, FollowSlips
    <3> QED  BY Zenon, <1>5, <3>1 DEF recoverFromStore
  <2>3. tables' = Settled
    <3>1. history \in Seq(HistoryRows)  BY Zenon DEF BaseTypes, DDLTypeOK, HistoryRows
    <3>2. tables' = Recovered[Len(history)]
      BY Zenon, <1>5, <2>2 DEF recoverFromStore
    <3> QED  BY Zenon, <2>2, <3>1, <3>2, RecoveredLast
  <2>4. SettledOr' <=> SettledOr  BY Zenon, <2>1 DEF SettledOr, Settled, EndsAhead
  <2>7. SettledOr => tables' = target
    BY Zenon, <2>2, <2>3 DEF SettledOr
  <2>5. row'.ddl = row.ddl /\ (row'.status = "none" <=> row.status = "none")
    BY Zenon, <1>5 DEF recoverFromStore, BaseTypes, DDLTypeOK
  <2>6. Accepts(row.ddl)' <=> Accepts(row.ddl)
    BY Zenon, <2>1, <2>5, AcceptsStays
  <2> QED  BY Zenon, <2>1, <2>4, <2>5, <2>6, <2>7 DEF FollowInv, HasRow
<1>6. ASSUME Crash
      PROVE  FollowInv'
  <2>1. UNCHANGED <<log, target, row, history>> /\ h'.pc = "down"
    BY Zenon, <1>6 DEF Crash, store, AtRest
  <2>2. SettledOr' <=> SettledOr  BY Zenon, <2>1 DEF SettledOr, Settled, EndsAhead
  <2>3. Accepts(row.ddl)' <=> Accepts(row.ddl)
    BY Zenon, <2>1, AcceptsStays
  <2> QED  BY Zenon, <2>1, <2>2, <2>3 DEF FollowInv, HasRow
<1>7. ASSUME Calm
      PROVE  FollowInv'
  <2>1. Accepts(row.ddl)' <=> Accepts(row.ddl)
    BY Zenon, <1>7, AcceptsStays DEF Calm
  <2>2. SettledOr => SettledOr'
    BY Zenon, <1>7 DEF Calm, SettledOr, Settled, EndsAhead
  <2> QED  BY Zenon, <1>7, <2>1, <2>2 DEF Calm, FollowInv, WorkInv, HasRow, BaseTypes, DDLTypeOK
<1> QED  BY Zenon, StepKinds, <1>1, <1>2, <1>3, <1>4, <1>5, <1>6, <1>7 DEF Telling

-----------------------------------------------------------------------------
(* Row changes meet their schema.                                          *)

\* What the target accepts is not yet what the statement makes: a created table is there,
\* an altered one has the statement, and a dropped one is gone.
LEMMA AcceptsFresh ==
  ASSUME Len(log) \in Nat, target \in Seq(1..Len(log)), NEW i \in 1..Len(log), log[i] \in DDLs,
         Accepts(i), NEW def \in Seq(1..Len(log))
  PROVE  target # Change(def, i)
<1>1. CASE log[i] = "create"
  BY <1>1 DEF Accepts, Change, Absent
<1>2. CASE log[i] = "alter"
  <2>1. Change(def, i) = Append(def, i)
    BY Zenon, <1>2 DEF Change
  <2>2. i \in Range(Append(def, i))
    <3>1. Len(Append(def, i)) \in 1..Len(Append(def, i)) /\ Append(def, i)[Len(Append(def, i))] = i
      OBVIOUS
    <3> QED  BY <3>1 DEF Range
  <2>3. i \notin Range(target)
    BY Zenon, <1>2 DEF Accepts
  <2> QED  BY Zenon, <2>1, <2>2, <2>3
<1>3. CASE log[i] = "drop"
  BY Zenon, <1>3 DEF Accepts, Change, Absent
<1> QED  BY Zenon, <1>1, <1>2, <1>3 DEF DDLs

\* The source's definition is a definition.
LEMMA SourceDefType ==
  ASSUME Len(log) \in Nat, NEW k \in 0..Len(log)
  PROVE  SourceDef[k] \in Seq(1..Len(log))
<1> DEFINE Bad == {n \in Nat : n \in 0..Len(log) /\ SourceDef[n] \notin Seq(1..Len(log))}
<1>1. ASSUME Bad # {}
      PROVE  FALSE
  <2>1. PICK n \in Bad : \A m \in Bad : n <= m
    <3>1. Bad \subseteq Nat  BY Zenon DEF Bad
    <3> HIDE DEF Bad
    <3> QED  BY Zenon, <1>1, <3>1, LeastOf
  <2>2. n # 0
    <3>1. SourceDef[0] = Absent  BY Zenon, SourceDefIs
    <3>2. Absent \in Seq(1..Len(log))  BY DEF Absent
    <3> QED  BY Zenon, <2>1, <3>1, <3>2
  <2>3. n \in 1..Len(log) /\ n - 1 \in 0..Len(log) /\ n - 1 \in Nat
    BY <2>1, <2>2
  <2>4. n - 1 \notin Bad
    <3>1. n \in Nat /\ ~(n <= n - 1)  BY <2>3
    <3> HIDE DEF Bad
    <3> QED  BY Zenon, <2>1, <3>1
  <2>5. SourceDef[n - 1] \in Seq(1..Len(log))
    BY Zenon, <2>3, <2>4
  <2>6. SourceDef[n] = Change(SourceDef[n - 1], n)
    BY Zenon, <2>3, SourceDefIs
  <2>7. Change(SourceDef[n - 1], n) \in Seq(1..Len(log))
    BY Zenon, <2>3, <2>5, ChangeType
  <2> QED  BY Zenon, <2>1, <2>6, <2>7
<1> QED  BY <1>1

\* A row change that passes the check of the row meets the source's definition in the
\* target: there is no pending statement, and a row change makes no definition.
LEMMA PassedRow ==
  ASSUME BaseTypes, SchemaInv, NEW load \in BOOLEAN, DMLPasses(load), Without(SchemaSlips)'
  PROVE  target = SourceDef[cursor + 1]
<1>1. Len(log) \in Nat /\ cursor \in 0..Len(log) /\ cursor + 1 \in 0..Len(log)
      /\ log[cursor + 1] \notin DDLs
  BY DEF BaseTypes, DDLTypeOK, DMLPasses, TakeDML, DDLs
<1>2. row.status = "none"
  <2>1. "unread" \notin cause'  BY Zenon DEF Without, SchemaSlips
  <2> QED  BY Zenon, <2>1 DEF DMLPasses, Passes, Blame
<1>3. target = SourceDef[cursor]
  BY Zenon, <1>2 DEF SchemaInv, HasRow
<1>4. \A i \in (cursor + 1)..(cursor + 1) : log[i] \notin DDLs
  BY <1>1
<1> QED  BY <1>1, <1>3, <1>4, SameDef

\* Every step keeps the target at the source's definition or one pending statement
\* behind, unless one of the causes is added.
LEMMA StepSchema ==
  ASSUME BaseTypes, WorkInv, Without(SchemaSlips) => SchemaInv, [DDLNext]_ddlVars
  PROVE  Without(SchemaSlips)' => SchemaInv'
<1> SUFFICES ASSUME Without(SchemaSlips)'
             PROVE  SchemaInv'
  BY Zenon
<1>0. Without(SchemaSlips)
  BY Zenon, CauseGrows DEF Without
<1> HIDE DEF Without
<1> SchemaInv
  BY Zenon, <1>0
<1>b. /\ Len(log) \in Nat /\ cursor \in 0..Len(log) /\ saved \in 0..Len(log)
      /\ read \in 0..Len(log)
  BY DEF BaseTypes, DDLTypeOK
<1>c. SourceDef' = SourceDef
  BY Zenon, CauseGrows, SourceDefStays
<1>1. ASSUME NEW ok \in BOOLEAN, NEW eff \in BOOLEAN, RouteDDL(ok, eff)
      PROVE  SchemaInv'
  <2>1. UNCHANGED <<log, target>> /\ cursor' = cursor + 1 /\ cursor + 1 \in 1..Len(log)
    BY <1>1, <1>b DEF RouteDDL
  <2>2. row.status = "none" /\ eff
    <3>1. "overwritten" \notin cause' /\ "lost" \notin cause'  BY Zenon DEF Without, SchemaSlips
    <3> QED  BY Zenon, <1>1, <3>1 DEF RouteDDL
  <2>3. target = SourceDef[cursor]
    BY Zenon, <2>2 DEF SchemaInv, HasRow
  <2>4. row' = [status |-> "applying", ddl |-> cursor + 1, retry |-> 0]
    BY Zenon, <1>1, <2>2 DEF RouteDDL, SaveApplying
  <2>5. h'.pc \in {"exec", "idle"}
    BY Zenon, <1>1 DEF RouteDDL, SaveApplying, AtRest
  <2>6. row'.ddl - 1 = cursor
    BY <2>4, <1>b
  <2> QED  BY <1>b, <1>c, <2>1, <2>3, <2>4, <2>5, <2>6 DEF SchemaInv, HasRow
<1>2. ASSUME NEW ok \in BOOLEAN, NEW eff \in BOOLEAN, ExecDDL(ok, eff)
      PROVE  SchemaInv'
  <2>1. UNCHANGED <<log, row, cursor>> /\ h.pc = "exec" /\ HasRow /\ h.ddl = row.ddl
        /\ (ok => eff)
    BY Zenon, <1>2 DEF ExecDDL, store, Outcome, WorkInv, HasRow
  <2>2. h'.pc = IF ok THEN "history" ELSE "fail"
    BY Zenon, <1>2 DEF ExecDDL, BaseTypes, DDLTypeOK
  <2>3. row.ddl \in 1..Len(log) /\ log[row.ddl] \in DDLs
    BY Zenon, <2>1 DEF WorkInv
  <2>4. target' \in {target, SourceDef[row.ddl]} /\ (eff => target' = SourceDef[row.ddl])
    <3>1. CASE eff
      <4>1. Accepts(row.ddl) /\ target' = Change(target, row.ddl)
        BY Zenon, <1>2, <2>1, <3>1 DEF ExecDDL
      <4>2. SourceDef[row.ddl] = Change(SourceDef[row.ddl - 1], row.ddl)
        BY Zenon, <1>b, <2>3, SourceDefIs
      <4>3. target # SourceDef[row.ddl]
        <5>0. row.ddl - 1 \in 0..Len(log)
          BY <1>b, <2>3
        <5>1. SourceDef[row.ddl - 1] \in Seq(1..Len(log))
          BY Zenon, <1>b, <5>0, SourceDefType
        <5> QED  BY Zenon, <1>b, <2>3, <4>1, <4>2, <5>1, AcceptsFresh DEF BaseTypes, DDLTypeOK
      <4>4. target = SourceDef[row.ddl - 1]
        BY Zenon, <2>1, <4>3 DEF SchemaInv
      <4> QED  BY Zenon, <4>1, <4>2, <4>4
    <3>2. CASE ~eff
      BY Zenon, <1>2, <3>2 DEF ExecDDL
    <3> QED  BY Zenon, <3>1, <3>2
  <2> QED  BY Zenon, <1>c, <2>1, <2>2, <2>4 DEF SchemaInv, HasRow
<1>3. ASSUME NEW ok \in BOOLEAN, NEW eff \in BOOLEAN, SaveSchemaHistory(ok, eff)
      PROVE  SchemaInv'
  <2>1. UNCHANGED <<log, target, row, cursor>> /\ h.pc = "history"
        /\ row.status = "applying"
    BY Zenon, <1>3 DEF SaveSchemaHistory, WorkInv
  <2> QED  BY Zenon, <1>c, <2>1 DEF SchemaInv, HasRow
<1>4. ASSUME NEW ok \in BOOLEAN, NEW eff \in BOOLEAN, DeleteDDLState(ok, eff)
      PROVE  SchemaInv'
  <2>1. UNCHANGED <<log, target, cursor>> /\ h.pc = "delete" /\ h'.pc = "idle"
        /\ row.status = "applying"
    BY Zenon, <1>4 DEF DeleteDDLState, AtRest, WorkInv
  <2>2. row' = row \/ row'.status = "none"
    BY Zenon, <1>4 DEF DeleteDDLState, NoRow
  <2> QED  BY Zenon, <1>c, <2>1, <2>2 DEF SchemaInv, HasRow
<1>5. ASSUME NEW ok \in BOOLEAN, NEW eff \in BOOLEAN, NEW load \in BOOLEAN,
             recoverFromStore(load, ok, eff)
      PROVE  SchemaInv'
  <2>1. UNCHANGED <<log, target, cursor>> /\ h'.pc = "idle"
    BY Zenon, <1>5 DEF recoverFromStore, AtRest
  <2>2. row'.ddl = row.ddl /\ (row'.status = "none" <=> row.status = "none")
    BY Zenon, <1>5 DEF recoverFromStore, BaseTypes, DDLTypeOK
  <2> QED  BY Zenon, <1>c, <2>1, <2>2 DEF SchemaInv, HasRow
<1>6. ASSUME Crash
      PROVE  SchemaInv'
  <2>1. UNCHANGED <<log, target, row>> /\ cursor' = saved /\ h'.pc = "down"
    BY Zenon, <1>6 DEF Crash, store, AtRest
  <2>2. ~SkippedDDL /\ ~RedeliveredDDL
    <3>1. "skipped" \notin cause' /\ "redelivered" \notin cause'
      BY Zenon DEF Without, SchemaSlips
    <3> QED  BY Zenon, <1>6, <3>1 DEF Crash
  <2>3. SourceDef[saved] = SourceDef[cursor]
    <3>1. CASE cursor <= saved
      BY Zenon, <1>b, <2>2, <3>1, SameDef DEF SkippedDDL
    <3>2. CASE saved <= cursor
      BY Zenon, <1>b, <2>2, <3>2, SameDef DEF RedeliveredDDL
    <3> QED  BY <1>b, <3>1, <3>2
  <2>4. HasRow => row.ddl <= saved
    <3>1. SUFFICES ASSUME HasRow, ~(row.ddl <= saved)
                   PROVE  FALSE
      BY Zenon
    <3>2. row.ddl \in 1..Len(log) /\ log[row.ddl] \in DDLs /\ row.ddl <= cursor
      BY Zenon, <3>1 DEF WorkInv, SchemaInv
    <3>3. row.ddl \in (saved + 1)..cursor
      BY <1>b, <3>1, <3>2
    <3> QED  BY Zenon, <2>2, <3>2, <3>3 DEF RedeliveredDDL
  <2> QED  BY Zenon, <1>c, <2>1, <2>3, <2>4 DEF SchemaInv, HasRow
<1>7. ASSUME Calm
      PROVE  SchemaInv'
  <2>1. SourceDef[cursor'] = SourceDef[cursor] /\ cursor <= cursor'
    <3>1. CASE cursor' = cursor
      BY <3>1, <1>b
    <3>2. CASE cursor' # cursor
      <4>1. cursor' = cursor + 1 /\ cursor + 1 \in 0..Len(log) /\ log[cursor + 1] \notin DDLs
        BY <1>7, <3>2, <1>b DEF Calm, DDLs
      <4>2. \A i \in (cursor + 1)..(cursor + 1) : log[i] \notin DDLs
        BY <4>1
      <4> QED  BY <1>b, <4>1, <4>2, SameDef
    <3> QED  BY Zenon, <3>1, <3>2
  <2>2. cursor' \in Nat
    BY <1>7, <1>b DEF Calm
  <2>3. h'.pc \in {"history", "delete"} => h'.pc = h.pc
    BY Zenon, <1>7 DEF Calm
  <2>4. UNCHANGED target /\ row'.ddl = row.ddl /\ (row'.status = "none" <=> row.status = "none")
    BY Zenon, <1>7 DEF Calm
  <2>5. HasRow => row.ddl \in Nat /\ row.ddl <= cursor
    BY DEF SchemaInv, WorkInv
  <2>6. HasRow => row.ddl <= cursor'
    BY <1>b, <2>1, <2>2, <2>5
  <2> QED  BY Zenon, <1>c, <2>1, <2>3, <2>4, <2>6 DEF SchemaInv, HasRow
<1> QED  BY Zenon, StepKinds, <1>1, <1>2, <1>3, <1>4, <1>5, <1>6, <1>7 DEF Telling

\* The target changes only under an empty cache, or the statement overtakes the cache.
TargetMoves ==
  \/ target' = target
  \/ cache' = cache /\ (cache = <<>> \/ "overtook" \in cause')

\* The cache loses its first row or takes a row that has passed.
CacheMoves ==
  \/ cache' = cache
  \/ cache # <<>> /\ cache' = Tail(cache)
  \/ \E load \in BOOLEAN : DMLCached(load)

\* Every step is such a step.
LEMMA StepMoves ==
  ASSUME BaseTypes, [DDLNext]_ddlVars
  PROVE  TargetMoves /\ CacheMoves
<1>1. ASSUME NEW ok \in BOOLEAN, NEW eff \in BOOLEAN, RouteDDL(ok, eff)
      PROVE  TargetMoves /\ CacheMoves
  BY Zenon, <1>1 DEF TargetMoves, CacheMoves, RouteDDL, SaveApplying, Outcome
<1>2. ASSUME NEW ok \in BOOLEAN, NEW eff \in BOOLEAN, RetryDDL(ok, eff)
      PROVE  TargetMoves /\ CacheMoves
  BY Zenon, <1>2 DEF TargetMoves, CacheMoves, RetryDDL, SaveApplying, Outcome
<1>3. ASSUME NEW ok \in BOOLEAN, NEW eff \in BOOLEAN, ExecDDL(ok, eff)
      PROVE  TargetMoves /\ CacheMoves
  BY Zenon, <1>3 DEF TargetMoves, CacheMoves, ExecDDL, Blame, store
<1>4. ASSUME NEW ok \in BOOLEAN, NEW eff \in BOOLEAN, SaveSchemaHistory(ok, eff)
      PROVE  TargetMoves /\ CacheMoves
  BY Zenon, <1>4 DEF TargetMoves, CacheMoves, SaveSchemaHistory
<1>5. ASSUME NEW ok \in BOOLEAN, NEW eff \in BOOLEAN, DeleteDDLState(ok, eff)
      PROVE  TargetMoves /\ CacheMoves
  BY Zenon, <1>5 DEF TargetMoves, CacheMoves, DeleteDDLState
<1>6. ASSUME NEW ok \in BOOLEAN, NEW eff \in BOOLEAN, NEW load \in BOOLEAN,
             handleDDLFailure(load, ok, eff)
      PROVE  TargetMoves /\ CacheMoves
  BY Zenon, <1>6 DEF TargetMoves, CacheMoves, handleDDLFailure
<1>7. ASSUME NEW ok \in BOOLEAN, NEW eff \in BOOLEAN, NEW load \in BOOLEAN,
             recoverFromStore(load, ok, eff)
      PROVE  TargetMoves /\ CacheMoves
  BY Zenon, <1>7 DEF TargetMoves, CacheMoves, recoverFromStore
<1>8. ASSUME FailurePause
      PROVE  TargetMoves /\ CacheMoves
  BY Zenon, <1>8 DEF TargetMoves, CacheMoves, FailurePause, store, ghosts
<1>9. ASSUME DMLBlocked
      PROVE  TargetMoves /\ CacheMoves
  BY Zenon, <1>9 DEF TargetMoves, CacheMoves, DMLBlocked, TakeDML, store
<1>10. ASSUME DMLRetries
      PROVE  TargetMoves /\ CacheMoves
  BY Zenon, <1>10 DEF TargetMoves, CacheMoves, DMLRetries, TakeDML, Retryable, store
<1>11. ASSUME NEW load \in BOOLEAN, DMLCached(load)
      PROVE  TargetMoves /\ CacheMoves
  BY Zenon, <1>11 DEF TargetMoves, CacheMoves, DMLCached, DMLPasses, TakeDML
<1>12. ASSUME NEW load \in BOOLEAN, DMLToSink(load) \/ DMLDiscarded(load)
      PROVE  TargetMoves /\ CacheMoves
  BY Zenon, <1>12 DEF TargetMoves, CacheMoves, DMLToSink, DMLDiscarded, DMLPasses, TakeDML, Blame,
     store
<1>13. ASSUME NEW new \in States, Advance(new)
      PROVE  TargetMoves /\ CacheMoves
  BY Zenon, <1>13 DEF TargetMoves, CacheMoves, Advance, store, ghosts
<1>14. ASSUME ReplayCached
      PROVE  TargetMoves /\ CacheMoves
  BY Zenon, <1>14 DEF TargetMoves, CacheMoves, ReplayCached, store, ghosts
<1>15. ASSUME PauseOrResume
      PROVE  TargetMoves /\ CacheMoves
  BY Zenon, <1>15 DEF TargetMoves, CacheMoves, PauseOrResume, store, ghosts
<1>16. ASSUME runPositionSaver
      PROVE  TargetMoves /\ CacheMoves
  BY Zenon, <1>16 DEF TargetMoves, CacheMoves, runPositionSaver, store, ghosts
<1>17. ASSUME Crash
      PROVE  TargetMoves /\ CacheMoves
  BY Zenon, <1>17 DEF TargetMoves, CacheMoves, Crash, store
<1>18. ASSUME UNCHANGED ddlVars
      PROVE  TargetMoves /\ CacheMoves
  BY Zenon, <1>18 DEF TargetMoves, CacheMoves, ddlVars
<1>19. ASSUME NEW ok \in BOOLEAN, NEW eff \in BOOLEAN, ReadEvent(ok, eff)
      PROVE  TargetMoves /\ CacheMoves
  BY Zenon, <1>19 DEF TargetMoves, CacheMoves, ReadEvent
<1> QED
  BY Zenon, <1>1, <1>2, <1>3, <1>4, <1>5, <1>6, <1>7, <1>8, <1>9,
     <1>10, <1>11, <1>12, <1>13, <1>14, <1>15, <1>16, <1>17, <1>18, <1>19
     DEF DDLNext, DDLStep, DMLStep, EnvStep

\* Every step keeps the cached rows in the definition the target has.
LEMMA StepCache ==
  ASSUME BaseTypes, WorkInv, Without(SchemaSlips) => SchemaInv, Without(CacheSlips) => CacheInv,
         [DDLNext]_ddlVars
  PROVE  Without(CacheSlips)' => CacheInv'
<1> SUFFICES ASSUME Without(CacheSlips)'
             PROVE  CacheInv'
  BY Zenon
<1>0. Without(CacheSlips) /\ Without(SchemaSlips) /\ Without(SchemaSlips)'
  BY Zenon, CauseGrows DEF Without, CacheSlips
<1>1. SourceDef' = SourceDef
  BY Zenon, CauseGrows, SourceDefStays
<1>2. cache \in Seq(1..Len(log)) /\ Len(log) \in Nat /\ cursor \in 0..Len(log)
  BY DEF BaseTypes, DDLTypeOK
<1>3. CASE target' # target
  <2>1. cache' = cache /\ cache = <<>>
    <3>1. "overtook" \notin cause'  BY Zenon DEF Without, CacheSlips
    <3> QED  BY Zenon, <1>3, <3>1, StepMoves DEF TargetMoves
  <2> QED  BY <2>1 DEF CacheInv
<1>4. CASE target' = target /\ cache' = cache
  BY Zenon, <1>0, <1>1, <1>4 DEF CacheInv
<1>5. CASE target' = target /\ cache # <<>> /\ cache' = Tail(cache)
  <2>1. \A i \in DOMAIN Tail(cache) : i + 1 \in DOMAIN cache /\ Tail(cache)[i] = cache[i + 1]
    BY <1>2, <1>5
  <2> QED  BY Zenon, <1>0, <1>1, <1>5, <2>1 DEF CacheInv
<1>6. ASSUME NEW load \in BOOLEAN, DMLCached(load)
      PROVE  CacheInv'
  <2>1. target' = target /\ cache' = Append(cache, cursor + 1)
        /\ log[cursor + 1] = "dml"
    BY Zenon, <1>6 DEF DMLCached, DMLPasses, TakeDML
  <2>2. target = SourceDef[cursor + 1]
    BY Zenon, <1>6, <1>0, PassedRow DEF DMLCached
  <2>3. \A i \in DOMAIN Append(cache, cursor + 1) :
           \/ i \in DOMAIN cache /\ Append(cache, cursor + 1)[i] = cache[i]
           \/ Append(cache, cursor + 1)[i] = cursor + 1
    BY <1>2
  <2> QED  BY Zenon, <1>0, <1>1, <2>1, <2>2, <2>3 DEF CacheInv
<1> QED  BY Zenon, <1>3, <1>4, <1>5, <1>6, StepMoves DEF CacheMoves

-----------------------------------------------------------------------------
(* The theorems.                                                           *)

\* The invariant holds when the consumer starts on an empty target.
LEMMA DDLInvInit == DDLInit => DDLInv
<1> SUFFICES ASSUME DDLInit
             PROVE  DDLInv
  BY Zenon
<1>1. log \in Seq({"create", "alter", "drop", "dml"}) /\ Len(log) \in Nat
  BY DDLBounds DEF DDLInit
<1>2. BaseTypes
  <2>1. lc \in Lifecycle /\ lc.state = "pending"
    BY Zenon DEF DDLInit, NewTableLifecycle, Lifecycle, States, NoState, Position, NoPos
  <2>2. row \in RowType /\ h \in HandlerType
    BY <1>1 DEF DDLInit, NoRow, AtRest, RowType, HandlerType
  <2>3. tables \in Seq(1..Len(log)) /\ target \in Seq(1..Len(log)) /\ cache \in Seq(1..Len(log))
        /\ known \in Seq(1..Len(log)) /\ history \in Seq(HistoryRows)
    BY DEF DDLInit, Absent
  <2> QED  BY <1>1, <2>1, <2>2, <2>3
           DEF DDLInit, BaseTypes, DDLTypeOK, RowType, HandlerType, HistoryRows
<1>3. WorkInv
  BY Zenon DEF DDLInit, WorkInv, HasRow, NoRow, AtRest
<1>4. FollowInv
  BY Zenon DEF DDLInit, FollowInv, HasRow, NoRow, AtRest, Settled, SettledOr
<1>5. SchemaInv
  BY Zenon, <1>1, SourceDefIs DEF DDLInit, SchemaInv, HasRow, NoRow, AtRest
<1>6. CacheInv
  BY DEF DDLInit, CacheInv
<1> QED  BY Zenon, <1>2, <1>3, <1>4, <1>5, <1>6 DEF DDLInv

\* The invariant holds of every state of every run.
LEMMA DDLInvHolds == DDLSpec => []DDLInv
<1>1. DDLInv /\ [DDLNext]_ddlVars => DDLInv'
  BY Zenon, StepDDLTypes, StepWork, StepFollow, StepSchema, StepCache DEF DDLInv
<1> QED  BY <1>1, DDLInvInit, PTL DEF DDLSpec

\* The types hold for every set of logs and every number of faults and crashes; among them
\* that the retry count of a row never passes one, because every retry starts with an
\* upsert that sets it to zero (binlog_consumer.go handleDDL, handleDDLFailure).
THEOREM DDLTypeCorrect == DDLSpec => []DDLTypeOK
  BY DDLInvHolds, PTL DEF DDLInv, BaseTypes

\* TablesFollowTarget for every log, every crash and every failure of the target database:
\* the definition in memory is the one in the target whenever no statement is pending
\* (binlog_consumer.go handleDDL, connector.go recoverFromStore).
THEOREM FollowSafe == DDLSpec => []TablesFollowTarget
<1>1. DDLInv => TablesFollowTarget
  BY Zenon DEF DDLInv, FollowInv, FollowSlips, HasRow, TablesFollowTarget
<1> QED  BY <1>1, DDLInvHolds, PTL

\* RowsMeetTheirSchema likewise: a row change that is written or replayed meets the
\* definition it was made in, whatever fails and wherever the process crashes
\* (binlog_consumer.go Route, checkDDLState, handleDDL).
THEOREM SchemaSafe == DDLSpec => RowsMeetTheirSchema
<1>1. ASSUME DDLInv, [DDLNext]_ddlVars, NEW load \in BOOLEAN, DMLToSink(load), Without(SchemaSlips)'
      PROVE  target = SourceDef[cursor + 1]
  <2>1. Without(SchemaSlips)  BY Zenon, <1>1, CauseGrows DEF Without
  <2> QED  BY Zenon, <1>1, <2>1, PassedRow DEF DDLInv, DMLToSink
<1>2. ASSUME DDLInv, ReplayCached, Without(SchemaSlips \cup {"overtook"})
      PROVE  target = SourceDef[Head(cache)]
  <2>1. cache # <<>> /\ cache \in Seq(1..Len(log))
    BY Zenon, <1>2 DEF ReplayCached, DDLInv, BaseTypes, DDLTypeOK
  <2>2. 1 \in DOMAIN cache /\ Head(cache) = cache[1]
    BY <2>1
  <2>3. CacheInv
    BY Zenon, <1>2 DEF DDLInv, CacheSlips
  <2> QED  BY Zenon, <2>2, <2>3 DEF CacheInv
<1>3. DDLInv /\ [DDLNext]_ddlVars =>
        [/\ \A load \in BOOLEAN :
              DMLToSink(load) /\ Without(SchemaSlips)' => target = SourceDef[cursor + 1]
         /\ ReplayCached /\ Without(SchemaSlips \cup {"overtook"})
              => target = SourceDef[Head(cache)]]_ddlVars
  BY Zenon, <1>1, <1>2
<1> QED  BY <1>3, DDLInvHolds, PTL DEF DDLSpec, RowsMeetTheirSchema
=============================================================================
