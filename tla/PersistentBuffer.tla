-------------------------- MODULE PersistentBuffer --------------------------
(***************************************************************************)
(* The persistent event buffer (internal/pipeline/persistent_buffer.go)    *)
(* over the memory buffer (internal/pipeline/buffer.go).                   *)
(*                                                                         *)
(* Every event is stored in Badger under a key of a sequence number, the   *)
(* second and the table, and put into the memory queue.  Nothing deletes   *)
(* an event from the store but Clear, and the sequence starts at zero in   *)
(* every process.  An event is known by its number; tables are left out    *)
(* (all events are of one table).  Badger is external: a write that        *)
(* returned is kept by a crash of the process.  There is one producer: two *)
(* concurrent Puts, which share the read lock, may come to the queue in    *)
(* another order than to the store, and are left out.                      *)
(***************************************************************************)
EXTENDS Integers, Sequences, FiniteSets

CONSTANTS
  BufferCap,     \* capacity of the memory queue
  MaxPuts,       \* bound: events put
  MaxSeconds,    \* bound: seconds that pass
  MaxOpens       \* bound: processes that open the buffer

ASSUME BufferBounds == {BufferCap, MaxPuts, MaxSeconds, MaxOpens} \subseteq Nat \ {0}

VARIABLES
  bufOpen,     \* the buffer is open
  bufSeq,      \* seq
  second,      \* the clock
  disk,        \* the store: key to event
  queue,       \* the memory queue
  replaying,   \* keys and events the running Replay has yet to read, {} if none runs
  puts,        \* events put
  kept,        \* ghost: events whose Put returned nil
  given,       \* ghost: events handed out by this process, in order
  clashed,     \* ghost: events whose key was used again
  cleared,     \* ghost: events a Clear removed
  madeBy,      \* ghost: the process that put each event
  fresh,       \* ghost: this process has neither put nor replayed yet
  muddled,     \* ghost: a replay of this process was not the first thing it did,
               \* or found events of two processes
  opens        \* processes that opened the buffer

bufGhosts == <<kept, given, clashed, cleared, madeBy, fresh, muddled>>
bufVars == <<bufOpen, bufSeq, second, disk, queue, replaying, puts, bufGhosts, opens>>

BufKeys == (1..MaxPuts) \X (0..MaxSeconds)

\* The order of the keys in the store.
KeyBefore(a, b) == a[1] < b[1] \/ (a[1] = b[1] /\ a[2] < b[2])

FirstEntry(es) == CHOOSE x \in es : \A y \in es \ {x} : KeyBefore(x[1], y[1])

-----------------------------------------------------------------------------

\* NewPersistentBuffer: the store is found as it was left, the rest is new.
OpenBuffer ==
  /\ ~bufOpen
  /\ opens < MaxOpens
  /\ opens' = opens + 1
  /\ bufOpen' = TRUE
  /\ bufSeq' = 0
  /\ queue' = <<>>
  /\ replaying' = {}
  /\ given' = <<>>
  /\ fresh' = TRUE
  /\ muddled' = FALSE
  /\ UNCHANGED <<second, disk, puts, kept, clashed, cleared, madeBy>>

StoreAt(key, e) == [k \in DOMAIN disk \cup {key} |-> IF k = key THEN e ELSE disk[k]]

\* Plausible bug: Put does not take the lock.
PutEventUnlocked(stored, queued) ==
  LET key == <<bufSeq + 1, second>>
      e == puts + 1
  IN /\ bufOpen
     /\ puts < MaxPuts
     /\ queued => stored /\ Len(queue) < BufferCap
     /\ puts' = e
     /\ bufSeq' = bufSeq + 1
     /\ disk' = IF stored THEN StoreAt(key, e) ELSE disk
     /\ queue' = IF queued THEN Append(queue, e) ELSE queue
     /\ kept' = IF queued THEN kept \cup {e} ELSE kept
     /\ clashed' = IF stored /\ key \in DOMAIN disk THEN clashed \cup {disk[key]} ELSE clashed
     /\ madeBy' = Append(madeBy, opens)
     /\ fresh' = FALSE
     /\ UNCHANGED <<bufOpen, second, replaying, given, cleared, muddled, opens>>

\* Plausible bug: only what the queue refuses is stored.
PutEventSpill(stored, queued) ==
  LET key == <<bufSeq + 1, second>>
      e == puts + 1
  IN /\ bufOpen /\ replaying = {}
     /\ puts < MaxPuts
     /\ queued => stored /\ Len(queue) < BufferCap
     /\ puts' = e
     /\ bufSeq' = bufSeq + 1
     /\ disk' = IF stored /\ ~queued THEN StoreAt(key, e) ELSE disk
     /\ queue' = IF queued THEN Append(queue, e) ELSE queue
     /\ kept' = IF queued THEN kept \cup {e} ELSE kept
     /\ clashed' = IF stored /\ ~queued /\ key \in DOMAIN disk THEN clashed \cup {disk[key]} ELSE clashed
     /\ madeBy' = Append(madeBy, opens)
     /\ fresh' = FALSE
     /\ UNCHANGED <<bufOpen, second, replaying, given, cleared, muddled, opens>>

\* Put stores the event and then offers it to the memory queue, which refuses it
\* when it is full and may do so when the context has ended: the caller gets an
\* error and the event stays in the store.  The store may fail, with its effect or
\* without it.  Put waits while a Replay holds the lock.
PutEvent(stored, queued) ==
  LET key == <<bufSeq + 1, second>>
      e == puts + 1
  IN /\ bufOpen /\ replaying = {}
     /\ puts < MaxPuts
     /\ queued => stored /\ Len(queue) < BufferCap
     /\ puts' = e
     /\ bufSeq' = bufSeq + 1
     /\ disk' = IF stored THEN StoreAt(key, e) ELSE disk
     /\ queue' = IF queued THEN Append(queue, e) ELSE queue
     /\ kept' = IF queued THEN kept \cup {e} ELSE kept
     /\ clashed' = IF stored /\ key \in DOMAIN disk THEN clashed \cup {disk[key]} ELSE clashed
     /\ madeBy' = Append(madeBy, opens)
     /\ fresh' = FALSE
     /\ UNCHANGED <<bufOpen, second, replaying, given, cleared, muddled, opens>>

\* Get takes from the memory queue and leaves the store alone.
GetEvent ==
  /\ queue # <<>>
  /\ given' = Append(given, Head(queue))
  /\ queue' = Tail(queue)
  /\ UNCHANGED <<bufOpen, bufSeq, second, disk, replaying, puts, kept, clashed, cleared,
                 madeBy, fresh, muddled, opens>>

\* Replay reads the whole store in key order, under the lock.  MaxPuts also bounds
\* what a process has handed out and queued when it replays.
BeginReplay ==
  /\ bufOpen /\ replaying = {}
  /\ DOMAIN disk # {}
  /\ Len(given) + Len(queue) <= MaxPuts
  /\ replaying' = {<<k, disk[k]>> : k \in DOMAIN disk}
  /\ fresh' = FALSE
  /\ muddled' = (muddled \/ ~fresh \/ Cardinality({madeBy[disk[k]] : k \in DOMAIN disk}) > 1)
  /\ UNCHANGED <<bufOpen, bufSeq, second, disk, queue, puts, kept, given, clashed, cleared,
                 madeBy, opens>>

\* One event of the replay, which is left out if it cannot be decoded, or the end
\* of the replay with an error, at a full queue or when the context has ended.
ReplayEvent ==
  /\ replaying # {}
  /\ \/ LET x == FirstEntry(replaying)
        IN /\ replaying' = replaying \ {x}
           /\ \/ Len(queue) < BufferCap /\ queue' = Append(queue, x[2])
              \/ UNCHANGED queue
     \/ replaying' = {} /\ UNCHANGED queue
  /\ UNCHANGED <<bufOpen, bufSeq, second, disk, puts, bufGhosts, opens>>

\* Clear drops the whole store, without the lock.  A Replay that runs reads on what
\* its iterator holds, or ends with an error; that Badger may panic under it is an
\* end of the process.
ClearStore ==
  /\ bufOpen
  /\ DOMAIN disk # {}
  /\ cleared' = cleared \cup {disk[k] : k \in DOMAIN disk}
  /\ disk' = <<>>
  /\ UNCHANGED <<bufOpen, bufSeq, second, queue, replaying, puts, kept, given, clashed,
                 madeBy, fresh, muddled, opens>>

\* Close, which waits for a Replay, or the end of the process.  What is queued
\* can be taken until the next process starts with an empty queue.
EndBuffer ==
  /\ bufOpen
  /\ bufOpen' = FALSE
  /\ replaying' = {}
  /\ UNCHANGED <<bufSeq, second, disk, queue, puts, bufGhosts, opens>>

SecondPasses ==
  /\ second < MaxSeconds
  /\ second' = second + 1
  /\ UNCHANGED <<bufOpen, bufSeq, disk, queue, replaying, puts, bufGhosts, opens>>

-----------------------------------------------------------------------------

BufferInit ==
  /\ bufOpen = FALSE
  /\ bufSeq = 0 /\ second = 0 /\ puts = 0 /\ opens = 0
  /\ disk = <<>> /\ queue = <<>> /\ given = <<>>
  /\ replaying = {} /\ kept = {} /\ clashed = {} /\ cleared = {}
  /\ madeBy = <<>> /\ fresh = TRUE /\ muddled = FALSE

BufferNext ==
  \/ OpenBuffer \/ GetEvent
  \/ \E stored, queued \in BOOLEAN : PutEvent(stored, queued)
  \/ BeginReplay \/ ReplayEvent
  \/ ClearStore \/ EndBuffer \/ SecondPasses

BufferSpec == BufferInit /\ [][BufferNext]_bufVars

-----------------------------------------------------------------------------

\* Type invariant: the queue keeps to its capacity and the store holds events.
BufferTypeOK ==
  /\ bufOpen \in BOOLEAN /\ opens \in 0..MaxOpens
  /\ bufSeq \in 0..puts /\ puts \in 0..MaxPuts /\ second \in 0..MaxSeconds
  /\ DOMAIN disk \subseteq BufKeys /\ \A k \in DOMAIN disk : disk[k] \in 1..puts
  /\ queue \in Seq(1..puts) /\ Len(queue) <= BufferCap
  /\ replaying \subseteq BufKeys \X (1..puts)
  /\ {kept, clashed, cleared} \subseteq SUBSET (1..puts)
  /\ given \in Seq(1..puts) /\ madeBy \in [1..puts -> 1..MaxOpens]

\* An event whose Put returned nil can be replayed, also by a later process, unless
\* Clear removed it or a later process gave its key to another event: the sequence
\* starts over, and the key differs only by the second
\* (persistent_buffer.go Put, nextSeq, makeKey).
PutIsStored ==
  kept \subseteq {disk[k] : k \in DOMAIN disk} \cup clashed \cup cleared

\* A process hands events out in the order they were put, each once, unless it
\* replayed after it had put or replayed before, or found the events of several
\* processes, whose keys interleave (persistent_buffer.go Replay, Get).
GivenInOrder ==
  muddled \/ \A i, j \in DOMAIN given : i < j => given[i] < given[j]
=============================================================================
