---------------------------- MODULE OffsetStorage ----------------------------
(***************************************************************************)
(* The offset storage of the source connectors: internal/offset/storage.go *)
(* with its backends "memory", "file" and "etcd".  Every connector makes a *)
(* storage of its own (NewStorage in Initialize) and uses it under one     *)
(* key, its configured type; storages of several tasks may share the file  *)
(* or the etcd prefix.  A position is a number, 0 if there is none.        *)
(***************************************************************************)
EXTENDS Integers, FiniteSets, FiniteSetsExt

CONSTANTS
  Backends,    \* the backends to look at
  Storages,    \* the storages, one per task
  OffsetKeys,  \* the keys they are used with
  MaxSaves     \* bound: positions saved

ASSUME OffsetBounds ==
  /\ Backends \subseteq {"memory", "file", "etcd"}
  /\ MaxSaves \in Nat

VARIABLES
  backend,   \* the backend all storages use
  keyOf,     \* the key each storage is used with
  opened,    \* storages that are open
  mem,       \* the map offset of each storage
  durable,   \* the file, or etcd
  loading,   \* what a Load of each storage has got from etcd, -1 if none runs
  saves,     \* positions saved
  newest,    \* ghost: the highest position made durable since the last Delete
  tainted,   \* ghost: storages that have read a position older than the newest
  stale      \* ghost: keys whose position went back for a named cause

offsetVars == <<backend, keyOf, opened, mem, durable, loading, saves, newest, tainted, stale>>

NoOffsets == [k \in OffsetKeys |-> 0]

\* The variables keep their types, and only etcd is read by Load.
OffsetTypeOK ==
  /\ backend \in Backends
  /\ keyOf \in [Storages -> OffsetKeys]
  /\ opened \subseteq Storages
  /\ mem \in [Storages -> [OffsetKeys -> 0..saves]]
  /\ durable \in [OffsetKeys -> 0..saves]
  /\ newest \in [OffsetKeys -> 0..saves]
  /\ loading \in [Storages -> -1..saves]
  /\ \A t \in Storages : loading[t] # -1 => backend = "etcd" /\ t \in opened
  /\ saves \in 0..MaxSaves
  /\ tainted \subseteq Storages
  /\ stale \subseteq OffsetKeys

OffsetInit ==
  /\ backend \in Backends
  /\ keyOf \in [Storages -> OffsetKeys]
  /\ opened = {}
  /\ mem = [t \in Storages |-> NoOffsets]
  /\ durable = NoOffsets
  /\ loading = [t \in Storages |-> -1]
  /\ saves = 0
  /\ newest = NoOffsets
  /\ tainted = {}
  /\ stale = {}

-----------------------------------------------------------------------------
\* Storage t makes d durable.  It may take a position back for two causes: the position is
\* another task's too (a flush writes the copies of all positions), or the storage has read
\* an older position.
MakeDurable(t, d) ==
  /\ durable' = d
  /\ newest' = [newest EXCEPT ![keyOf[t]] =
       IF d[keyOf[t]] = durable[keyOf[t]] THEN @ ELSE Max({@, d[keyOf[t]]})]
  /\ stale' = {k \in OffsetKeys :
       /\ d[k] < newest[k]
       /\ \/ k \in stale
          \/ \E u \in Storages \ {t} : keyOf[u] = k
          \/ t \in tainted}

\* Storage t has read the position p.
Taint(t, p) == tainted' = IF p < newest[keyOf[t]] THEN tainted \cup {t} ELSE tainted \ {t}

\* NewStorage: all offsets are read into memory; if that fails it starts fresh.
OpenStorage(t, ok) ==
  /\ t \notin opened
  /\ opened' = opened \cup {t}
  /\ mem' = [mem EXCEPT ![t] = IF ok /\ backend # "memory" THEN durable ELSE NoOffsets]
  /\ Taint(t, mem'[t][keyOf[t]])
  /\ UNCHANGED <<backend, keyOf, durable, loading, saves, newest, stale>>

\* Plausible bug: Save puts the position to etcd and not into the map, which
\* the next flush writes over it.
SaveOffsetOnlyEtcd(t, put) ==
  /\ t \in opened
  /\ saves < MaxSaves
  /\ saves' = saves + 1
  /\ IF backend = "etcd" /\ put
     THEN MakeDurable(t, [durable EXCEPT ![keyOf[t]] = saves + 1]) /\ UNCHANGED mem
     ELSE mem' = [mem EXCEPT ![t][keyOf[t]] = saves + 1] /\ UNCHANGED <<durable, newest, stale>>
  /\ tainted' = tainted \ {t}
  /\ UNCHANGED <<backend, keyOf, opened, loading>>

\* Etcd is written at once, after the memory; the Put may fail.
SaveOffset(t, put) ==
  /\ t \in opened
  /\ saves < MaxSaves
  /\ saves' = saves + 1
  /\ mem' = [mem EXCEPT ![t][keyOf[t]] = saves + 1]
  /\ IF backend = "etcd" /\ put
     THEN MakeDurable(t, [durable EXCEPT ![keyOf[t]] = saves + 1])
     ELSE UNCHANGED <<durable, newest, stale>>
  /\ tainted' = tainted \ {t}
  /\ UNCHANGED <<backend, keyOf, opened, loading>>

\* A Load that finds nothing in memory asks etcd, without the lock.
LoadAsks(t) ==
  /\ t \in opened
  /\ backend = "etcd"
  /\ loading[t] = -1
  /\ mem[t][keyOf[t]] = 0
  /\ durable[keyOf[t]] # 0
  /\ loading' = [loading EXCEPT ![t] = durable[keyOf[t]]]
  /\ UNCHANGED <<backend, keyOf, opened, mem, durable, saves, newest, tainted, stale>>

LoadStores(t) ==
  /\ loading[t] # -1
  /\ mem' = [mem EXCEPT ![t][keyOf[t]] = loading[t]]
  /\ Taint(t, loading[t])
  /\ loading' = [loading EXCEPT ![t] = -1]
  /\ UNCHANGED <<backend, keyOf, opened, durable, saves, newest, stale>>

DeleteOffset(t, del) ==
  /\ t \in opened
  /\ mem' = [mem EXCEPT ![t][keyOf[t]] = 0]
  /\ durable' = IF backend = "etcd" /\ del THEN [durable EXCEPT ![keyOf[t]] = 0] ELSE durable
  /\ newest' = [newest EXCEPT ![keyOf[t]] = 0]
  /\ UNCHANGED <<backend, keyOf, opened, loading, saves, tainted, stale>>

\* autoFlush of a file: a temporary file, renamed.
FlushFile(t) ==
  /\ t \in opened
  /\ backend = "file"
  /\ MakeDurable(t, mem[t])
  /\ UNCHANGED <<backend, keyOf, opened, mem, loading, saves, tainted>>

\* autoFlush of etcd puts the entries of the map one by one.
FlushEntry(t, k) ==
  /\ t \in opened
  /\ backend = "etcd"
  /\ mem[t][k] # 0
  /\ MakeDurable(t, [durable EXCEPT ![k] = mem[t][k]])
  /\ UNCHANGED <<backend, keyOf, opened, mem, loading, saves, tainted>>

Forget(t) ==
  /\ opened' = opened \ {t}
  /\ mem' = [mem EXCEPT ![t] = NoOffsets]
  /\ loading' = [loading EXCEPT ![t] = -1]
  /\ tainted' = tainted \ {t}
  /\ UNCHANGED <<backend, keyOf, saves>>

\* Close flushes the file; it does not flush to etcd.
CloseStorage(t, written) ==
  /\ t \in opened
  /\ IF backend = "file" /\ written THEN MakeDurable(t, mem[t])
     ELSE UNCHANGED <<durable, newest, stale>>
  /\ Forget(t)

CrashStorage(t) ==
  /\ t \in opened
  /\ Forget(t)
  /\ UNCHANGED <<durable, newest, stale>>

-----------------------------------------------------------------------------
OffsetNext ==
  \E t \in Storages :
    \/ \E ok \in BOOLEAN :
         OpenStorage(t, ok) \/ SaveOffset(t, ok) \/ DeleteOffset(t, ok) \/ CloseStorage(t, ok)
    \/ LoadAsks(t) \/ LoadStores(t)
    \/ FlushFile(t)
    \/ \E k \in OffsetKeys : FlushEntry(t, k)
    \/ CrashStorage(t)

OffsetSpec == OffsetInit /\ [][OffsetNext]_offsetVars

-----------------------------------------------------------------------------
\* The durable position of a task never goes back (a restart would deliver
\* again what it has delivered, or find no position and start elsewhere).  The
\* exceptions are complete: a flush writes the whole map, with the copies of
\* other tasks' positions the storage read when it was opened; two tasks use
\* the same key (the connectors use their type); a storage that failed to read
\* the offsets has an empty map; a Load stores what it read before a Save.
PositionNotLost == \A k \in OffsetKeys : durable[k] >= newest[k] \/ k \in stale
=============================================================================
