----------------------------- MODULE CacheFiles -----------------------------
(***************************************************************************)
(* The files of the binlog cache (internal/cache/local_backend.go).        *)
(*                                                                         *)
(* A file is a sequence of records; a record that was cut off is not       *)
(* whole.  The backend keeps an open handle per table ID, which goes on    *)
(* referring to the file it was opened on after the name is removed.  Two  *)
(* table IDs may give the same file name (sanitizeTableID).  An event is   *)
(* known by its number.  The file system is external: a write may be cut   *)
(* off, a sync may fail, and a power failure keeps what was synced.        *)
(***************************************************************************)
EXTENDS Integers, Sequences

CONSTANTS
  CacheTables,   \* table IDs
  FileNames,     \* file names
  SyncModes,     \* the sync modes to look at
  MaxCached,     \* bound: events cached
  MaxFiles,      \* bound: files created
  MaxFailures    \* bound: crashes, failed writes and truncations

ASSUME CacheBounds ==
  /\ SyncModes \subseteq {"every", "batch", "none"}
  /\ {MaxCached, MaxFiles, MaxFailures} \subseteq Nat

VARIABLES
  fileOf,     \* the file name of each table
  syncMode,   \* syncMode of the backend
  nameAt,     \* the file each name refers to, 0 if there is none
  content,    \* the records of each file created so far
  synced,     \* how many records of each file are synced
  handle,     \* the file each table's open handle refers to, 0 for none
  cached,     \* events given to the cache
  ackedEvents,      \* ghost: events of each table whose write returned nil
  current,    \* ghost: events of each table written since its last Delete
  gone,       \* ghost: events whose loss has a named cause
  failures    \* crashes, failed writes and truncations

cacheGhosts == <<ackedEvents, current, gone>>
cacheVars == <<fileOf, syncMode, nameAt, content, synced, handle, cached, cacheGhosts, failures>>

CacheRecords == [ev : 1..MaxCached, whole : BOOLEAN]

EventsIn(s) == {s[i].ev : i \in DOMAIN s}

\* The records of a file that a reader gets: it stops at the first record that
\* was cut off.
Readable(s) == {s[i].ev : i \in {j \in DOMAIN s : \A k \in 1..j : s[k].whole}}

\* What Read of a table gives: it opens the name afresh.
ReadBack(t) == IF nameAt[fileOf[t]] = 0 THEN {} ELSE Readable(content[nameAt[fileOf[t]]])

-----------------------------------------------------------------------------

\* getFile: the cached handle, or the file of that name, created if missing.
FileFor(t) ==
  IF handle[t] # 0 THEN handle[t]
  ELSE IF nameAt[fileOf[t]] # 0 THEN nameAt[fileOf[t]]
  ELSE Len(content) + 1

\* marshalAndWrite of the events from `cached + 1', the last one cut off if
\* `cut', and the sync after it.
PutRecords(t, n, cut, sync) ==
  LET f == FileFor(t)
      new == [i \in 1..n |-> [ev |-> cached + i, whole |-> ~(cut /\ i = n)]]
      old == IF f \in DOMAIN content THEN content[f] ELSE <<>>
      same == IF f \in DOMAIN content THEN synced[f] ELSE 0
  IN /\ f <= MaxFiles
     /\ cached + n <= MaxCached
     /\ cached' = cached + n
     /\ content' = [i \in DOMAIN content \cup {f} |-> IF i = f THEN old \o new ELSE content[i]]
     /\ synced' = [i \in DOMAIN content \cup {f} |->
          IF i # f THEN synced[i] ELSE IF sync THEN Len(old) + n ELSE same]
     /\ handle' = [handle EXCEPT ![t] = f]
     /\ nameAt' = IF handle[t] = 0 THEN [nameAt EXCEPT ![fileOf[t]] = f] ELSE nameAt
     /\ current' = [current EXCEPT ![t] = @ \cup EventsIn(new)]
     \* written to a file whose name another table removed, or behind a record
     \* that was cut off
     /\ gone' = IF \/ nameAt'[fileOf[t]] # f /\ \E u \in CacheTables \ {t} : fileOf[u] = fileOf[t]
                   \/ \E i \in DOMAIN old : ~old[i].whole
                THEN gone \cup EventsIn(new) ELSE gone

\* Write and WriteBatch that return nil.
WriteEvents(t, n) ==
  /\ PutRecords(t, n, FALSE, IF n = 1 THEN syncMode = "every" ELSE syncMode # "none")
  /\ ackedEvents' = [ackedEvents EXCEPT ![t] = @ \cup (cached + 1)..(cached + n)]
  /\ UNCHANGED <<fileOf, syncMode, failures>>

\* The write of the last record is cut off, or the sync fails: the caller gets
\* an error and the records stay in the file.
WriteError(t, n, cut) ==
  /\ failures < MaxFailures
  /\ cut \/ (IF n = 1 THEN syncMode = "every" ELSE syncMode # "none")
  /\ PutRecords(t, n, cut, FALSE)
  /\ failures' = failures + 1
  /\ UNCHANGED <<fileOf, syncMode, ackedEvents>>

\* Plausible bug: Delete leaves the handle in the map.
DeleteCacheKeepsHandle(t) ==
  /\ nameAt' = [nameAt EXCEPT ![fileOf[t]] = 0]
  /\ ackedEvents' = [ackedEvents EXCEPT ![t] = {}]
  /\ current' = [current EXCEPT ![t] = {}]
  /\ gone' = IF nameAt[fileOf[t]] = 0 THEN gone
             ELSE gone \cup (EventsIn(content[nameAt[fileOf[t]]]) \ current[t])
  /\ UNCHANGED <<fileOf, syncMode, content, synced, handle, cached, failures>>

\* Delete closes the handle and removes the file.  The events of another table
\* in the same file go with it.
DeleteCache(t) ==
  /\ handle' = [handle EXCEPT ![t] = 0]
  /\ nameAt' = [nameAt EXCEPT ![fileOf[t]] = 0]
  /\ ackedEvents' = [ackedEvents EXCEPT ![t] = {}]
  /\ current' = [current EXCEPT ![t] = {}]
  /\ gone' = IF nameAt[fileOf[t]] = 0 THEN gone
             ELSE gone \cup (EventsIn(content[nameAt[fileOf[t]]]) \ current[t])
  /\ UNCHANGED <<fileOf, syncMode, content, synced, cached, failures>>

\* The file cannot be removed: the handle is closed, the records stay.
DeleteCacheFails(t) ==
  /\ nameAt[fileOf[t]] # 0
  /\ failures < MaxFailures
  /\ failures' = failures + 1
  /\ handle' = [handle EXCEPT ![t] = 0]
  /\ UNCHANGED <<fileOf, syncMode, nameAt, content, synced, cached, cacheGhosts>>

\* Sync forces the file of an open handle to disk.
SyncCache(t) ==
  /\ handle[t] # 0
  /\ synced' = [synced EXCEPT ![handle[t]] = Len(content[handle[t]])]
  /\ UNCHANGED <<fileOf, syncMode, nameAt, content, handle, cached, cacheGhosts, failures>>

-----------------------------------------------------------------------------

\* A record is [length][checksum][payload][length]; the payload is given as all
\* but its last four bytes, and those.
LengthField(n) == <<"length", n>>

PayloadFront(n) == <<"front", n>>

PayloadBack(n) == <<"back", n>>

\* What the writer's checksum covers: length and payload.
WriterChecksum(n) == <<LengthField(n), PayloadFront(n), PayloadBack(n)>>

\* What the scan's checksum covers: the first 4 + len(payload) bytes of the
\* record, which are length, checksum and all but the end of the payload.
ScanChecksum(n) == <<LengthField(n), WriterChecksum(n), PayloadFront(n)>>

\* TruncateToLastComplete: back from the end to a record whose checksum agrees;
\* if none does the file is emptied.  Only the first case drops the handle.
TruncateToLastComplete(t) ==
  LET f == nameAt[fileOf[t]]
      valid == {i \in DOMAIN content[f] :
                  content[f][i].whole
                  /\ WriterChecksum(content[f][i].ev) = ScanChecksum(content[f][i].ev)}
      last == IF valid = {} THEN 0 ELSE CHOOSE i \in valid : \A j \in valid : j <= i
  IN /\ f # 0
     /\ content[f] # <<>>
     /\ failures < MaxFailures
     /\ failures' = failures + 1
     /\ content' = [content EXCEPT ![f] = SubSeq(@, 1, last)]
     /\ synced' = [synced EXCEPT ![f] = IF @ < last THEN @ ELSE last]
     /\ handle' = IF last = 0 THEN handle ELSE [handle EXCEPT ![t] = 0]
     /\ gone' = gone \cup EventsIn(SubSeq(content[f], last + 1, Len(content[f])))
     /\ UNCHANGED <<fileOf, syncMode, nameAt, cached, ackedEvents, current>>

\* Close, or the process ends: the handles are gone.
CloseFiles ==
  /\ \E t \in CacheTables : handle[t] # 0
  /\ handle' = [t \in CacheTables |-> 0]
  /\ UNCHANGED <<fileOf, syncMode, nameAt, content, synced, cached, cacheGhosts, failures>>

\* The machine goes down: of each file at least the synced records are left,
\* and the next one may be cut off.  What is left is on disk.
PowerFails ==
  /\ failures < MaxFailures
  /\ failures' = failures + 1
  /\ handle' = [t \in CacheTables |-> 0]
  /\ \E keep \in [DOMAIN content -> 0..MaxCached], cut \in BOOLEAN :
       /\ \A f \in DOMAIN content : keep[f] \in synced[f]..Len(content[f])
       /\ content' = [f \in DOMAIN content |->
            IF cut /\ keep[f] < Len(content[f])
            THEN SubSeq(content[f], 1, keep[f]) \o <<[content[f][keep[f] + 1] EXCEPT !.whole = FALSE]>>
            ELSE SubSeq(content[f], 1, keep[f])]
       /\ gone' = gone \cup UNION {EventsIn(SubSeq(content[f], keep[f] + 1, Len(content[f]))) :
                                     f \in DOMAIN content}
  /\ synced' = [f \in DOMAIN content |-> Len(content'[f])]
  /\ UNCHANGED <<fileOf, syncMode, nameAt, cached, ackedEvents, current>>

-----------------------------------------------------------------------------

CacheInit ==
  /\ fileOf \in [CacheTables -> FileNames]
  /\ syncMode \in SyncModes
  /\ nameAt = [n \in FileNames |-> 0]
  /\ content = <<>>
  /\ synced = <<>>
  /\ handle = [t \in CacheTables |-> 0]
  /\ cached = 0
  /\ ackedEvents = [t \in CacheTables |-> {}]
  /\ current = [t \in CacheTables |-> {}]
  /\ gone = {}
  /\ failures = 0

CacheNext ==
  \/ \E t \in CacheTables :
       \/ \E n \in 1..2 : WriteEvents(t, n) \/ \E cut \in BOOLEAN : WriteError(t, n, cut)
       \/ DeleteCache(t)
       \/ DeleteCacheFails(t)
       \/ SyncCache(t)
       \/ TruncateToLastComplete(t)
  \/ CloseFiles
  \/ PowerFails

CacheSpec == CacheInit /\ [][CacheNext]_cacheVars

-----------------------------------------------------------------------------

\* Type invariant: a name and a handle refer to files that were created, and no
\* more of a file is synced than it holds (getFile, Sync, Truncate).
CacheTypeOK ==
  /\ DOMAIN content \subseteq 1..MaxFiles
  /\ \A f \in DOMAIN content :
       content[f] \in Seq(CacheRecords) /\ synced[f] \in 0..Len(content[f])
  /\ nameAt \in [FileNames -> {0} \cup DOMAIN content]
  /\ handle \in [CacheTables -> {0} \cup DOMAIN content]
  /\ cached \in 0..MaxCached /\ failures \in 0..MaxFailures
  /\ ackedEvents \in [CacheTables -> SUBSET (1..cached)]
  /\ current \in [CacheTables -> SUBSET (1..cached)]
  /\ gone \subseteq 1..cached

\* An event whose write returned nil is read back until its table's Delete,
\* whatever closes, reopens, failed removals and syncs come between, with these
\* exceptions: it lies behind a record that was cut off, the power failed before
\* it was synced, the file was truncated, or a table that shares the file name
\* was deleted, before it was written or after.  And nothing else is read back
\* than what was written, since its last Delete, to the table or to one that
\* shares its file name: after a reset the events of the earlier run do not
\* return, not even through a handle that was open on the removed file
\* (local_backend.go Write, Read, Delete, getFile).
CacheReadsBack ==
  \A t \in CacheTables :
    /\ ackedEvents[t] \ gone \subseteq ReadBack(t)
    /\ ReadBack(t) \subseteq
         UNION {current[u] : u \in {v \in CacheTables : fileOf[v] = fileOf[t]}}
=============================================================================
