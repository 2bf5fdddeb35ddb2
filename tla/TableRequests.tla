--------------------------- MODULE TableRequests ---------------------------
(***************************************************************************)
(* The table manager (internal/source/table_manager.go) behind the REST    *)
(* handlers (internal/api/tables.go).                                      *)
(*                                                                         *)
(* A request changes the tables under the lock and, after it has released  *)
(* the lock, sends one event per table to a channel; whoever reads the     *)
(* channel (external) keeps the tables it syncs in step.  A request that   *)
(* fails at one of its tables keeps what it did before and sends nothing.  *)
(***************************************************************************)
EXTENDS Integers, Sequences

CONSTANTS
  Managed,       \* tables
  Requests,      \* concurrent requests
  EventCap,      \* capacity of eventCh
  MaxRequests    \* bound: requests served

ASSUME RequestBounds == EventCap \in Nat /\ MaxRequests \in Nat

VARIABLES
  syncTables,   \* status of each table: "none" if it is not managed, "paused", or
                \* "active" for the others
  unsent,       \* events each request has yet to send
  eventCh,      \* events sent
  view,         \* the tables as the reader of the events has them
  served,       \* requests served
  astray        \* ghost: tables whose events were lost or may be out of order

tableVars == <<syncTables, unsent, eventCh, view, served, astray>>

Ops == {"add", "remove", "pause", "resume"}

\* The status an operation gives.
Becomes(op) ==
  CASE op = "add" -> "active" [] op = "remove" -> "none"
    [] op = "pause" -> "paused" [] op = "resume" -> "active"

\* AddTables refuses a managed table, the others one that is not.
Accepts(op, s) == (op = "add") = (s = "none")

\* Some other request has still to send an event of the table.
Overlaps(r, t) ==
  \E q \in Requests \ {r} : \E i \in DOMAIN unsent[q] : unsent[q][i].table = t

-----------------------------------------------------------------------------

\* Plausible bug: ResumeTable sends no event.
EventsOfNoResume(op, ts) ==
  IF op = "resume" THEN <<>> ELSE [i \in DOMAIN ts |-> [op |-> op, table |-> ts[i]]]

\* The events of a request that changed these tables.
EventsOf(op, ts) == [i \in DOMAIN ts |-> [op |-> op, table |-> ts[i]]]

\* AddTables, RemoveTables, PauseTable, ResumeTable up to the unlock.  The tables
\* are taken in turn up to one that is refused, or whose schema cannot be fetched;
\* PauseTable and ResumeTable take one.
Request(r, op, ts, n) ==
  LET done == {ts[i] : i \in 1..n}
      new == [t \in Managed |-> IF t \in done THEN Becomes(op) ELSE syncTables[t]]
      late == {t \in done : Overlaps(r, t)}
  IN /\ unsent[r] = <<>>
     /\ served < MaxRequests
     /\ \A i \in 1..n : Accepts(op, syncTables[ts[i]]) /\ \A j \in 1..(i - 1) : ts[j] # ts[i]
     /\ n < Len(ts) => \/ op = "add"
                       \/ ~Accepts(op, syncTables[ts[n + 1]])
                       \/ ts[n + 1] \in done
     /\ served' = served + 1
     /\ syncTables' = new
     /\ unsent' = [unsent EXCEPT ![r] = IF n = Len(ts) THEN EventsOf(op, ts) ELSE <<>>]
     /\ astray' = IF n < Len(ts) THEN astray \cup done
                  ELSE (astray \ done) \cup late
     /\ UNCHANGED <<eventCh, view>>

\* The next event of the request, when the channel has room.
SendTableEvent(r) ==
  /\ unsent[r] # <<>>
  /\ Len(eventCh) < EventCap
  /\ eventCh' = Append(eventCh, Head(unsent[r]))
  /\ unsent' = [unsent EXCEPT ![r] = Tail(@)]
  /\ UNCHANGED <<syncTables, view, served, astray>>

\* The request's context ends while it sends: the rest of its events are lost.
CancelRequest(r) ==
  /\ unsent[r] # <<>>
  /\ astray' = astray \cup {unsent[r][i].table : i \in DOMAIN unsent[r]}
  /\ unsent' = [unsent EXCEPT ![r] = <<>>]
  /\ UNCHANGED <<syncTables, eventCh, view, served>>

\* UpdateTableStatus changes a status and sends no event.
UpdateTableStatus(t, s) ==
  /\ syncTables[t] # "none"
  /\ served < MaxRequests
  /\ served' = served + 1
  /\ syncTables' = [syncTables EXCEPT ![t] = s]
  /\ astray' = astray \cup {t}
  /\ UNCHANGED <<unsent, eventCh, view>>

\* The reader takes an event.
TakeTableEvent ==
  /\ eventCh # <<>>
  /\ view' = [view EXCEPT ![Head(eventCh).table] = Becomes(Head(eventCh).op)]
  /\ eventCh' = Tail(eventCh)
  /\ UNCHANGED <<syncTables, unsent, served, astray>>

-----------------------------------------------------------------------------

\* NewTableManager takes the tables of the scope; the reader starts with the same.
TableInit ==
  /\ syncTables \in [Managed -> {"none", "active"}]
  /\ unsent = [r \in Requests |-> <<>>]
  /\ eventCh = <<>>
  /\ view = syncTables
  /\ served = 0
  /\ astray = {}

TableNext ==
  \/ \E r \in Requests :
       \/ \E op \in {"add", "remove"}, ts \in {<<t>> : t \in Managed} \cup (Managed \X Managed) :
            \E n \in 0..Len(ts) : Request(r, op, ts, n)
       \/ \E op \in {"pause", "resume"}, t \in Managed : Request(r, op, <<t>>, 1)
       \/ SendTableEvent(r)
       \/ CancelRequest(r)
  \/ \E t \in Managed, s \in {"active", "paused"} : UpdateTableStatus(t, s)
  \/ TakeTableEvent

TableSpec == TableInit /\ [][TableNext]_tableVars

-----------------------------------------------------------------------------

\* Type invariant: the channel keeps to its capacity.
TableTypeOK ==
  /\ syncTables \in [Managed -> {"none", "active", "paused"}]
  /\ view \in [Managed -> {"none", "active", "paused"}]
  /\ unsent \in [Requests -> Seq([op : Ops, table : Managed])]
  /\ eventCh \in Seq([op : Ops, table : Managed]) /\ Len(eventCh) <= EventCap
  /\ served \in 0..MaxRequests /\ astray \subseteq Managed

\* When no event of a table is on its way, the reader of the events has the table
\* as the manager has it, unless the last request for the table failed at a later
\* table, was cancelled before it had sent, ran beside another one for the same
\* table, whose event may come after its own, or was UpdateTableStatus
\* (table_manager.go AddTables, RemoveTables, PauseTable, ResumeTable).
ReaderAgrees ==
  \A t \in Managed :
    \/ \E r \in Requests : \E i \in DOMAIN unsent[r] : unsent[r][i].table = t
    \/ \E i \in DOMAIN eventCh : eventCh[i].table = t
    \/ view[t] = syncTables[t]
    \/ t \in astray
=============================================================================
