---------------------------- MODULE RowDelivery ----------------------------
(***************************************************************************)
(* What the concurrent sink writer promises its caller, whatever workers,  *)
(* channels and batches it uses: events it has accepted are settled        *)
(* (written to the sink, or given up after the last retry), events with    *)
(* the same row key are settled in the order they were accepted, Close     *)
(* returns only when every accepted event is settled, and only a Write     *)
(* that meets or follows Close can make the program panic.                 *)
(***************************************************************************)
EXTENDS Naturals, Sequences

CONSTANT RowKeys

VARIABLES
  queue,    \* the row keys of the accepted events, in the order of acceptance
  settled,  \* the numbers of the events that are settled
  phase     \* "open", "closing", "closed" or "panicked"

deliveryVars == <<queue, settled, phase>>

DeliveryInit ==
  /\ queue = <<>>
  /\ settled = {}
  /\ phase = "open"

Accept(k) ==
  /\ phase \in {"open", "closing"}
  /\ queue' = Append(queue, k)
  /\ UNCHANGED <<settled, phase>>

\* Several events may be settled at once: they come to the sink as a batch.
Settle ==
  /\ phase \in {"open", "closing"}
  /\ \E S \in SUBSET (DOMAIN queue \ settled) :
       /\ S # {}
       /\ \A i \in S, j \in DOMAIN queue :
            j < i /\ queue[j] = queue[i] => j \in settled \cup S
       /\ settled' = settled \cup S
  /\ UNCHANGED <<queue, phase>>

BeginClose ==
  /\ phase = "open"
  /\ phase' = "closing"
  /\ UNCHANGED <<queue, settled>>

EndClose ==
  /\ phase = "closing"
  /\ settled = DOMAIN queue
  /\ phase' = "closed"
  /\ UNCHANGED <<queue, settled>>

Panic ==
  /\ phase \in {"closing", "closed"}
  /\ phase' = "panicked"
  /\ UNCHANGED <<queue, settled>>

DeliveryNext ==
  \/ \E k \in RowKeys : Accept(k)
  \/ Settle
  \/ BeginClose
  \/ EndClose
  \/ Panic

DeliverySafe == DeliveryInit /\ [][DeliveryNext]_deliveryVars

DeliverySpec == DeliverySafe /\ WF_deliveryVars(Settle) /\ WF_deliveryVars(EndClose)
=============================================================================
