------------------------- MODULE MCConcurrentWriter -------------------------
(***************************************************************************)
(* The concurrent writer with two rows: an update in place, an update that *)
(* changes the key and a delete, and hashes that put the rows on one       *)
(* worker or on two.                                                       *)
(***************************************************************************)
EXTENDS ConcurrentWriter

CONSTANTS k1, k2

TwoRows == {k1, k2}

FewEvents == {[found |-> k1, left |-> k1], [found |-> k1, left |-> k2],
              [found |-> k2, left |-> NoRow]}

TwoHashes == {[k \in TwoRows \cup {TableKey} |-> 1],
              [k \in TwoRows \cup {TableKey} |-> IF k = k1 THEN 1 ELSE 2]}
=============================================================================
