---------------------------- MODULE MCDDLHandling ----------------------------
(***************************************************************************)
(* Instances of DDLHandling for TLC.                                       *)
(***************************************************************************)
EXTENDS DDLHandling

\* The logs a source can write: CREATE first, everything else on an existing table.
Legal(l) ==
  \A i \in DOMAIN l :
    LET ddls == {j \in 1..(i - 1) : l[j] \in {"create", "drop"}}
        exists == ddls # {} /\ l[CHOOSE j \in ddls : \A k \in ddls : k <= j] = "create"
    IN  exists <=> l[i] # "create"

\* Every log of three entries, and two of four: two changes in a row, and a table that is
\* dropped and created again, each with a row change behind them.
SomeLogs == {l \in [1..3 -> DDLs \cup {"dml"}] : Legal(l)}
              \cup {<<"create", "alter", "alter", "dml">>, <<"create", "drop", "create", "dml">>}

OneFailing == {<<"create", "dml", "dml", "dml", "dml", "dml">>}
=============================================================================
