------------------------ MODULE MCLifecyclePipeline ------------------------
(***************************************************************************)
(* Instances of LifecyclePipeline for TLC.                                 *)
(***************************************************************************)
EXTENDS LifecyclePipeline, TLC

CONSTANTS t1, t2, db1

OneTable == {t1}
TwoTables == {t1, t2}
OneSchema == [t \in {t1, t2} |-> db1]
Nowhere == {NoPos}
=============================================================================
