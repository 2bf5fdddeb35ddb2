--------------------------- MODULE MCTaskPipeline ---------------------------
(***************************************************************************)
(* Instances of TaskPipeline for TLC.                                      *)
(***************************************************************************)
EXTENDS TaskPipeline

TwoClients == {1, 2}
=============================================================================
