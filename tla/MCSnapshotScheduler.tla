------------------------ MODULE MCSnapshotScheduler ------------------------
(***************************************************************************)
(* Two instances of SnapshotScheduler for TLC, side by side: a behaviour   *)
(* picks one of them in its initial state.                                 *)
(***************************************************************************)
EXTENDS SnapshotScheduler, TLC

CONSTANTS t1, t2, db1

TwoTables == {t1, t2}

SameSchema == [t \in TwoTables |-> db1]

SomePositions == {NoPos, 1, 2}

VARIABLE instance

\* One table (the other is never added) with every kind of request.
One == INSTANCE SnapshotScheduler WITH
  Tables <- {t1},
  Features <- {"readd", "api", "pause", "progress"},
  StartPositions <- {NoPos, 1, 2},
  MaxRuns <- 2

\* Two tables of one schema, which RestartSchema restarts in a loop.
Two == INSTANCE SnapshotScheduler WITH
  Features <- {"api"},
  Positions <- {2},
  StartPositions <- {1},
  MaxRuns <- 1

SchedulerInit == SchedInit /\ instance \in {"one", "two"}

SchedulerNext ==
  \/ instance = "one" /\ One!Next /\ UNCHANGED instance
  \/ instance = "two" /\ Two!Next /\ UNCHANGED instance

SchedulerSpec == SchedulerInit /\ [][SchedulerNext]_<<instance, schedVars>>
=============================================================================
