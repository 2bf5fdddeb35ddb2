--------------------------- MODULE TableLifecycle ---------------------------
(***************************************************************************)
(* The per-table state machine of internal/source/table_lifecycle.go and   *)
(* the position arithmetic of internal/source/global_min_position.go.      *)
(*                                                                         *)
(* A lifecycle is a record; each method of the Go type is an operator that *)
(* maps a record to the record the method leaves behind, next to a guard   *)
(* Can... that is false exactly when the method returns an error and       *)
(* changes nothing.  Every method runs under the lifecycle's own mutex, so *)
(* one operator application is one atomic step.                            *)
(*                                                                         *)
(* Positions are natural numbers ordered as CommitTime orders the code's   *)
(* event.Position; NoPos is the nil pointer.  Error texts, timestamps and  *)
(* the catching-up progress counters are left out: no guard reads them.    *)
(***************************************************************************)
EXTENDS Integers, FiniteSets

NoPos == -1

Position == Nat \cup {NoPos}

States == {"pending", "snapshotting", "catching_up", "streaming", "error", "paused"}

\* The zero value of PreviousState.
NoState == "none"

Lifecycle == [state : States,
              prev  : States \cup {NoState},
              snap  : Position,
              strm  : Position,
              retry : Nat]

NewTableLifecycle(pos) ==
  [state |-> "pending", prev |-> NoState, snap |-> pos, strm |-> NoPos, retry |-> 0]

validTransitions ==
  [s \in States |->
     CASE s = "pending"      -> {"snapshotting"}
       [] s = "snapshotting" -> {"catching_up", "error"}
       [] s = "catching_up"  -> {"streaming", "catching_up", "error", "paused"}
       [] s = "streaming"    -> {"error", "paused"}
       [] OTHER              -> {}]

\* Plausible bug: the transition is not checked against the table.
CanTransitionUnchecked(lc, new) == lc.state # "error" /\ new \in States

CanTransition(lc, new) == new \in validTransitions[lc.state]

TransitionTo(lc, new, pos) ==
  [lc EXCEPT !.prev  = lc.state,
             !.state = new,
             !.snap  = IF new = "snapshotting" /\ pos # NoPos THEN pos ELSE @,
             !.strm  = IF pos # NoPos THEN pos ELSE @]

SetError(lc) == [lc EXCEPT !.prev = lc.state, !.state = "error"]

CanReset(lc) == lc.state = "error"

\* The stream position survives the reset; only the snapshot position is replaced.
ResetToPending(lc, pos) ==
  [lc EXCEPT !.snap = pos, !.prev = lc.state, !.state = "pending", !.retry = @ + 1]

CanPause(lc) == lc.state \in {"catching_up", "streaming"}

\* Plausible bug: pausing forgets the phase.
PauseForgets(lc) == [lc EXCEPT !.state = "paused"]

Pause(lc) == [lc EXCEPT !.prev = lc.state, !.state = "paused"]

CanResume(lc) == lc.state = "paused"

Resume(lc) == [lc EXCEPT !.state = lc.prev, !.prev = "paused"]

UpdateStreamPosition(lc, pos) == [lc EXCEPT !.strm = pos]

-----------------------------------------------------------------------------
\* The position a table still needs the source log from, by its state.
effectivePosition(lc) ==
  CASE lc.state = "pending"                    -> NoPos
    [] lc.state \in {"snapshotting", "error"}  -> lc.snap
    [] OTHER -> IF lc.strm # NoPos THEN lc.strm ELSE lc.snap

\* Plausible bug: the comparison is the wrong way round.
ComputeGlobalMaxPosition(lcs) ==
  LET known == {effectivePosition(lc) : lc \in lcs} \ {NoPos}
  IN  IF known = {} THEN NoPos
      ELSE CHOOSE p \in known : \A q \in known : p >= q

\* The least effective position of a set of lifecycles, NoPos when none has one.
ComputeGlobalMinPosition(lcs) ==
  LET known == {effectivePosition(lc) : lc \in lcs} \ {NoPos}
  IN  IF known = {} THEN NoPos
      ELSE CHOOSE p \in known : \A q \in known : p <= q
=============================================================================
