---------------------- MODULE LifecyclePipelineProofs ----------------------
(***************************************************************************)
(* Proofs about the table lifecycles: the snapshot scheduler alone, and    *)
(* the pipeline that contains it.                                          *)
(***************************************************************************)
EXTENDS LifecyclePipeline, WellFoundedInduction, TLAPS

-----------------------------------------------------------------------------

(***************************************************************************)
(* Proofs that the invariants of SnapshotScheduler hold for every set of   *)
(* tables, every set of positions, every bound and every mix of            *)
(* environment actions.                                                    *)
(*                                                                         *)
(* The inductive invariant is the conjunction of TypeOK and                *)
(* PausedResumesLive (resuming needs a phase to resume into), and on top   *)
(* of it three parts that need nothing of each other:                      *)
(* LiveOnlyAfterSnapshot, inductive as it is; PositionsCoverNeed, which    *)
(* implies GlobalMinCovers; and RestartInv, on which the scheduler's part  *)
(* in RestartClearsCache rests.                                            *)
(***************************************************************************)

\* What makes RestartClearsCache inductive: a method that holds no table names none,
\* a table whose reset or cache delete is due is not pending, and a skip request
\* never makes a table pending.
RestartInv ==
  /\ op.pc \in {"idle", "read"} => op.cur = NoTable
  /\ op.pc \in {"reset", "drop"} => lc[op.cur].state # "pending"
  /\ \A t \in Tables : req[t].kind \in {"skip", "skip2"} => req[t].next # "pending"

\* What the scheduler does for RestartClearsCache, which excepts tables that the binlog
\* consumer wrote to late: here the tables of a set S.
ClearedBut(S) ==
  \A t \in registered \ S :
    lc[t].state = "pending" /\ lc[t].retry > 0 /\ op.cur # t /\ ~hist[t].leaked => cache[t] = <<>>

\* A step of the scheduler, of the API handlers or of their environment, at whatever
\* position: what this module's Next and the pipeline that contains the scheduler share.
SchedulerAction ==
  \/ \E t \in Tables, pos \in Position :
       \/ AddTable(t, pos)
       \/ SnapshotStart(t, pos)
       \/ ReportProgress(t, pos)
       \/ \E force \in BOOLEAN : RestartTable(t, pos, force) \/ RestartSchema(Schema[t], pos, force)
  \/ \E t \in Tables : \E r \in runs[t] : OnSnapshotComplete(t, r) \/ OnSnapshotError(t, r)
  \/ \E t \in Tables :
       OnCaughtUp(t) \/ PauseTable(t) \/ ResumeTable(t) \/ ApiStep(t)
  \/ RestartStep

-----------------------------------------------------------------------------
(* The operators of TableLifecycle.                                        *)

\* Every lifecycle method leaves a lifecycle behind.
LEMMA LifecycleTypes ==
  /\ \A pos \in Position : NewTableLifecycle(pos) \in Lifecycle
  /\ \A l \in Lifecycle :
       /\ SetError(l) \in Lifecycle
       /\ Pause(l) \in Lifecycle
       /\ l.prev # NoState => Resume(l) \in Lifecycle
       /\ \A pos \in Position :
            /\ ResetToPending(l, pos) \in Lifecycle
            /\ UpdateStreamPosition(l, pos) \in Lifecycle
            /\ \A s \in States : TransitionTo(l, s, pos) \in Lifecycle
<1> USE DEF Lifecycle, States, NoState
<1>1. ASSUME NEW pos \in Position
      PROVE  NewTableLifecycle(pos) \in Lifecycle
  BY Zenon DEF NewTableLifecycle, Position, NoPos
<1>2. ASSUME NEW l \in Lifecycle
      PROVE  SetError(l) \in Lifecycle /\ Pause(l) \in Lifecycle
  BY Zenon DEF SetError, Pause
<1>3. ASSUME NEW l \in Lifecycle, l.prev # NoState
      PROVE  Resume(l) \in Lifecycle
  BY Zenon, <1>3 DEF Resume
<1>4. ASSUME NEW l \in Lifecycle, NEW pos \in Position
      PROVE  ResetToPending(l, pos) \in Lifecycle
  <2>1. l.retry + 1 \in Nat  BY DEF Lifecycle
  <2> QED  BY Zenon, <2>1 DEF ResetToPending
<1>5. ASSUME NEW l \in Lifecycle, NEW pos \in Position
      PROVE  UpdateStreamPosition(l, pos) \in Lifecycle
  BY Zenon DEF UpdateStreamPosition
<1>6. ASSUME NEW l \in Lifecycle, NEW pos \in Position, NEW s \in States
      PROVE  TransitionTo(l, s, pos) \in Lifecycle
  BY Zenon DEF TransitionTo
<1> HIDE DEF Lifecycle, States, NoState
<1> QED  BY Zenon, <1>1, <1>2, <1>3, <1>4, <1>5, <1>6

\* The position a table resumes from is a position.
LEMMA EffectiveType ==
  ASSUME NEW l \in Lifecycle
  PROVE  effectivePosition(l) \in Position
  BY Zenon DEF Lifecycle, effectivePosition, Position, NoPos, States

\* A nonempty set of naturals has a least element.
LEMMA LeastNat ==
  ASSUME NEW S, S \subseteq Nat, S # {}
  PROVE  \E p \in S : \A q \in S : p <= q
<1> DEFINE R == OpToRel(<, Nat)
<1>1. IsWellFoundedOn(R, Nat)
  BY Zenon, NatLessThanWellFounded
<1>2. \E x \in S : \A y \in S : ~(<<y, x>> \in R)
  <2> HIDE DEF R
  <2> QED  BY Zenon, <1>1, WFMin
<1>3. \A x, y \in Nat : ~(<<y, x>> \in R) => x <= y
  BY DEF OpToRel
<1> QED  BY Zenon, <1>2, <1>3

\* The global minimum is at or before the effective position of every table that has one.
LEMMA GlobalMinBelow ==
  ASSUME NEW lcs, lcs \subseteq Lifecycle, NEW l \in lcs, effectivePosition(l) # NoPos
  PROVE  /\ ComputeGlobalMinPosition(lcs) # NoPos
         /\ ComputeGlobalMinPosition(lcs) <= effectivePosition(l)
         /\ ComputeGlobalMinPosition(lcs) \in Nat
<1> DEFINE known == {effectivePosition(m) : m \in lcs} \ {NoPos}
<1>1. known \subseteq Nat
  BY Zenon, EffectiveType DEF Position
<1>2. effectivePosition(l) \in known
  BY Zenon
<1>3. \E p \in known : \A q \in known : p <= q
  <2> HIDE DEF known
  <2> QED  BY Zenon, <1>1, <1>2, LeastNat
<1>4. ComputeGlobalMinPosition(lcs) = CHOOSE p \in known : \A q \in known : p <= q
  BY Zenon, <1>2 DEF ComputeGlobalMinPosition
<1>5. ComputeGlobalMinPosition(lcs) \in known
      /\ \A q \in known : ComputeGlobalMinPosition(lcs) <= q
  <2> HIDE DEF known
  <2> QED  BY Zenon, <1>3, <1>4
<1> QED  BY Zenon, <1>1, <1>2, <1>5

-----------------------------------------------------------------------------
(* Type correctness.                                                       *)

\* The scheduler starts with states of the right type: every table is new, no
\* worker is busy.
LEMMA InitTypes == SchedInit => TypeOK
  BY LifecycleTypes DEF SchedInit, TypeOK, Idle, OpType, NoReq, ReqType, NoHist, HistType,
     NewTableLifecycle, Lifecycle, Position, NoPos, States, NoState

\* Every action keeps the types; resuming a paused table needs what it remembers.
LEMMA StepTypes ==
  ASSUME TypeOK, PausedResumesLive, [SchedulerAction]_schedVars
  PROVE  TypeOK'
<1> USE DEF TypeOK
<1>1. ASSUME NEW t \in Tables, NEW pos \in Position, AddTable(t, pos)
      PROVE  TypeOK'
  <2>1. lc' \in [Tables -> Lifecycle]  BY Zenon, <1>1, LifecycleTypes DEF AddTable
  <2>2. req' \in [Tables -> ReqType]   BY ZenonT(30), <1>1 DEF AddTable, ReqType
  <2>3. hist' \in [Tables -> HistType] BY Zenon, <1>1 DEF AddTable, NoHist, HistType, Position,
                                          NoPos
  <2> QED  BY Zenon, <1>1, <2>1, <2>2, <2>3 DEF AddTable
<1>2. ASSUME NEW t \in Tables, NEW pos \in Position, SnapshotStart(t, pos)
      PROVE  TypeOK'
  <2>1. lc' \in [Tables -> Lifecycle]  BY Zenon, <1>2, LifecycleTypes DEF SnapshotStart, States
  <2>2. hist' \in [Tables -> HistType]
    <3>1. PICK p \in Position, b \in BOOLEAN :
            hist' = [hist EXCEPT ![t].need = p, ![t].blind = b]
      <4>1. (IF pos # NoPos THEN pos ELSE lc[t].snap) \in Position
        BY Zenon DEF Lifecycle
      <4>2. (hist[t].blind \/ pos = NoPos) \in BOOLEAN  BY Zenon
      <4> QED  BY Zenon, <1>2, <4>1, <4>2 DEF SnapshotStart
    <3>2. [hist[t] EXCEPT !.need = p, !.blind = b] \in HistType  BY Zenon DEF HistType
    <3> QED  BY Zenon, <3>1, <3>2
  <2>3. /\ epoch' \in [Tables -> Nat]
        /\ runs' \in [Tables -> SUBSET Nat]
    BY <1>2 DEF SnapshotStart
  <2> QED  BY Zenon, <1>2, <2>1, <2>2, <2>3 DEF SnapshotStart
<1>3. ASSUME NEW t \in Tables, NEW r \in runs[t], OnSnapshotComplete(t, r)
      PROVE  TypeOK'
  <2>1. NoPos \in Position /\ "catching_up" \in States  BY Zenon DEF Position, NoPos, States
  <2>2. CASE CanTransition(lc[t], "catching_up")
    <3>1. TransitionTo(lc[t], "catching_up", NoPos) \in Lifecycle  BY Zenon, <2>1, LifecycleTypes
    <3>2. lc' \in [Tables -> Lifecycle]  BY Zenon, <1>3, <2>2, <3>1 DEF OnSnapshotComplete
    <3>3. [hist[t] EXCEPT !.earned = @ \/ r = epoch[t], !.stale = @ \/ r # epoch[t]] \in HistType  BY Zenon DEF HistType
    <3>4. hist' \in [Tables -> HistType] BY Zenon, <1>3, <2>2, <3>3 DEF OnSnapshotComplete
    <3> QED  BY Zenon, <1>3, <3>2, <3>4 DEF OnSnapshotComplete
  <2>3. CASE ~CanTransition(lc[t], "catching_up")
    BY Zenon, <1>3, <2>3 DEF OnSnapshotComplete
  <2> QED  BY Zenon, <2>2, <2>3
<1>4. ASSUME NEW t \in Tables, NEW r \in runs[t], OnSnapshotError(t, r)
      PROVE  TypeOK'
  BY Zenon, <1>4, LifecycleTypes DEF OnSnapshotError
<1>5. ASSUME NEW t \in Tables, PauseTable(t)
      PROVE  TypeOK'
  BY Zenon, <1>5, LifecycleTypes DEF PauseTable
<1>6. ASSUME NEW t \in Tables, ResumeTable(t)
      PROVE  TypeOK'
  BY Zenon, <1>6, LifecycleTypes DEF ResumeTable, PausedResumesLive, CanResume, NoState, Lifecycle
<1>7. ASSUME NEW t \in Tables, OnCaughtUp(t)
      PROVE  TypeOK'
  BY Zenon, <1>7, LifecycleTypes DEF OnCaughtUp, Idle, OpType, Position, NoPos, States
<1>8. ASSUME NEW ok \in BOOLEAN, OnCaughtUpDelete(ok)
      PROVE  TypeOK'
  <2>1. op' \in OpType /\ op'.pc = "idle"
    BY Zenon, <1>8 DEF OnCaughtUpDelete, Idle, OpType, Position, NoPos
  <2>2. cache' \in [Tables -> Seq(Nat)] BY <1>8 DEF OnCaughtUpDelete
  <2>3. hist' \in [Tables -> HistType]  BY Zenon, <1>8 DEF OnCaughtUpDelete, HistType
  <2> QED  BY Zenon, <1>8, <2>1, <2>2, <2>3 DEF OnCaughtUpDelete
<1>9. ASSUME NEW t \in Tables, NEW pos \in Position, NEW force \in BOOLEAN, RestartTable(t, pos, force)
      PROVE  TypeOK'
  BY Zenon, <1>9, LifecycleTypes DEF RestartTable, RestartBegin, Idle, OpType
<1>10. ASSUME NEW s, NEW pos \in Position, NEW force \in BOOLEAN, RestartSchema(s, pos, force)
      PROVE  TypeOK'
  BY Zenon, <1>10, LifecycleTypes DEF RestartSchema, RestartBegin, Idle, OpType
<1>11. ASSUME NEW t \in Tables, RetryRestart(t)
      PROVE  TypeOK'
  BY Zenon, <1>11, LifecycleTypes DEF RetryRestart, RestartBegin, Idle, OpType, NoReq, ReqType,
     Position, NoPos
<1>12. ASSUME NEW t \in Tables, RestartRead(t)
      PROVE  TypeOK'
  BY Zenon, <1>12, LifecycleTypes DEF RestartRead, Continue, Idle, OpType, Position, NoPos
<1>13. ASSUME RestartSetError
      PROVE  TypeOK'
  BY Zenon, <1>13, LifecycleTypes DEF RestartSetError, OpType
<1>14. ASSUME RestartReset
      PROVE  TypeOK'
  <2>1. op.cur \in Tables /\ op.pos \in Position  BY Zenon, <1>14 DEF RestartReset, OpType
  <2>2. CASE CanReset(lc[op.cur])
    <3>1. ResetToPending(lc[op.cur], op.pos) \in Lifecycle  BY Zenon, <2>1, LifecycleTypes
    <3>2. lc' \in [Tables -> Lifecycle]  BY Zenon, <1>14, <2>2, <3>1 DEF RestartReset
    <3>3. NoHist \in HistType  BY Zenon DEF NoHist, HistType, Position, NoPos
    <3>4. hist' \in [Tables -> HistType]  BY Zenon, <1>14, <2>2, <3>3 DEF RestartReset
    <3>5. op' \in OpType /\ op'.cur \in Tables
      BY Zenon, <1>14, <2>1, <2>2 DEF RestartReset, OpType
    <3> QED  BY Zenon, <1>14, <3>2, <3>4, <3>5 DEF RestartReset
  <2>3. CASE ~CanReset(lc[op.cur])
    <3>1. Idle \in OpType /\ Idle.pc = "idle"  BY Zenon DEF Idle, OpType, Position, NoPos
    <3>2. op' = Idle  BY Zenon, <1>14, <2>3 DEF RestartReset
    <3> QED  BY Zenon, <1>14, <2>3, <3>1, <3>2 DEF RestartReset
  <2> QED  BY Zenon, <2>2, <2>3
<1>15. ASSUME NEW ok \in BOOLEAN, RestartClear(ok)
      PROVE  TypeOK'
  <2>1. op.cur \in Tables  BY Zenon, <1>15 DEF RestartClear
  <2>2. /\ op' \in OpType
        /\ op'.pc \in {"idle", "read"}
    BY Zenon, <1>15, <2>1 DEF RestartClear, Continue, Idle, OpType, Position, NoPos
  <2>3. cache' \in [Tables -> Seq(Nat)] BY <1>15, <2>1 DEF RestartClear
  <2>4. hist' \in [Tables -> HistType]  BY Zenon, <1>15, <2>1 DEF RestartClear, HistType
  <2> QED  BY Zenon, <1>15, <2>2, <2>3, <2>4 DEF RestartClear
<1>16. ASSUME NEW t \in Tables, skipTableError(t)
      PROVE  TypeOK'
  BY Zenon, <1>16, LifecycleTypes DEF skipTableError, NoReq, ReqType, Position, NoPos
<1>17. ASSUME NEW t \in Tables, SkipWritePrev(t)
      PROVE  TypeOK'
  <2>1. CASE req[t].live
    <3>1. [lc[t] EXCEPT !.prev = lc[t].state] \in Lifecycle  BY Zenon DEF Lifecycle
    <3>2. lc' \in [Tables -> Lifecycle]  BY Zenon, <1>17, <2>1, <3>1 DEF SkipWritePrev
    <3>3. [req[t] EXCEPT !.kind = "skip2"] \in ReqType  BY ZenonT(30) DEF ReqType
    <3>4. req' \in [Tables -> ReqType]   BY Zenon, <1>17, <2>1, <3>3 DEF SkipWritePrev
    <3> QED  BY Zenon, <1>17, <3>2, <3>4 DEF SkipWritePrev
  <2>2. CASE ~req[t].live
    <3>1. req[t].obj \in Lifecycle  BY Zenon DEF ReqType
    <3>2. [req[t].obj EXCEPT !.prev = req[t].obj.state] \in Lifecycle  BY Zenon, <3>1 DEF Lifecycle
    <3>3. [req[t] EXCEPT !.kind = "skip2", !.obj.prev = req[t].obj.state] \in ReqType
      <4>1. PICK o : o = [req[t].obj EXCEPT !.prev = req[t].obj.state]
        BY Zenon
      <4>2. [req[t] EXCEPT !.kind = "skip2", !.obj = o] \in ReqType
        BY ZenonT(30), <3>2, <4>1 DEF ReqType
      <4> QED  BY Zenon, <4>1, <4>2
    <3>4. req' \in [Tables -> ReqType]   BY Zenon, <1>17, <2>2, <3>3 DEF SkipWritePrev
    <3> QED  BY Zenon, <1>17, <2>2, <3>4 DEF SkipWritePrev
  <2> QED  BY Zenon, <2>1, <2>2
<1>18. ASSUME NEW t \in Tables, SkipWriteState(t)
      PROVE  TypeOK'
  <2>1. /\ lc[t] \in Lifecycle
        /\ req[t].obj \in Lifecycle
        /\ req[t].next \in States
    BY Zenon DEF ReqType, States
  <2>2. [(IF req[t].live THEN lc[t] ELSE req[t].obj) EXCEPT !.state = req[t].next] \in Lifecycle
    BY Zenon, <2>1 DEF Lifecycle
  <2>3. lc' \in [Tables -> Lifecycle]  BY Zenon, <1>18, <2>2 DEF SkipWriteState
  <2>4. NoReq \in ReqType  BY Zenon, LifecycleTypes DEF NoReq, ReqType, Position, NoPos
  <2>5. req' \in [Tables -> ReqType]   BY Zenon, <1>18, <2>4 DEF SkipWriteState
  <2>6. hist' \in [Tables -> HistType] BY Zenon, <1>18 DEF SkipWriteState, HistType
  <2> QED  BY Zenon, <1>18, <2>3, <2>5, <2>6 DEF SkipWriteState
<1>19. ASSUME NEW t \in Tables, retryTableLifecycle(t)
      PROVE  TypeOK'
  BY Zenon, <1>19, LifecycleTypes DEF retryTableLifecycle, NoReq, ReqType, Lifecycle, Position,
     NoPos
<1>20. ASSUME NEW t \in Tables, NEW pos \in Position, ReportProgress(t, pos)
      PROVE  TypeOK'
  BY Zenon, <1>20, LifecycleTypes DEF ReportProgress, HistType
<1>22. CASE UNCHANGED schedVars
  BY Zenon, <1>22 DEF schedVars
<1> HIDE DEF TypeOK
<1> QED
  BY Zenon, <1>1, <1>2, <1>3, <1>4, <1>5, <1>6, <1>7, <1>8, <1>9, <1>10, <1>11, <1>12, <1>13,
     <1>14, <1>15, <1>16, <1>17, <1>18, <1>19, <1>20, <1>22
     DEF SchedulerAction, ApiStep, RestartStep

-----------------------------------------------------------------------------
(* The invariants are preserved.                                           *)

\* Resuming, pausing and the skip request keep what a paused table remembers.
LEMMA StepPaused ==
  ASSUME TypeOK, PausedResumesLive, [SchedulerAction]_schedVars
  PROVE  PausedResumesLive'
<1> USE DEF TypeOK, PausedResumesLive, HistType, Lifecycle, States
<1>1. ASSUME NEW t \in Tables, NEW pos \in Position, AddTable(t, pos)
      PROVE  PausedResumesLive'
  BY <1>1 DEF AddTable, NewTableLifecycle, NoHist
<1>2. ASSUME NEW t \in Tables, NEW pos \in Position, SnapshotStart(t, pos)
      PROVE  PausedResumesLive'
  BY <1>2 DEF SnapshotStart, TransitionTo, CanTransition, validTransitions
<1>3. ASSUME NEW t \in Tables, NEW r \in runs[t], OnSnapshotComplete(t, r)
      PROVE  PausedResumesLive'
  <2>1. CASE CanTransition(lc[t], "catching_up")
    <3>1. /\ lc' = [lc EXCEPT ![t] = TransitionTo(@, "catching_up", NoPos)]
          /\ hist' = [hist EXCEPT ![t].earned = @ \/ r = epoch[t], ![t].stale = @ \/ r # epoch[t]]
          /\ UNCHANGED <<registered, req>>
      BY Zenon, <1>3, <2>1 DEF OnSnapshotComplete
    <3> QED  BY <2>1, <3>1 DEF TransitionTo, CanTransition, validTransitions
  <2>2. CASE ~CanTransition(lc[t], "catching_up")
    BY Zenon, <1>3, <2>2 DEF OnSnapshotComplete
  <2> QED  BY Zenon, <2>1, <2>2
<1>4. ASSUME NEW t \in Tables, NEW r \in runs[t], OnSnapshotError(t, r)
      PROVE  PausedResumesLive'
  BY <1>4 DEF OnSnapshotError, SetError
<1>5. ASSUME NEW t \in Tables, PauseTable(t)
      PROVE  PausedResumesLive'
  BY <1>5 DEF PauseTable, Pause, CanPause
<1>6. ASSUME NEW t \in Tables, ResumeTable(t)
      PROVE  PausedResumesLive'
  BY <1>6 DEF ResumeTable, Resume, CanResume
<1>7. ASSUME NEW t \in Tables, OnCaughtUp(t)
      PROVE  PausedResumesLive'
  BY <1>7 DEF OnCaughtUp, TransitionTo, CanTransition, validTransitions
<1>8. ASSUME NEW ok \in BOOLEAN, OnCaughtUpDelete(ok)
      PROVE  PausedResumesLive'
  BY Zenon, <1>8 DEF OnCaughtUpDelete
<1>9. ASSUME NEW t \in Tables, RetryRestart(t)
      PROVE  PausedResumesLive'
  BY Zenon, <1>9 DEF RetryRestart, RestartBegin, NoReq
<1>10. ASSUME RestartSetError
      PROVE  PausedResumesLive'
  BY <1>10 DEF RestartSetError, SetError
<1>11. ASSUME RestartReset
      PROVE  PausedResumesLive'
  <2>1. CASE CanReset(lc[op.cur])
    <3>1. /\ lc' = [lc EXCEPT ![op.cur] = ResetToPending(@, op.pos)]
          /\ hist' = [hist EXCEPT ![op.cur] = NoHist]
          /\ UNCHANGED <<registered, req>>
      BY Zenon, <1>11, <2>1 DEF RestartReset
    <3> QED  BY <2>1, <3>1, <1>11 DEF ResetToPending, CanReset, NoHist, RestartReset, OpType
  <2>2. CASE ~CanReset(lc[op.cur])
    BY Zenon, <1>11, <2>2 DEF RestartReset
  <2> QED  BY Zenon, <2>1, <2>2
<1>12. ASSUME NEW ok \in BOOLEAN, RestartClear(ok)
      PROVE  PausedResumesLive'
  BY Zenon, <1>12 DEF RestartClear
<1>13. ASSUME NEW t \in Tables, skipTableError(t)
      PROVE  PausedResumesLive'
  BY Zenon, <1>13 DEF skipTableError, NoReq
<1>14. ASSUME NEW t \in Tables, SkipWritePrev(t)
      PROVE  PausedResumesLive'
  <2>1. CASE req[t].live
    <3>1. /\ lc' = [lc EXCEPT ![t].prev = lc[t].state]
          /\ req' = [req EXCEPT ![t].kind = "skip2"]
          /\ UNCHANGED <<registered, hist>>
      BY Zenon, <1>14, <2>1 DEF SkipWritePrev
    <3> QED  BY <2>1, <3>1 DEF ReqType
  <2>2. CASE ~req[t].live
    BY Zenon, <1>14, <2>2 DEF SkipWritePrev, ReqType
  <2> QED  BY Zenon, <2>1, <2>2
<1>15. ASSUME NEW t \in Tables, SkipWriteState(t)
      PROVE  PausedResumesLive'
  <2>1. req[t].next # "paused"  BY Zenon DEF ReqType
  <2>2. req[t].obj \in Lifecycle /\ lc[t] \in Lifecycle  BY Zenon DEF ReqType
  <2>3. [(IF req[t].live THEN lc[t] ELSE req[t].obj) EXCEPT !.state = req[t].next].state = req[t].next
    BY Zenon, <2>2
  <2>4. lc'[t].state = req[t].next
    BY Zenon, <1>15, <2>3 DEF SkipWriteState
  <2>5. registered' = registered /\ \A u \in Tables \ {t} : lc'[u] = lc[u] /\ req'[u] = req[u]
    BY Zenon, <1>15 DEF SkipWriteState
  <2> QED  BY ZenonT(30), <2>1, <2>4, <2>5
<1>16. ASSUME NEW t \in Tables, retryTableLifecycle(t)
      PROVE  PausedResumesLive'
  BY Zenon, <1>16 DEF retryTableLifecycle, NoReq
<1>17. ASSUME NEW t \in Tables, NEW pos \in Position, ReportProgress(t, pos)
      PROVE  PausedResumesLive'
  BY <1>17 DEF ReportProgress, UpdateStreamPosition
<1>18. CASE UNCHANGED <<registered, lc, req, hist>>
  BY Zenon, <1>18
<1> HIDE DEF TypeOK, PausedResumesLive, HistType, Lifecycle, States
<1> QED
  BY Zenon, <1>1, <1>2, <1>3, <1>4, <1>5, <1>6, <1>7, <1>8, <1>9, <1>10, <1>11, <1>12, <1>13,
     <1>14, <1>15, <1>16, <1>17, <1>18
     DEF SchedulerAction, ApiStep, RestartStep, RestartTable, RestartSchema, RestartBegin, RestartRead, schedVars

\* Only a completed snapshot or a skipped error lets a table in.
LEMMA StepLive ==
  ASSUME TypeOK, PausedResumesLive, LiveOnlyAfterSnapshot, [Next]_schedVars
  PROVE  LiveOnlyAfterSnapshot'
<1> USE DEF TypeOK, LiveOnlyAfterSnapshot, HistType, Lifecycle, States
<1>1. ASSUME NEW t \in Tables, NEW pos \in Position, AddTable(t, pos)
      PROVE  LiveOnlyAfterSnapshot'
  BY <1>1 DEF AddTable, NewTableLifecycle, NoHist, PausedResumesLive
<1>2. ASSUME NEW t \in Tables, NEW pos \in Position, SnapshotStart(t, pos)
      PROVE  LiveOnlyAfterSnapshot'
  BY <1>2 DEF SnapshotStart, TransitionTo, CanTransition, validTransitions, PausedResumesLive
<1>3. ASSUME NEW t \in Tables, NEW r \in runs[t], OnSnapshotComplete(t, r)
      PROVE  LiveOnlyAfterSnapshot'
  <2>1. CASE CanTransition(lc[t], "catching_up")
    <3>1. /\ lc' = [lc EXCEPT ![t] = TransitionTo(@, "catching_up", NoPos)]
          /\ hist' = [hist EXCEPT ![t].earned = @ \/ r = epoch[t], ![t].stale = @ \/ r # epoch[t]]
          /\ UNCHANGED <<registered, req>>
      BY Zenon, <1>3, <2>1 DEF OnSnapshotComplete
    <3> QED  BY <2>1, <3>1 DEF TransitionTo, CanTransition, validTransitions, PausedResumesLive
  <2>2. CASE ~CanTransition(lc[t], "catching_up")
    BY Zenon, <1>3, <2>2 DEF OnSnapshotComplete
  <2> QED  BY Zenon, <2>1, <2>2
<1>4. ASSUME NEW t \in Tables, NEW r \in runs[t], OnSnapshotError(t, r)
      PROVE  LiveOnlyAfterSnapshot'
  BY <1>4 DEF OnSnapshotError, SetError, PausedResumesLive
<1>5. ASSUME NEW t \in Tables, PauseTable(t)
      PROVE  LiveOnlyAfterSnapshot'
  BY Zenon, <1>5 DEF PauseTable, Pause, CanPause, PausedResumesLive
<1>6. ASSUME NEW t \in Tables, ResumeTable(t)
      PROVE  LiveOnlyAfterSnapshot'
  BY Zenon, <1>6 DEF ResumeTable, Resume, CanResume, PausedResumesLive
<1>7. ASSUME NEW t \in Tables, OnCaughtUp(t)
      PROVE  LiveOnlyAfterSnapshot'
  BY Zenon, <1>7 DEF OnCaughtUp, TransitionTo, CanTransition, validTransitions, PausedResumesLive
<1>8. ASSUME NEW ok \in BOOLEAN, OnCaughtUpDelete(ok)
      PROVE  LiveOnlyAfterSnapshot'
  BY <1>8 DEF OnCaughtUpDelete, PausedResumesLive
<1>9. ASSUME NEW t \in Tables, RetryRestart(t)
      PROVE  LiveOnlyAfterSnapshot'
  BY Zenon, <1>9 DEF RetryRestart, RestartBegin, NoReq, PausedResumesLive
<1>10. ASSUME RestartSetError
      PROVE  LiveOnlyAfterSnapshot'
  BY <1>10 DEF RestartSetError, SetError, PausedResumesLive
<1>11. ASSUME RestartReset
      PROVE  LiveOnlyAfterSnapshot'
  <2>1. CASE CanReset(lc[op.cur])
    <3>1. /\ lc' = [lc EXCEPT ![op.cur] = ResetToPending(@, op.pos)]
          /\ hist' = [hist EXCEPT ![op.cur] = NoHist]
          /\ UNCHANGED <<registered, req>>
      BY Zenon, <1>11, <2>1 DEF RestartReset
    <3> QED  BY <2>1, <3>1, <1>11 DEF ResetToPending, CanReset, NoHist, PausedResumesLive,
                RestartReset, OpType
  <2>2. CASE ~CanReset(lc[op.cur])
    BY Zenon, <1>11, <2>2 DEF RestartReset
  <2> QED  BY Zenon, <2>1, <2>2
<1>12. ASSUME NEW ok \in BOOLEAN, RestartClear(ok)
      PROVE  LiveOnlyAfterSnapshot'
  BY <1>12 DEF RestartClear, PausedResumesLive
<1>13. ASSUME NEW t \in Tables, skipTableError(t)
      PROVE  LiveOnlyAfterSnapshot'
  BY Zenon, <1>13 DEF skipTableError, NoReq, PausedResumesLive
<1>14. ASSUME NEW t \in Tables, SkipWritePrev(t)
      PROVE  LiveOnlyAfterSnapshot'
  <2>1. CASE req[t].live
    <3>1. /\ lc' = [lc EXCEPT ![t].prev = lc[t].state]
          /\ req' = [req EXCEPT ![t].kind = "skip2"]
          /\ UNCHANGED <<registered, hist>>
      BY Zenon, <1>14, <2>1 DEF SkipWritePrev
    <3> QED  BY <2>1, <3>1 DEF PausedResumesLive, ReqType
  <2>2. CASE ~req[t].live
    BY Zenon, <1>14, <2>2 DEF SkipWritePrev, ReqType
  <2> QED  BY Zenon, <2>1, <2>2
<1>15. ASSUME NEW t \in Tables, SkipWriteState(t)
      PROVE  LiveOnlyAfterSnapshot'
  BY <1>15 DEF SkipWriteState, ReqType, PausedResumesLive
<1>16. ASSUME NEW t \in Tables, retryTableLifecycle(t)
      PROVE  LiveOnlyAfterSnapshot'
  BY Zenon, <1>16 DEF retryTableLifecycle, NoReq, PausedResumesLive
<1>17. ASSUME NEW t \in Tables, NEW pos \in Position, ReportProgress(t, pos)
      PROVE  LiveOnlyAfterSnapshot'
  BY <1>17 DEF ReportProgress, UpdateStreamPosition, PausedResumesLive
<1>18. CASE UNCHANGED <<registered, lc, req, hist>>
  BY Zenon, <1>18
<1> HIDE DEF TypeOK, LiveOnlyAfterSnapshot, HistType, Lifecycle, States
<1> QED
  BY Zenon, <1>1, <1>2, <1>3, <1>4, <1>5, <1>6, <1>7, <1>8, <1>9, <1>10, <1>11, <1>12, <1>13,
     <1>14, <1>15, <1>16, <1>17, <1>18, PositionsAssumption
     DEF Next, ApiStep, RestartStep, RestartTable, RestartSchema, RestartBegin, RestartRead, schedVars

\* Every move of a table keeps its positions behind the one it needs.
LEMMA StepNeed ==
  ASSUME TypeOK, PausedResumesLive, PositionsCoverNeed, [Next]_schedVars
  PROVE  PositionsCoverNeed'
<1> USE DEF TypeOK, PositionsCoverNeed, HistType, Lifecycle, States
<1>1. ASSUME NEW t \in Tables, NEW pos \in Position, AddTable(t, pos)
      PROVE  PositionsCoverNeed'
  BY <1>1 DEF AddTable, NewTableLifecycle, NoHist, PausedResumesLive, Position, NoPos
<1>2. ASSUME NEW t \in Tables, NEW pos \in Position, SnapshotStart(t, pos)
      PROVE  PositionsCoverNeed'
  <2>1. /\ \A u \in Tables \ {t} : lc'[u] = lc[u] /\ hist'[u] = hist[u]
        /\ registered' = registered
        /\ lc'[t] = TransitionTo(lc[t], "snapshotting", pos)
    BY Zenon, <1>2 DEF SnapshotStart
  <2>2. CASE pos = NoPos
    <3>1. hist'[t].blind
      BY <1>2, <2>2 DEF SnapshotStart
    <3> QED  BY Zenon, <2>1, <3>1
  <2>3. CASE pos # NoPos
    <3>1. hist'[t].need = pos
      BY <1>2, <2>3 DEF SnapshotStart
    <3>2. pos \in Nat /\ lc'[t].snap = pos /\ lc'[t].strm = pos
      BY <2>1, <2>3 DEF TransitionTo, Position
    <3>3. pos <= pos  BY <3>2
    <3> QED  BY Zenon, <2>1, <2>3, <3>1, <3>2, <3>3
  <2> QED  BY Zenon, <2>2, <2>3
<1>3. ASSUME NEW t \in Tables, NEW r \in runs[t], OnSnapshotComplete(t, r)
      PROVE  PositionsCoverNeed'
  <2>1. CASE CanTransition(lc[t], "catching_up")
    <3>1. /\ lc' = [lc EXCEPT ![t] = TransitionTo(@, "catching_up", NoPos)]
          /\ hist' = [hist EXCEPT ![t].earned = @ \/ r = epoch[t], ![t].stale = @ \/ r # epoch[t]]
          /\ UNCHANGED <<registered, req>>
      BY Zenon, <1>3, <2>1 DEF OnSnapshotComplete
    <3> QED  BY <2>1, <3>1 DEF TransitionTo, CanTransition, validTransitions, PausedResumesLive,
                Position, NoPos
  <2>2. CASE ~CanTransition(lc[t], "catching_up")
    BY Zenon, <1>3, <2>2 DEF OnSnapshotComplete
  <2> QED  BY Zenon, <2>1, <2>2
<1>4. ASSUME NEW t \in Tables, NEW r \in runs[t], OnSnapshotError(t, r)
      PROVE  PositionsCoverNeed'
  BY <1>4 DEF OnSnapshotError, SetError, PausedResumesLive, Position, NoPos
<1>5. ASSUME NEW t \in Tables, PauseTable(t)
      PROVE  PositionsCoverNeed'
  BY <1>5 DEF PauseTable, Pause, CanPause, PausedResumesLive, Position, NoPos
<1>6. ASSUME NEW t \in Tables, ResumeTable(t)
      PROVE  PositionsCoverNeed'
  BY <1>6 DEF ResumeTable, Resume, CanResume, PausedResumesLive, Position, NoPos
<1>7. ASSUME NEW t \in Tables, OnCaughtUp(t)
      PROVE  PositionsCoverNeed'
  BY <1>7 DEF OnCaughtUp, TransitionTo, CanTransition, validTransitions, PausedResumesLive,
     Position, NoPos
<1>8. ASSUME NEW ok \in BOOLEAN, OnCaughtUpDelete(ok)
      PROVE  PositionsCoverNeed'
  BY <1>8 DEF OnCaughtUpDelete, PausedResumesLive, Position, NoPos
<1>9. ASSUME NEW t \in Tables, RetryRestart(t)
      PROVE  PositionsCoverNeed'
  BY Zenon, <1>9 DEF RetryRestart, RestartBegin, NoReq, PausedResumesLive, Position, NoPos
<1>10. ASSUME RestartSetError
      PROVE  PositionsCoverNeed'
  BY <1>10 DEF RestartSetError, SetError, PausedResumesLive, Position, NoPos
<1>11. ASSUME RestartReset
      PROVE  PositionsCoverNeed'
  <2>1. CASE CanReset(lc[op.cur])
    <3>1. /\ lc' = [lc EXCEPT ![op.cur] = ResetToPending(@, op.pos)]
          /\ hist' = [hist EXCEPT ![op.cur] = NoHist]
          /\ UNCHANGED <<registered, req>>
      BY Zenon, <1>11, <2>1 DEF RestartReset
    <3> QED  BY <2>1, <3>1, <1>11 DEF ResetToPending, CanReset, NoHist, PausedResumesLive, Position,
                NoPos, RestartReset, OpType
  <2>2. CASE ~CanReset(lc[op.cur])
    BY Zenon, <1>11, <2>2 DEF RestartReset
  <2> QED  BY Zenon, <2>1, <2>2
<1>12. ASSUME NEW ok \in BOOLEAN, RestartClear(ok)
      PROVE  PositionsCoverNeed'
  BY <1>12 DEF RestartClear, PausedResumesLive, Position, NoPos
<1>13. ASSUME NEW t \in Tables, skipTableError(t)
      PROVE  PositionsCoverNeed'
  BY Zenon, <1>13 DEF skipTableError, NoReq, PausedResumesLive, Position, NoPos
<1>14. ASSUME NEW t \in Tables, SkipWritePrev(t)
      PROVE  PositionsCoverNeed'
  <2>1. CASE req[t].live
    <3>1. /\ lc' = [lc EXCEPT ![t].prev = lc[t].state]
          /\ req' = [req EXCEPT ![t].kind = "skip2"]
          /\ UNCHANGED <<registered, hist>>
      BY Zenon, <1>14, <2>1 DEF SkipWritePrev
    <3> QED  BY <2>1, <3>1 DEF PausedResumesLive, Position, NoPos, ReqType
  <2>2. CASE ~req[t].live
    BY Zenon, <1>14, <2>2 DEF SkipWritePrev, ReqType
  <2> QED  BY Zenon, <2>1, <2>2
<1>15. ASSUME NEW t \in Tables, SkipWriteState(t)
      PROVE  PositionsCoverNeed'
  BY <1>15 DEF SkipWriteState, ReqType, PausedResumesLive, Position, NoPos
<1>16. ASSUME NEW t \in Tables, retryTableLifecycle(t)
      PROVE  PositionsCoverNeed'
  BY Zenon, <1>16 DEF retryTableLifecycle, NoReq, PausedResumesLive, Position, NoPos
<1>17. ASSUME NEW t \in Tables, NEW pos \in Position, ReportProgress(t, pos)
      PROVE  PositionsCoverNeed'
  BY <1>17 DEF ReportProgress, UpdateStreamPosition, effectivePosition, PausedResumesLive, Position,
     NoPos
<1>18. CASE UNCHANGED <<registered, lc, req, hist>>
  BY Zenon, <1>18
<1> HIDE DEF TypeOK, PositionsCoverNeed, HistType, Lifecycle, States
<1> QED
  BY Zenon, <1>1, <1>2, <1>3, <1>4, <1>5, <1>6, <1>7, <1>8, <1>9, <1>10, <1>11, <1>12, <1>13,
     <1>14, <1>15, <1>16, <1>17, <1>18, PositionsAssumption
     DEF Next, ApiStep, RestartStep, RestartTable, RestartSchema, RestartBegin, RestartRead, schedVars

\* The mutex, the reset and the skip requests stay in step.
LEMMA StepRestartInv ==
  ASSUME TypeOK, PausedResumesLive, RestartInv, [SchedulerAction]_schedVars
  PROVE  RestartInv'
<1> USE TablesAssumption DEF TypeOK, RestartInv, HistType, Lifecycle, States
<1>1. ASSUME NEW t \in Tables, NEW pos \in Position, AddTable(t, pos)
      PROVE  RestartInv'
  BY <1>1 DEF AddTable, NewTableLifecycle, NoHist, Locked
<1>2. ASSUME NEW t \in Tables, NEW pos \in Position, SnapshotStart(t, pos)
      PROVE  RestartInv'
  BY <1>2 DEF SnapshotStart, TransitionTo, Locked
<1>3. ASSUME NEW t \in Tables, NEW r \in runs[t], OnSnapshotComplete(t, r)
      PROVE  RestartInv'
  BY Zenon, <1>3 DEF OnSnapshotComplete, TransitionTo, Locked
<1>4. ASSUME NEW t \in Tables, NEW r \in runs[t], OnSnapshotError(t, r)
      PROVE  RestartInv'
  BY Zenon, <1>4 DEF OnSnapshotError, SetError, Locked
<1>5. ASSUME NEW t \in Tables, PauseTable(t)
      PROVE  RestartInv'
  BY Zenon, <1>5 DEF PauseTable, Pause, Locked
<1>6. ASSUME NEW t \in Tables, ResumeTable(t)
      PROVE  RestartInv'
  BY Zenon, <1>6 DEF ResumeTable, Resume, CanResume, PausedResumesLive, Locked
<1>7. ASSUME NEW t \in Tables, OnCaughtUp(t)
      PROVE  RestartInv'
  BY <1>7 DEF OnCaughtUp, TransitionTo, Idle, Locked
<1>8. ASSUME NEW ok \in BOOLEAN, OnCaughtUpDelete(ok)
      PROVE  RestartInv'
  BY Zenon, <1>8 DEF OnCaughtUpDelete, Idle, Locked
<1>9. ASSUME NEW t \in Tables, NEW pos \in Position, NEW force \in BOOLEAN, RestartTable(t, pos, force)
      PROVE  RestartInv'
  BY Zenon, <1>9 DEF RestartTable, RestartBegin, Idle, Locked
<1>10. ASSUME NEW s, NEW pos \in Position, NEW force \in BOOLEAN, RestartSchema(s, pos, force)
      PROVE  RestartInv'
  BY Zenon, <1>10 DEF RestartSchema, RestartBegin, Idle, Locked
<1>11. ASSUME NEW t \in Tables, RetryRestart(t)
      PROVE  RestartInv'
  BY Zenon, <1>11 DEF RetryRestart, RestartBegin, NoReq, Idle, Locked
<1>12. ASSUME NEW t \in Tables, RestartRead(t)
      PROVE  RestartInv'
  BY Zenon, <1>12 DEF RestartRead, Continue, Idle, OpType, Locked
<1>13. ASSUME RestartSetError
      PROVE  RestartInv'
  BY <1>13 DEF RestartSetError, SetError, OpType, Locked
<1>14. ASSUME RestartReset
      PROVE  RestartInv'
  BY <1>14 DEF RestartReset, ResetToPending, CanReset, NoHist, Idle, OpType, Locked
<1>15. ASSUME NEW ok \in BOOLEAN, RestartClear(ok)
      PROVE  RestartInv'
  BY Zenon, <1>15 DEF RestartClear, Continue, Idle, OpType, Locked
<1>16. ASSUME NEW t \in Tables, skipTableError(t)
      PROVE  RestartInv'
  BY Zenon, <1>16 DEF skipTableError, NoReq, Locked
<1>17. ASSUME NEW t \in Tables, SkipWritePrev(t)
      PROVE  RestartInv'
  <2>1. CASE req[t].live
    <3>1. /\ lc' = [lc EXCEPT ![t].prev = lc[t].state]
          /\ req' = [req EXCEPT ![t].kind = "skip2"]
          /\ UNCHANGED op
      BY Zenon, <1>17, <2>1 DEF SkipWritePrev
    <3> QED  BY <1>17, <3>1 DEF SkipWritePrev, ReqType, OpType
  <2>2. CASE ~req[t].live
    <3>1. /\ req[t].kind = "skip"
          /\ UNCHANGED <<op, lc>>
          /\ req' = [req EXCEPT ![t].kind = "skip2", ![t].obj.prev = req[t].obj.state]
      BY Zenon, <1>17, <2>2 DEF SkipWritePrev
    <3>2. \A u \in Tables \ {t} : req'[u] = req[u]  BY Zenon, <3>1
    <3>3. req'[t] = [[req[t] EXCEPT !.kind = "skip2"] EXCEPT !.obj.prev = req[t].obj.state]
      BY Zenon, <3>1
    <3>4. req'[t].next = req[t].next  BY <3>3 DEF ReqType
    <3> QED  BY <3>1, <3>2, <3>4
  <2> QED  BY Zenon, <2>1, <2>2
<1>18. ASSUME NEW t \in Tables, SkipWriteState(t)
      PROVE  RestartInv'
  BY <1>18 DEF SkipWriteState, ReqType, NoReq, Locked
<1>19. ASSUME NEW t \in Tables, retryTableLifecycle(t)
      PROVE  RestartInv'
  BY Zenon, <1>19 DEF retryTableLifecycle, NoReq, Locked
<1>20. ASSUME NEW t \in Tables, NEW pos \in Position, ReportProgress(t, pos)
      PROVE  RestartInv'
  BY <1>20 DEF ReportProgress, UpdateStreamPosition, Locked
<1>22. CASE UNCHANGED schedVars
  BY Zenon, <1>22 DEF schedVars
<1> HIDE DEF TypeOK, RestartInv, HistType, Lifecycle, States
<1> QED
  BY Zenon, <1>1, <1>2, <1>3, <1>4, <1>5, <1>6, <1>7, <1>8, <1>9, <1>10, <1>11, <1>12, <1>13,
     <1>14, <1>15, <1>16, <1>17, <1>18, <1>19, <1>20, <1>22
     DEF SchedulerAction, ApiStep, RestartStep

\* Between a restart and the next snapshot no step of the scheduler leaves a cache file
\* with events, whichever tables are excepted.
LEMMA StepClears ==
  ASSUME TypeOK, PausedResumesLive, RestartInv, [SchedulerAction]_schedVars,
         NEW S, ClearedBut(S)
  PROVE  ClearedBut(S)'
<1> USE TablesAssumption DEF TypeOK, ClearedBut, RestartInv, HistType, Lifecycle, States
<1>1. ASSUME NEW t \in Tables, NEW pos \in Position, AddTable(t, pos)
      PROVE  ClearedBut(S)'
  BY <1>1 DEF AddTable, NewTableLifecycle, NoHist, Locked
<1>2. ASSUME NEW t \in Tables, NEW pos \in Position, SnapshotStart(t, pos)
      PROVE  ClearedBut(S)'
  BY <1>2 DEF SnapshotStart, TransitionTo, Locked
<1>3. ASSUME NEW t \in Tables, NEW r \in runs[t], OnSnapshotComplete(t, r)
      PROVE  ClearedBut(S)'
  <2>1. CASE CanTransition(lc[t], "catching_up")
    <3>1. /\ lc' = [lc EXCEPT ![t] = TransitionTo(@, "catching_up", NoPos)]
          /\ hist' = [hist EXCEPT ![t].earned = @ \/ r = epoch[t], ![t].stale = @ \/ r # epoch[t]]
          /\ UNCHANGED <<registered, cache, op, req>>
      BY Zenon, <1>3, <2>1 DEF OnSnapshotComplete
    <3> QED  BY <3>1 DEF TransitionTo
  <2>2. CASE ~CanTransition(lc[t], "catching_up")
    BY Zenon, <1>3, <2>2 DEF OnSnapshotComplete
  <2> QED  BY Zenon, <2>1, <2>2
<1>4. ASSUME NEW t \in Tables, NEW r \in runs[t], OnSnapshotError(t, r)
      PROVE  ClearedBut(S)'
  BY <1>4 DEF OnSnapshotError, SetError, Locked
<1>5. ASSUME NEW t \in Tables, PauseTable(t)
      PROVE  ClearedBut(S)'
  BY <1>5 DEF PauseTable, Pause, Locked
<1>6. ASSUME NEW t \in Tables, ResumeTable(t)
      PROVE  ClearedBut(S)'
  <2>1. lc[t].prev # "pending"
    BY Zenon, <1>6 DEF ResumeTable, CanResume, PausedResumesLive
  <2>2. lc'[t].state # "pending"
    BY <1>6, <2>1 DEF ResumeTable, Resume
  <2>3. /\ UNCHANGED <<registered, cache, op, hist>>
        /\ \A u \in Tables \ {t} : lc'[u] = lc[u]
    BY Zenon, <1>6 DEF ResumeTable
  <2> QED  BY Zenon, <2>2, <2>3
<1>7. ASSUME NEW t \in Tables, OnCaughtUp(t)
      PROVE  ClearedBut(S)'
  BY <1>7 DEF OnCaughtUp, TransitionTo, Idle, Locked
<1>8. ASSUME NEW ok \in BOOLEAN, OnCaughtUpDelete(ok)
      PROVE  ClearedBut(S)'
  BY Zenon, <1>8 DEF OnCaughtUpDelete, Idle, Locked
<1>9. ASSUME NEW t \in Tables, NEW pos \in Position, NEW force \in BOOLEAN, RestartTable(t, pos, force)
      PROVE  ClearedBut(S)'
  BY Zenon, <1>9 DEF RestartTable, RestartBegin, Idle, Locked
<1>10. ASSUME NEW s, NEW pos \in Position, NEW force \in BOOLEAN, RestartSchema(s, pos, force)
      PROVE  ClearedBut(S)'
  BY Zenon, <1>10 DEF RestartSchema, RestartBegin, Idle, Locked
<1>11. ASSUME NEW t \in Tables, RetryRestart(t)
      PROVE  ClearedBut(S)'
  BY Zenon, <1>11 DEF RetryRestart, RestartBegin, NoReq, Idle, Locked
<1>12. ASSUME NEW t \in Tables, RestartRead(t)
      PROVE  ClearedBut(S)'
  BY <1>12 DEF RestartRead, Continue, Idle, OpType, Locked
<1>13. ASSUME RestartSetError
      PROVE  ClearedBut(S)'
  BY Zenon, <1>13 DEF RestartSetError, SetError, OpType, Locked
<1>14. ASSUME RestartReset
      PROVE  ClearedBut(S)'
  <2>1. CASE CanReset(lc[op.cur])
    <3>1. /\ \A u \in Tables \ {op.cur} : lc'[u] = lc[u] /\ hist'[u] = hist[u]
          /\ UNCHANGED <<registered, cache>>
          /\ op' = [op EXCEPT !.pc = "clear"]
      BY Zenon, <1>14, <2>1 DEF RestartReset
    <3>2. op'.cur = op.cur
      BY <3>1 DEF OpType
    <3> QED  BY Zenon, <3>1, <3>2
  <2>2. CASE ~CanReset(lc[op.cur])
    <3>1. UNCHANGED <<registered, lc, cache, hist>>
      BY Zenon, <1>14, <2>2 DEF RestartReset
    <3>2. lc[op.cur].state # "pending"
      BY Zenon, <1>14 DEF RestartReset
    <3> QED  BY Zenon, <3>1, <3>2
  <2> QED  BY Zenon, <2>1, <2>2
<1>15. ASSUME NEW ok \in BOOLEAN, RestartClear(ok)
      PROVE  ClearedBut(S)'
  BY <1>15 DEF RestartClear, Continue, Idle, OpType, Locked
<1>16. ASSUME NEW t \in Tables, skipTableError(t)
      PROVE  ClearedBut(S)'
  BY Zenon, <1>16 DEF skipTableError, NoReq, Locked
<1>17. ASSUME NEW t \in Tables, SkipWritePrev(t)
      PROVE  ClearedBut(S)'
  <2>1. /\ UNCHANGED <<registered, cache, op, hist>>
        /\ lc' = lc \/ lc' = [lc EXCEPT ![t].prev = lc[t].state]
    BY Zenon, <1>17 DEF SkipWritePrev
  <2>2. \A u \in Tables : lc'[u].state = lc[u].state /\ lc'[u].retry = lc[u].retry
    <3> SUFFICES ASSUME NEW u \in Tables
                 PROVE  lc'[u].state = lc[u].state /\ lc'[u].retry = lc[u].retry
      BY Zenon
    <3>1. lc \in [Tables -> Lifecycle]  BY Zenon
    <3>2. lc[u] \in Lifecycle  BY Zenon, <3>1
    <3>3. lc'[u] \in {lc[u], [lc[u] EXCEPT !.prev = lc[t].state]}
      <4> HIDE DEF Lifecycle
      <4> QED  BY <2>1, <3>1
    <3> QED  BY <3>2, <3>3
  <2> QED  BY Zenon, <2>1, <2>2
<1>18. ASSUME NEW t \in Tables, SkipWriteState(t)
      PROVE  ClearedBut(S)'
  BY <1>18 DEF SkipWriteState, ReqType, NoReq, Locked
<1>19. ASSUME NEW t \in Tables, retryTableLifecycle(t)
      PROVE  ClearedBut(S)'
  BY Zenon, <1>19 DEF retryTableLifecycle, NoReq, Locked
<1>20. ASSUME NEW t \in Tables, NEW pos \in Position, ReportProgress(t, pos)
      PROVE  ClearedBut(S)'
  BY <1>20 DEF ReportProgress, UpdateStreamPosition, Locked
<1>22. CASE UNCHANGED schedVars
  BY Zenon, <1>22 DEF schedVars
<1> HIDE DEF TypeOK, ClearedBut, RestartInv, HistType, Lifecycle, States
<1> QED
  BY Zenon, <1>1, <1>2, <1>3, <1>4, <1>5, <1>6, <1>7, <1>8, <1>9, <1>10, <1>11, <1>12, <1>13,
     <1>14, <1>15, <1>16, <1>17, <1>18, <1>19, <1>20, <1>22
     DEF SchedulerAction, ApiStep, RestartStep

\* The module's own Next takes its positions from the sets of its constants.
LEMMA NextIsAction == [Next]_schedVars => [SchedulerAction]_schedVars
  BY Zenon, PositionsAssumption DEF Next, SchedulerAction

-----------------------------------------------------------------------------
(* Theorems.                                                               *)

\* In every state the scheduler, its API handlers and its environment reach, the
\* lifecycles, the mutex and the requests in flight have their types.
THEOREM TypeCorrect == Spec => []TypeOK
<1>1. SchedInit => TypeOK /\ PausedResumesLive
  BY Zenon, InitTypes DEF SchedInit, PausedResumesLive
<1>2. TypeOK /\ PausedResumesLive /\ [Next]_schedVars => (TypeOK /\ PausedResumesLive)'
  BY Zenon, StepTypes, StepPaused, NextIsAction
<1> QED  BY <1>1, <1>2, PTL DEF Spec

\* ResumeTable puts a paused table back into the phase it was paused in, whatever
\* restarts, retries and skip requests came in between.
THEOREM PausedSafe == Spec => []PausedResumesLive
<1>1. SchedInit => TypeOK /\ PausedResumesLive
  BY Zenon, InitTypes DEF SchedInit, PausedResumesLive
<1>2. TypeOK /\ PausedResumesLive /\ [Next]_schedVars => (TypeOK /\ PausedResumesLive)'
  BY Zenon, StepTypes, StepPaused, NextIsAction
<1> QED  BY <1>1, <1>2, PTL DEF Spec

\* No table receives events at its sink before its latest snapshot completed, a run that
\* a restart had superseded reported in its place or an operator skipped its error, for
\* any number of tables, of restarts and of runs that overlap.
THEOREM LiveSafe == Spec => []LiveOnlyAfterSnapshot
<1>1. SchedInit => LiveOnlyAfterSnapshot
  BY Zenon DEF SchedInit, LiveOnlyAfterSnapshot
<1>2. TypeOK /\ PausedResumesLive /\ LiveOnlyAfterSnapshot /\ [Next]_schedVars
        => LiveOnlyAfterSnapshot'
  BY Zenon, StepLive
<1> QED  BY <1>1, <1>2, TypeCorrect, PausedSafe, PTL DEF Spec

\* The positions a table records stay behind the one it needs the source log from, unless
\* a snapshot of it began without a position or its error was skipped.
THEOREM NeedSafe == Spec => []PositionsCoverNeed
<1>1. SchedInit => PositionsCoverNeed
  BY Zenon DEF SchedInit, PositionsCoverNeed
<1>2. TypeOK /\ PausedResumesLive /\ PositionsCoverNeed /\ [Next]_schedVars
        => PositionsCoverNeed'
  BY Zenon, StepNeed
<1> QED  BY <1>1, <1>2, TypeCorrect, PausedSafe, PTL DEF Spec

\* The types, the phase a paused table resumes into and the recorded positions of the
\* tables all of whose snapshots began with one are as SchedulerInv says.
THEOREM InvariantSafe == Spec => []SchedulerInv
<1> QED  BY TypeCorrect, PausedSafe, NeedSafe, PTL DEF SchedulerInv

\* GetGlobalMinPosition never passes a position that a table still needs the source log
\* from, if every snapshot of that table began with a position; what the snapshots of
\* the other tables began with does not matter.
THEOREM GlobalMinSafe == Spec => []GlobalMinCovers
<1>1. TypeOK /\ PositionsCoverNeed => GlobalMinCovers
  <2> SUFFICES ASSUME TypeOK, PositionsCoverNeed, NEW t \in registered,
                      lc[t].state # "pending", hist[t].need # NoPos, ~hist[t].skipped, ~hist[t].blind
               PROVE  /\ GetGlobalMinPosition # NoPos
                      /\ GetGlobalMinPosition <= hist[t].need
    BY Zenon DEF GlobalMinCovers
  <2> DEFINE lcs == {lc[u] : u \in registered}
  <2>1. lc[t] \in Lifecycle /\ lc[t] \in lcs /\ lcs \subseteq Lifecycle
    BY Zenon DEF TypeOK
  <2>2. /\ lc[t].snap \in Nat
        /\ lc[t].strm \in Nat
        /\ hist[t].need \in Nat
        /\ lc[t].snap <= lc[t].strm
        /\ lc[t].strm <= hist[t].need
    BY Zenon, <2>1 DEF TypeOK, PositionsCoverNeed, HistType, Lifecycle, Position, NoPos
  <2>3. /\ effectivePosition(lc[t]) \in Nat
        /\ effectivePosition(lc[t]) <= hist[t].need
    BY <2>1, <2>2 DEF effectivePosition, Lifecycle, States, NoPos
  <2>4. effectivePosition(lc[t]) # NoPos
    BY <2>3 DEF NoPos
  <2>5. /\ GetGlobalMinPosition # NoPos
        /\ GetGlobalMinPosition <= effectivePosition(lc[t])
        /\ GetGlobalMinPosition \in Nat
    BY Zenon, <2>1, <2>4, GlobalMinBelow DEF GetGlobalMinPosition
  <2> QED  BY <2>2, <2>3, <2>5
<1> QED  BY <1>1, TypeCorrect, NeedSafe, PTL

-----------------------------------------------------------------------------

(***************************************************************************)
(* Proofs about the pipeline as a whole: for every set of tables, every    *)
(* length of the log, every number of snapshots, restarts and replays and  *)
(* every mix of faults and operator requests.                              *)
(*                                                                         *)
(* The inductive invariant has three layers.  The types of the scheduler   *)
(* and of the pipeline come first.  FlowInv says where events can be: the  *)
(* event in the routing goroutine's hand is the last one it took, and      *)
(* everything in a cache file, in a reader's channel or in the sink was    *)
(* taken before it.  GapInv says, phase by phase, where the events a table *)
(* is owed are: in the cache file while it is snapshotting, in the cache   *)
(* file or the sink while it is catching up, in the sink once it streams;  *)
(* and how far a replay of the current snapshot has come.                  *)
(***************************************************************************)

\* The routing goroutine has taken an event and not yet written it.
InHand == router.pc \in {"cache", "sink"}

\* The events the routing goroutine is done with are 1..Settled.
Settled == IF InHand THEN cursor - 1 ELSE cursor

\* The phase a table is in, or will resume into.
Phase(t) == IF lc[t].state = "paused" THEN lc[t].prev ELSE lc[t].state

\* What is stored for table t was among the first n events of the log.
Stored(t, n) ==
  /\ cache[t] \in Seq(1..n)
  /\ replay[t].buf \in Seq(1..n)
  /\ replay[t].file \in Seq(1..n)
  /\ applied[t] \subseteq 1..n

\* Where events can be; a replay's number is not ahead of the snapshots, and Stop waited.
FlowInv ==
  /\ InHand => cursor >= 1 /\ router.ev = cursor
  /\ \A t \in Tables : Stored(t, Settled)
  /\ \A t \in Tables : replay[t].run <= epoch[t]
  /\ pl = "stopped" => router.pc = "gone"

\* While OnCaughtUp is about to delete the cache file, the table streams; only a skip
\* request, which takes no lock, may have moved it meanwhile.
DropInv == op.pc = "drop" => lc[op.cur].state = "streaming" \/ hist[op.cur].skipped

\* A replay of the current snapshot reads the cache file itself; what it has read is in
\* the sink or in its channel; and it is over only when it has read and applied all.
ReplayInv(t) ==
  /\ replay[t].pc \in {"run", "done"} =>
       /\ replay[t].live
       /\ replay[t].idx <= Len(cache[t])
       /\ \A i \in 1..replay[t].idx :
            \/ cache[t][i] \in applied[t]
            \/ \E j \in 1..Len(replay[t].buf) : replay[t].buf[j] = cache[t][i]
       /\ replay[t].closed /\ ~replay[t].err /\ ~replay[t].cancelled
            => replay[t].idx = Len(cache[t])
  /\ replay[t].pc = "done" =>
       /\ replay[t].closed
       /\ ~replay[t].err
       /\ ~replay[t].cancelled
       /\ replay[t].buf = <<>>

\* No cause of loss is recorded for the table.
Unharmed(t) == t \in registered /\ cause[t] = {} /\ ~hist[t].skipped

\* Where the events are that an unharmed table is owed, by the phase of the table.
GapInv(t) ==
  Unharmed(t) =>
    /\ Phase(t) = "snapshotting" =>
         /\ Due(t) \subseteq Cached(t)
         /\ router.pc = "sink" /\ stream[router.ev] = t => router.ev <= lc[t].snap
         /\ replay[t].pc # "idle" => replay[t].run # epoch[t]
    /\ Phase(t) = "catching_up" =>
         /\ Due(t) \subseteq applied[t] \cup Cached(t)
         /\ replay[t].run = epoch[t] => ReplayInv(t)
    /\ Phase(t) = "streaming" => Due(t) \subseteq applied[t]

-----------------------------------------------------------------------------
(* The pipeline's steps, seen by the scheduler.                            *)

\* A step of the pipeline is a step of the scheduler, leaves it alone, or appends the
\* event in the routing goroutine's hand to a cache file.
LEMMA PipeIsScheduler ==
  ASSUME PipeTypeOK, PipeNext \/ UNCHANGED vars
  PROVE  \/ [SchedulerAction]_schedVars
         \/ \E ok \in BOOLEAN : RouteCacheWrite(ok)
<1>1. head \in Position /\ NoPos \in Position
  BY DEF PipeTypeOK, head, Position
<1>2. ASSUME NEW t \in Tables, Emit(t) \/ SnapshotBegins(t) \/ ReplayStep(t)
      PROVE  [SchedulerAction]_schedVars
  BY Zenon, <1>1, <1>2 DEF Emit, SnapshotBegins, ReplayStep, Replay, ReadOpen, Read, ReadFails,
     Cancel,
     ReadCancelled, ReplayApply, ReplayFails, ReplayDone, CaughtUp, ReplayRetry, SchedulerAction
<1>3. ASSUME NEW ok \in BOOLEAN, RestartDeletes(ok) \/ CaughtUpDeletes(ok)
      PROVE  SchedulerAction
  BY Zenon, <1>3 DEF RestartDeletes, CaughtUpDeletes, SchedulerAction, RestartStep
<1>4. CASE RouterStep
  BY Zenon, <1>4 DEF RouterStep, Route, RouteSinkWrite, RouteExit
<1>5. CASE PipelineStep
  BY Zenon, <1>5 DEF PipelineStep, Start, StopClose, StopSource, StopSinks
<1>6. CASE SchedulerStep
  BY Zenon, <1>1, <1>6 DEF SchedulerStep, SchedulerAction, RestartStep
<1>7. CASE UNCHANGED vars
  BY Zenon, <1>7 DEF vars
<1> QED  BY Zenon, <1>2, <1>3, <1>4, <1>5, <1>6, <1>7 DEF PipeNext

\* The event in the routing goroutine's hand is an event of the log, of one of the tables.
LEMMA HandedEvent ==
  ASSUME PipeTypeOK, FlowInv, InHand
  PROVE  /\ router.ev \in 1..cursor
         /\ router.ev \in 1..head
         /\ router.ev \in Nat
         /\ stream[router.ev] \in Tables
<1>1. router.ev \in 1..head /\ router.ev \in 1..cursor
  BY DEF PipeTypeOK, FlowInv, head
<1>2. \A i \in 1..Len(stream) : stream[i] \in Tables
  BY DEF PipeTypeOK
<1> QED  BY <1>1, <1>2 DEF head

\* The scheduler's own invariants hold in the pipeline too.
LEMMA PipeSchedTypes ==
  ASSUME TypeOK, PausedResumesLive, PipeTypeOK, FlowInv, PipeNext \/ UNCHANGED vars
  PROVE  TypeOK' /\ PausedResumesLive'
<1>1. CASE [SchedulerAction]_schedVars
  BY Zenon, <1>1, StepTypes, StepPaused
<1>2. ASSUME NEW ok \in BOOLEAN, RouteCacheWrite(ok)
      PROVE  TypeOK' /\ PausedResumesLive'
  <2>1. router.ev \in Nat /\ stream[router.ev] \in Tables
    BY Zenon, <1>2, HandedEvent DEF InHand, RouteCacheWrite
  <2>2. Append(cache[stream[router.ev]], router.ev) \in Seq(Nat)
    BY <2>1 DEF TypeOK
  <2>3. cache' \in [Tables -> Seq(Nat)]
    BY Zenon, <1>2, <2>1, <2>2 DEF RouteCacheWrite, TypeOK
  <2> QED  BY Zenon, <1>2, <2>3 DEF RouteCacheWrite, TypeOK, PausedResumesLive
<1> QED  BY Zenon, <1>1, <1>2, PipeIsScheduler

\* OnCaughtUp holds the scheduler's mutex between the new state and the delete, so only
\* a skip request can move the table.
LEMMA StepDrop ==
  ASSUME TypeOK, DropInv, [SchedulerAction]_schedVars
  PROVE  DropInv'
<1> USE DEF TypeOK, DropInv
<1>1. ASSUME NEW t \in Tables, NEW pos \in Position,
             \/ AddTable(t, pos)
             \/ \E force \in BOOLEAN : RestartTable(t, pos, force) \/ RestartSchema(Schema[t], pos, force)
      PROVE  DropInv'
  BY Zenon, <1>1 DEF AddTable, RestartTable, RestartSchema, RestartBegin, Idle, Locked
<1>2. ASSUME NEW t \in Tables, NEW pos \in Position, SnapshotStart(t, pos)
      PROVE  DropInv'
  <2>1. lc[t].state # "streaming"
    BY Zenon, <1>2 DEF SnapshotStart, CanTransition, validTransitions, Lifecycle, States
  <2>2. \A u \in Tables : hist'[u].skipped = hist[u].skipped
    BY Zenon, <1>2 DEF SnapshotStart, HistType
  <2> QED  BY <1>2, <2>1, <2>2 DEF SnapshotStart
<1>3. ASSUME NEW t \in Tables, NEW pos \in Position, ReportProgress(t, pos)
      PROVE  DropInv'
  <2>1. \A u \in Tables : hist'[u].skipped = hist[u].skipped /\ lc'[u].state = lc[u].state
    BY <1>3 DEF ReportProgress, UpdateStreamPosition, HistType, Lifecycle
  <2> QED  BY Zenon, <1>3, <2>1 DEF ReportProgress
<1>4. ASSUME NEW t \in Tables,
             \/ \E r \in runs[t] : OnSnapshotComplete(t, r) \/ OnSnapshotError(t, r)
             \/ PauseTable(t) \/ ResumeTable(t)
      PROVE  DropInv'
  BY Zenon, <1>4 DEF OnSnapshotComplete, OnSnapshotError, PauseTable, ResumeTable, Locked
<1>5. ASSUME NEW t \in Tables, OnCaughtUp(t)
      PROVE  DropInv'
  <2>1. lc'[t].state = "streaming" /\ op'.cur = t
    BY Zenon, <1>5 DEF OnCaughtUp, TransitionTo, Idle, Lifecycle
  <2> QED  BY Zenon, <2>1
<1>6. ASSUME NEW t \in Tables, skipTableError(t) \/ retryTableLifecycle(t)
      PROVE  DropInv'
  BY Zenon, <1>6 DEF skipTableError, retryTableLifecycle
<1>7. ASSUME NEW t \in Tables, SkipWritePrev(t)
      PROVE  DropInv'
  <2>1. lc' = [lc EXCEPT ![t].prev = lc[t].state] \/ lc' = lc
    BY Zenon, <1>7 DEF SkipWritePrev
  <2>2. \A u \in Tables : lc'[u].state = lc[u].state
    <3>1. [lc[t] EXCEPT !.prev = lc[t].state].state = lc[t].state
      BY DEF Lifecycle
    <3> QED  BY Zenon, <2>1, <3>1
  <2> QED  BY Zenon, <1>7, <2>2 DEF SkipWritePrev
<1>8. ASSUME NEW t \in Tables, SkipWriteState(t)
      PROVE  DropInv'
  <2>1. hist'[t].skipped
    BY <1>8 DEF SkipWriteState, HistType
  <2>2. op' = op /\ \A u \in Tables \ {t} : lc'[u] = lc[u] /\ hist'[u] = hist[u]
    BY Zenon, <1>8 DEF SkipWriteState
  <2> QED  BY Zenon, <2>1, <2>2
<1>9. ASSUME NEW t \in Tables, RetryRestart(t)
      PROVE  DropInv'
  BY Zenon, <1>9 DEF RetryRestart, RestartBegin, Idle, Locked
<1>10. CASE RestartStep
  <2>1. op'.pc # "drop"
    <3>1. \A left : Continue(left).pc # "drop"
      BY Zenon DEF Continue, Idle, OpType
    <3>2. ASSUME NEW t \in Tables, RestartRead(t)
          PROVE  op'.pc # "drop"
      BY Zenon, <3>1, <3>2 DEF RestartRead, OpType
    <3>3. CASE RestartSetError
      BY Zenon, <3>3 DEF RestartSetError, OpType
    <3>4. CASE RestartReset
      BY <3>4 DEF RestartReset, OpType, Idle
    <3>5. ASSUME NEW ok \in BOOLEAN, RestartClear(ok) \/ OnCaughtUpDelete(ok)
          PROVE  op'.pc # "drop"
      BY <3>1, <3>5 DEF RestartClear, OnCaughtUpDelete, Idle
    <3> QED  BY Zenon, <1>10, <3>2, <3>3, <3>4, <3>5 DEF RestartStep
  <2> QED  BY Zenon, <2>1
<1>11. CASE UNCHANGED schedVars
  BY Zenon, <1>11 DEF schedVars
<1> HIDE DEF TypeOK, DropInv
<1> QED
  BY Zenon, <1>1, <1>2, <1>3, <1>4, <1>5, <1>6, <1>7, <1>8, <1>9, <1>10, <1>11
     DEF SchedulerAction, ApiStep

\* The same in the pipeline.
LEMMA PipeDrop ==
  ASSUME TypeOK, PipeTypeOK, DropInv, PipeNext \/ UNCHANGED vars
  PROVE  DropInv'
  BY PipeIsScheduler, StepDrop DEF RouteCacheWrite, DropInv

-----------------------------------------------------------------------------
(* Where events can be.                                                    *)

\* A sequence over a set is a sequence over every larger one.
LEMMA SeqGrows ==
  ASSUME NEW S, NEW T, S \subseteq T, NEW s \in Seq(S)
  PROVE  s \in Seq(T)
<1>1. Len(s) \in Nat /\ s \in [1..Len(s) -> T]
  OBVIOUS
<1> QED  BY <1>1

\* In particular over the naturals.
LEMMA NatSeq ==
  ASSUME NEW S, S \subseteq Nat, NEW s \in Seq(S)
  PROVE  s \in Seq(Nat)
<1>1. PICK T : T = Nat
  BY Zenon
<1>2. S \subseteq T
  BY Zenon, <1>1
<1>3. s \in Seq(T)
  BY Zenon, <1>2, SeqGrows
<1> QED  BY Zenon, <1>1, <1>3

\* The events the routing goroutine is done with are a prefix of the log.
LEMMA SettledIsPrefix ==
  ASSUME PipeTypeOK, FlowInv
  PROVE  /\ Settled \in Nat
         /\ Settled <= cursor
         /\ cursor <= head
         /\ head \in Nat
         /\ InHand => router.ev = Settled + 1
  BY DEF PipeTypeOK, FlowInv, Settled, head

\* Of what is stored for a table, the numbers only matter up to a bound.
LEMMA StoredGrows ==
  ASSUME NEW t \in Tables, NEW m \in Nat, NEW n \in Nat, m <= n, Stored(t, m)
  PROVE  Stored(t, n)
<1>1. 1..m \subseteq 1..n
  OBVIOUS
<1> QED  BY <1>1, SeqGrows DEF Stored

\* A replay step moves one replay; what its reader holds stays within the settled events.
LEMMA ReplayMoves ==
  ASSUME TypeOK, PipeTypeOK, FlowInv, NEW t \in Tables, ReplayStep(t)
  PROVE  \E r \in ReplayType :
           /\ replay' = [replay EXCEPT ![t] = r]
           /\ r.buf \in Seq(1..Settled)
           /\ r.file \in Seq(1..Settled)
           /\ r.run <= epoch[t]
<1>0. PICK S : S = 1..Settled
  BY Zenon
<1> DEFINE Fits(r) == /\ r \in ReplayType
                      /\ r.buf \in Seq(S)
                      /\ r.file \in Seq(S)
                      /\ r.run <= epoch[t]
<1> SUFFICES \E r : Fits(r) /\ replay' = [replay EXCEPT ![t] = r]
  BY Zenon, <1>0
<1>a. S \subseteq Nat
  BY <1>0, SettledIsPrefix
<1>1. Fits(replay[t]) /\ replay[t] \in ReplayType /\ epoch[t] \in Nat
  BY Zenon, <1>0 DEF PipeTypeOK, FlowInv, Stored, TypeOK
<1>2. Fits(NoReplay)
  BY <1>1 DEF NoReplay, ReplayType
<1>3. \A p \in {"run", "done", "failed"} : Fits([replay[t] EXCEPT !.pc = p])
  BY Zenon, <1>1 DEF ReplayType
<1>4. /\ Fits([replay[t] EXCEPT !.closed = TRUE])
      /\ Fits([replay[t] EXCEPT !.opened = TRUE])
      /\ Fits([replay[t] EXCEPT !.cancelled = TRUE])
  BY Zenon, <1>1 DEF ReplayType
<1>5. CASE Replay(t)
  <2>1. PICK n \in Nat : n = epoch[t]
    BY Zenon, <1>1
  <2>2. \A r \in ReplayType : [r EXCEPT !.pc = "run", !.run = n] \in ReplayType
    BY Zenon DEF ReplayType
  <2>3. [NoReplay EXCEPT !.pc = "run", !.run = n] \in ReplayType
    BY Zenon, <1>2, <2>2
  <2>4. Fits([NoReplay EXCEPT !.pc = "run", !.run = n])
    BY <1>2, <2>1, <2>3 DEF NoReplay
  <2> QED  BY Zenon, <1>5, <2>1, <2>4 DEF Replay
<1>6. CASE ReadOpen(t)
  BY Zenon, <1>4, <1>6 DEF ReadOpen
<1>7. CASE Read(t)
  <2>1. CASE replay[t].idx < Len(ReadFile(t))
             /\ replay' = [replay EXCEPT ![t].idx = @ + 1,
                                        ![t].buf = Append(@, ReadFile(t)[replay[t].idx + 1])]
    <3>1. ReadFile(t) \in Seq(S)
      BY Zenon, <1>0 DEF ReadFile, FlowInv, Stored
    <3>2. PICK e : e = ReadFile(t)[replay[t].idx + 1]
      BY Zenon
    <3>3. replay[t].idx \in Nat
      BY Zenon, <1>1 DEF ReplayType
    <3>4. e \in S
      <4>1. \A q \in Seq(S), i \in Nat : i < Len(q) => q[i + 1] \in S
        OBVIOUS
      <4> QED  BY Zenon, <2>1, <3>1, <3>2, <3>3, <4>1
    <3>5. Append(replay[t].buf, e) \in Seq(S) /\ e \in Nat
      BY <1>1, <1>a, <3>4
    <3>6. Fits([[replay[t] EXCEPT !.idx = replay[t].idx + 1] EXCEPT !.buf = Append(replay[t].buf, e)])
      <4>1. PICK b : b = Append(replay[t].buf, e)
        BY Zenon
      <4>2. b \in Seq(S)
        BY Zenon, <3>5, <4>1
      <4>a. b \in Seq(Nat)
        BY Zenon, <1>a, <4>2, NatSeq
      <4>3. Fits([[replay[t] EXCEPT !.idx = replay[t].idx + 1] EXCEPT !.buf = b])
        <5>1. PICK i \in Nat : i = replay[t].idx + 1
          BY <3>3
        <5>2. [[replay[t] EXCEPT !.idx = i] EXCEPT !.buf = b] \in ReplayType
          BY Zenon, <1>1, <4>a DEF ReplayType
        <5>3. /\ [[replay[t] EXCEPT !.idx = i] EXCEPT !.buf = b].buf = b
              /\ [[replay[t] EXCEPT !.idx = i] EXCEPT !.buf = b].file = replay[t].file
              /\ [[replay[t] EXCEPT !.idx = i] EXCEPT !.buf = b].run = replay[t].run
          BY Zenon, <1>1 DEF ReplayType
        <5> QED  BY Zenon, <1>1, <4>2, <5>1, <5>2, <5>3
      <4> QED  BY Zenon, <4>1, <4>3
    <3>7. replay' = [replay EXCEPT ![t] =
                       [[replay[t] EXCEPT !.idx = replay[t].idx + 1] EXCEPT !.buf = Append(replay[t].buf, e)]]
      BY <2>1, <3>2, <1>1 DEF PipeTypeOK, ReplayType
    <3> QED  BY Zenon, <3>6, <3>7
  <2>2. CASE replay' = [replay EXCEPT ![t].closed = TRUE]
    BY Zenon, <1>4, <2>2
  <2> QED  BY Zenon, <1>7, <2>1, <2>2 DEF Read
<1>8. CASE ReadFails(t)
  <2>1. Fits([[replay[t] EXCEPT !.closed = TRUE] EXCEPT !.err = TRUE])
    BY Zenon, <1>1 DEF ReplayType
  <2> QED  BY Zenon, <1>8, <2>1 DEF ReadFails
<1>9. CASE Cancel(t) \/ ReadCancelled(t)
  BY Zenon, <1>4, <1>9 DEF Cancel, ReadCancelled
<1>10. ASSUME NEW ok \in BOOLEAN, ReplayApply(t, ok)
       PROVE  \E r : Fits(r) /\ replay' = [replay EXCEPT ![t] = r]
  <2>1. Fits([replay[t] EXCEPT !.buf = Tail(replay[t].buf)])
    <3>1. PICK b : b = Tail(replay[t].buf)
      BY Zenon
    <3>2. replay[t].buf \in Seq(Nat) /\ replay[t].buf # <<>>
      BY Zenon, <1>1, <1>10 DEF ReplayApply, ReplayType
    <3>3. b \in Seq(S) /\ b \in Seq(Nat)
      BY <1>1, <3>1, <3>2
    <3>4. Fits([replay[t] EXCEPT !.buf = b])
      BY Zenon, <1>1, <3>3 DEF ReplayType
    <3> QED  BY <3>1, <3>4
  <2> QED  BY Zenon, <1>3, <1>10, <2>1 DEF ReplayApply
<1>11. CASE ReplayFails(t) \/ ReplayDone(t)
  BY Zenon, <1>3, <1>11 DEF ReplayFails, ReplayDone
<1>12. CASE CaughtUp(t) \/ ReplayRetry(t)
  BY Zenon, <1>2, <1>12 DEF CaughtUp, ReplayRetry
<1> HIDE DEF Fits
<1> QED
  BY Zenon, <1>5, <1>6, <1>7, <1>8, <1>9, <1>10, <1>11, <1>12 DEF ReplayStep

\* A step that changes neither log, routing goroutine nor stored events keeps all of it.
LEMMA FlowFrame ==
  ASSUME TypeOK, PipeTypeOK, FlowInv, UNCHANGED <<stream, cursor, router, replay, replays, applied>>,
         cache' = cache, cause' \in [Tables -> SUBSET Causes],
         \A t \in Tables : epoch[t] <= epoch'[t], epoch' \in [Tables -> Nat],
         pl' \in {"new", "running", "stopping", "waiting", "failed", "stopped"},
         pl' = "stopped" => router.pc = "gone"
  PROVE  PipeTypeOK' /\ FlowInv'
<1>1. PipeTypeOK'
  BY Zenon DEF PipeTypeOK, head
<1>2. \A t \in Tables : replay[t].run \in Nat /\ epoch[t] \in Nat /\ epoch'[t] \in Nat
  BY Zenon DEF PipeTypeOK, ReplayType, TypeOK
<1>3. \A t \in Tables : replay'[t].run <= epoch'[t]
  BY <1>2 DEF FlowInv
<1>4. Settled' = Settled
  BY Zenon DEF Settled, InHand
<1>5. \A t \in Tables : Stored(t, Settled)'
  BY Zenon, <1>4 DEF FlowInv, Stored
<1> QED  BY Zenon, <1>1, <1>3, <1>5 DEF FlowInv, InHand

\* Blaming a table for a cause keeps the type of cause.
LEMMA BlameType ==
  ASSUME PipeTypeOK, NEW t \in Tables, NEW c \in Causes, Blame(t, c) \/ UNCHANGED cause
  PROVE  cause' \in [Tables -> SUBSET Causes]
  BY DEF PipeTypeOK, Blame

\* A replay step keeps the types and where events can be.
LEMMA FlowReplay ==
  ASSUME TypeOK, PipeTypeOK, FlowInv, NEW t \in Tables, ReplayStep(t)
  PROVE  PipeTypeOK' /\ FlowInv'
<1>1. PICK r \in ReplayType :
           /\ replay' = [replay EXCEPT ![t] = r]
           /\ r.buf \in Seq(1..Settled)
           /\ r.file \in Seq(1..Settled)
           /\ r.run <= epoch[t]
  BY Zenon, ReplayMoves
<1>2. UNCHANGED <<stream, cursor, router, pl, cache, epoch>>
  BY Zenon DEF ReplayStep, Replay, ReadOpen, Read, ReadFails, Cancel, ReadCancelled, ReplayApply,
     ReplayFails,
     ReplayDone, CaughtUp, ReplayRetry, OnCaughtUp, schedVars
<1>3. replays' \in [Tables -> Nat]
  BY DEF ReplayStep, Replay, ReadOpen, Read, ReadFails, Cancel, ReadCancelled, ReplayApply,
     ReplayFails,
     ReplayDone, CaughtUp, ReplayRetry, PipeTypeOK
<1>4. cause' \in [Tables -> SUBSET Causes]
  BY Zenon, BlameType DEF ReplayStep, Replay, ReadOpen, Read, ReadFails, Cancel, ReadCancelled,
     ReplayApply,
     ReplayFails, ReplayDone, CaughtUp, ReplayRetry, Causes
<1>5. /\ applied' \in [Tables -> SUBSET (1..head)]
      /\ \A u \in Tables : applied'[u] \subseteq 1..Settled
  <2>1. CASE ReplayApply(t, TRUE)
    <3>1. replay[t].buf \in Seq(1..Settled) /\ replay[t].buf # <<>>
      BY <2>1 DEF ReplayApply, FlowInv, Stored
    <3>2. Head(replay[t].buf) \in 1..Settled
      <4>1. PICK S : S = 1..Settled
        BY Zenon
      <4>2. replay[t].buf \in Seq(S) /\ replay[t].buf # <<>>
        BY Zenon, <3>1, <4>1
      <4>3. \A q \in Seq(S) : q # <<>> => Head(q) \in S
        OBVIOUS
      <4> QED  BY Zenon, <4>1, <4>2, <4>3
    <3>3. 1..Settled \subseteq 1..head
      <4>1. Settled \in Nat /\ head \in Nat /\ Settled <= head
        BY SettledIsPrefix DEF PipeTypeOK
      <4> QED  BY <4>1
    <3>4. applied' = [applied EXCEPT ![t] = applied[t] \cup {Head(replay[t].buf)}]
      BY Zenon, <2>1 DEF ReplayApply
    <3> QED  BY Zenon, <3>2, <3>3, <3>4 DEF PipeTypeOK, FlowInv, Stored
  <2>2. CASE ~ReplayApply(t, TRUE)
    <3>1. applied' = applied
      BY Zenon, <2>2 DEF ReplayStep, Replay, ReadOpen, Read, ReadFails, Cancel, ReadCancelled,
         ReplayApply,
         ReplayFails, ReplayDone, CaughtUp, ReplayRetry
    <3> QED  BY Zenon, <3>1 DEF PipeTypeOK, FlowInv, Stored
  <2> QED  BY Zenon, <2>1, <2>2
<1>6. PipeTypeOK'
  BY Zenon, <1>1, <1>2, <1>3, <1>4, <1>5 DEF PipeTypeOK, head
<1>7. Settled' = Settled
  BY Zenon, <1>2 DEF Settled, InHand
<1>8. \A u \in Tables : Stored(u, Settled)'
  BY Zenon, <1>1, <1>2, <1>5, <1>7 DEF Stored, FlowInv, PipeTypeOK
<1>9. \A u \in Tables : replay'[u].run <= epoch'[u]
  BY Zenon, <1>1, <1>2 DEF FlowInv, PipeTypeOK
<1> QED  BY <1>2, <1>6, <1>8, <1>9 DEF FlowInv, InHand

\* The log grows at its end.
LEMMA FlowEmit ==
  ASSUME TypeOK, PipeTypeOK, FlowInv, NEW t \in Tables, Emit(t)
  PROVE  PipeTypeOK' /\ FlowInv'
<1>1. stream' \in Seq(Tables) /\ head \in Nat /\ head' = head + 1
  BY DEF Emit, PipeTypeOK, head
<1>2. UNCHANGED <<schedVars, cursor, router, replay, replays, applied, cause, pl>>
  BY Zenon DEF Emit
<1>3. 1..head \subseteq 1..head' /\ 0..head \subseteq 0..head'
  BY <1>1
<1>4. PipeTypeOK'
  BY Zenon, <1>1, <1>2, <1>3 DEF PipeTypeOK
<1>5. UNCHANGED Settled /\ UNCHANGED InHand
  BY Zenon, <1>2 DEF Settled, InHand
<1>6. \A u \in Tables : Stored(u, Settled)'
  BY Zenon, <1>2, <1>5 DEF Stored, FlowInv, schedVars
<1> QED  BY Zenon, <1>2, <1>4, <1>5, <1>6 DEF FlowInv, schedVars

\* A new snapshot empties what the sink is measured by.
LEMMA FlowSnapshot ==
  ASSUME TypeOK, PipeTypeOK, FlowInv, NEW t \in Tables, SnapshotBegins(t)
  PROVE  PipeTypeOK' /\ FlowInv'
<1>1. /\ applied' = [applied EXCEPT ![t] = {}]
      /\ cause' = [cause EXCEPT ![t] = {}]
      /\ epoch' = [epoch EXCEPT ![t] = epoch[t] + 1]
      /\ UNCHANGED <<cache, stream, cursor, router, replay, replays, pl>>
  BY Zenon DEF SnapshotBegins, SnapshotStart
<1>2. PipeTypeOK'
  BY <1>1 DEF PipeTypeOK, head
<1>3. \A u \in Tables : replay'[u].run <= epoch'[u]
  <2>1. \A u \in Tables : replay[u].run \in Nat /\ epoch[u] \in Nat /\ replay[u].run <= epoch[u]
    BY Zenon DEF PipeTypeOK, ReplayType, TypeOK, FlowInv
  <2> QED  BY <1>1, <2>1 DEF TypeOK
<1>4. UNCHANGED Settled /\ UNCHANGED InHand
  BY Zenon, <1>1 DEF Settled, InHand
<1>5. \A u \in Tables : Stored(u, Settled)'
  BY Zenon, <1>1, <1>4 DEF Stored, FlowInv, PipeTypeOK
<1> QED  BY Zenon, <1>1, <1>2, <1>3, <1>4, <1>5 DEF FlowInv

\* Deleting a cache file leaves its contents to the reader that has it open.
LEMMA FlowDelete ==
  ASSUME TypeOK, PipeTypeOK, FlowInv, NEW ok \in BOOLEAN, RestartDeletes(ok) \/ CaughtUpDeletes(ok)
  PROVE  PipeTypeOK' /\ FlowInv'
<1>1. /\ Unlink
      /\ UNCHANGED <<epoch, stream, cursor, router, replays, applied, pl>>
      /\ op.cur \in Tables
      /\ cache' = cache \/ cache' = [cache EXCEPT ![op.cur] = <<>>]
  BY Zenon DEF RestartDeletes, CaughtUpDeletes, RestartClear, OnCaughtUpDelete, TypeOK
<1>2. cause' \in [Tables -> SUBSET Causes]
  BY Zenon, <1>1, BlameType DEF RestartDeletes, CaughtUpDeletes, Causes
<1>3. \A u \in Tables : cache[u] \in Seq(1..Settled) /\ cache[u] \in Seq(Nat)
  BY Zenon DEF TypeOK, FlowInv, Stored
<1>4. ASSUME NEW u \in Tables
      PROVE  /\ replay'[u] \in ReplayType
             /\ replay'[u].buf = replay[u].buf
             /\ replay'[u].file = replay[u].file \/ replay'[u].file = cache[u]
             /\ replay'[u].run = replay[u].run
  <2>1. replay[u] \in ReplayType
    BY Zenon DEF PipeTypeOK
  <2>2. [replay[u] EXCEPT !.live = FALSE, !.file = cache[u]] \in ReplayType
    BY ZenonT(30), <1>3, <2>1 DEF ReplayType
  <2>3. replay'[u] = replay[u] \/ replay'[u] = [replay[u] EXCEPT !.live = FALSE, !.file = cache[u]]
    BY Zenon, <1>1 DEF Unlink
  <2> QED  BY Zenon, <2>1, <2>2, <2>3 DEF ReplayType
<1>5. replay' \in [Tables -> ReplayType]
  BY Zenon, <1>1, <1>4 DEF Unlink
<1>6. PipeTypeOK'
  BY Zenon, <1>1, <1>2, <1>5 DEF PipeTypeOK, head
<1>7. UNCHANGED Settled /\ UNCHANGED InHand
  BY Zenon, <1>1 DEF Settled, InHand
<1>8. ASSUME NEW u \in Tables
      PROVE  Stored(u, Settled)'
  <2>1. cache'[u] \in Seq(1..Settled)
    <3>1. <<>> \in Seq(1..Settled)
      OBVIOUS
    <3>2. cache'[u] = cache[u] \/ cache'[u] = <<>>
      BY Zenon, <1>1 DEF TypeOK
    <3> QED  BY Zenon, <1>3, <3>1, <3>2
  <2> QED  BY Zenon, <1>1, <1>3, <1>4, <1>7, <2>1 DEF Stored, FlowInv
<1> QED  BY Zenon, <1>1, <1>4, <1>6, <1>7, <1>8 DEF FlowInv

\* The routing goroutine takes the next event, and hands on only that one.
LEMMA FlowRoute ==
  ASSUME TypeOK, PipeTypeOK, FlowInv, Route
  PROVE  PipeTypeOK' /\ FlowInv'
<1>1. /\ UNCHANGED <<schedVars, stream, replay, replays, applied, pl>>
      /\ router.pc = "idle"
      /\ cursor' = cursor + 1
      /\ cursor \in Nat /\ head \in Nat /\ cursor < head
      /\ head' = head
  BY DEF Route, PipeTypeOK, head
<1>2. stream[cursor + 1] \in Tables
  <2>1. \A i \in 1..Len(stream) : stream[i] \in Tables
    BY DEF PipeTypeOK
  <2> QED  BY <1>1, <2>1 DEF head
<1>3. \/ router' = router
      \/ router'.pc \in {"cache", "sink"} /\ router' = [pc |-> router'.pc, ev |-> cursor + 1]
  <2>1. RouteDest(stream[cursor + 1]) \in {"discard", "cache", "sink"}
    BY Zenon DEF RouteDest
  <2> QED  BY <2>1 DEF Route
<1>4. router' \in [pc : {"idle", "cache", "sink", "gone"}, ev : 0..head]
  BY <1>1, <1>3 DEF PipeTypeOK
<1>5. cause' \in [Tables -> SUBSET Causes]
  BY Zenon, <1>2, BlameType DEF Route, Causes
<1>6. PipeTypeOK'
  BY <1>1, <1>4, <1>5 DEF PipeTypeOK
<1>7. /\ Settled = cursor
      /\ Settled' \in Nat
      /\ cursor <= Settled'
      /\ InHand' => cursor' >= 1 /\ router'.ev = cursor'
  BY <1>1, <1>3 DEF Settled, InHand
<1>8. ASSUME NEW u \in Tables
      PROVE  Stored(u, Settled)'
  <2>1. Stored(u, cursor)
    BY Zenon, <1>7 DEF FlowInv
  <2>2. PICK n \in Nat : n = Settled'
    BY Zenon, <1>7
  <2>3. Stored(u, n)
    BY <1>1, <1>7, <2>1, <2>2, StoredGrows
  <2> QED  BY <1>1, <2>2, <2>3 DEF Stored, schedVars
<1>9. pl = "stopped" => router.pc = "gone"
  BY Zenon DEF FlowInv
<1> QED  BY Zenon, <1>1, <1>6, <1>7, <1>8, <1>9 DEF FlowInv, schedVars

\* Writing the event in hand settles it.
LEMMA FlowWrite ==
  ASSUME TypeOK, PipeTypeOK, FlowInv, NEW ok \in BOOLEAN, RouteCacheWrite(ok) \/ RouteSinkWrite(ok)
  PROVE  PipeTypeOK' /\ FlowInv'
<1>1. /\ UNCHANGED <<epoch, stream, cursor, replay, replays, pl>>
      /\ InHand /\ router' = Resting /\ head' = head
  BY Zenon DEF RouteCacheWrite, RouteSinkWrite, InHand, head, schedVars
<1>2. PICK t \in Tables : t = stream[router.ev]
  BY Zenon, <1>1, HandedEvent
<1>3. PICK e \in 1..cursor : e = router.ev /\ e \in 1..head /\ e \in Nat
  BY Zenon, <1>1, HandedEvent
<1>4. cause' \in [Tables -> SUBSET Causes]
  <2>1. CASE RouteCacheWrite(ok)
    BY SMTT(30), <1>2, <2>1 DEF RouteCacheWrite, PipeTypeOK, Causes
  <2>2. CASE RouteSinkWrite(ok)
    BY Zenon, <1>2, <2>2, BlameType DEF RouteSinkWrite, Causes
  <2> QED  BY Zenon, <2>1, <2>2
<1>5. /\ cache' = cache \/ cache' = [cache EXCEPT ![t] = Append(cache[t], e)]
      /\ applied' = applied \/ applied' = [applied EXCEPT ![t] = applied[t] \cup {e}]
  BY Zenon, <1>2, <1>3 DEF RouteCacheWrite, RouteSinkWrite, schedVars
<1>6. applied' \in [Tables -> SUBSET (1..head)]
  <2>1. PICK S : S = 1..head
    BY Zenon
  <2>2. applied \in [Tables -> SUBSET S] /\ e \in S
    BY Zenon, <1>3, <2>1 DEF PipeTypeOK
  <2>3. applied' \in [Tables -> SUBSET S]
    BY <1>5, <2>2
  <2> QED  BY Zenon, <2>1, <2>3
<1>7. router' \in [pc : {"idle", "cache", "sink", "gone"}, ev : 0..head]
  BY <1>1, SettledIsPrefix DEF Resting
<1>8. PipeTypeOK'
  BY Zenon, <1>1, <1>4, <1>6, <1>7 DEF PipeTypeOK
<1>9. Settled' = cursor /\ ~InHand' /\ Settled \in Nat /\ cursor \in Nat /\ Settled <= cursor
  BY <1>1, SettledIsPrefix DEF Settled, InHand, Resting, PipeTypeOK
<1>10. ASSUME NEW u \in Tables
       PROVE  Stored(u, Settled)'
  <2>1. Stored(u, cursor)
    BY Zenon, <1>9, StoredGrows DEF FlowInv
  <2>2. cache'[u] \in Seq(1..cursor)
    <3>1. PICK S : S = 1..cursor
      BY Zenon
    <3>2. cache[u] \in Seq(S) /\ e \in S
      BY Zenon, <2>1, <3>1 DEF Stored
    <3>3. Append(cache[u], e) \in Seq(S)
      BY <3>2
    <3>4. cache'[u] = cache[u] \/ cache'[u] = Append(cache[u], e)
      BY Zenon, <1>5 DEF TypeOK
    <3> QED  BY Zenon, <3>1, <3>2, <3>3, <3>4
  <2>3. applied'[u] \subseteq 1..cursor
    <3>1. applied'[u] = applied[u] \/ applied'[u] = applied[u] \cup {e}
      BY Zenon, <1>5 DEF PipeTypeOK
    <3>2. applied[u] \subseteq 1..cursor
      BY Zenon, <2>1 DEF Stored
    <3> QED  BY Zenon, <3>1, <3>2
  <2> QED  BY Zenon, <1>1, <1>9, <2>1, <2>2, <2>3 DEF Stored
<1>11. pl # "stopped"
  BY Zenon, <1>1 DEF FlowInv, InHand
<1> QED  BY Zenon, <1>1, <1>8, <1>9, <1>10, <1>11 DEF FlowInv

\* The types and FlowInv are kept by every step.
LEMMA StepFlow ==
  ASSUME TypeOK, PausedResumesLive, PipeTypeOK, FlowInv, PipeNext \/ UNCHANGED vars
  PROVE  PipeTypeOK' /\ FlowInv'
<1>1. ASSUME NEW t \in Tables, Emit(t) \/ SnapshotBegins(t) \/ ReplayStep(t)
      PROVE  PipeTypeOK' /\ FlowInv'
  BY Zenon, <1>1, FlowEmit, FlowSnapshot, FlowReplay
<1>2. ASSUME NEW ok \in BOOLEAN, RestartDeletes(ok) \/ CaughtUpDeletes(ok)
      PROVE  PipeTypeOK' /\ FlowInv'
  BY Zenon, <1>2, FlowDelete
<1>3. CASE RouterStep
  <2>1. CASE RouteExit
    <3>1. router' = [pc |-> "gone", ev |-> 0]
      BY Zenon, <2>1 DEF RouteExit, Resting
    <3>2. UNCHANGED <<schedVars, stream, cursor, replay, replays, applied, cause, pl>> /\ router.pc = "idle"
      BY Zenon, <2>1 DEF RouteExit
    <3>3. PipeTypeOK'
      BY <3>1, <3>2 DEF PipeTypeOK, head
    <3>4. Settled' = Settled /\ ~InHand'
      BY Zenon, <3>1, <3>2 DEF Settled, InHand
    <3>5. \A u \in Tables : Stored(u, Settled)'
      BY Zenon, <3>2, <3>4 DEF Stored, FlowInv, schedVars
    <3> QED  BY Zenon, <3>1, <3>2, <3>3, <3>4, <3>5 DEF FlowInv, schedVars
  <2> QED  BY Zenon, <1>3, <2>1, FlowRoute, FlowWrite DEF RouterStep
<1>4. ASSUME UNCHANGED <<stream, cursor, router, replay, replays, applied, cache, epoch, cause>>,
             pl' \in {"new", "running", "stopping", "waiting", "failed", "stopped"},
             pl' = "stopped" => router.pc = "gone"
      PROVE  PipeTypeOK' /\ FlowInv'
  <2>1. \A t \in Tables : epoch[t] <= epoch'[t]
    BY <1>4 DEF TypeOK
  <2> QED  BY Zenon, <1>4, <2>1, FlowFrame DEF TypeOK, PipeTypeOK
<1>5. /\ pl \in {"new", "running", "stopping", "waiting", "failed", "stopped"}
      /\ pl = "stopped" => router.pc = "gone"
  BY Zenon DEF PipeTypeOK, FlowInv
<1>6. CASE PipelineStep
  BY Zenon, <1>4, <1>6 DEF PipelineStep, Start, StopClose, StopSource, StopSinks, schedVars
<1>7. CASE SchedulerStep
  <2>1. UNCHANGED <<cache, epoch>> /\ UNCHANGED pipeVars
    BY Zenon, <1>7 DEF SchedulerStep, AddTable, OnSnapshotComplete, OnSnapshotError, RestartTable,
       RestartSchema, RestartBegin, PauseTable, ResumeTable, ApiStep, skipTableError, SkipWritePrev, SkipWriteState,
       retryTableLifecycle, RetryRestart, RestartRead, RestartSetError, RestartReset
  <2> QED  BY Zenon, <1>4, <1>5, <2>1 DEF pipeVars
<1>8. CASE UNCHANGED vars
  BY Zenon, <1>4, <1>5, <1>8 DEF vars, pipeVars, schedVars
<1> QED  BY Zenon, <1>1, <1>2, <1>3, <1>6, <1>7, <1>8 DEF PipeNext

-----------------------------------------------------------------------------
(* Where the events are that a table is owed.                              *)

\* A table enters a phase through the scheduler in two ways only, if no error is
\* skipped: by resuming into it, and from snapshotting to catching_up.  Its cache file
\* and its snapshot position stay what they were.
LEMMA SchedulerPhase ==
  ASSUME TypeOK, PausedResumesLive, SchedulerStep, NEW t \in Tables, t \in registered',
         ~hist'[t].skipped, Phase(t)' \in {"snapshotting", "catching_up", "streaming"}
  PROVE  /\ t \in registered
         /\ ~hist[t].skipped
         /\ lc'[t].snap = lc[t].snap
         /\ \/ Phase(t)' = Phase(t)
            \/ Phase(t) = "snapshotting" /\ Phase(t)' = "catching_up"
<1> DEFINE Goal == /\ t \in registered
                   /\ ~hist[t].skipped
                   /\ lc'[t].snap = lc[t].snap
                   /\ \/ Phase(t)' = Phase(t)
                      \/ Phase(t) = "snapshotting" /\ Phase(t)' = "catching_up"
<1> SUFFICES Goal
  BY Zenon
<1>1. lc \in [Tables -> Lifecycle] /\ hist \in [Tables -> HistType] /\ lc[t] \in Lifecycle
  BY Zenon DEF TypeOK
<1>2. ASSUME registered' = registered, lc'[t] = lc[t], hist'[t] = hist[t]
      PROVE  Goal
  BY Zenon, <1>2 DEF Phase
<1>3. ASSUME NEW u \in Tables, AddTable(u, head)
      PROVE  Goal
  <2>1. CASE u = t
    <3>1. lc'[t].state = "pending"
      BY Zenon, <1>1, <1>3, <2>1 DEF AddTable, NewTableLifecycle
    <3> QED  BY Zenon, <3>1 DEF Phase
  <2>2. CASE u # t
    BY Zenon, <1>1, <1>3, <2>2 DEF AddTable, Phase
  <2> QED  BY Zenon, <2>1, <2>2
<1>4. ASSUME NEW u \in Tables, NEW r \in runs[u], OnSnapshotComplete(u, r)
      PROVE  Goal
  <2>1. CASE u = t /\ CanTransition(lc[t], "catching_up")
    <3>1. lc[t].state \in {"snapshotting", "catching_up"}
      BY Zenon, <1>1, <2>1 DEF CanTransition, validTransitions, Lifecycle, States
    <3>2. registered' = registered /\ hist'[t].skipped = hist[t].skipped
      BY <1>1, <1>4, <2>1 DEF OnSnapshotComplete, HistType
    <3>3. lc'[t] = TransitionTo(lc[t], "catching_up", NoPos)
      BY <1>1, <1>4, <2>1 DEF OnSnapshotComplete
    <3>4. lc'[t].state = "catching_up" /\ lc'[t].snap = lc[t].snap
      BY Zenon, <1>1, <3>3 DEF TransitionTo, Lifecycle, NoPos
    <3> QED  BY Zenon, <3>1, <3>2, <3>4 DEF Phase
  <2>2. CASE ~(u = t /\ CanTransition(lc[t], "catching_up"))
    BY Zenon, <1>1, <1>2, <1>4, <2>2 DEF OnSnapshotComplete
  <2> QED  BY Zenon, <2>1, <2>2
<1>5. ASSUME NEW u \in Tables, NEW r \in runs[u], OnSnapshotError(u, r)
      PROVE  Goal
  <2>1. CASE u = t
    <3>1. lc'[t].state = "error"
      BY Zenon, <1>1, <1>5, <2>1 DEF OnSnapshotError, SetError, Lifecycle
    <3> QED  BY Zenon, <3>1 DEF Phase
  <2>2. CASE u # t
    BY Zenon, <1>1, <1>2, <1>5, <2>2 DEF OnSnapshotError
  <2> QED  BY Zenon, <2>1, <2>2
<1>6. ASSUME NEW u \in Tables, PauseTable(u)
      PROVE  Goal
  <2>1. CASE u = t
    <3>1. lc'[t] = Pause(lc[t]) /\ lc[t].state # "paused"
      BY Zenon, <1>1, <1>6, <2>1 DEF PauseTable, CanPause
    <3>2. lc'[t].state = "paused" /\ lc'[t].prev = lc[t].state /\ lc'[t].snap = lc[t].snap
      BY Zenon, <1>1, <3>1 DEF Pause, Lifecycle
    <3> QED  BY Zenon, <1>6, <3>1, <3>2 DEF Phase, PauseTable
  <2>2. CASE u # t
    BY Zenon, <1>1, <1>2, <1>6, <2>2 DEF PauseTable
  <2> QED  BY Zenon, <2>1, <2>2
<1>7. ASSUME NEW u \in Tables, ResumeTable(u)
      PROVE  Goal
  <2>1. CASE u = t
    <3>1. lc'[t] = Resume(lc[t]) /\ lc[t].state = "paused"
      BY Zenon, <1>1, <1>7, <2>1 DEF ResumeTable, CanResume
    <3>2. lc'[t].state = lc[t].prev /\ lc'[t].prev = "paused" /\ lc'[t].snap = lc[t].snap
      BY Zenon, <1>1, <3>1 DEF Resume, Lifecycle
    <3> QED  BY Zenon, <1>7, <3>1, <3>2 DEF Phase, ResumeTable
  <2>2. CASE u # t
    BY Zenon, <1>1, <1>2, <1>7, <2>2 DEF ResumeTable
  <2> QED  BY Zenon, <2>1, <2>2
<1>8. ASSUME NEW u \in Tables, SkipWritePrev(u)
      PROVE  Goal
  <2>1. lc' = lc \/ lc' = [lc EXCEPT ![u].prev = lc[u].state]
    BY Zenon, <1>8 DEF SkipWritePrev
  <2>2. CASE u = t /\ lc' = [lc EXCEPT ![t].prev = lc[t].state]
    <3>1. lc'[t] = [lc[t] EXCEPT !.prev = lc[t].state]
      BY Zenon, <1>1, <2>2
    <3>2. lc'[t].state = lc[t].state /\ lc'[t].prev = lc[t].state /\ lc'[t].snap = lc[t].snap
      BY Zenon, <1>1, <3>1 DEF Lifecycle
    <3> QED  BY Zenon, <1>8, <3>2 DEF Phase, SkipWritePrev
  <2>3. CASE ~(u = t /\ lc' = [lc EXCEPT ![t].prev = lc[t].state])
    BY Zenon, <1>1, <1>2, <1>8, <2>1, <2>3 DEF SkipWritePrev
  <2> QED  BY Zenon, <2>2, <2>3
<1>9. ASSUME NEW u \in Tables, SkipWriteState(u)
      PROVE  Goal
  <2>1. u # t
    BY Zenon, <1>1, <1>9 DEF SkipWriteState, HistType
  <2> QED  BY Zenon, <1>1, <1>2, <1>9, <2>1 DEF SkipWriteState
<1>10. CASE RestartSetError
  <2>1. CASE op.cur = t
    <3>1. lc'[t].state = "error"
      BY Zenon, <1>1, <1>10, <2>1 DEF RestartSetError, SetError, Lifecycle
    <3> QED  BY Zenon, <3>1 DEF Phase
  <2>2. CASE op.cur # t
    BY Zenon, <1>1, <1>2, <1>10, <2>2 DEF RestartSetError
  <2> QED  BY Zenon, <2>1, <2>2
<1>11. CASE RestartReset
  <2>1. CASE op.cur = t /\ CanReset(lc[t])
    <3>1. lc'[t] = ResetToPending(lc[t], op.pos)
      BY Zenon, <1>1, <1>11, <2>1 DEF RestartReset
    <3>2. lc'[t].state = "pending"
      BY Zenon, <1>1, <3>1 DEF ResetToPending, Lifecycle
    <3> QED  BY Zenon, <3>2 DEF Phase
  <2>2. CASE ~(op.cur = t /\ CanReset(lc[t]))
    BY Zenon, <1>1, <1>2, <1>11, <2>2 DEF RestartReset
  <2> QED  BY Zenon, <2>1, <2>2
<1>12. ASSUME NEW u \in Tables,
              \/ \E pos \in {NoPos, head}, force \in BOOLEAN :
                   RestartTable(u, pos, force) \/ RestartSchema(Schema[u], pos, force)
              \/ skipTableError(u) \/ retryTableLifecycle(u) \/ RetryRestart(u) \/ RestartRead(u)
       PROVE  Goal
  <2>1. UNCHANGED <<registered, lc, hist>>
    BY Zenon, <1>12 DEF RestartTable, RestartSchema, RestartBegin, skipTableError, retryTableLifecycle,
       RetryRestart, RestartRead
  <2> QED  BY Zenon, <1>2, <2>1
<1> HIDE DEF Goal
<1>13. ASSUME NEW u \in Tables, ApiStep(u)
       PROVE  Goal
  BY Zenon, <1>8, <1>9, <1>12, <1>13 DEF ApiStep
<1> QED
  BY Zenon, <1>3, <1>4, <1>5, <1>6, <1>7, <1>10, <1>11, <1>12, <1>13 DEF SchedulerStep

\* What a step must leave alone for table t to be as well off as before: its phase, its
\* cache file and its snapshot, and the events taken; the sink may only gain events, and
\* a replay of the current snapshot must stay as ReplayInv says.
LEMMA GapKeeps ==
  ASSUME PipeTypeOK, FlowInv, NEW t \in Tables, GapInv(t),
         Unharmed(t)' =>
           /\ Unharmed(t)
           /\ Phase(t)' = Phase(t)
           /\ lc'[t].snap = lc[t].snap
           /\ epoch'[t] = epoch[t]
           /\ cache'[t] = cache[t]
           /\ applied[t] \subseteq applied'[t],
         cursor' = cursor,
         router' = router,
         \A e \in 1..cursor : stream'[e] = stream[e],
         Phase(t) = "snapshotting" /\ replay'[t].pc # "idle" =>
           replay[t].pc # "idle" /\ replay'[t].run = replay[t].run,
         (Unharmed(t)' /\ Phase(t) = "catching_up" /\ replay'[t].run = epoch[t]
          /\ (replay[t].run = epoch[t] => ReplayInv(t))) => ReplayInv(t)'
  PROVE  GapInv(t)'
<1> SUFFICES ASSUME Unharmed(t)'
             PROVE  /\ Phase(t)' = "snapshotting" =>
                         /\ Due(t)' \subseteq Cached(t)'
                         /\ router'.pc = "sink" /\ stream'[router'.ev] = t => router'.ev <= lc'[t].snap
                         /\ replay'[t].pc # "idle" => replay'[t].run # epoch'[t]
                    /\ Phase(t)' = "catching_up" =>
                         /\ Due(t)' \subseteq applied'[t] \cup Cached(t)'
                         /\ replay'[t].run = epoch'[t] => ReplayInv(t)'
                    /\ Phase(t)' = "streaming" => Due(t)' \subseteq applied'[t]
  BY Zenon DEF GapInv
<1>1. Cached(t)' = Cached(t)
  BY Zenon DEF Cached
<1>2. Due(t)' = Due(t)
  BY ZenonT(30) DEF Due
<1>3. router.pc = "sink" => stream'[router.ev] = stream[router.ev]
  BY Zenon, HandedEvent DEF InHand
<1> QED  BY Zenon, <1>1, <1>2, <1>3 DEF GapInv

\* ReplayInv needs the replay and the cache file to stay; the sink may gain events.
LEMMA ReplayInvKeeps ==
  ASSUME NEW t \in Tables, ReplayInv(t), replay'[t] = replay[t], cache'[t] = cache[t],
         applied[t] \subseteq applied'[t]
  PROVE  ReplayInv(t)'
  BY SMTT(30) DEF ReplayInv

\* A step that moves another table's lifecycle, file, replay or sink.
LEMMA GapOther ==
  ASSUME PipeTypeOK, FlowInv, NEW t \in Tables, GapInv(t),
         cursor' = cursor, router' = router,
         \A e \in 1..cursor : stream'[e] = stream[e],
         t \in registered' => t \in registered,
         lc'[t] = lc[t], hist'[t].skipped = hist[t].skipped, epoch'[t] = epoch[t],
         cache'[t] = cache[t], replay'[t] = replay[t], applied[t] \subseteq applied'[t],
         cause[t] \subseteq cause'[t]
  PROVE  GapInv(t)'
<1>1. Unharmed(t)' => Unharmed(t)
  BY Zenon DEF Unharmed
<1>2. Phase(t)' = Phase(t)
  BY Zenon DEF Phase
<1>3. ReplayInv(t) => ReplayInv(t)'
  BY Zenon, ReplayInvKeeps
<1> QED  BY Zenon, <1>1, <1>2, <1>3, GapKeeps

\* The steps of the log, of the pipeline and of the scheduler.
LEMMA GapScheduler ==
  ASSUME TypeOK, PausedResumesLive, PipeTypeOK, FlowInv, NEW t \in Tables, GapInv(t), SchedulerStep
  PROVE  GapInv(t)'
<1>1. UNCHANGED <<cache, epoch>> /\ UNCHANGED pipeVars
  BY Zenon DEF SchedulerStep, AddTable, OnSnapshotComplete, OnSnapshotError, RestartTable,
     RestartSchema, RestartBegin, PauseTable, ResumeTable, ApiStep, skipTableError, SkipWritePrev, SkipWriteState,
     retryTableLifecycle, RetryRestart, RestartRead, RestartSetError, RestartReset
<1>2. CASE ~(/\ Unharmed(t)'
             /\ Phase(t)' \in {"snapshotting", "catching_up", "streaming"})
  BY Zenon, <1>2 DEF GapInv
<1>3. CASE /\ Unharmed(t)'
           /\ Phase(t)' \in {"snapshotting", "catching_up", "streaming"}
  <2>1. /\ t \in registered
        /\ ~hist[t].skipped
        /\ lc'[t].snap = lc[t].snap
        /\ \/ Phase(t)' = Phase(t)
           \/ Phase(t) = "snapshotting" /\ Phase(t)' = "catching_up"
    BY Zenon, <1>3, SchedulerPhase DEF Unharmed
  <2>2. Unharmed(t)
    BY Zenon, <1>1, <1>3, <2>1 DEF Unharmed, pipeVars
  <2>3. Cached(t)' = Cached(t) /\ Due(t)' = Due(t)
    BY Zenon, <1>1, <2>1 DEF Cached, Due, pipeVars
  <2>4. ReplayInv(t) => ReplayInv(t)'
    BY Zenon, <1>1, ReplayInvKeeps DEF pipeVars
  <2>5. CASE Phase(t)' = Phase(t)
    BY Zenon, <1>1, <2>1, <2>2, <2>4, <2>5, GapKeeps DEF pipeVars
  <2>6. CASE Phase(t) = "snapshotting" /\ Phase(t)' = "catching_up"
    <3>1. Due(t)' \subseteq Cached(t)'
      BY Zenon, <2>2, <2>3, <2>6 DEF GapInv
    <3>2. replay[t].pc # "idle" => replay[t].run # epoch[t]
      BY Zenon, <2>2, <2>6 DEF GapInv
    <3>3. replay'[t].run = epoch'[t] => ReplayInv(t)'
      BY Zenon, <1>1, <3>2 DEF ReplayInv, pipeVars
    <3> QED  BY Zenon, <2>6, <3>1, <3>3 DEF GapInv
  <2> QED  BY Zenon, <2>1, <2>5, <2>6
<1> QED  BY Zenon, <1>2, <1>3

\* A step of a table's own replay that leaves the scheduler alone.
LEMMA GapOwnReplay ==
  ASSUME PipeTypeOK, FlowInv, NEW t \in Tables, GapInv(t),
         UNCHANGED <<schedVars, stream, cursor, router>>,
         applied[t] \subseteq applied'[t], cause[t] \subseteq cause'[t],
         Phase(t) = "snapshotting" /\ replay'[t].pc # "idle" =>
           replay[t].pc # "idle" /\ replay'[t].run = replay[t].run,
         (cause'[t] = {} /\ Phase(t) = "catching_up" /\ replay'[t].run = epoch[t]
          /\ (replay[t].run = epoch[t] => ReplayInv(t))) => ReplayInv(t)'
  PROVE  GapInv(t)'
<1>1. Unharmed(t)' => Unharmed(t) /\ cause'[t] = {}
  BY Zenon DEF Unharmed, schedVars
<1>2. Phase(t)' = Phase(t) /\ lc' = lc /\ epoch' = epoch /\ cache' = cache
  BY Zenon DEF Phase, schedVars
<1> QED  BY Zenon, <1>1, <1>2, GapKeeps

\* The reader delivers the next record of the cache file, or finds its end.
LEMMA ReadInv ==
  ASSUME TypeOK, PipeTypeOK, NEW t \in Tables, ReplayInv(t), Read(t)
  PROVE  ReplayInv(t)'
<1>1. /\ replay[t] \in ReplayType
      /\ replay[t].pc = "run"
      /\ UNCHANGED <<cache, applied>>
      /\ replay \in [Tables -> ReplayType]
  BY Zenon DEF Read, Reading, PipeTypeOK, schedVars
<1>2. /\ replay[t].live
      /\ replay[t].idx <= Len(cache[t])
      /\ \A i \in 1..replay[t].idx :
           \/ cache[t][i] \in applied[t]
           \/ \E j \in 1..Len(replay[t].buf) : replay[t].buf[j] = cache[t][i]
      /\ ReadFile(t) = cache[t]
      /\ ~replay[t].closed
  BY Zenon, <1>1 DEF ReplayInv, ReadFile, Read, Reading
<1>3. PICK c : c = cache[t] /\ c \in Seq(Nat)
  BY Zenon DEF TypeOK
<1>4. PICK b, n : b = replay[t].buf /\ n = replay[t].idx /\ b \in Seq(Nat) /\ n \in Nat
  BY Zenon, <1>1 DEF ReplayType
<1>5. CASE /\ n < Len(c)
           /\ replay' = [replay EXCEPT ![t].idx = n + 1, ![t].buf = Append(b, c[n + 1])]
  <2>1. PICK a : a = Append(b, c[n + 1])
    BY Zenon
  <2>2. replay'[t] = [[replay[t] EXCEPT !.idx = n + 1] EXCEPT !.buf = a]
    BY Zenon, <1>1, <1>5, <2>1
  <2>3. /\ replay'[t].pc = "run" /\ replay'[t].live
        /\ replay'[t].idx = n + 1 /\ replay'[t].buf = a
        /\ ~replay'[t].closed
    BY Zenon, <1>1, <1>2, <2>2 DEF ReplayType
  <2>4. c[n + 1] \in Nat
    BY <1>3, <1>4, <1>5
  <2>5. /\ Len(a) = Len(b) + 1 /\ Len(b) \in Nat
        /\ a[Len(b) + 1] = c[n + 1]
        /\ \A j \in 1..Len(b) : a[j] = b[j]
    BY <1>4, <2>1, <2>4
  <2>6. ASSUME NEW i \in 1..(n + 1)
        PROVE  c[i] \in applied[t] \/ \E j \in 1..Len(a) : a[j] = c[i]
    <3>1. CASE i = n + 1
      <4>1. Len(b) + 1 \in 1..Len(a) /\ a[Len(b) + 1] = c[i]
        BY <2>5, <3>1
      <4> QED  BY Zenon, <4>1
    <3>2. CASE i # n + 1
      <4>1. i \in 1..n
        BY <1>4, <3>2
      <4>2. CASE c[i] \in applied[t]
        BY Zenon, <4>2
      <4>3. CASE \E j \in 1..Len(b) : b[j] = c[i]
        <5>1. PICK j \in 1..Len(b) : b[j] = c[i]
          BY Zenon, <4>3
        <5>2. j \in 1..Len(a) /\ a[j] = c[i]
          BY <2>5, <5>1
        <5> QED  BY Zenon, <5>2
      <4> QED  BY Zenon, <1>2, <1>3, <1>4, <4>1, <4>2, <4>3
    <3> QED  BY Zenon, <3>1, <3>2
  <2>7. n + 1 <= Len(c)
    BY <1>3, <1>4, <1>5
  <2> QED  BY Zenon, <1>1, <1>3, <2>3, <2>6, <2>7 DEF ReplayInv
<1>6. CASE n = Len(c) /\ replay' = [replay EXCEPT ![t].closed = TRUE]
  <2>1. replay'[t] = [replay[t] EXCEPT !.closed = TRUE]
    BY Zenon, <1>1, <1>6
  <2>2. /\ replay'[t].pc = "run" /\ replay'[t].live
        /\ replay'[t].idx = n /\ replay'[t].buf = b
    BY Zenon, <1>1, <1>2, <1>4, <2>1 DEF ReplayType
  <2> QED  BY <1>1, <1>2, <1>3, <1>4, <1>6, <2>2 DEF ReplayInv
<1> QED  BY Zenon, <1>2, <1>3, <1>4, <1>5, <1>6 DEF Read

\* One event moves from the reader's channel to the sink.
LEMMA ApplyInv ==
  ASSUME TypeOK, PipeTypeOK, NEW t \in Tables, ReplayInv(t), ReplayApply(t, TRUE)
  PROVE  ReplayInv(t)'
<1>1. /\ replay[t] \in ReplayType
      /\ replay[t].pc = "run"
      /\ cache' = cache
      /\ replay \in [Tables -> ReplayType]
      /\ applied' = [applied EXCEPT ![t] = applied[t] \cup {Head(replay[t].buf)}]
      /\ replay' = [replay EXCEPT ![t].buf = Tail(replay[t].buf)]
      /\ replay[t].buf # <<>>
  BY Zenon DEF ReplayApply, PipeTypeOK, schedVars
<1>2. PICK b : b = replay[t].buf /\ b \in Seq(Nat) /\ b # <<>>
  BY Zenon, <1>1 DEF ReplayType
<1>3. PICK a : a = Tail(b)
  BY Zenon
<1>4. replay'[t] = [replay[t] EXCEPT !.buf = a]
  BY Zenon, <1>1, <1>2, <1>3
<1>5. /\ replay'[t].pc = "run" /\ replay'[t].live = replay[t].live
      /\ replay'[t].idx = replay[t].idx /\ replay'[t].buf = a
      /\ replay'[t].closed = replay[t].closed
      /\ replay'[t].err = replay[t].err
      /\ replay'[t].cancelled = replay[t].cancelled
  BY Zenon, <1>1, <1>4 DEF ReplayType
<1>6. applied'[t] = applied[t] \cup {Head(b)}
  BY Zenon, <1>1, <1>2 DEF PipeTypeOK
<1>7. /\ Len(b) \in Nat /\ Len(a) = Len(b) - 1
      /\ Head(b) = b[1]
      /\ \A j \in 1..Len(a) : a[j] = b[j + 1]
  BY <1>2, <1>3
<1>8. ASSUME NEW x, NEW j \in 1..Len(b), b[j] = x
      PROVE  x \in applied'[t] \/ \E k \in 1..Len(a) : a[k] = x
  <2>1. CASE j = 1
    BY Zenon, <1>6, <1>7, <1>8, <2>1
  <2>2. CASE j # 1
    <3>1. j - 1 \in 1..Len(a) /\ a[j - 1] = x
      BY <1>7, <1>8, <2>2
    <3> QED  BY Zenon, <3>1
  <2> QED  BY Zenon, <2>1, <2>2
<1>9. \A i \in 1..replay[t].idx :
         \/ cache[t][i] \in applied'[t]
         \/ \E k \in 1..Len(a) : a[k] = cache[t][i]
  BY Zenon, <1>1, <1>2, <1>6, <1>8 DEF ReplayInv
<1> QED  BY <1>1, <1>5, <1>9 DEF ReplayInv

\* A table's own replay keeps its promise, and the hand-over to streaming finds every
\* cached event in the sink.
LEMMA GapReplay ==
  ASSUME TypeOK, PipeTypeOK, FlowInv, NEW t \in Tables, GapInv(t), ReplayStep(t)
  PROVE  GapInv(t)'
<1>1. /\ replay[t] \in ReplayType
      /\ replay \in [Tables -> ReplayType]
      /\ lc \in [Tables -> Lifecycle]
      /\ cause \in [Tables -> SUBSET Causes]
      /\ cache[t] \in Seq(Nat)
  BY Zenon DEF PipeTypeOK, TypeOK
<1>2. ASSUME UNCHANGED <<schedVars, stream, cursor, router, applied>>,
             cause' = cause \/ cause' = [cause EXCEPT ![t] = cause[t] \cup {"misreport"}],
             NEW r, replay' = [replay EXCEPT ![t] = r],
             Phase(t) = "snapshotting" /\ r.pc # "idle" => replay[t].pc # "idle" /\ r.run = replay[t].run,
             (cause'[t] = {} /\ Phase(t) = "catching_up" /\ r.run = epoch[t]
              /\ (replay[t].run = epoch[t] => ReplayInv(t))) => ReplayInv(t)'
      PROVE  GapInv(t)'
  <2>1. replay'[t] = r /\ cause[t] \subseteq cause'[t]
    BY Zenon, <1>1, <1>2
  <2> QED  BY Zenon, <1>2, <2>1, GapOwnReplay
<1>3. CASE Replay(t)
  <2>1. PICK r : r = [NoReplay EXCEPT !.pc = "run", !.run = epoch[t]]
    BY Zenon
  <2>2. r.pc = "run" /\ r.live /\ r.idx = 0 /\ ~r.closed
    BY Zenon, <2>1 DEF NoReplay
  <2>3. replay' = [replay EXCEPT ![t] = r] /\ lc[t].state = "catching_up"
        /\ UNCHANGED <<schedVars, stream, cursor, router, applied, cause>>
    BY Zenon, <1>3, <2>1 DEF Replay
  <2>4. replay'[t] = r
    BY Zenon, <1>1, <2>3
  <2>5. ReplayInv(t)'
    BY SMTT(30), <1>1, <2>2, <2>3, <2>4 DEF ReplayInv, schedVars
  <2> QED  BY Zenon, <1>2, <2>3, <2>5 DEF Phase
<1>4. CASE ReadOpen(t)
  <2>1. UNCHANGED <<schedVars, stream, cursor, router, applied, cause>> /\ replay[t].pc = "run"
    BY Zenon, <1>4 DEF ReadOpen
  <2>2. CASE cache[t] = <<>>
    <3>1. PICK r : r = [replay[t] EXCEPT !.closed = TRUE]
      BY ZenonT(30)
    <3>2. r.pc = "run" /\ r.live = replay[t].live /\ r.idx = replay[t].idx /\ r.buf = replay[t].buf
          /\ r.run = replay[t].run /\ r.idx \in Nat
      BY Zenon, <1>1, <2>1, <3>1 DEF ReplayType
    <3>3. replay' = [replay EXCEPT ![t] = r] /\ replay'[t] = r
      BY Zenon, <1>1, <1>4, <2>2, <3>1 DEF ReadOpen
    <3>4. ReplayInv(t) => ReplayInv(t)'
      BY SMTT(30), <2>1, <2>2, <3>2, <3>3 DEF ReplayInv, schedVars
    <3> QED  BY Zenon, <1>2, <2>1, <3>2, <3>3, <3>4
  <2>3. CASE cache[t] # <<>>
    <3>1. PICK r : r = [replay[t] EXCEPT !.opened = TRUE]
      BY Zenon
    <3>2. r.pc = "run" /\ r.live = replay[t].live /\ r.idx = replay[t].idx /\ r.buf = replay[t].buf
          /\ r.run = replay[t].run /\ r.closed = replay[t].closed
      BY Zenon, <1>1, <2>1, <3>1 DEF ReplayType
    <3>3. replay' = [replay EXCEPT ![t] = r] /\ replay'[t] = r /\ ~replay[t].closed
      BY Zenon, <1>1, <1>4, <2>3, <3>1 DEF ReadOpen
    <3>4. ReplayInv(t) => ReplayInv(t)'
      BY SMTT(30), <2>1, <3>2, <3>3 DEF ReplayInv, schedVars
    <3> QED  BY Zenon, <1>2, <2>1, <3>2, <3>3, <3>4
  <2> QED  BY Zenon, <2>2, <2>3
<1>5. CASE Read(t)
  <2>1. UNCHANGED <<schedVars, stream, cursor, router, applied, cause>>
    BY Zenon, <1>5 DEF Read
  <2>2. replay'[t].run = replay[t].run /\ replay[t].pc = "run"
    <3>1. CASE replay' = [replay EXCEPT ![t].closed = TRUE]
      BY Zenon, <1>1, <1>5, <3>1 DEF Read, Reading, ReplayType
    <3>2. CASE replay' = [replay EXCEPT ![t].idx = @ + 1,
                                        ![t].buf = Append(@, ReadFile(t)[replay[t].idx + 1])]
      <4>1. PICK n, b : n = replay[t].idx + 1 /\ b = Append(replay[t].buf, ReadFile(t)[replay[t].idx + 1])
        BY Zenon
      <4>2. replay'[t] = [[replay[t] EXCEPT !.idx = n] EXCEPT !.buf = b]
        BY Zenon, <1>1, <3>2, <4>1 DEF ReplayType
      <4>3. replay'[t].run = replay[t].run
        BY Zenon, <1>1, <4>2 DEF ReplayType
      <4> QED  BY Zenon, <1>5, <4>3 DEF Read, Reading
    <3> QED  BY Zenon, <1>5, <3>1, <3>2 DEF Read
  <2>3. ReplayInv(t) => ReplayInv(t)'
    BY Zenon, <1>5, ReadInv
  <2>4. applied[t] \subseteq applied'[t] /\ cause[t] \subseteq cause'[t]
    BY Zenon, <2>1
  <2> QED  BY Zenon, <2>1, <2>2, <2>3, <2>4, GapOwnReplay
<1>6. CASE ReadFails(t) \/ Cancel(t) \/ ReadCancelled(t)
  <2>1. UNCHANGED <<schedVars, stream, cursor, router, applied, cause>> /\ replay[t].pc = "run"
    BY Zenon, <1>6 DEF ReadFails, Cancel, ReadCancelled, Reading
  <2>2. PICK r : /\ \/ r = [[replay[t] EXCEPT !.closed = TRUE] EXCEPT !.err = TRUE]
                    \/ r = [replay[t] EXCEPT !.cancelled = TRUE]
                    \/ r = [replay[t] EXCEPT !.closed = TRUE] /\ replay[t].cancelled
                 /\ replay' = [replay EXCEPT ![t] = r]
    BY Zenon, <1>6 DEF ReadFails, Cancel, ReadCancelled
  <2>3. /\ r.pc = "run" /\ r.live = replay[t].live /\ r.idx = replay[t].idx
        /\ r.buf = replay[t].buf /\ r.run = replay[t].run
        /\ r.err \/ r.cancelled
    BY Zenon, <1>1, <2>1, <2>2 DEF ReplayType
  <2>4. replay'[t] = r
    BY Zenon, <1>1, <2>2
  <2>5. ReplayInv(t) => ReplayInv(t)'
    BY <2>1, <2>3, <2>4 DEF ReplayInv, schedVars
  <2> QED  BY Zenon, <1>2, <2>1, <2>2, <2>3, <2>5
<1>7. CASE ReplayApply(t, TRUE)
  <2>1. UNCHANGED <<schedVars, stream, cursor, router, cause>> /\ replay[t].pc = "run"
        /\ applied' = [applied EXCEPT ![t] = applied[t] \cup {Head(replay[t].buf)}]
        /\ replay' = [replay EXCEPT ![t].buf = Tail(replay[t].buf)]
    BY Zenon, <1>7 DEF ReplayApply
  <2>2. PICK a : a = Tail(replay[t].buf)
    BY Zenon
  <2>3. replay'[t] = [replay[t] EXCEPT !.buf = a]
    BY Zenon, <1>1, <2>1, <2>2
  <2>4. replay'[t].run = replay[t].run
    BY Zenon, <1>1, <2>3 DEF ReplayType
  <2>5. ReplayInv(t) => ReplayInv(t)'
    BY Zenon, <1>7, ApplyInv
  <2>6. applied[t] \subseteq applied'[t] /\ cause[t] \subseteq cause'[t]
    BY Zenon, <2>1 DEF PipeTypeOK
  <2> QED  BY Zenon, <2>1, <2>4, <2>5, <2>6, GapOwnReplay
<1>8. CASE ReplayApply(t, FALSE) \/ ReplayFails(t)
  <2>1. /\ UNCHANGED <<schedVars, stream, cursor, router, applied, cause>> /\ replay[t].pc = "run"
        /\ replay' = [replay EXCEPT ![t] = [replay[t] EXCEPT !.pc = "failed"]]
    BY Zenon, <1>8 DEF ReplayApply, ReplayFails
  <2>2. PICK r : r = [replay[t] EXCEPT !.pc = "failed"]
    BY Zenon
  <2>3. r.pc = "failed" /\ r.run = replay[t].run
    BY Zenon, <1>1, <2>2 DEF ReplayType
  <2>4. replay' = [replay EXCEPT ![t] = r] /\ replay'[t] = r
    BY Zenon, <1>1, <2>1, <2>2
  <2>5. ReplayInv(t)'
    BY Zenon, <2>3, <2>4 DEF ReplayInv
  <2> QED  BY Zenon, <1>2, <2>1, <2>3, <2>4, <2>5
<1>9. CASE ReplayDone(t)
  <2>1. /\ UNCHANGED <<schedVars, stream, cursor, router, applied>>
        /\ replay[t].pc = "run" /\ replay[t].closed /\ replay[t].buf = <<>>
        /\ replay' = [replay EXCEPT ![t] = [replay[t] EXCEPT !.pc = "done"]]
    BY Zenon, <1>9 DEF ReplayDone
  <2>2. \/ cause' = cause /\ ~replay[t].err /\ ~replay[t].cancelled
        \/ cause' = [cause EXCEPT ![t] = cause[t] \cup {"misreport"}]
    BY Zenon, <1>9 DEF ReplayDone, Blame
  <2>3. PICK r : r = [replay[t] EXCEPT !.pc = "done"]
    BY Zenon
  <2>4. /\ r.pc = "done" /\ r.run = replay[t].run /\ r.live = replay[t].live
        /\ r.idx = replay[t].idx /\ r.buf = replay[t].buf /\ r.closed = replay[t].closed
        /\ r.err = replay[t].err /\ r.cancelled = replay[t].cancelled
    BY Zenon, <1>1, <2>3 DEF ReplayType
  <2>5. replay' = [replay EXCEPT ![t] = r] /\ replay'[t] = r
    BY Zenon, <1>1, <2>1, <2>3
  <2>6. cause'[t] = {} => ~replay[t].err /\ ~replay[t].cancelled
    BY Zenon, <1>1, <2>2
  <2>7. cause'[t] = {} /\ ReplayInv(t) => ReplayInv(t)'
    BY <2>1, <2>4, <2>5, <2>6 DEF ReplayInv, schedVars
  <2> QED  BY ZenonT(30), <1>2, <2>1, <2>2, <2>4, <2>5, <2>7
<1>10. ASSUME UNCHANGED <<schedVars, stream, cursor, router, applied, cause>>,
              replay' = [replay EXCEPT ![t] = NoReplay]
       PROVE  GapInv(t)'
  <2>1. NoReplay.pc = "idle" /\ replay'[t] = NoReplay
    BY Zenon, <1>1, <1>10 DEF NoReplay
  <2>2. ReplayInv(t)'
    BY Zenon, <2>1 DEF ReplayInv
  <2> QED  BY Zenon, <1>2, <1>10, <2>1, <2>2
<1>11. CASE ReplayRetry(t)
  BY Zenon, <1>10, <1>11 DEF ReplayRetry
<1>12. CASE CaughtUp(t)
  <2>1. CASE OnCaughtUp(t)
    <3>1. lc[t].state = "catching_up"
      BY Zenon, <1>1, <2>1 DEF OnCaughtUp, CanTransition, validTransitions, Lifecycle, States
    <3>2. lc'[t] = TransitionTo(lc[t], "streaming", NoPos)
      BY Zenon, <1>1, <2>1 DEF OnCaughtUp
    <3>3. lc'[t].state = "streaming" /\ lc'[t].snap = lc[t].snap
      BY <1>1, <3>2 DEF TransitionTo, Lifecycle
    <3>4. /\ UNCHANGED <<registered, cache, epoch, hist, stream, cursor, router, applied>>
          /\ replay[t].pc = "done"
      BY Zenon, <1>12, <2>1 DEF OnCaughtUp, CaughtUp
    <3>5. cause'[t] = {} => cause[t] = {} /\ replay[t].run = epoch[t]
      BY Zenon, <1>1, <1>12, <2>1 DEF CaughtUp, Blame, OnCaughtUp
    <3>6. Phase(t)' = "streaming" /\ Phase(t) = "catching_up"
      BY Zenon, <3>1, <3>3 DEF Phase
    <3>7. ASSUME Unharmed(t)'
          PROVE  Due(t)' \subseteq applied'[t]
      <4>1. Unharmed(t) /\ replay[t].run = epoch[t]
        BY Zenon, <3>4, <3>5, <3>7 DEF Unharmed
      <4>2. Due(t) \subseteq applied[t] \cup Cached(t) /\ ReplayInv(t)
        BY Zenon, <3>6, <4>1 DEF GapInv
      <4>3. \A i \in 1..Len(cache[t]) : cache[t][i] \in applied[t]
        <5>1. /\ replay[t].idx = Len(cache[t]) /\ replay[t].buf = <<>>
              /\ \A i \in 1..replay[t].idx :
                    \/ cache[t][i] \in applied[t]
                    \/ \E j \in 1..Len(replay[t].buf) : replay[t].buf[j] = cache[t][i]
          BY Zenon, <3>4, <4>2 DEF ReplayInv
        <5>2. 1..Len(replay[t].buf) = {}
          BY <5>1
        <5> QED  BY Zenon, <5>1, <5>2
      <4>4. Cached(t) \subseteq applied[t]
        BY Zenon, <4>3 DEF Cached
      <4>5. Due(t)' = Due(t)
        BY Zenon, <3>3, <3>4 DEF Due
      <4> QED  BY Zenon, <3>4, <4>2, <4>4, <4>5
    <3> QED  BY Zenon, <3>6, <3>7 DEF GapInv
  <2>2. CASE ~OnCaughtUp(t)
    BY Zenon, <1>10, <1>12, <2>2 DEF CaughtUp
  <2> QED  BY Zenon, <2>1, <2>2
<1> QED
  BY Zenon, <1>3, <1>4, <1>5, <1>6, <1>7, <1>8, <1>9, <1>11, <1>12 DEF ReplayStep

\* A replay of another table.
LEMMA GapReplayOther ==
  ASSUME TypeOK, PipeTypeOK, FlowInv, NEW t \in Tables, GapInv(t),
         NEW u \in Tables, u # t, ReplayStep(u)
  PROVE  GapInv(t)'
<1>1. PICK r : replay' = [replay EXCEPT ![u] = r]
  BY Zenon, ReplayMoves
<1>2. replay'[t] = replay[t]
  BY Zenon, <1>1 DEF PipeTypeOK
<1>3. CASE CaughtUp(u) /\ OnCaughtUp(u)
  <2>1. UNCHANGED <<registered, cache, epoch, hist, stream, cursor, router, applied>>
    BY Zenon, <1>3 DEF CaughtUp, OnCaughtUp
  <2>2. lc'[t] = lc[t] /\ cause[t] \subseteq cause'[t]
    BY Zenon, <1>3 DEF CaughtUp, OnCaughtUp, Blame, TypeOK, PipeTypeOK
  <2> QED  BY Zenon, <1>2, <2>1, <2>2, GapOther
<1>4. CASE ~(CaughtUp(u) /\ OnCaughtUp(u))
  <2>1. UNCHANGED <<schedVars, stream, cursor, router>>
    BY Zenon, <1>4 DEF ReplayStep, Replay, ReadOpen, Read, ReadFails, Cancel, ReadCancelled,
       ReplayApply,
       ReplayFails, ReplayDone, CaughtUp, ReplayRetry
  <2>2. applied[t] \subseteq applied'[t] /\ cause[t] \subseteq cause'[t]
    BY Zenon, <1>4 DEF ReplayStep, Replay, ReadOpen, Read, ReadFails, Cancel, ReadCancelled,
       ReplayApply,
       ReplayFails, ReplayDone, CaughtUp, ReplayRetry, Blame, PipeTypeOK
  <2> QED  BY Zenon, <1>2, <2>1, <2>2, GapOther DEF schedVars
<1> QED  BY Zenon, <1>3, <1>4

\* A snapshot starts behind every event taken so far, so nothing is owed yet; and no
\* replay is one of the new snapshot.
LEMMA GapSnapshot ==
  ASSUME TypeOK, PausedResumesLive, PipeTypeOK, FlowInv, NEW t \in Tables, GapInv(t),
         NEW u \in Tables, SnapshotBegins(u)
  PROVE  GapInv(t)'
<1>1. /\ UNCHANGED <<registered, cache, stream, cursor, router, replay>>
      /\ lc' = [lc EXCEPT ![u] = TransitionTo(lc[u], "snapshotting", head)]
      /\ epoch' = [epoch EXCEPT ![u] = epoch[u] + 1]
      /\ applied' = [applied EXCEPT ![u] = {}]
      /\ cause' = [cause EXCEPT ![u] = {}]
  BY Zenon DEF SnapshotBegins, SnapshotStart
<1>2. CASE u # t
  <2>1. /\ lc'[t] = lc[t] /\ epoch'[t] = epoch[t] /\ applied'[t] = applied[t]
        /\ cause'[t] = cause[t]
    BY Zenon, <1>1, <1>2 DEF TypeOK, PipeTypeOK
  <2>2. hist'[t].skipped = hist[t].skipped
    BY Zenon, <1>2 DEF SnapshotBegins, SnapshotStart, TypeOK
  <2> QED  BY Zenon, <1>1, <2>1, <2>2, GapOther
<1>3. CASE u = t
  <2>1. head \in Nat /\ cursor \in Nat /\ cursor <= head /\ head # NoPos
    BY DEF PipeTypeOK, head, NoPos
  <2>2. lc'[t] = TransitionTo(lc[t], "snapshotting", head) /\ lc[t] \in Lifecycle
    BY Zenon, <1>1, <1>3 DEF TypeOK
  <2>3. lc'[t].state = "snapshotting" /\ lc'[t].snap = head
    BY Zenon, <2>1, <2>2 DEF TransitionTo, Lifecycle
  <2>4. Due(t)' = {}
    BY <1>1, <2>1, <2>3 DEF Due
  <2>5. router.pc = "sink" => router.ev <= head
    BY <2>1, HandedEvent DEF InHand
  <2>6. replay[t].run <= epoch[t] /\ replay[t].run \in Nat /\ epoch[t] \in Nat
    BY Zenon DEF FlowInv, PipeTypeOK, ReplayType, TypeOK
  <2>7. replay'[t].run # epoch'[t]
    BY <1>1, <1>3, <2>6 DEF TypeOK
  <2>8. Phase(t)' = "snapshotting"
    BY Zenon, <2>3 DEF Phase
  <2> QED  BY Zenon, <1>1, <2>3, <2>4, <2>5, <2>7, <2>8 DEF GapInv
<1> QED  BY Zenon, <1>2, <1>3

\* A cache file is deleted either of a table that streams, or of one that was reset: if
\* that one is already snapshotting again, the loss is recorded.
LEMMA GapDelete ==
  ASSUME TypeOK, PausedResumesLive, PipeTypeOK, FlowInv, DropInv, NEW t \in Tables, GapInv(t),
         NEW ok \in BOOLEAN, RestartDeletes(ok) \/ CaughtUpDeletes(ok)
  PROVE  GapInv(t)'
<1>1. /\ Unlink
      /\ UNCHANGED <<registered, lc, epoch, stream, cursor, router, applied>>
      /\ op.cur \in Tables
      /\ cache' = cache \/ cache' = [cache EXCEPT ![op.cur] = <<>>]
      /\ hist' = hist \/ hist' = [hist EXCEPT ![op.cur].leaked = TRUE]
  BY Zenon DEF RestartDeletes, CaughtUpDeletes, RestartClear, OnCaughtUpDelete, TypeOK
<1>2. hist'[t].skipped = hist[t].skipped
  <2>1. hist[t] \in HistType /\ hist \in [Tables -> HistType]
    BY Zenon DEF TypeOK
  <2>2. [hist[t] EXCEPT !.leaked = TRUE].skipped = hist[t].skipped
    BY Zenon, <2>1 DEF HistType
  <2>3. hist'[t] = hist[t] \/ hist'[t] = [hist[t] EXCEPT !.leaked = TRUE]
    BY Zenon, <1>1, <2>1
  <2> QED  BY Zenon, <2>2, <2>3
<1>3. cause[t] \subseteq cause'[t]
  <2>1. cause' = cause \/ cause' = [cause EXCEPT ![op.cur] = cause[op.cur] \cup {"restart"}]
    BY Zenon DEF RestartDeletes, CaughtUpDeletes, Blame
  <2> QED  BY ZenonT(30), <2>1 DEF PipeTypeOK
<1>4. CASE cache'[t] = cache[t]
  <2>1. replay'[t] = replay[t]
    BY Zenon, <1>1, <1>4 DEF Unlink
  <2> QED  BY Zenon, <1>1, <1>2, <1>3, <1>4, <2>1, GapOther
<1>5. CASE cache'[t] # cache[t]
  <2>1. op.cur = t /\ ok
    BY Zenon, <1>1, <1>5 DEF TypeOK, RestartDeletes, CaughtUpDeletes, RestartClear, OnCaughtUpDelete
  <2>2. CASE RestartDeletes(ok) /\ lc[t].state # "pending"
    <3>1. cause'[t] # {}
      BY ZenonT(30), <2>1, <2>2 DEF RestartDeletes, Blame, PipeTypeOK
    <3> QED  BY Zenon, <3>1 DEF GapInv, Unharmed
  <2>3. CASE RestartDeletes(ok) /\ lc[t].state = "pending"
    BY Zenon, <1>1, <2>3 DEF GapInv, Phase
  <2>4. CASE CaughtUpDeletes(ok)
    <3>1. lc[t].state = "streaming" \/ hist[t].skipped
      BY Zenon, <2>1, <2>4 DEF DropInv, CaughtUpDeletes, OnCaughtUpDelete
    <3>2. CASE hist[t].skipped
      BY Zenon, <1>2, <3>2 DEF GapInv, Unharmed
    <3>3. CASE lc[t].state = "streaming"
      <4>1. Phase(t)' = "streaming" /\ Phase(t) = "streaming"
        BY Zenon, <1>1, <3>3 DEF Phase
      <4>2. Due(t)' = Due(t)
        BY Zenon, <1>1 DEF Due
      <4>3. Unharmed(t)' => Unharmed(t)
        BY Zenon, <1>1, <1>2, <1>3 DEF Unharmed
      <4> QED  BY Zenon, <1>1, <4>1, <4>2, <4>3 DEF GapInv
    <3> QED  BY Zenon, <3>1, <3>2, <3>3
  <2> QED  BY Zenon, <2>2, <2>3, <2>4
<1> QED  BY Zenon, <1>4, <1>5

\* The routing goroutine takes an event: it discards it and says so, or has it in hand.
\* The event goes to the sink only if the table is not snapshotting.
LEMMA GapRoute ==
  ASSUME TypeOK, PausedResumesLive, PipeTypeOK, FlowInv, NEW t \in Tables, GapInv(t), Route
  PROVE  GapInv(t)'
<1>1. /\ UNCHANGED <<schedVars, stream, replay, replays, applied, pl>>
      /\ router.pc = "idle"
      /\ cursor' = cursor + 1
      /\ cursor \in Nat
  BY DEF Route, PipeTypeOK, head
<1>2. PICK u : u = stream[cursor + 1]
  BY Zenon
<1>3. /\ RouteDest(u) = "discard" =>
           cause' = [cause EXCEPT ![u] = cause[u] \cup {"discard"}] /\ router' = router
      /\ RouteDest(u) # "discard" =>
           cause' = cause /\ router' = [pc |-> RouteDest(u), ev |-> cursor + 1]
  BY Zenon, <1>2 DEF Route, Blame
<1>4. RouteDest(u) \in {"discard", "cache", "sink"}
  BY Zenon DEF RouteDest
<1>5. cause[t] \subseteq cause'[t] /\ (RouteDest(u) = "discard" /\ u = t => cause'[t] # {})
  BY Zenon, <1>3 DEF PipeTypeOK
<1>6. ASSUME Unharmed(t)'
      PROVE  Unharmed(t) /\ (u = t => RouteDest(u) # "discard")
  BY Zenon, <1>1, <1>5, <1>6 DEF Unharmed, schedVars
<1>7. ASSUME Unharmed(t)'
      PROVE  Due(t)' = Due(t)
  <2>1. ASSUME NEW e \in 1..cursor'
        PROVE  /\ e # cursor + 1 => e \in 1..cursor /\ ~(router'.pc # "idle" /\ router'.ev = e)
               /\ e = cursor + 1 => e \notin 1..cursor
               /\ e = cursor + 1 /\ stream[e] = t => router'.pc # "idle" /\ router'.ev = e
    BY <1>1, <1>2, <1>3, <1>4, <1>6, <1>7, <2>1
  <2>2. 1..cursor \subseteq 1..cursor'
    BY <1>1
  <2>3. lc' = lc /\ stream' = stream
    BY Zenon, <1>1 DEF schedVars
  <2> QED  BY Zenon, <1>1, <2>1, <2>2, <2>3 DEF Due
<1>8. Phase(t)' = Phase(t) /\ Cached(t)' = Cached(t) /\ (ReplayInv(t) => ReplayInv(t)')
  BY Zenon, <1>1, ReplayInvKeeps DEF Phase, Cached, schedVars
<1>9. ASSUME Unharmed(t), Phase(t) = "snapshotting", router'.pc = "sink", stream'[router'.ev] = t
      PROVE  FALSE
  <2>1. lc[t].state = "snapshotting"
    BY Zenon, <1>9 DEF Phase, Unharmed, PausedResumesLive
  <2>2. router' = [pc |-> RouteDest(u), ev |-> cursor + 1]
    BY Zenon, <1>1, <1>3, <1>9
  <2>3. u = t /\ RouteDest(u) = "sink"
    BY Zenon, <1>1, <1>2, <1>9, <2>2
  <2> QED  BY Zenon, <1>9, <2>1, <2>3 DEF RouteDest, Unharmed
<1> QED  BY Zenon, <1>1, <1>6, <1>7, <1>8, <1>9 DEF GapInv, schedVars

\* The event in hand reaches the cache file of a snapshotting table; any other outcome of
\* a cache write is recorded as a loss.
LEMMA GapCacheWrite ==
  ASSUME TypeOK, PausedResumesLive, PipeTypeOK, FlowInv, NEW t \in Tables, GapInv(t),
         NEW ok \in BOOLEAN, RouteCacheWrite(ok)
  PROVE  GapInv(t)'
<1>1. /\ UNCHANGED <<registered, lc, op, req, epoch, runs, hist>>
      /\ UNCHANGED <<stream, cursor, replay, replays, applied, pl>>
      /\ router.pc = "cache" /\ router' = Resting /\ InHand
  BY Zenon DEF RouteCacheWrite, InHand
<1>2. PICK u \in Tables : u = stream[router.ev]
  BY Zenon, <1>1, HandedEvent
<1>3. PICK e \in 1..cursor : e = router.ev /\ e \in Nat
  BY Zenon, <1>1, HandedEvent
<1>4. /\ cache' = IF ok THEN [cache EXCEPT ![u] = Append(cache[u], e)] ELSE cache
      /\ cause' = [cause EXCEPT ![u] =
              cause[u] \cup (IF ok THEN {} ELSE {"ioerr"})
                \cup (IF lc[u].state = "snapshotting" THEN {} ELSE {"late"})]
  BY Zenon, <1>2, <1>3 DEF RouteCacheWrite
<1>5. Phase(t)' = Phase(t)
  BY Zenon, <1>1 DEF Phase
<1>6. Due(t)' \subseteq Due(t) \cup (IF u = t THEN {e} ELSE {})
  BY Zenon, <1>1, <1>2, <1>3 DEF Due, Resting
<1>7. CASE u # t
  <2>1. cache'[t] = cache[t] /\ cause'[t] = cause[t]
    BY Zenon, <1>4, <1>7 DEF TypeOK, PipeTypeOK
  <2>2. Cached(t)' = Cached(t) /\ (ReplayInv(t) => ReplayInv(t)') /\ (Unharmed(t)' => Unharmed(t))
    BY Zenon, <1>1, <2>1, ReplayInvKeeps DEF Cached, Unharmed
  <2> QED  BY Zenon, <1>1, <1>5, <1>6, <1>7, <2>2 DEF GapInv, Resting
<1>8. CASE u = t
  <2>1. cause'[t] = {} => cause[t] = {} /\ ok /\ lc[t].state = "snapshotting"
    BY ZenonT(30), <1>4, <1>8 DEF PipeTypeOK
  <2>2. ASSUME Unharmed(t)'
        PROVE  /\ Phase(t) = "snapshotting" /\ Unharmed(t)
               /\ Due(t)' \subseteq Cached(t)'
    <3>1. lc[t].state = "snapshotting" /\ ok /\ Unharmed(t)
      BY Zenon, <1>1, <2>1, <2>2 DEF Unharmed
    <3>2. PICK c : c = cache[t] /\ c \in Seq(Nat)
      BY Zenon DEF TypeOK
    <3>3. cache'[t] = Append(c, e)
      BY Zenon, <1>4, <1>8, <3>1, <3>2 DEF TypeOK
    <3>4. PICK a : a = Append(c, e)
      BY Zenon
    <3>5. /\ Len(a) = Len(c) + 1 /\ Len(c) \in Nat
          /\ a[Len(c) + 1] = e
          /\ \A i \in 1..Len(c) : a[i] = c[i]
      BY <1>3, <3>2, <3>4
    <3>6. \A i \in 1..Len(c) : i \in 1..Len(a)
      BY <3>5
    <3>7. Len(c) + 1 \in 1..Len(a)
      BY <3>5
    <3>8. Cached(t) = {c[i] : i \in 1..Len(c)} /\ Cached(t)' = {a[i] : i \in 1..Len(a)}
      BY Zenon, <3>2, <3>3, <3>4 DEF Cached
    <3>9. Cached(t) \cup {e} \subseteq Cached(t)'
      BY Zenon, <3>5, <3>6, <3>7, <3>8
    <3>10. Phase(t) = "snapshotting"
      BY Zenon, <3>1 DEF Phase
    <3>11. Due(t) \subseteq Cached(t)
      BY Zenon, <3>1, <3>10 DEF GapInv
    <3> QED  BY Zenon, <1>6, <3>1, <3>9, <3>10, <3>11
  <2>3. router'.pc = "idle"
    BY Zenon, <1>1 DEF Resting
  <2> QED  BY Zenon, <1>1, <1>5, <2>2, <2>3 DEF GapInv
<1> QED  BY Zenon, <1>7, <1>8

\* The event in hand reaches the sink, or the loss is recorded.
LEMMA GapSinkWrite ==
  ASSUME TypeOK, PausedResumesLive, PipeTypeOK, FlowInv, NEW t \in Tables, GapInv(t),
         NEW ok \in BOOLEAN, RouteSinkWrite(ok)
  PROVE  GapInv(t)'
<1>1. /\ UNCHANGED <<schedVars, stream, cursor, replay, replays, pl>>
      /\ router.pc = "sink" /\ router' = Resting /\ InHand
  BY Zenon DEF RouteSinkWrite, InHand
<1>2. PICK u \in Tables : u = stream[router.ev]
  BY Zenon, <1>1, HandedEvent
<1>3. PICK e \in 1..cursor : e = router.ev /\ e \in Nat
  BY Zenon, <1>1, HandedEvent
<1>4. /\ applied' = IF ok THEN [applied EXCEPT ![u] = applied[u] \cup {e}] ELSE applied
      /\ cause' = IF ok THEN cause ELSE [cause EXCEPT ![u] = cause[u] \cup {"ioerr"}]
  BY Zenon, <1>2, <1>3 DEF RouteSinkWrite, Blame
<1>5. Phase(t)' = Phase(t) /\ Cached(t)' = Cached(t) /\ lc' = lc /\ epoch' = epoch
  BY Zenon, <1>1 DEF Phase, Cached, schedVars
<1>6. applied[t] \subseteq applied'[t] /\ cause[t] \subseteq cause'[t]
  BY Zenon, <1>4 DEF PipeTypeOK
<1>7. (ReplayInv(t) => ReplayInv(t)') /\ (Unharmed(t)' => Unharmed(t))
  BY Zenon, <1>1, <1>6, ReplayInvKeeps DEF Unharmed, schedVars
<1>8. Due(t)' \subseteq Due(t) \cup (IF u = t /\ e > lc[t].snap THEN {e} ELSE {})
  BY Zenon, <1>1, <1>2, <1>3, <1>5 DEF Due, Resting
<1>9. Unharmed(t)' /\ u = t => e \in applied'[t]
  BY Zenon, <1>4 DEF Unharmed, PipeTypeOK
<1>10. ASSUME Unharmed(t)', Phase(t) = "snapshotting", u = t
       PROVE  ~(e > lc[t].snap)
  <2>1. e <= lc[t].snap
    BY Zenon, <1>1, <1>2, <1>3, <1>7, <1>10 DEF GapInv
  <2>2. lc[t].snap \in Int
    BY DEF TypeOK, Lifecycle, Position, NoPos
  <2> QED  BY SMTT(30), <1>3, <2>1, <2>2
<1>11. router'.pc = "idle" /\ replay' = replay
  BY Zenon, <1>1 DEF Resting
<1> QED  BY Zenon, <1>5, <1>6, <1>7, <1>8, <1>9, <1>10, <1>11 DEF GapInv

\* GapInv is kept for every table by every step.
LEMMA StepGap ==
  ASSUME TypeOK, PausedResumesLive, PipeTypeOK, FlowInv, DropInv, PipeNext \/ UNCHANGED vars,
         NEW t \in Tables, GapInv(t)
  PROVE  GapInv(t)'
<1>1. ASSUME UNCHANGED <<schedVars, cursor, router, replay, applied, cause>>,
             \A e \in 1..cursor : stream'[e] = stream[e]
      PROVE  GapInv(t)'
  BY Zenon, <1>1, GapOther DEF schedVars
<1>2. ASSUME NEW u \in Tables, Emit(u)
      PROVE  GapInv(t)'
  <2>1. \A e \in 1..Len(stream) : stream'[e] = stream[e]
    BY SMTT(30), <1>2 DEF Emit, PipeTypeOK
  <2>2. cursor \in Nat /\ cursor <= Len(stream) /\ Len(stream) \in Nat
    BY DEF PipeTypeOK, head
  <2>3. \A e \in 1..cursor : stream'[e] = stream[e]
    BY SMTT(30), <2>1, <2>2
  <2> QED  BY ZenonT(30), <1>1, <1>2, <2>3 DEF Emit
<1>3. ASSUME NEW u \in Tables, ReplayStep(u)
      PROVE  GapInv(t)'
  BY Zenon, <1>3, GapReplay, GapReplayOther
<1>4. ASSUME NEW u \in Tables, SnapshotBegins(u)
      PROVE  GapInv(t)'
  BY Zenon, <1>4, GapSnapshot
<1>5. ASSUME NEW ok \in BOOLEAN, RestartDeletes(ok) \/ CaughtUpDeletes(ok)
      PROVE  GapInv(t)'
  BY Zenon, <1>5, GapDelete
<1>6. CASE RouteExit
  <2>1. /\ UNCHANGED <<schedVars, stream, cursor, replay, replays, applied, cause, pl>>
        /\ router.pc = "idle" /\ router' = [pc |-> "gone", ev |-> 0]
    BY Zenon, <1>6 DEF RouteExit, Resting
  <2>2. Phase(t)' = Phase(t) /\ Cached(t)' = Cached(t) /\ lc' = lc /\ epoch' = epoch
    BY Zenon, <2>1 DEF Phase, Cached, schedVars
  <2>3. (ReplayInv(t) => ReplayInv(t)') /\ (Unharmed(t)' => Unharmed(t))
    BY Zenon, <2>1, ReplayInvKeeps DEF Unharmed, schedVars
  <2>4. Due(t)' = Due(t)
    BY <2>1, <2>2 DEF Due
  <2> QED  BY Zenon, <2>1, <2>2, <2>3, <2>4 DEF GapInv
<1>7. CASE RouterStep
  BY Zenon, <1>6, <1>7, GapRoute, GapCacheWrite, GapSinkWrite DEF RouterStep
<1>8. CASE PipelineStep
  BY Zenon, <1>1, <1>8 DEF PipelineStep, Start, StopClose, StopSource, StopSinks
<1>9. CASE SchedulerStep
  BY Zenon, <1>9, GapScheduler
<1>10. CASE UNCHANGED vars
  BY Zenon, <1>1, <1>10 DEF vars, pipeVars
<1> QED  BY Zenon, <1>2, <1>3, <1>4, <1>5, <1>7, <1>8, <1>9, <1>10 DEF PipeNext

-----------------------------------------------------------------------------
(* Theorems.                                                               *)

\* The whole inductive invariant.
PipeInv ==
  /\ TypeOK /\ PausedResumesLive
  /\ PipeTypeOK /\ FlowInv /\ DropInv
  /\ \A t \in Tables : GapInv(t)

\* It holds at the start: the log is empty and no table is registered.
LEMMA PipeInvInit == Init => PipeInv
<1> SUFFICES ASSUME Init
             PROVE  PipeInv
  BY Zenon
<1>1. TypeOK
  BY Zenon, InitTypes DEF Init
<1>2. PausedResumesLive /\ DropInv /\ \A t \in Tables : GapInv(t)
  BY Zenon DEF Init, SchedInit, PausedResumesLive, DropInv, Idle, GapInv, Unharmed
<1>3. NoReplay \in ReplayType
  BY SMTT(30) DEF NoReplay, ReplayType
<1>4. PipeTypeOK
  BY <1>3 DEF Init, PipeTypeOK, head, Resting
<1>5. ~InHand /\ Settled = 0
  BY Zenon DEF Init, InHand, Settled, Resting
<1>6. \A t \in Tables : Stored(t, 0)
  <2>1. <<>> \in Seq(1..0)
    OBVIOUS
  <2> QED  BY ZenonT(30), <2>1 DEF Init, SchedInit, Stored, NoReplay
<1>7. FlowInv
  BY <1>5, <1>6 DEF Init, SchedInit, FlowInv, NoReplay
<1> QED  BY Zenon, <1>1, <1>2, <1>4, <1>7 DEF PipeInv

\* Every step of the pipeline keeps it.
LEMMA PipeInvStep ==
  ASSUME PipeInv, [PipeNext /\ UNCHANGED env]_<<vars, env>>
  PROVE  PipeInv'
<1>1. PipeNext \/ UNCHANGED vars
  BY Zenon
<1> QED  BY Zenon, <1>1, PipeSchedTypes, PipeDrop, StepFlow, StepGap DEF PipeInv

\* The invariant, for every behaviour of the pipeline.
LEMMA PipeInvHolds == PipeSpec => []PipeInv
  BY PipeInvInit, PipeInvStep, PTL DEF PipeSpec

\* The routing goroutine, the replays and the sink have their types in every state the
\* pipeline reaches, whatever fails and whoever intervenes.
THEOREM PipeTypeCorrect == PipeSpec => []PipeTypeOK
  BY PipeInvHolds, PTL DEF PipeInv

\* A snapshotting table has every event it is owed in its cache file, unless a recorded
\* cause intervened.
THEOREM SnapshottingSafe == PipeSpec => []SnapshottingCachesAll
<1>1. PipeInv => SnapshottingCachesAll
  BY Zenon DEF PipeInv, SnapshottingCachesAll, GapInv, Unharmed, Phase, TypeOK
<1> QED  BY <1>1, PipeInvHolds, PTL

\* The list of causes is complete: a streaming table for which none is recorded has every
\* later event in the sink, for any number of tables, events, snapshots and replays.
THEOREM NoGapSafe == PipeSpec => []StreamingHasNoGap
<1>1. PipeInv => StreamingHasNoGap
  BY Zenon DEF PipeInv, StreamingHasNoGap, GapInv, Unharmed, Phase, TypeOK
<1> QED  BY <1>1, PipeInvHolds, PTL

\* Stop waits for the routing goroutine, which takes and writes nothing afterwards.
THEOREM QuietSafe == PipeSpec => QuietAfterStop
<1>1. PipeInv /\ [PipeNext /\ UNCHANGED env]_<<vars, env>>
        => [pl = "stopped" => UNCHANGED <<router, cursor>>]_vars
  <2> SUFFICES ASSUME PipeInv, PipeNext, pl = "stopped"
               PROVE  UNCHANGED <<router, cursor>>
    BY Zenon
  <2>1. router.pc = "gone"
    BY Zenon DEF PipeInv, FlowInv
  <2>2. CASE RouterStep
    BY Zenon, <2>1, <2>2 DEF RouterStep, Route, RouteCacheWrite, RouteSinkWrite, RouteExit
  <2> QED
    BY Zenon, <2>2 DEF PipeNext, Emit, SnapshotBegins, ReplayStep, Replay, ReadOpen, Read,
       ReadFails, Cancel,
       ReadCancelled, ReplayApply, ReplayFails, ReplayDone, CaughtUp, ReplayRetry, RestartDeletes,
       CaughtUpDeletes, PipelineStep, Start, StopClose, StopSource, StopSinks, SchedulerStep, pipeVars
<1> QED  BY <1>1, PipeInvHolds, PTL DEF PipeSpec, QuietAfterStop

\* Once a table streams and no replay of it runs, Route writes its events in log order:
\* everything in the sink was taken from the log before the event that is added.
THEOREM OrderSafe == PipeSpec => StreamingWritesInOrder
<1>1. ASSUME PipeInv, PipeNext \/ UNCHANGED vars, NEW t \in Tables, replay[t].pc # "run",
             NEW e \in applied'[t] \ applied[t], NEW f \in applied[t]
      PROVE  e > f
  <2> USE <1>1 DEF PipeInv
  <2>1. applied \in [Tables -> SUBSET (1..head)] /\ applied[t] \subseteq 1..Settled
    BY Zenon DEF PipeTypeOK, FlowInv, Stored
  <2>2. ASSUME NEW u \in Tables, ReplayStep(u)
        PROVE  FALSE
    <3>1. CASE ReplayApply(u, TRUE)
      BY Zenon, <2>1, <3>1 DEF ReplayApply
    <3>2. CASE ~ReplayApply(u, TRUE)
      <4>1. applied' = applied
        BY Zenon, <2>2, <3>2 DEF ReplayStep, Replay, ReadOpen, Read, ReadFails, Cancel,
           ReadCancelled,
           ReplayApply, ReplayFails, ReplayDone, CaughtUp, ReplayRetry
      <4> QED  BY Zenon, <4>1
    <3> QED  BY Zenon, <3>1, <3>2
  <2>3. ASSUME NEW u \in Tables, SnapshotBegins(u)
        PROVE  FALSE
    BY Zenon, <2>1, <2>3 DEF SnapshotBegins
  <2>4. ASSUME NEW ok \in BOOLEAN, RouteSinkWrite(ok)
        PROVE  e > f
    <3>1. InHand
      BY Zenon, <2>4 DEF RouteSinkWrite, InHand
    <3>2. router.ev = Settled + 1 /\ Settled \in Nat
      BY Zenon, <3>1, SettledIsPrefix
    <3>3. e = router.ev
      BY Zenon, <2>1, <2>4 DEF RouteSinkWrite
    <3>4. f \in 1..Settled
      BY Zenon, <2>1
    <3> QED  BY <3>2, <3>3, <3>4
  <2>5. CASE applied' = applied
    BY Zenon, <2>5
  <2>6. CASE RouterStep
    BY Zenon, <2>4, <2>5, <2>6 DEF RouterStep, Route, RouteCacheWrite, RouteExit
  <2>7. CASE \/ \E u \in Tables : Emit(u)
             \/ \E ok \in BOOLEAN : RestartDeletes(ok) \/ CaughtUpDeletes(ok)
             \/ PipelineStep \/ SchedulerStep \/ UNCHANGED vars
    BY Zenon, <2>5, <2>7 DEF Emit, RestartDeletes, CaughtUpDeletes, PipelineStep, Start, StopClose,
       StopSource, StopSinks, SchedulerStep, vars, pipeVars
  <2> QED  BY Zenon, <2>2, <2>3, <2>6, <2>7 DEF PipeNext
<1>2. PipeInv /\ [PipeNext /\ UNCHANGED env]_<<vars, env>>
        => [\A t \in Tables :
              t \in registered /\ lc[t].state = "streaming" /\ replay[t].pc # "run"
                => \A e \in applied'[t] \ applied[t], f \in applied[t] : e > f]_vars
  BY Zenon, <1>1
<1> QED  BY <1>2, PipeInvHolds, PTL DEF PipeSpec, StreamingWritesInOrder

\* A recorded cause of loss stays recorded until the next snapshot of the table begins.
LEMMA CauseStays ==
  ASSUME TypeOK, PipeTypeOK, FlowInv, PipeNext \/ UNCHANGED vars, NEW t \in Tables
  PROVE  cause[t] \subseteq cause'[t] \/ lc'[t].state = "snapshotting"
<1>1. cause \in [Tables -> SUBSET Causes] /\ lc \in [Tables -> Lifecycle]
  BY Zenon DEF PipeTypeOK, TypeOK
<1>2. ASSUME NEW u, NEW c, Blame(u, c)
      PROVE  cause[t] \subseteq cause'[t]
  BY Zenon, <1>1, <1>2 DEF Blame
<1>3. ASSUME NEW u \in Tables, SnapshotBegins(u)
      PROVE  cause[t] \subseteq cause'[t] \/ lc'[t].state = "snapshotting"
  <2>1. CASE u = t
    <3>1. lc'[t] = TransitionTo(lc[t], "snapshotting", head)
      BY Zenon, <1>1, <1>3, <2>1 DEF SnapshotBegins, SnapshotStart
    <3> QED  BY <1>1, <3>1 DEF TransitionTo, Lifecycle
  <2>2. CASE u # t
    BY Zenon, <1>1, <1>3, <2>2 DEF SnapshotBegins
  <2> QED  BY Zenon, <2>1, <2>2
<1>4. ASSUME NEW ok \in BOOLEAN, RouteCacheWrite(ok)
      PROVE  cause[t] \subseteq cause'[t]
  BY Zenon, <1>1, <1>4 DEF RouteCacheWrite
<1>5. CASE cause' = cause
  BY Zenon, <1>5
<1>6. ASSUME NEW u \in Tables, Emit(u) \/ ReplayStep(u)
      PROVE  cause[t] \subseteq cause'[t]
  BY Zenon, <1>2, <1>6 DEF Emit, ReplayStep, Replay, ReadOpen, Read, ReadFails, Cancel, ReadCancelled,
     ReplayApply, ReplayFails, ReplayDone, CaughtUp, ReplayRetry
<1>7. ASSUME NEW ok \in BOOLEAN, RestartDeletes(ok) \/ CaughtUpDeletes(ok)
      PROVE  cause[t] \subseteq cause'[t]
  BY Zenon, <1>2, <1>7 DEF RestartDeletes, CaughtUpDeletes
<1>8. CASE RouterStep
  BY Zenon, <1>2, <1>4, <1>8 DEF RouterStep, Route, RouteSinkWrite, RouteExit
<1>9. CASE PipelineStep \/ SchedulerStep \/ UNCHANGED vars
  BY Zenon, <1>5, <1>9 DEF PipelineStep, Start, StopClose, StopSource, StopSinks, SchedulerStep,
     pipeVars, vars
<1> QED  BY Zenon, <1>3, <1>6, <1>7, <1>8, <1>9 DEF PipeNext

\* Between a restart and the next snapshot only a late write of the routing goroutine,
\* which is recorded, fills a cache file.
LEMMA PipeClears ==
  ASSUME PipeInv, RestartInv, RestartClearsCache, PipeNext \/ UNCHANGED vars
  PROVE  RestartInv' /\ RestartClearsCache'
<1> PICK S : S = {t \in Tables : "late" \in cause[t]}
  OBVIOUS
<1>1. TypeOK /\ PausedResumesLive /\ PipeTypeOK /\ FlowInv /\ registered \subseteq Tables
  BY Zenon DEF PipeInv, TypeOK
<1>2. ClearedBut(S)
  BY Zenon, <1>1 DEF ClearedBut, RestartClearsCache
<1>3. \A t \in Tables : cause[t] \subseteq cause'[t] \/ lc'[t].state = "snapshotting"
  BY Zenon, <1>1, CauseStays
<1>4. TypeOK'
  BY Zenon, <1>1, PipeSchedTypes
<1>5. CASE [SchedulerAction]_schedVars
  <2>1. RestartInv' /\ ClearedBut(S)'
    BY Zenon, <1>1, <1>2, <1>5, StepRestartInv, StepClears
  <2>2. registered' \subseteq Tables
    BY Zenon, <1>4 DEF TypeOK
  <2> QED  BY Zenon, <1>3, <2>1, <2>2 DEF ClearedBut, RestartClearsCache
<1>6. ASSUME NEW ok \in BOOLEAN, RouteCacheWrite(ok)
      PROVE  RestartInv' /\ RestartClearsCache'
  <2> DEFINE u == stream[router.ev]
  <2>1. /\ UNCHANGED <<registered, lc, op, req, hist>>
        /\ u \in Tables
        /\ \A t \in Tables \ {u} : cache'[t] = cache[t] /\ cause'[t] = cause[t]
        /\ lc[u].state # "snapshotting" => "late" \in cause'[u]
    BY Zenon, <1>1, <1>6, HandedEvent DEF RouteCacheWrite, InHand, TypeOK, PipeTypeOK
  <2>2. RestartInv'
    BY Zenon, <2>1 DEF RestartInv
  <2>3. RestartClearsCache'
    <3> HIDE DEF u
    <3> QED  BY Zenon, <1>1, <2>1 DEF RestartClearsCache
  <2> QED  BY Zenon, <2>2, <2>3
<1> QED  BY Zenon, <1>1, <1>5, <1>6, PipeIsScheduler

\* Once a restart is over, the cache file of the table it made pending is empty until the
\* next snapshot begins, unless the delete failed or the routing goroutine, which had
\* looked at the table before the restart, wrote to the file after it.
THEOREM RestartSafe == PipeSpec => []RestartClearsCache
<1>1. Init => RestartInv /\ RestartClearsCache
  BY DEF Init, SchedInit, RestartInv, RestartClearsCache, Idle, NoReq
<1>2. PipeInv /\ RestartInv /\ RestartClearsCache /\ [PipeNext /\ UNCHANGED env]_<<vars, env>>
        => (RestartInv /\ RestartClearsCache)'
  BY Zenon, PipeClears
<1> QED  BY <1>1, <1>2, PipeInvHolds, PTL DEF PipeSpec
=============================================================================
