---------------------------- MODULE FlowControl ----------------------------
(***************************************************************************)
(* Two guards for overload: the circuit breaker                            *)
(* (pkg/errors/circuit_breaker.go) and the backpressure controller         *)
(* (internal/pipeline/backpressure.go).                                    *)
(*                                                                         *)
(* Calls ask the breaker (Allow) and report later, in any order.  Readers  *)
(* wait at the controller while it is paused; a pause and a resume leave   *)
(* one token each in a channel of capacity one.  Both are objects under a  *)
(* mutex, so each method is one step.  The callbacks onPause and onResume  *)
(* run within check, under its mutex; nothing but the tests registers one, *)
(* and they are not modelled: one that called back into the controller     *)
(* would wait for ever.                                                    *)
(***************************************************************************)
EXTENDS Integers, FiniteSets

CONSTANTS
  Guarded,            \* calls behind the breaker
  FailureThreshold,   \* failures that open the breaker
  SuccessThreshold,   \* successes that close it
  MaxFailed,          \* bound: the failure count while the breaker is open
  Waiters             \* readers that wait at the controller

ASSUME FlowBounds ==
  {FailureThreshold, SuccessThreshold, MaxFailed} \subseteq Nat \ {0}

VARIABLES
  breaker,      \* state of the breaker
  failed,       \* failures
  succeeded,    \* successes
  probing,      \* probeInFlight
  cooled,       \* ResetTimeout has passed since the last failure
  inFlight,     \* per call: "no", "probe" of this half-open period, or "other"
  probesOK,     \* ghost: probes of this half-open period that succeeded
  straggled,    \* ghost: an "other" call has reported in this half-open period
  pressure,     \* state of the controller
  usage,        \* queue usage: 0 below the low watermark, 1 on it, 2 above it,
                \* 3 at the high watermark or above
  slow,         \* the latency is above MaxLatency
  pauseToken,   \* pauseCh holds a token
  token,        \* resumeCh holds a token
  waiting,      \* per reader: "no", "resume" (WaitForResume), "paused"
                \* (WaitWhilePaused) or "cancelled"
  staleToken,   \* ghost: the token was left before the current pause
  unserved      \* ghost: readers that began to wait while it was not paused,
                \* or have seen another reader take the token

breakerVars == <<breaker, failed, succeeded, probing, cooled, inFlight, probesOK, straggled>>
pressureVars == <<pressure, usage, slow, pauseToken, token, waiting, staleToken, unserved>>
flowVars == <<breakerVars, pressureVars>>

-----------------------------------------------------------------------------

\* Allow in the half-open state: one probe at a time.
AllowInHalfOpen(c) ==
  /\ breaker = "half-open"
  /\ ~probing
  /\ probing' = TRUE
  /\ inFlight' = [inFlight EXCEPT ![c] = "probe"]
  /\ UNCHANGED <<breaker, succeeded, probesOK, straggled>>

\* Allow returns true: closed, open for long enough, or half open.
Allow(c) ==
  /\ inFlight[c] = "no"
  /\ \/ /\ breaker = "closed"
        /\ inFlight' = [inFlight EXCEPT ![c] = "other"]
        /\ UNCHANGED <<breaker, succeeded, probing, probesOK, straggled>>
     \/ /\ breaker = "open" /\ cooled
        /\ breaker' = "half-open" /\ probing' = TRUE /\ succeeded' = 0
        /\ inFlight' = [d \in Guarded |->
             IF d = c THEN "probe" ELSE IF inFlight[d] = "no" THEN "no" ELSE "other"]
        /\ probesOK' = 0 /\ straggled' = FALSE
     \/ AllowInHalfOpen(c)
  /\ UNCHANGED <<failed, cooled, pressureVars>>

\* The call reports: what the ghosts keep of it.
Reports(c) ==
  /\ inFlight[c] # "no"
  /\ inFlight' = [inFlight EXCEPT ![c] = "no"]
  /\ straggled' = (straggled \/ (breaker = "half-open" /\ inFlight[c] = "other"))
  /\ UNCHANGED pressureVars

\* Plausible bug: one success closes a half-open breaker.
RecordSuccessCloses(c) ==
  /\ Reports(c)
  /\ failed' = 0 /\ probing' = FALSE
  /\ probesOK' = IF breaker = "half-open" /\ inFlight[c] = "probe" THEN probesOK + 1 ELSE probesOK
  /\ breaker' = IF breaker = "half-open" THEN "closed" ELSE breaker
  /\ UNCHANGED <<succeeded, cooled>>

\* RecordSuccess resets the failures and counts towards closing when half open.
RecordSuccess(c) ==
  LET n == IF breaker = "half-open" THEN succeeded + 1 ELSE succeeded
      closes == breaker = "half-open" /\ n >= SuccessThreshold
  IN /\ Reports(c)
     /\ failed' = 0 /\ probing' = FALSE
     /\ probesOK' = IF breaker = "half-open" /\ inFlight[c] = "probe" THEN probesOK + 1 ELSE probesOK
     /\ breaker' = IF closes THEN "closed" ELSE breaker
     /\ succeeded' = IF closes THEN 0 ELSE n
     /\ UNCHANGED cooled

\* Plausible bug: the breaker opens one failure too late.
RecordFailureLate(c) ==
  /\ Reports(c)
  /\ failed < MaxFailed
  /\ cooled' = FALSE /\ probing' = FALSE
  /\ breaker' = IF breaker = "half-open" \/ failed >= FailureThreshold THEN "open" ELSE breaker
  /\ failed' = IF breaker = "half-open" THEN 0 ELSE failed + 1
  /\ succeeded' = IF breaker = "half-open" THEN 0 ELSE succeeded
  /\ UNCHANGED probesOK

\* RecordFailure opens the breaker: at the threshold, or at once when half open.
RecordFailure(c) ==
  /\ Reports(c)
  /\ failed < MaxFailed
  /\ cooled' = FALSE /\ probing' = FALSE
  /\ breaker' = IF breaker = "half-open" \/ failed + 1 >= FailureThreshold THEN "open" ELSE breaker
  /\ failed' = IF breaker = "half-open" THEN 0 ELSE failed + 1
  /\ succeeded' = IF breaker = "half-open" THEN 0 ELSE succeeded
  /\ UNCHANGED probesOK

\* ResetTimeout passes.
CoolsDown ==
  /\ ~cooled
  /\ cooled' = TRUE
  /\ UNCHANGED <<breaker, failed, succeeded, probing, inFlight, probesOK, straggled, pressureVars>>

-----------------------------------------------------------------------------

\* UpdateMetrics.
UpdateMetrics ==
  /\ usage' \in 0..3 /\ slow' \in BOOLEAN
  /\ UNCHANGED <<breakerVars, pressure, pauseToken, token, waiting, staleToken, unserved>>

\* Plausible bug: the resume is not announced after a pause that had filled the queue.
CheckSilent ==
  /\ IF pressure # "paused"
     THEN /\ pressure' = IF usage = 3 \/ slow THEN "paused" ELSE IF usage >= 1 THEN "warning" ELSE pressure
          /\ staleToken' = (token /\ (staleToken \/ pressure' = "paused"))
          /\ pauseToken' = (pauseToken \/ pressure' = "paused")
          /\ token' = token
     ELSE /\ usage <= 1 /\ ~slow
          /\ pressure' = "normal"
          /\ token' = (token \/ usage = 1)
          /\ UNCHANGED <<pauseToken, staleToken>>
  /\ UNCHANGED <<breakerVars, usage, slow, waiting, unserved>>

\* check: pause, warn, or resume; notifyPause and notifyResume leave a token if their
\* channel has room.
Check ==
  /\ IF pressure # "paused"
     THEN /\ pressure' = IF usage = 3 \/ slow THEN "paused" ELSE IF usage >= 1 THEN "warning" ELSE pressure
          /\ staleToken' = (token /\ (staleToken \/ pressure' = "paused"))
          /\ pauseToken' = (pauseToken \/ pressure' = "paused")
          /\ token' = token
     ELSE /\ usage <= 1 /\ ~slow
          /\ pressure' = "normal"
          /\ token' = TRUE
          /\ UNCHANGED <<pauseToken, staleToken>>
  /\ UNCHANGED <<breakerVars, usage, slow, waiting, unserved>>

\* The receiver of PauseCh takes the token.
TakePause ==
  /\ pauseToken
  /\ pauseToken' = FALSE
  /\ UNCHANGED <<breakerVars, pressure, usage, slow, token, waiting, staleToken, unserved>>

\* WaitForResume or WaitWhilePaused begins; the latter looks at the state first.
BeginWait(w, how) ==
  /\ waiting[w] \in {"no", "cancelled"}
  /\ how = "paused" => pressure = "paused"
  /\ waiting' = [waiting EXCEPT ![w] = how]
  /\ unserved' = IF pressure = "paused" THEN unserved \ {w} ELSE unserved \cup {w}
  /\ UNCHANGED <<breakerVars, pressure, usage, slow, pauseToken, token, staleToken>>

\* A waiting reader takes the token.
TakeToken(w) ==
  /\ waiting[w] \in {"resume", "paused"}
  /\ token
  /\ token' = FALSE /\ staleToken' = FALSE
  /\ waiting' = [waiting EXCEPT ![w] = "no"]
  /\ unserved' = unserved \cup {v \in Waiters \ {w} : waiting[v] \in {"resume", "paused"}}
  /\ UNCHANGED <<breakerVars, pressure, usage, slow, pauseToken>>

\* Plausible bug: WaitWhilePaused returns when the interval is over.
LookAgainOnce(w) ==
  /\ waiting[w] = "paused"
  /\ waiting' = [waiting EXCEPT ![w] = "no"]
  /\ UNCHANGED <<breakerVars, pressure, usage, slow, pauseToken, token, staleToken, unserved>>

\* WaitWhilePaused looks at the state after CheckInterval.
LookAgain(w) ==
  /\ waiting[w] = "paused"
  /\ pressure # "paused"
  /\ waiting' = [waiting EXCEPT ![w] = "no"]
  /\ UNCHANGED <<breakerVars, pressure, usage, slow, pauseToken, token, staleToken, unserved>>

\* The reader's context ends.
CancelWait(w) ==
  /\ waiting[w] \in {"resume", "paused"}
  /\ waiting' = [waiting EXCEPT ![w] = "cancelled"]
  /\ UNCHANGED <<breakerVars, pressure, usage, slow, pauseToken, token, staleToken, unserved>>

-----------------------------------------------------------------------------

FlowInit ==
  /\ breaker = "closed" /\ failed = 0 /\ succeeded = 0 /\ probing = FALSE /\ cooled = TRUE
  /\ inFlight = [c \in Guarded |-> "no"] /\ probesOK = 0 /\ straggled = FALSE
  /\ pressure = "normal" /\ usage = 0 /\ slow = FALSE
  /\ pauseToken = FALSE /\ token = FALSE
  /\ waiting = [w \in Waiters |-> "no"] /\ staleToken = FALSE /\ unserved = {}

BreakerNext ==
  \/ \E c \in Guarded : Allow(c) \/ RecordSuccess(c) \/ RecordFailure(c)
  \/ CoolsDown

PressureNext ==
  \/ UpdateMetrics \/ Check \/ TakePause
  \/ \E w \in Waiters :
       \/ \E how \in {"resume", "paused"} : BeginWait(w, how)
       \/ TakeToken(w) \/ LookAgain(w) \/ CancelWait(w)

BreakerSpec == FlowInit /\ [][BreakerNext]_flowVars

PressureSpec == FlowInit /\ [][PressureNext]_flowVars

-----------------------------------------------------------------------------

\* Type invariant: the counters stay below their thresholds while they count.
FlowTypeOK ==
  /\ breaker \in {"closed", "open", "half-open"}
  /\ failed \in 0..MaxFailed /\ (breaker = "closed" => failed < FailureThreshold)
  /\ succeeded \in 0..(SuccessThreshold - 1)
  /\ {probing, cooled, straggled, slow, pauseToken, token, staleToken} \subseteq BOOLEAN
  /\ inFlight \in [Guarded -> {"no", "probe", "other"}]
  /\ probesOK \in 0..SuccessThreshold
  /\ pressure \in {"normal", "warning", "paused"} /\ usage \in 0..3
  /\ waiting \in [Waiters -> {"no", "resume", "paused", "cancelled"}]
  /\ unserved \subseteq Waiters

\* A half-open breaker has one probe out at a time and closes after
\* SuccessThreshold of them succeeded, unless a call that it admitted before, when
\* it was closed or in an earlier half-open period, reported meanwhile
\* (circuit_breaker.go Allow, RecordSuccess).
HalfOpenProbes ==
  [][breaker = "half-open" =>
       \/ straggled'
       \/ /\ Cardinality({c \in Guarded : inFlight[c] = "probe"}) <= 1
          /\ breaker' = "closed" => probesOK' >= SuccessThreshold]_flowVars

\* A reader is let go only while the controller is not paused, unless it takes a
\* token that an earlier resume left behind (backpressure.go WaitForResume,
\* WaitWhilePaused).
LetGoWhenRunning ==
  [][\A w \in Waiters :
       waiting[w] \in {"resume", "paused"} /\ waiting'[w] = "no" =>
         pressure # "paused" \/ staleToken]_flowVars

\* When the controller has resumed, a reader that waits for the resume finds the
\* token, unless another reader took it or it began to wait after the resume
\* (backpressure.go notifyResume, WaitForResume).
ResumeReachesReader ==
  \A w \in Waiters :
    waiting[w] = "resume" /\ pressure # "paused" => token \/ w \in unserved
=============================================================================
