--------------------------- MODULE TimedOperation ---------------------------
(***************************************************************************)
(* The loop in which connect, handshake, send and recv of netHelper        *)
(* (src/netHelper.cpp) run an asynchronous operation and a deadline timer: *)
(*   while (io_context.run_one() != 0)                                     *)
(*     if (result) timer.cancel(); else if (timer_result) s.cancel();      *)
(* boost.asio is external.  An operation consists of steps that each wait  *)
(* for the peer: the parts of a transfer, or the endpoints that connect    *)
(* tries one after the other.  Cancelling the socket ends only the step    *)
(* that is waiting.                                                        *)
(***************************************************************************)
EXTENDS Naturals

CONSTANT MaxSteps  \* bound on the steps of an operation

ASSUME TimedOperationAssumption == MaxSteps \in Nat \ {0}

VARIABLES
  kind,          \* of the operation: see Kinds
  left,          \* the steps left, the one that is under way included
  step,          \* the step under way: waiting, or how it ended, or none
  timer,         \* running; expired or cancelled with a handler to run; over
  result,        \* what the handlers have been called with, none before
  timer_result,
  pc             \* run: in run_one(); check: behind it; over: not in a loop

vars == <<kind, left, step, timer, result, timer_result, pc>>

\* A transfer needs every step, connect needs one.
Kinds == {"transfer", "connect"}
Outcomes == {"success", "failure", "aborted"}

TypeOK ==
  /\ kind \in Kinds /\ left \in 1 .. MaxSteps
  /\ step \in Outcomes \cup {"waiting", "none"}
  /\ timer \in {"running", "expired", "cancelled", "over"}
  /\ result \in Outcomes \cup {"none"}
  /\ timer_result \in {"none", "expired", "aborted"}
  /\ pc \in {"run", "check", "over"}

Init ==
  /\ kind \in Kinds /\ left = 1 /\ step = "none" /\ timer = "over"
  /\ result = "success" /\ timer_result = "aborted" /\ pc = "over"

-----------------------------------------------------------------------------
Start(k, steps) ==
  /\ pc = "over"
  /\ kind' = k /\ left' = steps /\ step' = "waiting" /\ timer' = "running"
  /\ result' = "none" /\ timer_result' = "none"
  /\ pc' = "run"

\* The peer: data arrive, are taken or an error occurs.
StepEnds ==
  /\ step = "waiting"
  /\ \E outcome \in {"success", "failure"} : step' = outcome
  /\ UNCHANGED <<kind, left, timer, result, timer_result, pc>>

TimerExpires ==
  /\ timer = "running" /\ timer' = "expired"
  /\ UNCHANGED <<kind, left, step, result, timer_result, pc>>

\* Mutant: one step too many.
LastOffByOne == left = 0

Last == left = 1

Finished ==
  IF kind = "transfer" THEN step # "success" \/ Last ELSE step = "success" \/ Last

\* run_one() runs the handler of a step: the operation is over, or goes on.
RunStep ==
  /\ pc = "run" /\ step \in Outcomes
  /\ IF Finished
     THEN result' = step /\ step' = "none" /\ UNCHANGED left
     ELSE step' = "waiting" /\ left' = left - 1 /\ UNCHANGED result
  /\ pc' = "check"
  /\ UNCHANGED <<kind, timer, timer_result>>

RunTimer ==
  /\ pc = "run" /\ timer \in {"expired", "cancelled"}
  /\ timer_result' = IF timer = "expired" THEN "expired" ELSE "aborted"
  /\ timer' = "over"
  /\ pc' = "check"
  /\ UNCHANGED <<kind, left, step, result>>

\* run_one() returns 0 when there is nothing left to wait for.
RunNothing ==
  /\ pc = "run" /\ step = "none" /\ timer = "over"
  /\ pc' = "over"
  /\ UNCHANGED <<kind, left, step, timer, result, timer_result>>

CancelTimer ==
  /\ timer' = IF timer = "running" THEN "cancelled" ELSE timer
  /\ UNCHANGED step

CancelSocket ==
  /\ step' = IF step = "waiting" THEN "aborted" ELSE step
  /\ UNCHANGED timer

\* Mutant: the loop is left at the deadline.
CheckAndLeave ==
  /\ pc = "check"
  /\ IF result # "none" THEN CancelTimer
     ELSE IF timer_result # "none" THEN CancelSocket ELSE UNCHANGED <<step, timer>>
  /\ pc' = IF timer_result # "none" THEN "over" ELSE "run"
  /\ UNCHANGED <<kind, left, result, timer_result>>

\* Mutant: whatever has not ended is cancelled.
CheckImpatiently ==
  /\ pc = "check" /\ pc' = "run"
  /\ IF result # "none" THEN CancelTimer ELSE CancelSocket
  /\ UNCHANGED <<kind, left, result, timer_result>>

\* Mutant: the deadline is taken as handled when the socket was cancelled once.
CheckOnce ==
  /\ pc = "check" /\ pc' = "run"
  /\ IF result # "none" THEN CancelTimer /\ UNCHANGED timer_result
     ELSE IF timer_result # "none" THEN CancelSocket /\ timer_result' = "none"
     ELSE UNCHANGED <<step, timer, timer_result>>
  /\ UNCHANGED <<kind, left, result>>

Check ==
  /\ pc = "check" /\ pc' = "run"
  /\ IF result # "none" THEN CancelTimer
     ELSE IF timer_result # "none" THEN CancelSocket ELSE UNCHANGED <<step, timer>>
  /\ UNCHANGED <<kind, left, result, timer_result>>

Next ==
  \/ \E k \in Kinds, steps \in 1 .. MaxSteps : Start(k, steps)
  \/ StepEnds \/ TimerExpires
  \/ RunStep \/ RunTimer \/ RunNothing \/ Check

\* The thread runs and time passes; the peer may be silent for ever.
Fairness ==
  /\ WF_vars(TimerExpires)
  /\ WF_vars(RunStep) /\ WF_vars(RunTimer) /\ WF_vars(RunNothing) /\ WF_vars(Check)

Spec == Init /\ [][Next]_vars /\ Fairness

-----------------------------------------------------------------------------
(***************************************************************************)
(* Properties.                                                             *)
(***************************************************************************)

(* Behind the loop `*result` may be read, and no handler is left that      *)
(* would write to variables of a function that has returned, in whatever   *)
(* order the steps, the timer and the cancellations were handled.          *)
LoopComplete == pc = "over" => result # "none" /\ step = "none" /\ timer = "over"

(* An operation is reported as aborted only when its deadline has passed.  *)
AbortedOnlyLate == result = "aborted" => timer_result = "expired"
=============================================================================
