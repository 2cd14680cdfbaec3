----------------------------- MODULE LoopTimer -----------------------------
(***************************************************************************)
(* bestsens::loopTimer (include/bone_helper/loopTimer.hpp).  All timers of *)
(* the process share one condition variable, one mutex and the kill flag.  *)
(* Every timer belongs to a thread of its own that constructs it, waits on *)
(* it and destroys it; kill_all() and set_wait_time() come from elsewhere. *)
(* Time is counted per timer: what remains until next_cycle, and what has  *)
(* elapsed since the last tick.                                            *)
(***************************************************************************)
EXTENDS Integers

CONSTANTS
  Timers,
  WaitTimes,
  SpuriousWakeups,  \* whether the condition variable wakes threads for nothing
  MaxElapsed        \* bound on the time counted since a tick

ASSUME LoopTimerAssumption ==
  /\ WaitTimes \subseteq 0 .. MaxElapsed
  /\ MaxElapsed \in Nat
  /\ SpuriousWakeups \in BOOLEAN

VARIABLES
  pc,         \* of the thread of a timer: see States
  remaining,  \* until next_cycle; 0 when it has passed
  wait_time,
  running,
  kill,
  killing,    \* kill_all() has unlocked and not yet notified
  \* What the properties refer to:
  elapsed,    \* since the last tick, or the construction
  period,     \* the time from there to the next tick
  disturbed,  \* this wait was ended by something else than its deadline
  late        \* this wait began after kill was set

vars == <<pc, remaining, wait_time, running, kill, killing, elapsed, period, disturbed, late>>

\* none: there is no timer.  woken: out of the wait, before the condition of
\* the loop.  stopping: the destructor has unlocked and not yet notified.
States == {"none", "idle", "blocked", "woken", "stopping"}

TypeOK ==
  /\ pc \in [Timers -> States]
  /\ remaining \in [Timers -> 0 .. MaxElapsed]
  /\ wait_time \in [Timers -> WaitTimes \cup {0}]
  /\ running \in [Timers -> BOOLEAN]
  /\ kill \in BOOLEAN /\ killing \in BOOLEAN
  /\ elapsed \in [Timers -> 0 .. MaxElapsed]
  /\ period \in [Timers -> 0 .. MaxElapsed]
  /\ disturbed \in [Timers -> BOOLEAN] /\ late \in [Timers -> BOOLEAN]

Init ==
  /\ pc = [t \in Timers |-> "none"]
  /\ remaining = [t \in Timers |-> 0] /\ wait_time = [t \in Timers |-> 0]
  /\ running = [t \in Timers |-> FALSE]
  /\ kill = FALSE /\ killing = FALSE
  /\ elapsed = [t \in Timers |-> 0] /\ period = [t \in Timers |-> 0]
  /\ disturbed = [t \in Timers |-> FALSE] /\ late = [t \in Timers |-> FALSE]

-----------------------------------------------------------------------------
\* next_cycle is `ahead` from now, where it should be `due` from now.
SetCycle(t, ahead, due) ==
  /\ remaining' = [remaining EXCEPT ![t] = ahead]
  /\ period' = [period EXCEPT ![t] = due]
  /\ elapsed' = [elapsed EXCEPT ![t] = 0]

Construct(t, wait, start_value) ==
  /\ pc[t] = "none"
  /\ pc' = [pc EXCEPT ![t] = "idle"]
  /\ wait_time' = [wait_time EXCEPT ![t] = wait]
  /\ running' = [running EXCEPT ![t] = FALSE]
  /\ LET ahead == IF start_value THEN 0 ELSE wait IN SetCycle(t, ahead, ahead)
  /\ UNCHANGED <<kill, killing, disturbed, late>>

SetWaitTime(t, wait) ==
  /\ pc[t] # "none"
  /\ wait_time' = [wait_time EXCEPT ![t] = wait]
  /\ UNCHANGED <<pc, remaining, running, kill, killing, elapsed, period, disturbed, late>>

\* The thread enters wait_until() without a look at kill.
WaitOnTick(t) ==
  /\ pc[t] = "idle"
  /\ pc' = [pc EXCEPT ![t] = "blocked"]
  /\ disturbed' = [disturbed EXCEPT ![t] = FALSE]
  /\ late' = [late EXCEPT ![t] = kill]
  /\ UNCHANGED <<remaining, wait_time, running, kill, killing, elapsed, period>>

Timeout(t) ==
  /\ pc[t] = "blocked" /\ remaining[t] = 0
  /\ pc' = [pc EXCEPT ![t] = "woken"]
  /\ UNCHANGED <<remaining, wait_time, running, kill, killing, elapsed, period, disturbed, late>>

SpuriousWakeup(t) ==
  /\ SpuriousWakeups /\ pc[t] = "blocked"
  /\ pc' = [pc EXCEPT ![t] = "woken"]
  /\ disturbed' = [disturbed EXCEPT ![t] = TRUE]
  /\ UNCHANGED <<remaining, wait_time, running, kill, killing, elapsed, period, late>>

\* Mutant: only kill ends the loop.
LoopEndsKilled(t) == kill

LoopEnds(t) == kill \/ ~running[t] \/ remaining[t] = 0

\* Mutant: the next cycle is counted from the last one, which an early tick
\* has not reached yet.
RearmFromCycle(t) == SetCycle(t, remaining[t] + wait_time[t], wait_time[t])

\* Mutant: the next cycle is counted from the last one, which a late tick has
\* left behind.
RearmCatchingUp(t) ==
  LET lateness == elapsed[t] - period[t]
  IN IF lateness \in 0 .. wait_time[t]
     THEN SetCycle(t, wait_time[t] - lateness, wait_time[t])
     ELSE SetCycle(t, wait_time[t], wait_time[t])

Rearm(t) == SetCycle(t, wait_time[t], wait_time[t])

Recheck(t) ==
  /\ pc[t] = "woken"
  /\ IF LoopEnds(t)
     THEN pc' = [pc EXCEPT ![t] = "idle"] /\ Rearm(t)
     ELSE pc' = [pc EXCEPT ![t] = "blocked"] /\ UNCHANGED <<remaining, elapsed, period>>
  /\ UNCHANGED <<wait_time, running, kill, killing, disturbed, late>>

\* cv_trigger.notify_all(): every timer of the process wakes up.
NotifyAll(p) ==
  /\ pc' = [t \in Timers |-> IF p[t] = "blocked" THEN "woken" ELSE p[t]]
  /\ disturbed' = [t \in Timers |-> disturbed[t] \/ p[t] = "blocked"]

\* stop(), first half
Stop(t) ==
  /\ pc[t] = "idle"
  /\ running' = [running EXCEPT ![t] = FALSE]
  /\ pc' = [pc EXCEPT ![t] = "stopping"]
  /\ UNCHANGED <<remaining, wait_time, kill, killing, elapsed, period, disturbed, late>>

StopNotify(t) ==
  /\ pc[t] = "stopping"
  /\ NotifyAll([pc EXCEPT ![t] = "none"])
  /\ UNCHANGED <<remaining, wait_time, running, kill, killing, elapsed, period, late>>

KillAll ==
  /\ kill' = TRUE /\ killing' = TRUE
  /\ UNCHANGED <<pc, remaining, wait_time, running, elapsed, period, disturbed, late>>

\* Mutant: notify_one().
KillNotifyOne ==
  /\ killing /\ killing' = FALSE
  /\ IF \E t \in Timers : pc[t] = "blocked"
     THEN \E t \in Timers : /\ pc[t] = "blocked"
                            /\ pc' = [pc EXCEPT ![t] = "woken"]
                            /\ disturbed' = [disturbed EXCEPT ![t] = TRUE]
     ELSE UNCHANGED <<pc, disturbed>>
  /\ UNCHANGED <<remaining, wait_time, running, kill, elapsed, period, late>>

KillNotify ==
  /\ killing /\ killing' = FALSE
  /\ NotifyAll(pc)
  /\ UNCHANGED <<remaining, wait_time, running, kill, elapsed, period, late>>

Advance ==
  /\ remaining' = [t \in Timers |-> IF remaining[t] = 0 THEN 0 ELSE remaining[t] - 1]
  /\ elapsed' = [t \in Timers |-> IF pc[t] = "none" \/ elapsed[t] = MaxElapsed THEN elapsed[t]
                                  ELSE elapsed[t] + 1]
  /\ UNCHANGED <<pc, wait_time, running, kill, killing, period, disturbed, late>>

Next ==
  \/ \E t \in Timers :
       \/ \E wait \in WaitTimes :
            SetWaitTime(t, wait) \/ \E start_value \in BOOLEAN : Construct(t, wait, start_value)
       \/ WaitOnTick(t) \/ Timeout(t) \/ SpuriousWakeup(t) \/ Recheck(t)
       \/ Stop(t) \/ StopNotify(t)
  \/ KillAll \/ KillNotify
  \/ Advance

\* Time passes, and threads that can run do.  When somebody constructs, waits
\* or kills is up to them.
Fairness ==
  /\ WF_vars(Advance) /\ WF_vars(KillNotify)
  /\ \A t \in Timers : WF_vars(Timeout(t)) /\ WF_vars(Recheck(t)) /\ WF_vars(StopNotify(t))

Spec == Init /\ [][Next]_vars /\ Fairness

-----------------------------------------------------------------------------
(***************************************************************************)
(* Properties.                                                             *)
(***************************************************************************)

Ticks(t) == pc[t] = "woken" /\ pc'[t] = "idle"

(* Two ticks are at least the wait time apart, however late the first was, *)
(* whatever set_wait_time() does in between, unless a notification or a    *)
(* spurious wake-up has disturbed the wait.                                *)
TickSpacing == [][\A t \in Timers : Ticks(t) /\ ~disturbed[t] => elapsed[t] >= period[t]]_vars

(* kill_all() misses nobody: when it has notified, only threads that began *)
(* to wait after the flag was set are still waiting.                       *)
NoLostKill == (kill /\ ~killing) => \A t \in Timers : pc[t] = "blocked" => late[t]

(* Every wait ends, killed or not.                                         *)
WaitEnds == \A t \in Timers : (pc[t] = "blocked") ~> (pc[t] = "idle")

(* Nobody ticks before the next cycle, unless everything is being stopped: *)
(* what the condition of the loop in wait_on_tick() waits for, and what    *)
(* test/src/test_loopTimer.cpp measures.                                   *)
TickNotEarly == [][\A t \in Timers : Ticks(t) => remaining[t] = 0 \/ kill]_vars
=============================================================================
