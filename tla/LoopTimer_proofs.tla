-------------------------- MODULE LoopTimer_proofs --------------------------
(***************************************************************************)
(* Proofs about LoopTimer for every set of timers and of wait times.       *)
(***************************************************************************)
EXTENDS LoopTimer, TLAPS

(* next_cycle is never closer to the last tick than the period.            *)
CycleFarEnough == \A t \in Timers : pc[t] # "none" => elapsed[t] + remaining[t] >= period[t]

(* A thread that nothing has disturbed leaves its wait at next_cycle.      *)
WokenOnTime == \A t \in Timers : pc[t] = "woken" /\ ~disturbed[t] => remaining[t] = 0

IInv == TypeOK /\ CycleFarEnough /\ WokenOnTime /\ NoLostKill

Clocks == <<remaining, elapsed, period>>

-----------------------------------------------------------------------------
LEMMA InitSound == Init => IInv
  <1> SUFFICES ASSUME Init PROVE IInv
    OBVIOUS
  <1>1. TypeOK
    <2>1. 0 \in 0 .. MaxElapsed
      BY LoopTimerAssumption
    <2> QED
      BY <2>1, Zenon DEF Init, TypeOK, States
  <1>2. CycleFarEnough /\ WokenOnTime /\ NoLostKill
    BY DEF Init, CycleFarEnough, WokenOnTime, NoLostKill
  <1> QED
    BY <1>1, <1>2 DEF IInv

(* Setting the next cycle from now, as the constructor and every tick do.  *)
LEMMA SetCycleSound ==
  ASSUME TypeOK, NEW t \in Timers, NEW d \in 0 .. MaxElapsed, SetCycle(t, d, d)
  PROVE  /\ remaining' \in [Timers -> 0 .. MaxElapsed]
         /\ elapsed' \in [Timers -> 0 .. MaxElapsed]
         /\ period' \in [Timers -> 0 .. MaxElapsed]
         /\ elapsed'[t] + remaining'[t] >= period'[t]
         /\ \A u \in Timers \ {t} : /\ remaining'[u] = remaining[u]
                                    /\ elapsed'[u] = elapsed[u]
                                    /\ period'[u] = period[u]
  BY LoopTimerAssumption DEF TypeOK, SetCycle

(* Steps that wake threads up, for a notification or for nothing, or move  *)
(* a thread between "idle", "stopping" and "none".                         *)
LEMMA MoveSound ==
  ASSUME IInv, TypeOK', UNCHANGED Clocks,
         \A u \in Timers : pc[u] = "none" => pc'[u] = "none",
         \A u \in Timers : pc'[u] = "woken" /\ ~disturbed'[u] =>
                             remaining[u] = 0 \/ (pc[u] = "woken" /\ ~disturbed[u])
  PROVE  CycleFarEnough' /\ WokenOnTime'
  BY DEF IInv, CycleFarEnough, WokenOnTime, Clocks

LEMMA KeptNoLostKill ==
  ASSUME NoLostKill, UNCHANGED <<kill, killing>>,
         \A u \in Timers : pc'[u] = "blocked" => pc[u] = "blocked" /\ late'[u] = late[u]
  PROVE  NoLostKill'
  BY DEF NoLostKill

LEMMA NotifyAllSound ==
  ASSUME IInv, NEW p \in [Timers -> States], NotifyAll(p)
  PROVE  /\ pc' \in [Timers -> States] /\ disturbed' \in [Timers -> BOOLEAN]
         /\ \A u \in Timers : /\ pc'[u] # "blocked"
                              /\ p[u] = "blocked" => disturbed'[u]
                              /\ p[u] # "blocked" => pc'[u] = p[u]
                              /\ ~disturbed'[u] => ~disturbed[u]
  BY DEF NotifyAll, States, IInv, TypeOK

LEMMA NextSound == IInv /\ [Next]_vars => IInv'
  <1> SUFFICES ASSUME IInv, [Next]_vars PROVE IInv'
    OBVIOUS
  <1>1. TypeOK /\ CycleFarEnough /\ WokenOnTime /\ NoLostKill
        /\ MaxElapsed \in Nat /\ WaitTimes \subseteq 0 .. MaxElapsed
    BY LoopTimerAssumption DEF IInv
  <1>2. ASSUME NEW t \in Timers, NEW wait \in WaitTimes, SetWaitTime(t, wait) PROVE IInv'
    <2>1. TypeOK'
      BY <1>1, <1>2 DEF SetWaitTime, TypeOK
    <2>2. CycleFarEnough' /\ WokenOnTime'
      BY <1>2, <2>1, MoveSound DEF SetWaitTime, Clocks
    <2>3. NoLostKill'
      BY <1>1, <1>2, KeptNoLostKill DEF SetWaitTime
    <2> QED
      BY <2>1, <2>2, <2>3 DEF IInv
  <1>3. ASSUME NEW t \in Timers, NEW wait \in WaitTimes, NEW start_value \in BOOLEAN,
               Construct(t, wait, start_value)
        PROVE  IInv'
    <2>1. PICK d \in 0 .. MaxElapsed : SetCycle(t, d, d)
      BY <1>1, <1>3 DEF Construct
    <2>2. TypeOK'
      BY <1>1, <1>3, <2>1, SetCycleSound DEF Construct, TypeOK, States
    <2>3. pc'[t] = "idle" /\ \A u \in Timers \ {t} : pc'[u] = pc[u]
      BY <1>1, <1>3 DEF Construct, TypeOK
    <2>4. CycleFarEnough'
      BY <1>1, <2>1, <2>3, SetCycleSound DEF CycleFarEnough
    <2>5. WokenOnTime'
      BY <1>1, <1>3, <2>1, <2>3, SetCycleSound DEF WokenOnTime, Construct
    <2>6. NoLostKill'
      BY <1>1, <1>3, <2>3 DEF NoLostKill, Construct
    <2> QED
      BY <2>2, <2>4, <2>5, <2>6 DEF IInv
  <1>4. ASSUME NEW t \in Timers, WaitOnTick(t) PROVE IInv'
    <2>1. TypeOK'
      BY <1>1, <1>4 DEF WaitOnTick, TypeOK, States
    <2>2. /\ pc'[t] = "blocked" /\ late'[t] = kill /\ pc[t] = "idle"
          /\ \A u \in Timers \ {t} : /\ pc'[u] = pc[u] /\ late'[u] = late[u]
                                     /\ disturbed'[u] = disturbed[u]
          /\ UNCHANGED Clocks /\ UNCHANGED <<kill, killing>>
      BY <1>1, <1>4 DEF WaitOnTick, TypeOK, Clocks
    <2>3. CycleFarEnough' /\ WokenOnTime'
      BY <2>1, <2>2, MoveSound
    <2>4. NoLostKill'
      BY <1>1, <2>2 DEF NoLostKill
    <2> QED
      BY <2>1, <2>3, <2>4 DEF IInv
  <1>5. ASSUME NEW t \in Timers, Timeout(t) \/ SpuriousWakeup(t) PROVE IInv'
    <2>1. TypeOK'
      BY <1>1, <1>5 DEF Timeout, SpuriousWakeup, TypeOK, States
    <2>2. /\ pc[t] = "blocked" /\ pc'[t] = "woken" /\ (remaining[t] = 0 \/ disturbed'[t])
          /\ \A u \in Timers \ {t} : pc'[u] = pc[u] /\ disturbed'[u] = disturbed[u]
          /\ UNCHANGED Clocks /\ UNCHANGED <<kill, killing, late>>
      BY <1>1, <1>5 DEF Timeout, SpuriousWakeup, TypeOK, Clocks
    <2>3. CycleFarEnough' /\ WokenOnTime'
      BY <2>1, <2>2, MoveSound
    <2>4. NoLostKill'
      BY <1>1, <2>2 DEF NoLostKill
    <2> QED
      BY <2>1, <2>3, <2>4 DEF IInv
  <1>6. ASSUME NEW t \in Timers, Recheck(t) PROVE IInv'
    <2>1. CASE LoopEnds(t)
      <3>1. wait_time[t] \in 0 .. MaxElapsed /\ SetCycle(t, wait_time[t], wait_time[t])
        <4>1. wait_time[t] \in WaitTimes \cup {0}
          BY <1>1 DEF TypeOK
        <4>2. wait_time[t] \in 0 .. MaxElapsed
          <5>1. 0 \in 0 .. MaxElapsed
            BY <1>1
          <5>2. CASE wait_time[t] \in WaitTimes
            BY <1>1, <5>2
          <5> QED
            BY <4>1, <5>1, <5>2
        <4> QED
          BY <1>6, <2>1, <4>2 DEF Recheck, Rearm
      <3>2. TypeOK'
        BY <1>1, <1>6, <2>1, <3>1, SetCycleSound DEF Recheck, TypeOK, States
      <3>3. pc'[t] = "idle" /\ (\A u \in Timers \ {t} : pc'[u] = pc[u])
            /\ UNCHANGED <<kill, killing, late, disturbed>>
        BY <1>1, <1>6, <2>1 DEF Recheck, TypeOK
      <3>4. CycleFarEnough' /\ WokenOnTime'
        BY <1>1, <3>1, <3>3, SetCycleSound, <1>6 DEF CycleFarEnough, WokenOnTime, Recheck
      <3>5. NoLostKill'
        BY <1>1, <3>3 DEF NoLostKill
      <3> QED
        BY <3>2, <3>4, <3>5 DEF IInv
    <2>2. CASE ~LoopEnds(t)
      <3>1. TypeOK'
        BY <1>1, <1>6, <2>2 DEF Recheck, TypeOK, States
      <3>2. /\ ~kill /\ pc'[t] = "blocked" /\ pc[t] = "woken"
            /\ \A u \in Timers \ {t} : pc'[u] = pc[u]
            /\ UNCHANGED Clocks /\ UNCHANGED <<kill, killing, late, disturbed>>
        BY <1>1, <1>6, <2>2 DEF Recheck, LoopEnds, TypeOK, Clocks
      <3>3. CycleFarEnough' /\ WokenOnTime'
        BY <3>1, <3>2, MoveSound
      <3>4. NoLostKill'
        BY <3>2 DEF NoLostKill
      <3> QED
        BY <3>1, <3>3, <3>4 DEF IInv
    <2> QED
      BY <2>1, <2>2
  <1>7. ASSUME NEW t \in Timers, Stop(t) PROVE IInv'
    <2>1. TypeOK'
      BY <1>1, <1>7 DEF Stop, TypeOK, States
    <2>2. /\ pc[t] = "idle" /\ pc'[t] = "stopping"
          /\ \A u \in Timers \ {t} : pc'[u] = pc[u]
          /\ UNCHANGED Clocks /\ UNCHANGED <<kill, killing, late, disturbed>>
      BY <1>1, <1>7 DEF Stop, TypeOK, Clocks
    <2>3. CycleFarEnough' /\ WokenOnTime'
      BY <2>1, <2>2, MoveSound
    <2>4. NoLostKill'
      BY <1>1, <2>2 DEF NoLostKill
    <2> QED
      BY <2>1, <2>3, <2>4 DEF IInv
  <1>8. ASSUME NEW t \in Timers, StopNotify(t) PROVE IInv'
    <2> DEFINE p == [pc EXCEPT ![t] = "none"]
    <2>1. /\ p \in [Timers -> States] /\ NotifyAll(p)
          /\ pc[t] = "stopping" /\ p[t] = "none" /\ \A u \in Timers \ {t} : p[u] = pc[u]
      BY <1>1, <1>8 DEF StopNotify, TypeOK, States
    <2>2. UNCHANGED <<Clocks, wait_time, running, kill, killing, late>>
      BY <1>8 DEF StopNotify, Clocks
    <2> HIDE DEF p
    <2>3. TypeOK'
      BY <1>1, <2>1, <2>2, NotifyAllSound DEF TypeOK, Clocks
    <2>4. CycleFarEnough' /\ WokenOnTime'
      BY <2>1, <2>2, <2>3, NotifyAllSound, MoveSound
    <2>5. NoLostKill'
      BY <2>1, NotifyAllSound DEF NoLostKill
    <2> QED
      BY <2>3, <2>4, <2>5 DEF IInv
  <1>9. CASE KillAll
    <2>1. TypeOK'
      BY <1>1, <1>9 DEF KillAll, TypeOK
    <2>2. CycleFarEnough' /\ WokenOnTime'
      BY <1>9, <2>1, MoveSound DEF KillAll, Clocks
    <2>3. NoLostKill'
      BY <1>9 DEF KillAll, NoLostKill
    <2> QED
      BY <2>1, <2>2, <2>3 DEF IInv
  <1>10. CASE KillNotify
    <2>1. NotifyAll(pc) /\ pc \in [Timers -> States] /\ killing' = FALSE
          /\ UNCHANGED <<Clocks, wait_time, running, kill, late>>
      BY <1>1, <1>10 DEF KillNotify, TypeOK, Clocks
    <2>2. TypeOK'
      BY <1>1, <2>1, NotifyAllSound DEF TypeOK, Clocks
    <2>3. CycleFarEnough' /\ WokenOnTime'
      BY <2>1, <2>2, NotifyAllSound, MoveSound
    <2>4. NoLostKill'
      BY <2>1, NotifyAllSound DEF NoLostKill
    <2> QED
      BY <2>2, <2>3, <2>4 DEF IInv
  <1>11. CASE Advance
    <2>1. /\ remaining' \in [Timers -> 0 .. MaxElapsed]
          /\ elapsed' \in [Timers -> 0 .. MaxElapsed]
      BY <1>1, <1>11 DEF Advance, TypeOK
    <2>2. TypeOK'
      BY <1>1, <1>11, <2>1 DEF Advance, TypeOK
    <2>3. ASSUME NEW t \in Timers, pc[t] # "none"
          PROVE  elapsed'[t] + remaining'[t] >= period[t]
      <3>1. /\ remaining[t] \in Nat /\ elapsed[t] \in Nat /\ period[t] \in Nat
            /\ period[t] <= MaxElapsed /\ elapsed[t] + remaining[t] >= period[t]
        BY <1>1, <2>3 DEF TypeOK, CycleFarEnough
      <3>2. /\ remaining'[t] = IF remaining[t] = 0 THEN 0 ELSE remaining[t] - 1
            /\ elapsed'[t] = IF elapsed[t] = MaxElapsed THEN elapsed[t] ELSE elapsed[t] + 1
        BY <1>11, <2>3 DEF Advance
      <3> QED
        BY <1>1, <3>1, <3>2
    <2>4. UNCHANGED <<pc, period, disturbed, kill, killing, late>>
      BY <1>11 DEF Advance
    <2>5. CycleFarEnough'
      BY <2>3, <2>4 DEF CycleFarEnough
    <2>6. WokenOnTime'
      BY <1>1, <1>11, <2>4 DEF WokenOnTime, Advance
    <2>7. NoLostKill'
      BY <1>1, <2>4 DEF NoLostKill
    <2> QED
      BY <2>2, <2>5, <2>6, <2>7 DEF IInv
  <1>12. CASE UNCHANGED vars
    BY <1>1, <1>12 DEF vars, IInv, TypeOK, CycleFarEnough, WokenOnTime, NoLostKill
  <1> QED
    BY <1>2, <1>3, <1>4, <1>5, <1>6, <1>7, <1>8, <1>9, <1>10, <1>11, <1>12 DEF Next

(* Every member keeps its type, whatever wait times are set in between.    *)
THEOREM TypeCorrectness == Spec => []TypeOK
  <1>1. IInv => TypeOK
    BY DEF IInv
  <1> QED
    BY <1>1, InitSound, NextSound, PTL DEF Spec

(* For any number of timers and any wait times, kill_all() misses nobody   *)
(* who was waiting when it set the flag.                                   *)
THEOREM KillMissesNobody == Spec => []NoLostKill
  <1>1. IInv => NoLostKill
    BY DEF IInv
  <1> QED
    BY <1>1, InitSound, NextSound, PTL DEF Spec

(* For any number of timers and any wait times, two ticks are the period   *)
(* apart unless the second wait was disturbed.                             *)
THEOREM TicksSpaced == Spec => TickSpacing
  <1> DEFINE Spaced == \A t \in Timers : Ticks(t) /\ ~disturbed[t] => elapsed[t] >= period[t]
  <1>1. IInv /\ [Next]_vars => [Spaced]_vars
    <2> SUFFICES ASSUME IInv, NEW t \in Timers, Ticks(t), ~disturbed[t]
                 PROVE  elapsed[t] >= period[t]
      OBVIOUS
    <2>1. remaining[t] = 0 /\ elapsed[t] + remaining[t] >= period[t]
      BY DEF IInv, WokenOnTime, CycleFarEnough, Ticks
    <2>2. elapsed[t] \in Nat /\ period[t] \in Nat
      BY DEF IInv, TypeOK
    <2> QED
      BY <2>1, <2>2
  <1> QED
    BY <1>1, InitSound, NextSound, PTL DEF Spec, TickSpacing
=============================================================================
