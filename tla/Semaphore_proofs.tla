-------------------------- MODULE Semaphore_proofs --------------------------
(***************************************************************************)
(* Proofs about Semaphore for every set of threads, every maximum and      *)
(* every argument of release().                                            *)
(***************************************************************************)
EXTENDS Semaphore, TLAPS

(* No wake-up is lost because a thread goes to sleep only when there is no *)
(* permit; together with the types, the properties are inductive.          *)
IInv == TypeOK /\ Conservation /\ NoLostWakeup

LEMMA InitSound == Init => IInv
  <1> SUFFICES ASSUME Init PROVE IInv
    OBVIOUS
  <1>1. Max \in Nat /\ Desired \in 0 .. Max /\ MaxReleased \in Nat
    BY SemaphoreAssumption
  <1>2. TypeOK
    BY <1>1 DEF Init, TypeOK, States
  <1>3. Conservation
    BY <1>1 DEF Init, Conservation
  <1>4. NoLostWakeup
    BY DEF Init, NoLostWakeup
  <1> QED
    BY <1>2, <1>3, <1>4 DEF IInv

(* The steps in which a thread takes a permit, goes to sleep or gives up,  *)
(* from wherever it is.                                                    *)
LEMMA TakePermitSound ==
  ASSUME IInv, NEW t \in Threads, pc[t] \in {"idle", "woken"}, TakePermit(t)
  PROVE  IInv'
  <1>1. /\ Max \in Nat /\ Desired \in Nat
        /\ counter \in Nat /\ counter <= Max /\ acquired \in Nat
        /\ released \in 0 .. MaxReleased /\ MaxReleased \in Nat
        /\ counter > 0
    BY SemaphoreAssumption DEF IInv, TypeOK, TakePermit
  <1>2. TypeOK'
    BY <1>1 DEF IInv, TypeOK, TakePermit, States
  <1>3. Conservation'
    BY <1>1 DEF IInv, Conservation, TakePermit
  <1>4. NoLostWakeup'
    <2>1. \A u \in Threads : pc'[u] = "asleep" => pc[u] = "asleep"
      BY DEF IInv, TypeOK, TakePermit
    <2>2. \A u \in Threads : pc[u] = "notify" => pc'[u] = "notify"
      BY DEF IInv, TypeOK, TakePermit
    <2> QED
      BY <1>1, <2>1, <2>2 DEF IInv, NoLostWakeup
  <1> QED
    BY <1>2, <1>3, <1>4 DEF IInv

LEMMA SleepSound ==
  ASSUME IInv, NEW t \in Threads, NEW limit \in {"none", "ahead", "passed"},
         Sleep(t, limit)
  PROVE  IInv'
  <1>1. counter' = counter /\ counter <= 0 /\ counter \in Nat
    BY SemaphoreAssumption DEF IInv, TypeOK, Sleep
  <1>2. TypeOK'
    BY <1>1 DEF IInv, TypeOK, Sleep, States
  <1>3. Conservation'
    BY DEF IInv, Conservation, Sleep
  <1>4. NoLostWakeup'
    BY <1>1 DEF NoLostWakeup
  <1> QED
    BY <1>2, <1>3, <1>4 DEF IInv

(* The steps that only move a thread that is not blocked, or wake it up.   *)
LEMMA MoveSound ==
  ASSUME IInv, NEW t \in Threads, NEW p \in {"idle", "woken"},
         pc[t] # "notify", pc' = [pc EXCEPT ![t] = p],
         deadline' \in [Threads -> {"none", "ahead", "passed"}],
         UNCHANGED <<counter, released, acquired>>
  PROVE  IInv'
  <1>1. TypeOK'
    BY DEF IInv, TypeOK, States
  <1>2. Conservation'
    BY DEF IInv, Conservation
  <1>3. NoLostWakeup'
    <2>1. \A u \in Threads : pc'[u] = "asleep" => pc[u] = "asleep"
      BY DEF IInv, TypeOK
    <2>2. \A u \in Threads : pc[u] = "notify" => pc'[u] = "notify"
      BY DEF IInv, TypeOK
    <2> QED
      BY <2>1, <2>2 DEF IInv, NoLostWakeup
  <1> QED
    BY <1>1, <1>2, <1>3 DEF IInv

LEMMA NextSound == IInv /\ [Next]_vars => IInv'
  <1> SUFFICES ASSUME IInv, [Next]_vars PROVE IInv'
    OBVIOUS
  <1>1. /\ Max \in Nat /\ Desired \in Nat /\ MaxReleased \in Nat
        /\ Updates \subseteq Nat
        /\ counter \in Nat /\ counter <= Max
        /\ released \in Nat /\ released <= MaxReleased
        /\ acquired \in Nat
        /\ pc \in [Threads -> States]
        /\ deadline \in [Threads -> {"none", "ahead", "passed"}]
    BY SemaphoreAssumption DEF IInv, TypeOK
  <1>2. ASSUME NEW t \in Threads, NEW update \in Updates, Release(t, update)
        PROVE  IInv'
    <2>1. update \in Nat
      BY <1>1
    <2>2. /\ counter' = counter + update /\ released' = released + update
          /\ counter' <= Max /\ released' <= MaxReleased
          /\ acquired' = acquired /\ deadline' = deadline
          /\ pc' = [pc EXCEPT ![t] = IF counter' <= 0 THEN "idle" ELSE "notify"]
          /\ pc[t] = "idle"
      BY <1>1, <1>2, <2>1 DEF Release
    <2>3. TypeOK'
      BY <1>1, <2>1, <2>2 DEF TypeOK, States
    <2>4. Conservation'
      BY <1>1, <2>1, <2>2 DEF IInv, Conservation
    <2>5. NoLostWakeup'
      BY <1>1, <2>1, <2>2 DEF NoLostWakeup
    <2> QED
      BY <2>3, <2>4, <2>5 DEF IInv
  <1>3. ASSUME NEW t \in Threads, Notify(t)
        PROVE  IInv'
    <2>1. /\ pc' \in [Threads -> States]
          /\ \A u \in Threads : pc'[u] # "asleep"
      BY <1>1, <1>3 DEF Notify, Woken, States
    <2>2. UNCHANGED <<counter, deadline, released, acquired>>
      BY <1>3 DEF Notify
    <2> QED
      BY <2>1, <2>2 DEF IInv, TypeOK, Conservation, NoLostWakeup
  <1>4. ASSUME NEW t \in Threads, Acquire(t) \/ TryAcquire(t) \/ TryAcquireUntil(t)
        PROVE  IInv'
    BY <1>4, TakePermitSound, SleepSound DEF Acquire, TryAcquire, TryAcquireUntil
  <1>5. ASSUME NEW t \in Threads, Expire(t)
        PROVE  IInv'
    BY <1>1, <1>5, MoveSound DEF Expire
  <1>6. ASSUME NEW t \in Threads, SpuriousWakeup(t)
        PROVE  IInv'
    BY <1>1, <1>6, MoveSound DEF SpuriousWakeup
  <1>7. ASSUME NEW t \in Threads, Recheck(t)
        PROVE  IInv'
    <2>1. CASE TakePermit(t)
      BY <1>7, <2>1, TakePermitSound DEF Recheck
    <2>2. CASE Sleep(t, deadline[t])
      BY <1>1, <2>2, SleepSound
    <2>3. CASE GiveUp(t)
      <3>1. pc[t] # "notify"
        BY <1>7 DEF Recheck
      <3> QED
        BY <1>1, <2>3, <3>1, MoveSound DEF GiveUp
    <2> QED
      BY <1>7, <2>1, <2>2, <2>3 DEF Recheck
  <1>8. CASE UNCHANGED vars
    BY <1>8 DEF vars, IInv, TypeOK, Conservation, NoLostWakeup
  <1> QED
    BY <1>2, <1>3, <1>4, <1>5, <1>6, <1>7, <1>8 DEF Next

(* Every member keeps its type: in particular the counter stays between 0  *)
(* and max(), although --counter_ is not guarded where it is written, when *)
(* callers respect the assertion of release().                             *)
THEOREM TypeCorrectness == Spec => []TypeOK
  <1>1. IInv => TypeOK
    BY DEF IInv
  <1> QED
    BY <1>1, InitSound, NextSound, PTL DEF Spec

(* For any number of threads that wait, time out, are woken in vain or     *)
(* overtake each other, no permit is lost or handed out twice.             *)
THEOREM PermitsConserved == Spec => []Conservation
  <1>1. IInv => Conservation
    BY DEF IInv
  <1> QED
    BY <1>1, InitSound, NextSound, PTL DEF Spec

(* For any number of threads, nobody sleeps beside a permit unless the     *)
(* release() that made the permit is still about to notify.                *)
THEOREM NoWakeupLost == Spec => []NoLostWakeup
  <1>1. IInv => NoLostWakeup
    BY DEF IInv
  <1> QED
    BY <1>1, InitSound, NextSound, PTL DEF Spec

-----------------------------------------------------------------------------
(***************************************************************************)
(* The refinement of Permits, but for its fairness.                        *)
(***************************************************************************)

LEMMA InitRefines == Init => Semaphore!Init
  BY DEF Init, Semaphore!Init, Waiting

(* Who waits before and after the three steps that a thread's own call     *)
(* makes, from wherever the thread is.                                     *)
LEMMA TakePermitRefines ==
  ASSUME IInv, NEW t \in Threads, pc[t] \in {"idle", "woken"}, TakePermit(t)
  PROVE  Semaphore!Next
  <1>1. /\ counter \in Int /\ counter > 0 /\ counter' = counter - 1
        /\ pc \in [Threads -> States] /\ pc' = [pc EXCEPT ![t] = "idle"]
    BY SemaphoreAssumption DEF IInv, TypeOK, TakePermit
  <1>2. Waiting' = Waiting \ {t}
    BY <1>1 DEF Waiting
  <1>3. CASE pc[t] = "idle"
    <2>1. Waiting' = Waiting
      BY <1>2, <1>3 DEF Waiting
    <2> QED
      BY <1>1, <2>1 DEF Semaphore!Next, Semaphore!Take
  <1>4. CASE pc[t] = "woken"
    <2>1. t \in Waiting
      BY <1>4 DEF Waiting
    <2>2. Semaphore!Serve(t)
      BY <1>1, <1>2, <2>1 DEF Semaphore!Serve
    <2> QED
      BY <2>2 DEF Semaphore!Next
  <1> QED
    BY <1>3, <1>4

LEMMA SleepRefines ==
  ASSUME IInv, NEW t \in Threads, pc[t] \in {"idle", "woken"},
         NEW limit, Sleep(t, limit)
  PROVE  Semaphore!Next \/ UNCHANGED Semaphore!vars
  <1>1. /\ counter = 0 /\ counter' = counter
        /\ pc \in [Threads -> States] /\ pc' = [pc EXCEPT ![t] = "asleep"]
    BY SemaphoreAssumption DEF IInv, TypeOK, Sleep
  <1>2. Waiting' = Waiting \cup {t}
    BY <1>1 DEF Waiting
  <1>3. CASE pc[t] = "idle"
    <2>1. t \notin Waiting
      BY <1>3 DEF Waiting
    <2>2. Semaphore!Wait(t)
      BY <1>1, <1>2, <2>1 DEF Semaphore!Wait
    <2> QED
      BY <2>2 DEF Semaphore!Next
  <1>4. CASE pc[t] = "woken"
    <2>1. Waiting' = Waiting
      BY <1>2, <1>4 DEF Waiting
    <2> QED
      BY <1>1, <2>1 DEF Semaphore!vars
  <1> QED
    BY <1>3, <1>4

LEMMA GiveUpRefines ==
  ASSUME IInv, NEW t \in Threads, pc[t] = "woken", GiveUp(t)
  PROVE  Semaphore!Next
  <1>1. /\ counter = 0 /\ counter' = counter
        /\ pc \in [Threads -> States] /\ pc' = [pc EXCEPT ![t] = "idle"]
    BY SemaphoreAssumption DEF IInv, TypeOK, GiveUp
  <1>2. Waiting' = Waiting \ {t} /\ t \in Waiting
    BY <1>1 DEF Waiting
  <1>3. Semaphore!GiveUp(t)
    BY <1>1, <1>2 DEF Semaphore!GiveUp
  <1> QED
    BY <1>3 DEF Semaphore!Next

LEMMA NextRefines ==
  IInv /\ [Next]_vars => [Semaphore!Next]_(Semaphore!vars)
  <1> SUFFICES ASSUME IInv, [Next]_vars
               PROVE  Semaphore!Next \/ UNCHANGED Semaphore!vars
    OBVIOUS
  <1>1. pc \in [Threads -> States]
    BY DEF IInv, TypeOK
  <1>2. ASSUME NEW t \in Threads, NEW update \in Updates, Release(t, update)
        PROVE  Semaphore!Next
    <2>1. /\ counter' = counter + update /\ pc[t] = "idle"
          /\ \/ pc' = [pc EXCEPT ![t] = "idle"]
             \/ pc' = [pc EXCEPT ![t] = "notify"]
      BY <1>2 DEF Release
    <2>2. Waiting' = Waiting
      BY <1>1, <2>1 DEF Waiting
    <2> QED
      BY <2>1, <2>2 DEF Semaphore!Next, Semaphore!Release
  <1>3. ASSUME NEW t \in Threads, Notify(t)
        PROVE  UNCHANGED Semaphore!vars
    <2>1. pc[t] = "notify" /\ counter' = counter /\ pc' = Woken([pc EXCEPT ![t] = "idle"])
      BY <1>3 DEF Notify
    <2>2. \A u \in Threads : pc'[u] \in {"asleep", "woken"} <=> pc[u] \in {"asleep", "woken"}
      BY <1>1, <2>1 DEF Woken
    <2> QED
      BY <2>1, <2>2 DEF Semaphore!vars, Waiting
  <1>4. ASSUME NEW t \in Threads, Acquire(t) \/ TryAcquire(t) \/ TryAcquireUntil(t)
        PROVE  Semaphore!Next \/ UNCHANGED Semaphore!vars
    <2>1. pc[t] = "idle"
      BY <1>4 DEF Acquire, TryAcquire, TryAcquireUntil
    <2>2. CASE TakePermit(t)
      BY <2>1, <2>2, TakePermitRefines
    <2>3. CASE Sleep(t, "none") \/ Sleep(t, "ahead")
      BY <2>1, <2>3, SleepRefines
    <2> QED
      BY <1>4, <2>2, <2>3 DEF Acquire, TryAcquire, TryAcquireUntil
  <1>5. ASSUME NEW t \in Threads, Expire(t) \/ SpuriousWakeup(t)
        PROVE  UNCHANGED Semaphore!vars
    <2>1. /\ pc[t] \in {"asleep", "woken"} /\ counter' = counter
          /\ pc' = [pc EXCEPT ![t] = "woken"]
      BY <1>5 DEF Expire, SpuriousWakeup
    <2>2. Waiting' = Waiting
      BY <1>1, <2>1 DEF Waiting
    <2> QED
      BY <2>1, <2>2 DEF Semaphore!vars
  <1>6. ASSUME NEW t \in Threads, Recheck(t)
        PROVE  Semaphore!Next \/ UNCHANGED Semaphore!vars
    <2>1. pc[t] = "woken"
      BY <1>6 DEF Recheck
    <2>2. CASE TakePermit(t)
      BY <2>1, <2>2, TakePermitRefines
    <2>3. CASE GiveUp(t)
      BY <2>1, <2>3, GiveUpRefines
    <2>4. CASE Sleep(t, deadline[t])
      BY <2>1, <2>4, SleepRefines
    <2> QED
      BY <1>6, <2>2, <2>3, <2>4 DEF Recheck
  <1>7. CASE UNCHANGED vars
    BY <1>7 DEF vars, Semaphore!vars, Waiting
  <1> QED
    BY <1>2, <1>3, <1>4, <1>5, <1>6, <1>7 DEF Next

(* For any number of threads, every behaviour of the class is one of       *)
(* Permits: a thread blocks or gives up only when there is no permit, a    *)
(* permit goes to one thread, and no wake-up, timed out, spurious or       *)
(* overtaken, does anything else.  That a permit does not stay while       *)
(* threads wait is fairness, and not part of this.                         *)
THEOREM ImplementsPermitsSafely ==
  Spec => Semaphore!Init /\ [][Semaphore!Next]_(Semaphore!vars)
  <1> QED
    BY InitSound, NextSound, InitRefines, NextRefines, PTL DEF Spec
=============================================================================
