----------------------------- MODULE Semaphore -----------------------------
(***************************************************************************)
(* bestsens::counting_semaphore (include/bone_helper/semaphore.hpp).       *)
(* Every access to counter_ happens under mutex_, so a critical section is *)
(* one step; what happens between two of them is not: the notification     *)
(* after release() has unlocked, and what others do to the counter between *)
(* a wake-up and the moment the woken thread has the mutex again.          *)
(***************************************************************************)
EXTENDS Integers

CONSTANTS
  Threads,
  Max,          \* max(), the template argument
  Desired,      \* the initial counter
  Updates,      \* the arguments release() is called with
  MaxReleased   \* bound on the permits that are released altogether

ASSUME SemaphoreAssumption ==
  /\ Max \in Nat /\ Desired \in 0 .. Max
  /\ Updates \subseteq Nat /\ MaxReleased \in Nat

VARIABLES
  counter,
  pc,        \* where a thread is: see States
  deadline,  \* of a thread's wait: none, ahead or passed
  released,  \* permits released so far
  acquired   \* permits acquired so far

vars == <<counter, pc, deadline, released, acquired>>

\* asleep: blocked in the condition variable.  woken: notified, timed out or
\* spuriously awake, waiting for the mutex.  notify: release() has unlocked
\* and not yet notified.
States == {"idle", "asleep", "woken", "notify"}

TypeOK ==
  /\ counter \in 0 .. Max
  /\ pc \in [Threads -> States]
  /\ deadline \in [Threads -> {"none", "ahead", "passed"}]
  /\ released \in 0 .. MaxReleased
  /\ acquired \in Nat

Init ==
  /\ counter = Desired
  /\ pc = [t \in Threads |-> "idle"]
  /\ deadline = [t \in Threads |-> "none"]
  /\ released = 0
  /\ acquired = 0

-----------------------------------------------------------------------------
\* Mutant: nobody is notified when only one permit is left.
ReleaseNotifyingAboveOne(t, update) ==
  /\ pc[t] = "idle"
  /\ update <= Max - counter
  /\ released + update <= MaxReleased
  /\ counter' = counter + update
  /\ pc' = [pc EXCEPT ![t] = IF counter' <= 1 THEN "idle" ELSE "notify"]
  /\ released' = released + update
  /\ UNCHANGED <<deadline, acquired>>

\* The assertion in release() is what a caller has to respect.
Release(t, update) ==
  /\ pc[t] = "idle"
  /\ update <= Max - counter
  /\ released + update <= MaxReleased
  /\ counter' = counter + update
  /\ pc' = [pc EXCEPT ![t] = IF counter' <= 0 THEN "idle" ELSE "notify"]
  /\ released' = released + update
  /\ UNCHANGED <<deadline, acquired>>

Woken(p) == [t \in Threads |-> IF p[t] = "asleep" THEN "woken" ELSE p[t]]

\* Mutant: notify_one().
NotifyOne(t) ==
  /\ pc[t] = "notify"
  /\ IF \E u \in Threads : pc[u] = "asleep"
     THEN \E u \in Threads : pc[u] = "asleep" /\ pc' = [pc EXCEPT ![t] = "idle", ![u] = "woken"]
     ELSE pc' = [pc EXCEPT ![t] = "idle"]
  /\ UNCHANGED <<counter, deadline, released, acquired>>

\* cv_.notify_all()
Notify(t) ==
  /\ pc[t] = "notify"
  /\ pc' = Woken([pc EXCEPT ![t] = "idle"])
  /\ UNCHANGED <<counter, deadline, released, acquired>>

\* --counter_ and return.
TakePermit(t) ==
  /\ counter > 0
  /\ counter' = counter - 1
  /\ acquired' = acquired + 1
  /\ pc' = [pc EXCEPT ![t] = "idle"]
  /\ deadline' = [deadline EXCEPT ![t] = "none"]
  /\ UNCHANGED released

\* Block in the condition variable, with or without a deadline.
Sleep(t, limit) ==
  /\ counter <= 0
  /\ pc' = [pc EXCEPT ![t] = "asleep"]
  /\ deadline' = [deadline EXCEPT ![t] = limit]
  /\ UNCHANGED <<counter, released, acquired>>

Acquire(t) == pc[t] = "idle" /\ (TakePermit(t) \/ Sleep(t, "none"))

\* A failing try_acquire() changes nothing.
TryAcquire(t) == pc[t] = "idle" /\ TakePermit(t)

\* try_acquire_for() and try_acquire_until()
TryAcquireUntil(t) == pc[t] = "idle" /\ (TakePermit(t) \/ Sleep(t, "ahead"))

\* The deadline passes; a thread that is blocked wakes up.
Expire(t) ==
  /\ pc[t] \in {"asleep", "woken"}
  /\ deadline[t] = "ahead"
  /\ deadline' = [deadline EXCEPT ![t] = "passed"]
  /\ pc' = [pc EXCEPT ![t] = "woken"]
  /\ UNCHANGED <<counter, released, acquired>>

SpuriousWakeup(t) ==
  /\ pc[t] = "asleep"
  /\ pc' = [pc EXCEPT ![t] = "woken"]
  /\ UNCHANGED <<counter, deadline, released, acquired>>

GiveUp(t) ==
  /\ counter <= 0 /\ deadline[t] = "passed"
  /\ pc' = [pc EXCEPT ![t] = "idle"]
  /\ deadline' = [deadline EXCEPT ![t] = "none"]
  /\ UNCHANGED <<counter, released, acquired>>

\* Mutant: a wait without a predicate.
RecheckNothing(t) ==
  /\ pc[t] = "woken"
  /\ counter' = counter - 1
  /\ acquired' = acquired + 1
  /\ pc' = [pc EXCEPT ![t] = "idle"]
  /\ deadline' = [deadline EXCEPT ![t] = "none"]
  /\ UNCHANGED released

\* Mutant: a woken thread returns without counting its permit.
RecheckWithoutTaking(t) ==
  /\ pc[t] = "woken"
  /\ \/ /\ counter > 0
        /\ acquired' = acquired + 1
        /\ pc' = [pc EXCEPT ![t] = "idle"]
        /\ deadline' = [deadline EXCEPT ![t] = "none"]
        /\ UNCHANGED <<counter, released>>
     \/ GiveUp(t)
     \/ deadline[t] # "passed" /\ Sleep(t, deadline[t])

\* Mutant: a thread that finds no permit goes back to sleep past its deadline.
RecheckForever(t) ==
  /\ pc[t] = "woken"
  /\ TakePermit(t) \/ Sleep(t, deadline[t])

\* The woken thread has the mutex again and evaluates the predicate.
Recheck(t) ==
  /\ pc[t] = "woken"
  /\ \/ TakePermit(t)
     \/ GiveUp(t)
     \/ deadline[t] # "passed" /\ Sleep(t, deadline[t])

Next ==
  \E t \in Threads :
    \/ \E update \in Updates : Release(t, update)
    \/ Notify(t)
    \/ Acquire(t) \/ TryAcquire(t) \/ TryAcquireUntil(t)
    \/ Expire(t) \/ SpuriousWakeup(t)
    \/ Recheck(t)

\* A thread inside the class keeps running, and time passes; whether anybody
\* calls the class is up to its users.
Fairness ==
  \A t \in Threads : WF_vars(Notify(t)) /\ WF_vars(Recheck(t)) /\ WF_vars(Expire(t))

Spec == Init /\ [][Next]_vars /\ Fairness

-----------------------------------------------------------------------------
(***************************************************************************)
(* Properties.                                                             *)
(***************************************************************************)

(* Permits are neither lost nor invented: what was released and not yet    *)
(* acquired is in the counter, whoever timed out, was woken in vain or was *)
(* overtaken between the wake-up and the mutex.                            *)
Conservation == counter + acquired = Desired + released

(* No lost wake-up: a thread is blocked while there is a permit only until *)
(* the release that made the permit has notified.                          *)
NoLostWakeup ==
  (counter > 0 /\ \E t \in Threads : pc[t] = "asleep")
    => \E t \in Threads : pc[t] = "notify"

Waiting == {t \in Threads : pc[t] \in {"asleep", "woken"}}

Semaphore == INSTANCE Permits WITH permits <- counter, pending <- Waiting

(* The class implements the semaphore: threads block and give up only when *)
(* there is no permit, and a permit does not stay while threads wait.      *)
ImplementsPermits == Semaphore!Spec

(* A timed attempt ends, however often it is woken in vain.                *)
TimedAttemptEnds ==
  \A t \in Threads : (deadline[t] # "none") ~> (deadline[t] = "none")
=============================================================================
