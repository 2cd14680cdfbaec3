------------------------------ MODULE Permits ------------------------------
(***************************************************************************)
(* What a counting semaphore promises: a number of permits, threads that   *)
(* take one each or wait for one, and no permit that is left lying while   *)
(* somebody waits.                                                         *)
(***************************************************************************)
EXTENDS Integers

CONSTANTS Threads, Desired, Updates

VARIABLES permits, pending

vars == <<permits, pending>>

Init == permits = Desired /\ pending = {}

Release == \E n \in Updates : permits' = permits + n /\ UNCHANGED pending

\* A thread that does not wait takes a permit, or is told that there is none.
Take == permits > 0 /\ permits' = permits - 1 /\ UNCHANGED pending

Wait(t) ==
  /\ permits = 0 /\ t \notin pending
  /\ pending' = pending \cup {t}
  /\ UNCHANGED permits

Serve(t) ==
  /\ permits > 0 /\ t \in pending
  /\ permits' = permits - 1
  /\ pending' = pending \ {t}

\* A thread gives up waiting only when there is no permit.
GiveUp(t) ==
  /\ permits = 0 /\ t \in pending
  /\ pending' = pending \ {t}
  /\ UNCHANGED permits

Next == Release \/ Take \/ \E t \in Threads : Wait(t) \/ Serve(t) \/ GiveUp(t)

Spec == Init /\ [][Next]_vars /\ WF_vars(\E t \in Threads : Serve(t))
=============================================================================
