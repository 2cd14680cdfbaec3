--------------------------- MODULE MultiWatchdog ---------------------------
(***************************************************************************)
(* bestsens::system_helper::systemd::MultiWatchdog (src/system_helper.cpp  *)
(* 202-242): several threads feed the one watchdog of the service.  Every  *)
(* thread has an object with an entry of its own, a list that all objects  *)
(* share points to the entries, and systemd is notified when every entry   *)
(* on the list is set.  enable, disable and trigger hold list_mtx, so each *)
(* is one step.                                                            *)
(***************************************************************************)
EXTENDS Naturals, SequencesExt

CONSTANTS
  Watchdogs,   \* the objects, and the threads that report through them
  MaxChanges,  \* bound on the calls other than trigger()
  MaxServed    \* bound on the notifications counted per report

ASSUME MultiWatchdogAssumption == MaxChanges \in Nat /\ MaxServed \in Nat \ {0, 1}

VARIABLES
  alive,          \* the objects that exist
  own_entry,
  watchdog_list,  \* the objects whose entries the list points to
  notifications,  \* sent to systemd, modulo 2
  \* Who is to be watched, and what became of a report:
  wanted,         \* constructed or enabled, and neither disabled nor destroyed
  reenabled,      \* enabled while it was enabled
  hung,           \* the threads that have stopped reporting
  served,         \* notifications since the last report that count on it
  changes         \* calls other than trigger() so far

vars == <<alive, own_entry, watchdog_list, notifications,
          wanted, reenabled, hung, served, changes>>

Listed == Range(watchdog_list)

TypeOK ==
  /\ alive \subseteq Watchdogs
  /\ own_entry \in [Watchdogs -> {0, 1}]
  /\ watchdog_list \in Seq(Watchdogs)
  /\ notifications \in {0, 1}
  /\ wanted \subseteq Watchdogs /\ reenabled \subseteq Watchdogs /\ hung \subseteq Watchdogs
  /\ served \in [Watchdogs -> 0 .. MaxServed]
  /\ changes \in 0 .. MaxChanges

Init ==
  /\ alive = {} /\ watchdog_list = <<>>
  /\ own_entry = [w \in Watchdogs |-> 0]
  /\ notifications = 0
  /\ wanted = {} /\ reenabled = {} /\ hung = {}
  /\ served = [w \in Watchdogs |-> 1]
  /\ changes = 0

Change == changes < MaxChanges /\ changes' = changes + 1

-----------------------------------------------------------------------------
\* A new object has no report that a notification could count on.  Its memory
\* may be that of an object that is gone and has a pointer left on the list.
Construct(w) ==
  /\ Change /\ w \notin alive
  /\ alive' = alive \cup {w}
  /\ own_entry' = [own_entry EXCEPT ![w] = 0]
  /\ served' = [served EXCEPT ![w] = 1]
  /\ watchdog_list' = Append(watchdog_list, w)
  /\ wanted' = wanted \cup {w} /\ hung' = hung \ {w}
  /\ UNCHANGED <<notifications, reenabled>>

\* The defaulted copy constructor copies the entry and does not enable().
Copy(w, from) ==
  /\ Change /\ w \notin alive /\ from \in alive
  /\ alive' = alive \cup {w}
  /\ own_entry' = [own_entry EXCEPT ![w] = own_entry[from]]
  /\ served' = [served EXCEPT ![w] = served[from]]
  /\ hung' = hung \ {w}
  /\ UNCHANGED <<notifications, watchdog_list, wanted, reenabled>>

\* The defaulted assignment: a report is taken over with the entry.
Assign(w, from) ==
  /\ Change /\ w \in alive /\ from \in alive \ {w}
  /\ own_entry' = [own_entry EXCEPT ![w] = own_entry[from]]
  /\ served' = [served EXCEPT ![w] = served[from]]
  /\ UNCHANGED <<alive, notifications, watchdog_list, wanted, reenabled, hung>>

\* enable() does not look whether the entry is on the list.
Enable(w) ==
  /\ Change /\ w \in alive
  /\ watchdog_list' = Append(watchdog_list, w)
  /\ wanted' = wanted \cup {w}
  /\ reenabled' = IF w \in wanted THEN reenabled \cup {w} ELSE reenabled
  /\ UNCHANGED <<alive, own_entry, notifications, hung, served>>

FirstAt(i, w) ==
  /\ i \in DOMAIN watchdog_list /\ watchdog_list[i] = w
  /\ \A j \in 1 .. i - 1 : watchdog_list[j] # w

\* Mutant: the end of the list is erased instead of what was found.
EraseLast(w) ==
  IF w \in Listed
  THEN watchdog_list' = Front(watchdog_list)
  ELSE UNCHANGED watchdog_list

\* std::find and erase: the first pointer to the entry goes, if there is one.
Erase(w) ==
  IF w \in Listed
  THEN \E i \in DOMAIN watchdog_list :
         FirstAt(i, w) /\ watchdog_list' = RemoveAt(watchdog_list, i)
  ELSE UNCHANGED watchdog_list

Disable(w) ==
  /\ Change /\ w \in alive
  /\ Erase(w)
  /\ wanted' = wanted \ {w}
  /\ UNCHANGED <<alive, own_entry, notifications, reenabled, hung, served>>

\* Mutant: the destructor forgets to disable().
DestroyStillListed(w) ==
  /\ Change /\ w \in alive
  /\ alive' = alive \ {w} /\ wanted' = wanted \ {w}
  /\ \E garbage \in {0, 1} : own_entry' = [own_entry EXCEPT ![w] = garbage]
  /\ UNCHANGED <<watchdog_list, notifications, reenabled, hung, served>>

\* A pointer that is left on the list points to memory of any content.
Destroy(w) ==
  /\ Change /\ w \in alive
  /\ Erase(w)
  /\ alive' = alive \ {w} /\ wanted' = wanted \ {w}
  /\ \E garbage \in {0, 1} : own_entry' = [own_entry EXCEPT ![w] = garbage]
  /\ UNCHANGED <<notifications, reenabled, hung, served>>

Reported(w) == [own_entry EXCEPT ![w] = 1]

SomebodyMissing(entries) == \E v \in Listed : entries[v] = 0

\* Mutant: only the first entry is reset.
ConsumedFirst(entries) ==
  [v \in Watchdogs |-> IF v \in Listed /\ v = Head(watchdog_list) THEN 0 ELSE entries[v]]

\* The entries after watchdog(): no entry is ever -1.
Consumed(entries) == [v \in Watchdogs |-> IF v \in Listed THEN 0 ELSE entries[v]]

CountedOn(w) ==
  LET reports == [served EXCEPT ![w] = 0]
  IN [v \in Watchdogs |-> IF v \in Listed /\ reports[v] < MaxServed THEN reports[v] + 1
                          ELSE reports[v]]

Trigger(w) ==
  /\ w \in alive
  /\ IF SomebodyMissing(Reported(w))
     THEN /\ own_entry' = Reported(w)
          /\ served' = [served EXCEPT ![w] = 0]
          /\ UNCHANGED notifications
     ELSE /\ own_entry' = Consumed(Reported(w))
          /\ served' = CountedOn(w)
          /\ notifications' = 1 - notifications
  /\ UNCHANGED <<alive, watchdog_list, wanted, reenabled, hung, changes>>

\* A thread stops reporting.
Hang(w) ==
  /\ w \in alive /\ hung' = hung \cup {w}
  /\ UNCHANGED <<alive, own_entry, watchdog_list, notifications,
                 wanted, reenabled, served, changes>>

Next ==
  \E w \in Watchdogs :
    \/ Construct(w)
    \/ \E from \in Watchdogs : Copy(w, from) \/ Assign(w, from)
    \/ Enable(w) \/ Disable(w) \/ Destroy(w)
    \/ w \notin hung /\ Trigger(w)
    \/ Hang(w)

\* A thread that has not hung reports again and again.
Fairness == \A w \in Watchdogs : WF_vars(w \notin hung /\ Trigger(w))

Spec == Init /\ [][Next]_vars /\ Fairness

-----------------------------------------------------------------------------
(***************************************************************************)
(* Properties.                                                             *)
(***************************************************************************)

(* A thread that hangs, or has never reported, cannot hide behind the      *)
(* others: every report serves at most one notification, whoever sends it  *)
(* and whatever is enabled, disabled, copied or destroyed in between.      *)
OneNotificationPerReport == \A w \in wanted : served[w] <= 1

(* The list points to the entries of the threads to be watched, and never  *)
(* to an object that is gone, unless enable() was called when it had been  *)
(* called: a pointer too many then stays, even behind the destructor.      *)
ListIsWanted ==
  /\ wanted \subseteq Listed /\ wanted \subseteq alive
  /\ Listed \ wanted \subseteq reenabled

(* The watchdog is fed as long as no watched thread hangs: what comes and  *)
(* goes, and threads that hung when nobody watched them, do not stop it.   *)
KeepsNotifying ==
  <>[](wanted # {} /\ wanted \cap hung = {} /\ reenabled = {})
    => []<><<notifications' # notifications>>_vars
=============================================================================
