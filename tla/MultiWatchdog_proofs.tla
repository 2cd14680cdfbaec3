------------------------ MODULE MultiWatchdog_proofs ------------------------
(***************************************************************************)
(* Proofs about MultiWatchdog for every set of objects and any number of   *)
(* calls.                                                                  *)
(***************************************************************************)
EXTENDS MultiWatchdog, TLAPS

(* A report is in the entry or has served its notification, never both.    *)
ReportsUsedOnce == \A w \in alive : served[w] + own_entry[w] <= 1

(* Only enable() called twice puts an entry on the list twice; this is why *)
(* erasing the first pointer to an entry removes the entry.                *)
TwiceOnlyReenabled ==
  \A i, j \in DOMAIN watchdog_list :
    i # j /\ watchdog_list[i] = watchdog_list[j] => watchdog_list[i] \in reenabled

ListInv ==
  /\ watchdog_list \in Seq(Watchdogs)
  /\ ListIsWanted
  /\ TwiceOnlyReenabled

IInv == TypeOK /\ ReportsUsedOnce /\ ListInv

-----------------------------------------------------------------------------
(* What appending to and erasing from the list do to its elements.         *)

LEMMA AppendElements ==
  ASSUME NEW S, NEW s \in Seq(S), NEW e \in S
  PROVE  /\ Append(s, e) \in Seq(S)
         /\ DOMAIN s = 1 .. Len(s) /\ DOMAIN Append(s, e) = 1 .. Len(s) + 1
         /\ Len(s) \in Nat
         /\ Append(s, e)[Len(s) + 1] = e
         /\ \A i \in DOMAIN s : Append(s, e)[i] = s[i]
  OBVIOUS

LEMMA ConcatElements ==
  ASSUME NEW S, NEW s \in Seq(S), NEW t \in Seq(S)
  PROVE  s \o t \in Seq(S) /\ Len(s \o t) = Len(s) + Len(t)
  OBVIOUS

LEMMA RemoveAtElements ==
  ASSUME NEW S, NEW s \in Seq(S), NEW k \in DOMAIN s
  PROVE  /\ RemoveAt(s, k) \in Seq(S)
         /\ DOMAIN s = 1 .. Len(s) /\ Len(s) \in Nat
         /\ DOMAIN RemoveAt(s, k) = 1 .. Len(s) - 1
         /\ \A i \in 1 .. k - 1 : RemoveAt(s, k)[i] = s[i]
         /\ \A i \in k .. Len(s) - 1 : RemoveAt(s, k)[i] = s[i + 1]
  <1> DEFINE head == SubSeq(s, 1, k - 1)
             tail == SubSeq(s, k + 1, Len(s))
  <1>1. DOMAIN s = 1 .. Len(s) /\ Len(s) \in Nat /\ k \in Nat /\ 1 <= k /\ k <= Len(s)
    OBVIOUS
  <1>2. head \in Seq(S) /\ Len(head) = k - 1 /\ \A i \in 1 .. k - 1 : head[i] = s[i]
    BY <1>1
  <1>3. /\ tail \in Seq(S) /\ Len(tail) = Len(s) - k
        /\ \A i \in 1 .. Len(s) - k : tail[i] = s[i + k]
    BY <1>1, SMTT(30)
  <1>4. RemoveAt(s, k) = head \o tail
    BY DEF RemoveAt
  <1> HIDE DEF head, tail
  <1>5. /\ head \o tail \in Seq(S)
        /\ Len(head \o tail) = Len(s) - 1
        /\ DOMAIN (head \o tail) = 1 .. Len(s) - 1
    <2>1. head \o tail \in Seq(S) /\ Len(head \o tail) = Len(head) + Len(tail)
      BY ONLY <1>2, <1>3, ConcatElements
    <2>2. DOMAIN (head \o tail) = 1 .. Len(head \o tail)
      BY ONLY <2>1
    <2>3. Len(head) + Len(tail) = Len(s) - 1
      BY ONLY <1>1, <1>2, <1>3
    <2> QED
      BY ONLY <2>1, <2>2, <2>3
  <1>6. \A i \in 1 .. k - 1 : (head \o tail)[i] = s[i]
    BY <1>1, <1>2, <1>3
  <1>7. \A i \in k .. Len(s) - 1 : (head \o tail)[i] = s[i + 1]
    <2> SUFFICES ASSUME NEW i \in k .. Len(s) - 1 PROVE (head \o tail)[i] = s[i + 1]
      OBVIOUS
    <2>1. (head \o tail)[i] = tail[i - (k - 1)]
      BY <1>1, <1>2, <1>3
    <2>2. i - (k - 1) \in 1 .. Len(s) - k /\ (i - (k - 1)) + k = i + 1
      BY <1>1
    <2> QED
      BY <1>3, <2>1, <2>2
  <1>8. /\ RemoveAt(s, k) \in Seq(S)
        /\ DOMAIN RemoveAt(s, k) = 1 .. Len(s) - 1
    BY ONLY <1>4, <1>5, Zenon
  <1>9. \A i \in 1 .. k - 1 : RemoveAt(s, k)[i] = s[i]
    BY ONLY <1>4, <1>6, Zenon
  <1>10. \A i \in k .. Len(s) - 1 : RemoveAt(s, k)[i] = s[i + 1]
    BY ONLY <1>4, <1>7, Zenon
  <1> QED
    BY ONLY <1>1, <1>8, <1>9, <1>10, Zenon

LEMMA ListAppended ==
  ASSUME ListInv, NEW w \in Watchdogs,
         watchdog_list' = Append(watchdog_list, w),
         wanted' = wanted \cup {w}, wanted' \subseteq alive',
         reenabled \subseteq reenabled', w \in Listed => w \in reenabled'
  PROVE  ListInv'
  <1>1. /\ watchdog_list' \in Seq(Watchdogs)
        /\ DOMAIN watchdog_list = 1 .. Len(watchdog_list)
        /\ DOMAIN watchdog_list' = 1 .. Len(watchdog_list) + 1
        /\ Len(watchdog_list) \in Nat
        /\ watchdog_list'[Len(watchdog_list) + 1] = w
        /\ \A i \in DOMAIN watchdog_list : watchdog_list'[i] = watchdog_list[i]
    BY AppendElements DEF ListInv
  <1>2. \A i \in DOMAIN watchdog_list' :
          i \notin DOMAIN watchdog_list => i = Len(watchdog_list) + 1
    BY ONLY <1>1
  <1>3. DOMAIN watchdog_list \subseteq DOMAIN watchdog_list'
        /\ Len(watchdog_list) + 1 \in DOMAIN watchdog_list'
    BY ONLY <1>1
  <1>4. Listed' = Listed \cup {w}
    BY <1>1, <1>2, <1>3 DEF Listed, Range
  <1>5. ListIsWanted'
    BY <1>4 DEF ListInv, ListIsWanted
  <1>6. TwiceOnlyReenabled'
    <2> SUFFICES ASSUME NEW i \in DOMAIN watchdog_list', NEW j \in DOMAIN watchdog_list',
                        i # j, watchdog_list'[i] = watchdog_list'[j]
                 PROVE  watchdog_list'[i] \in reenabled'
      BY DEF TwiceOnlyReenabled
    <2>1. CASE i \in DOMAIN watchdog_list /\ j \in DOMAIN watchdog_list
      BY <1>1, <2>1 DEF ListInv, TwiceOnlyReenabled
    <2>2. CASE i \in DOMAIN watchdog_list /\ j \notin DOMAIN watchdog_list
      BY <1>1, <1>2, <2>2 DEF Listed, Range
    <2>3. CASE i \notin DOMAIN watchdog_list /\ j \in DOMAIN watchdog_list
      BY <1>1, <1>2, <2>3 DEF Listed, Range
    <2> QED
      BY <1>2, <2>1, <2>2, <2>3
  <1> QED
    BY <1>1, <1>5, <1>6 DEF ListInv

LEMMA ListErased ==
  ASSUME ListInv, NEW w \in Watchdogs, Erase(w),
         wanted' = wanted \ {w}, wanted' \subseteq alive', reenabled' = reenabled
  PROVE  ListInv'
  <1>1. CASE w \notin Listed
    <2>1. watchdog_list' = watchdog_list
      BY <1>1 DEF Erase
    <2> QED
      BY <1>1, <2>1 DEF ListInv, ListIsWanted, TwiceOnlyReenabled, Listed
  <1>2. CASE w \in Listed
    <2>1. PICK k \in DOMAIN watchdog_list :
            watchdog_list[k] = w /\ watchdog_list' = RemoveAt(watchdog_list, k)
      BY <1>2 DEF Erase, FirstAt
    <2> DEFINE n == Len(watchdog_list)
               before(i) == IF i < k THEN i ELSE i + 1
               after(i) == IF i < k THEN i ELSE i - 1
    <2>2. /\ watchdog_list' \in Seq(Watchdogs)
          /\ DOMAIN watchdog_list = 1 .. n /\ n \in Nat
          /\ DOMAIN watchdog_list' = 1 .. n - 1
          /\ \A i \in 1 .. k - 1 : watchdog_list'[i] = watchdog_list[i]
          /\ \A i \in k .. n - 1 : watchdog_list'[i] = watchdog_list[i + 1]
      BY <2>1, RemoveAtElements DEF ListInv
    <2> HIDE DEF n
    <2>3. \A i \in DOMAIN watchdog_list' :
            /\ before(i) \in DOMAIN watchdog_list /\ before(i) # k
            /\ watchdog_list'[i] = watchdog_list[before(i)]
      BY ONLY <2>2, k \in DOMAIN watchdog_list
    <2>4. \A i, j \in DOMAIN watchdog_list' : i # j => before(i) # before(j)
      BY ONLY <2>2, k \in DOMAIN watchdog_list
    <2>5. \A i \in DOMAIN watchdog_list : i # k =>
            /\ after(i) \in DOMAIN watchdog_list'
            /\ watchdog_list'[after(i)] = watchdog_list[i]
      BY ONLY <2>2, k \in DOMAIN watchdog_list
    <2> HIDE DEF before, after
    <2>6. Listed' \subseteq Listed
      BY <2>3 DEF Listed, Range
    <2>7. Listed \ {w} \subseteq Listed'
      BY <2>1, <2>5 DEF Listed, Range
    <2>8. w \in Listed' => w \in reenabled
      BY <2>1, <2>3 DEF Listed, Range, ListInv, TwiceOnlyReenabled
    <2>9. ListIsWanted'
      BY <2>6, <2>7, <2>8 DEF ListInv, ListIsWanted
    <2>10. TwiceOnlyReenabled'
      BY <2>3, <2>4 DEF ListInv, TwiceOnlyReenabled
    <2> QED
      BY <2>2, <2>9, <2>10 DEF ListInv
  <1> QED
    BY <1>1, <1>2

LEMMA ListKept ==
  ASSUME ListInv, UNCHANGED <<watchdog_list, wanted, reenabled>>, alive \subseteq alive'
  PROVE  ListInv'
  BY DEF ListInv, ListIsWanted, TwiceOnlyReenabled, Listed

-----------------------------------------------------------------------------
(* The reports of the objects that a call leaves alone stay as they were.  *)
LEMMA ReportsKept ==
  ASSUME ReportsUsedOnce,
         \A v \in alive' : v \in alive /\ served'[v] = served[v] /\ own_entry'[v] = own_entry[v]
  PROVE  ReportsUsedOnce'
  BY DEF ReportsUsedOnce

LEMMA InitSound == Init => IInv
  <1> SUFFICES ASSUME Init PROVE IInv
    OBVIOUS
  <1>1. TypeOK
    BY MultiWatchdogAssumption DEF Init, TypeOK
  <1>2. ReportsUsedOnce
    BY DEF Init, ReportsUsedOnce
  <1>3. ListInv
    BY DEF Init, ListInv, ListIsWanted, TwiceOnlyReenabled, Listed, Range
  <1> QED
    BY <1>1, <1>2, <1>3 DEF IInv

(* The list and the types of what a call changes, for all calls at once.   *)
LEMMA TypesKept ==
  ASSUME IInv, ListInv',
         alive' \subseteq Watchdogs, hung' \subseteq Watchdogs, reenabled' \subseteq Watchdogs,
         notifications' \in {0, 1}, changes' \in 0 .. MaxChanges,
         own_entry' \in [Watchdogs -> {0, 1}],
         served' \in [Watchdogs -> 0 .. MaxServed]
  PROVE  TypeOK'
  BY DEF TypeOK, ListInv, ListIsWanted

LEMMA NextSound == IInv /\ [Next]_vars => IInv'
  <1> SUFFICES ASSUME IInv, [Next]_vars PROVE IInv'
    OBVIOUS
  <1>1. /\ MaxChanges \in Nat /\ MaxServed \in Nat /\ MaxServed > 1
        /\ alive \subseteq Watchdogs /\ wanted \subseteq Watchdogs
        /\ wanted \subseteq alive /\ wanted \subseteq Listed
        /\ reenabled \subseteq Watchdogs /\ hung \subseteq Watchdogs
        /\ Listed \ wanted \subseteq reenabled
        /\ own_entry \in [Watchdogs -> {0, 1}]
        /\ served \in [Watchdogs -> 0 .. MaxServed]
        /\ notifications \in {0, 1}
        /\ changes \in 0 .. MaxChanges
        /\ ReportsUsedOnce /\ ListInv
    BY MultiWatchdogAssumption DEF IInv, TypeOK, ListInv, ListIsWanted
  <1>2. Change => changes' \in 0 .. MaxChanges
    BY <1>1 DEF Change
  <1>3. ASSUME NEW w \in Watchdogs, Construct(w) PROVE IInv'
    <2>1. w \in Listed => w \in reenabled
      BY <1>1, <1>3 DEF Construct
    <2>2. ListInv'
      BY <1>1, <1>3, <2>1, ListAppended DEF Construct
    <2>3. ReportsUsedOnce'
      BY <1>1, <1>3 DEF Construct, ReportsUsedOnce
    <2>4. TypeOK'
      BY <1>1, <1>2, <1>3, <2>2, TypesKept DEF Construct
    <2> QED
      BY <2>2, <2>3, <2>4 DEF IInv
  <1>4. ASSUME NEW w \in Watchdogs, NEW from \in Watchdogs, Copy(w, from) PROVE IInv'
    <2>1. ListInv'
      BY <1>1, <1>4, ListKept DEF Copy
    <2>2. ReportsUsedOnce'
      BY <1>1, <1>4 DEF Copy, ReportsUsedOnce
    <2>3. TypeOK'
      BY <1>1, <1>2, <1>4, <2>1, TypesKept DEF Copy
    <2> QED
      BY <2>1, <2>2, <2>3 DEF IInv
  <1>5. ASSUME NEW w \in Watchdogs, NEW from \in Watchdogs, Assign(w, from) PROVE IInv'
    <2>1. ListInv'
      BY <1>1, <1>5, ListKept DEF Assign
    <2>2. ReportsUsedOnce'
      BY <1>1, <1>5 DEF Assign, ReportsUsedOnce
    <2>3. TypeOK'
      BY <1>1, <1>2, <1>5, <2>1, TypesKept DEF Assign
    <2> QED
      BY <2>1, <2>2, <2>3 DEF IInv
  <1>6. ASSUME NEW w \in Watchdogs, Enable(w) PROVE IInv'
    <2>1. ListInv'
      BY <1>1, <1>6, ListAppended DEF Enable
    <2>2. ReportsUsedOnce'
      BY <1>1, <1>6, ReportsKept DEF Enable
    <2>3. TypeOK'
      BY <1>1, <1>2, <1>6, <2>1, TypesKept DEF Enable
    <2> QED
      BY <2>1, <2>2, <2>3 DEF IInv
  <1>7. ASSUME NEW w \in Watchdogs, Disable(w) PROVE IInv'
    <2>1. ListInv'
      BY <1>1, <1>7, ListErased DEF Disable
    <2>2. ReportsUsedOnce'
      BY <1>1, <1>7, ReportsKept DEF Disable
    <2>3. TypeOK'
      BY <1>1, <1>2, <1>7, <2>1, TypesKept DEF Disable
    <2> QED
      BY <2>1, <2>2, <2>3 DEF IInv
  <1>8. ASSUME NEW w \in Watchdogs, Destroy(w) PROVE IInv'
    <2>1. ListInv'
      BY <1>1, <1>8, ListErased DEF Destroy
    <2>2. ReportsUsedOnce'
      BY <1>1, <1>8, ReportsKept DEF Destroy
    <2>3. TypeOK'
      BY <1>1, <1>2, <1>8, <2>1, TypesKept DEF Destroy
    <2> QED
      BY <2>1, <2>2, <2>3 DEF IInv
  <1>9. ASSUME NEW w \in Watchdogs, Trigger(w) PROVE IInv'
    <2>1. ListInv'
      BY <1>1, <1>9, ListKept DEF Trigger
    <2>2. Reported(w) \in [Watchdogs -> {0, 1}]
      BY <1>1 DEF Reported
    <2>3. CASE SomebodyMissing(Reported(w))
      <3>1. /\ own_entry' = Reported(w)
            /\ served' = [served EXCEPT ![w] = 0]
            /\ UNCHANGED <<alive, notifications, reenabled, hung, changes>>
        BY <1>9, <2>3 DEF Trigger
      <3>2. ReportsUsedOnce'
        BY <1>1, <3>1 DEF Reported, ReportsUsedOnce
      <3>3. TypeOK'
        BY <1>1, <2>1, <2>2, <3>1, TypesKept
      <3> QED
        BY <2>1, <3>2, <3>3 DEF IInv
    <2>4. CASE ~SomebodyMissing(Reported(w))
      <3>1. /\ own_entry' = Consumed(Reported(w))
            /\ served' = CountedOn(w)
            /\ notifications' = 1 - notifications
            /\ UNCHANGED <<alive, reenabled, hung, changes>>
        BY <1>9, <2>4 DEF Trigger
      <3>2. ASSUME NEW v \in alive PROVE served'[v] + own_entry'[v] <= 1
        <4>1. CASE v \in Listed
          <5>1. Reported(w)[v] = 1
            BY <1>1, <2>2, <2>4, <4>1 DEF SomebodyMissing
          <5>2. v # w => served[v] = 0
            BY <1>1, <5>1 DEF Reported, ReportsUsedOnce
          <5>3. served'[v] = 1 /\ own_entry'[v] = 0
            BY <1>1, <3>1, <4>1, <5>2 DEF CountedOn, Consumed
          <5> QED
            BY <5>3
        <4>2. CASE v \notin Listed
          <5>1. served'[v] = [served EXCEPT ![w] = 0][v] /\ own_entry'[v] = Reported(w)[v]
            BY <1>1, <3>1, <4>2 DEF CountedOn, Consumed
          <5> QED
            BY <1>1, <5>1 DEF Reported, ReportsUsedOnce
        <4> QED
          BY <4>1, <4>2
      <3>3. ReportsUsedOnce'
        BY <3>1, <3>2 DEF ReportsUsedOnce
      <3>4. own_entry' \in [Watchdogs -> {0, 1}]
        BY <2>2, <3>1 DEF Consumed
      <3>5. served' \in [Watchdogs -> 0 .. MaxServed]
        BY <1>1, <3>1 DEF CountedOn
      <3>6. TypeOK'
        BY <1>1, <2>1, <3>1, <3>4, <3>5, TypesKept
      <3> QED
        BY <2>1, <3>3, <3>6 DEF IInv
    <2> QED
      BY <2>3, <2>4
  <1>10. ASSUME NEW w \in Watchdogs, Hang(w) PROVE IInv'
    <2>1. ListInv'
      BY <1>1, <1>10, ListKept DEF Hang
    <2>2. ReportsUsedOnce'
      BY <1>1, <1>10, ReportsKept DEF Hang
    <2>3. TypeOK'
      BY <1>1, <1>10, <2>1, TypesKept DEF Hang
    <2> QED
      BY <2>1, <2>2, <2>3 DEF IInv
  <1>11. CASE UNCHANGED vars
    <2>1. ListInv'
      BY <1>1, <1>11, ListKept DEF vars
    <2>2. ReportsUsedOnce'
      BY <1>1, <1>11, ReportsKept DEF vars
    <2>3. TypeOK'
      BY <1>1, <1>11, <2>1, TypesKept DEF vars
    <2> QED
      BY <2>1, <2>2, <2>3 DEF IInv
  <1> QED
    BY <1>3, <1>4, <1>5, <1>6, <1>7, <1>8, <1>9, <1>10, <1>11 DEF Next

(* Every member keeps its type; in particular no entry is ever -1, the     *)
(* value that trigger() looks for when it resets the entries.              *)
THEOREM TypeCorrectness == Spec => []TypeOK
  <1>1. IInv => TypeOK
    BY DEF IInv
  <1> QED
    BY <1>1, InitSound, NextSound, PTL DEF Spec

(* For any number of threads, systemd is notified at most once on the last *)
(* report of a watched thread: one that hangs is noticed by the next time. *)
THEOREM HungThreadIsNoticed == Spec => []OneNotificationPerReport
  <1>1. IInv => OneNotificationPerReport
    <2> SUFFICES ASSUME IInv, NEW w \in wanted PROVE served[w] <= 1
      BY DEF OneNotificationPerReport
    <2>1. w \in alive /\ w \in Watchdogs
      BY DEF IInv, ListInv, ListIsWanted, TypeOK
    <2>2. served[w] + own_entry[w] <= 1 /\ own_entry[w] \in {0, 1} /\ served[w] \in Int
      BY <2>1, MultiWatchdogAssumption DEF IInv, ReportsUsedOnce, TypeOK
    <2> QED
      BY <2>2
  <1> QED
    BY <1>1, InitSound, NextSound, PTL DEF Spec

(* For any number of objects, the list points to those that are enabled,   *)
(* and to others only after an enable() on an object that was enabled.     *)
THEOREM ListCorrect == Spec => []ListIsWanted
  <1>1. IInv => ListIsWanted
    BY DEF IInv, ListInv
  <1> QED
    BY <1>1, InitSound, NextSound, PTL DEF Spec
=============================================================================
