----------------------------- MODULE BoundedLog -----------------------------
(***************************************************************************)
(* What a circular buffer promises, without its array: a log that keeps    *)
(* the last N elements added since it was cleared, numbers its elements    *)
(* modulo the width of size_t, and answers readers that remember the       *)
(* number of the last element they were given.                             *)
(***************************************************************************)
EXTENDS Integers, Sequences

CONSTANTS N, Modulus, Values, Default, Buffers, Readers, Requests

VARIABLES
  window,      \* per buffer: the retained elements, oldest first
  id,          \* per buffer: the number of its newest element
  last_value,  \* per reader: the number of the last element it was given
  answer       \* per reader: the outcome of its last read

vars == <<window, id, last_value, answer>>

Least(a, b) == IF a < b THEN a ELSE b
FirstOf(s, n) == [i \in 1 .. n |-> s[i]]
LastOf(s, n) == [i \in 1 .. n |-> s[Len(s) - n + i]]

Kept(w, v) == IF Len(w) < N THEN Append(w, v) ELSE Append(LastOf(w, N - 1), v)

\* The elements a reader has not been given yet; a reader whose number this
\* log has not reached counts as a new one.
Known(i, lv) == lv \in 1 .. i
Pending(w, i, lv) == IF Known(i, lv) THEN LastOf(w, Least(i - lv, Len(w))) ELSE w

\* A continuing reader is given the oldest pending elements, any other the
\* newest ones.
Given(w, i, amount, lv, continous) ==
  LET pending == Pending(w, i, lv)
      n == Least(amount, Len(pending))
  IN  IF continous /\ Known(i, lv) THEN FirstOf(pending, n) ELSE LastOf(pending, n)

NextNumber(w, i, amount, lv, continous) ==
  IF continous /\ Known(i, lv)
  THEN i - (Len(Pending(w, i, lv)) - Len(Given(w, i, amount, lv, continous)))
  ELSE i

Distance(i, lv) == IF lv > i THEN i - lv + Modulus ELSE i - lv

-----------------------------------------------------------------------------
Init ==
  /\ window = [b \in Buffers |-> << >>]
  /\ id = [b \in Buffers |-> 0]
  /\ last_value = [c \in Readers |-> 0]
  /\ answer = [c \in Readers |-> [thrown |-> FALSE, target |-> << >>]]

Add(b, v) ==
  /\ window' = [window EXCEPT ![b] = Kept(@, v)]
  /\ id' = [id EXCEPT ![b] = IF @ = Modulus - 1 THEN 0 ELSE @ + 1]
  /\ UNCHANGED <<last_value, answer>>

Clear(b) ==
  /\ window' = [window EXCEPT ![b] = << >>]
  /\ UNCHANGED <<id, last_value, answer>>

Replace(d, w, i) ==
  /\ window' = [window EXCEPT ![d] = w]
  /\ id' = [id EXCEPT ![d] = i]
  /\ UNCHANGED <<last_value, answer>>

Copy(d, s) == Replace(d, window[s], id[s])

Swap(d, s) ==
  /\ window' = [window EXCEPT ![d] = window[s], ![s] = window[d]]
  /\ id' = [id EXCEPT ![d] = id[s], ![s] = id[d]]
  /\ UNCHANGED <<last_value, answer>>

Move(d, s) ==
  /\ window' = [window EXCEPT ![d] = window[s], ![s] = << >>]
  /\ id' = [id EXCEPT ![d] = id[s], ![s] = 0]
  /\ UNCHANGED <<last_value, answer>>

\* A request for exactly `amount` elements is declined when fewer are pending;
\* a read into an array of the caller fails when there is nothing to read.
Declined(w, i, lv, q) == q.exactly /\ Least(Distance(i, lv), Len(w)) < q.amount
Failed(w, i, lv, q) == q.raw /\ q.amount > 0 /\ w = << >> /\ ~(Known(i, lv) /\ lv = i)

Read(c, b, q) ==
  LET w == window[b] lv == last_value[c] IN
  /\ \/ /\ Declined(w, id[b], lv, q) \/ Failed(w, id[b], lv, q)
        /\ answer' = [answer EXCEPT ![c] = [thrown |-> Failed(w, id[b], lv, q),
                                            target |-> << >>]]
        /\ UNCHANGED last_value
     \/ /\ ~Declined(w, id[b], lv, q) /\ ~Failed(w, id[b], lv, q)
        /\ answer' = [answer EXCEPT ![c] =
                        [thrown |-> FALSE,
                         target |-> Given(w, id[b], q.amount, lv, q.continous)]]
        /\ last_value' = [last_value EXCEPT ![c] =
                        NextNumber(w, id[b], q.amount, lv, q.continous)]
  /\ UNCHANGED <<window, id>>

Next ==
  \/ \E b \in Buffers :
       \/ \E v \in Values : Add(b, v)
       \/ Clear(b)
       \/ Replace(b, << >>, 0)
       \/ \E s \in Buffers : Copy(b, s) \/ Swap(b, s) \/ (b # s /\ Move(b, s))
  \/ \E c \in Readers, b \in Buffers, q \in Requests : Read(c, b, q)

Spec == Init /\ [][Next]_vars
=============================================================================
