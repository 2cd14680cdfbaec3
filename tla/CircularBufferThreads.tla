------------------------ MODULE CircularBufferThreads ------------------------
(***************************************************************************)
(* The same objects used by several threads at once.  A method is a step   *)
(* for each of its critical sections and for each member it reads without  *)
(* the mutex: getVector() looks at the counters unlocked, allocates, and   *)
(* only then calls get(), which locks; add(range) locks once per element;  *)
(* an assignment locks its source but not its target.  The Readers are the *)
(* threads here, and whatever they call.                                   *)
(***************************************************************************)
EXTENDS CircularBuffer

CONSTANTS
  Starts,   \* what the objects hold when the threads begin
  Seen,     \* what a thread may have read up to when it begins
  Ranges,   \* that are added with one call
  MaxCalls  \* bound on the calls altogether

ASSUME ThreadsAssumption ==
  /\ Starts \subseteq Ring /\ \A r \in Starts : WellFormed(r)
  /\ Seen \subseteq SizeT
  /\ Ranges \subseteq Seq(Values) \ {<<>>}
  /\ MaxCalls \in Nat

VARIABLES
  call,  \* the call each thread is in
  calls, \* their number so far
  torn   \* objects whose members do not belong together: see FinishAssign

threadVars == <<ring, last_value, answer, call, calls, torn>>

(* at: the next step of a call.  getVector(): available (neither counter   *)
(* read), count and base (the one that is still to be read), compare,      *)
(* shrink, get.  add(range): range.  Assignment: vector, holding the       *)
(* mutex of `from`.  disturbed: what the call uses was cleared, assigned   *)
(* or, but for getVector(), written by another thread since it began; or   *)
(* the object is torn, or behind the thread's last_value, to begin with.   *)
Reading == {"available", "count", "base", "compare", "shrink", "get"}
Idle == [at |-> "idle"]

InitThreads ==
  /\ ring \in [Buffers -> Starts]
  /\ last_value \in [Readers -> Seen]
  /\ answer = [t \in Readers |-> [thrown |-> FALSE, target |-> << >>]]
  /\ call = [t \in Readers |-> Idle]
  /\ calls = 0 /\ torn = {}

Begins(t) == call[t] = Idle /\ calls < MaxCalls /\ calls' = calls + 1

\* Mutant: the mutex of the target is locked in place of the source's.
LockedTarget(b) == \E t \in Readers : call[t].at = "vector" /\ call[t].buf = b

\* An assignment from b holds the mutex of b; all other critical sections
\* are one step.
Locked(b) == \E t \in Readers : call[t].at = "vector" /\ call[t].from = b

\* The calls once thread t has gone on to `mine` and those in `upset` are disturbed.
Goes(t, mine, upset) ==
  call' = [u \in Readers |-> IF u = t THEN mine
                             ELSE IF u \in upset THEN [call[u] EXCEPT !.disturbed = TRUE]
                             ELSE call[u]]

Using(b) == {t \in Readers : call[t] # Idle /\ call[t].buf = b}
Filling(b) == {t \in Using(b) : call[t].at \notin Reading}
CopyingFrom(b) == {t \in Readers : call[t].at = "vector" /\ call[t].from = b}

-----------------------------------------------------------------------------
(* add() and clear(), under the mutex of the object.                       *)

AddOne(t, b, v) ==
  /\ Begins(t) /\ ~Locked(b)
  /\ ring' = [ring EXCEPT ![b] = Added(@, v)]
  /\ Goes(t, Idle, Filling(b))
  /\ UNCHANGED <<last_value, answer, torn>>

BeginRange(t, b, values) ==
  /\ Begins(t)
  /\ Goes(t, [at |-> "range", buf |-> b, left |-> values, values |-> values,
              disturbed |-> FALSE], {})
  /\ UNCHANGED <<ring, last_value, answer, torn>>

\* Mutant: the elements are taken from the end.
AddBackwards(t) ==
  LET b == call[t].buf
      left == call[t].left
  IN /\ call[t].at = "range" /\ ~Locked(b)
     /\ ring' = [ring EXCEPT ![b] = Added(@, left[Len(left)])]
     /\ Goes(t, IF Len(left) = 1 THEN Idle
                ELSE [call[t] EXCEPT !.left = SubSeq(left, 1, Len(left) - 1)],
             Filling(b) \ {t})
     /\ UNCHANGED <<last_value, answer, calls, torn>>

AddNext(t) ==
  LET b == call[t].buf
      left == call[t].left
  IN /\ call[t].at = "range" /\ ~Locked(b)
     /\ ring' = [ring EXCEPT ![b] = Added(@, Head(left))]
     /\ Goes(t, IF Len(left) = 1 THEN Idle ELSE [call[t] EXCEPT !.left = Tail(left)],
             Filling(b) \ {t})
     /\ UNCHANGED <<last_value, answer, calls, torn>>

ClearAll(t, b) ==
  /\ Begins(t) /\ ~Locked(b)
  /\ ring' = [ring EXCEPT ![b] = Cleared(@)]
  /\ Goes(t, Idle, Using(b))
  /\ UNCHANGED <<last_value, answer, torn>>

-----------------------------------------------------------------------------
(* getVector()                                                             *)

BeginGetVector(t, b, q) ==
  LET r == ring[b] IN
  /\ Begins(t)
  /\ Goes(t, [at |-> IF q.raw THEN "get" ELSE IF q.exactly THEN "available" ELSE "compare",
              buf |-> b, request |-> q, amount |-> q.amount, base |-> 0, count |-> 0,
              before |-> GetNewDataAmount(r.base_id, r.item_count, last_value[t]),
              disturbed |-> b \in torn \/ last_value[t] > r.base_id], {})
  /\ answer' = [answer EXCEPT ![t] = [thrown |-> FALSE, target |-> << >>]]
  /\ UNCHANGED <<ring, last_value, torn>>

\* The call returns.
Return(t, thrown, target, lv) ==
  /\ answer' = [answer EXCEPT ![t] = [thrown |-> thrown, target |-> target]]
  /\ last_value' = [last_value EXCEPT ![t] = lv]
  /\ Goes(t, Idle, {})

\* Mutant: the check looks at what the buffer holds, not at what is new.
DecideByCount(t, base, count) ==
  IF count < call[t].amount
  THEN Return(t, FALSE, << >>, last_value[t])
  ELSE /\ Goes(t, [call[t] EXCEPT !.at = "compare", !.base = 0, !.count = 0], {})
       /\ UNCHANGED <<last_value, answer>>

\* The check of `exactly`, once both counters have been read.
Decide(t, base, count) ==
  IF GetNewDataAmount(base, count, last_value[t]) < call[t].amount
  THEN Return(t, FALSE, << >>, last_value[t])
  ELSE /\ Goes(t, [call[t] EXCEPT !.at = "compare", !.base = 0, !.count = 0], {})
       /\ UNCHANGED <<last_value, answer>>

\* getNewDataAmount() reads its two counters in either order.  A build may read
\* one of them twice, as the helpers take references; no result of an undisturbed
\* call is lost: both branches of subtractWithRollover() agree modulo 2^w, and
\* the count that std::min() has found smaller, read again, is what the two
\* counters give at that moment.
ReadCounter(t) ==
  LET c == call[t]
      r == ring[c.buf]
  IN /\ \/ /\ c.at = "available"
           /\ \/ Goes(t, [c EXCEPT !.at = "count", !.base = r.base_id], {})
              \/ Goes(t, [c EXCEPT !.at = "base", !.count = r.item_count], {})
           /\ UNCHANGED <<last_value, answer>>
        \/ c.at = "count" /\ Decide(t, c.base, r.item_count)
        \/ c.at = "base" /\ Decide(t, r.base_id, c.count)
     /\ UNCHANGED <<ring, calls, torn>>

Compare(t) ==
  /\ call[t].at = "compare"
  /\ Goes(t, [call[t] EXCEPT !.at = IF call[t].amount > ring[call[t].buf].item_count
                                    THEN "shrink" ELSE "get"], {})
  /\ UNCHANGED <<ring, last_value, answer, calls, torn>>

\* item_count is read once more, in builds that do not keep what was compared.
Shrink(t) ==
  /\ call[t].at = "shrink"
  /\ Goes(t, [call[t] EXCEPT !.at = "get", !.amount = ring[call[t].buf].item_count], {})
  /\ UNCHANGED <<ring, last_value, answer, calls, torn>>

\* Mutant: the thread goes on behind the newest element.
GetElementsToNewest(t) ==
  LET c == call[t]
      out == Get(ring[c.buf], c.amount, last_value[t], c.request.continous)
  IN /\ c.at = "get"
     /\ c.amount = 0 \/ (~Locked(c.buf) /\ c.buf \notin torn)
     /\ Return(t, out.thrown, Resized(out.target, c.amount), ring[c.buf].base_id)
     /\ UNCHANGED <<ring, calls, torn>>

\* get() takes the mutex, but not when the amount is 0.  What it reads from
\* a torn object is undefined, and not followed.
GetElements(t) ==
  LET c == call[t]
      out == Get(ring[c.buf], c.amount, last_value[t], c.request.continous)
  IN /\ c.at = "get"
     /\ c.amount = 0 \/ (~Locked(c.buf) /\ c.buf \notin torn)
     /\ Return(t, out.thrown, IF c.request.raw THEN out.target ELSE Resized(out.target, c.amount),
               out.last_value)
     /\ UNCHANGED <<ring, calls, torn>>

-----------------------------------------------------------------------------
(* Assignment                                                              *)

\* Mutant: the assignment forgets base_id.
WithCountersButId(r, of) ==
  [of EXCEPT !.buffer = r.buffer, !.base_id = r.base_id]

\* r with the counters of another object, and its own vector.
WithCounters(r, of) == [of EXCEPT !.buffer = r.buffer]

\* The members an assignment from s to d writes: both objects' when it swaps.
Written(d, s, kind) == IF kind = "move" THEN {d, s} ELSE {d}

\* The source is locked and the counters are copied or swapped; the target
\* is written whatever others do with it.
BeginAssign(t, d, s, kind) ==
  /\ Begins(t) /\ ~Locked(s)
  /\ kind = "copy" => d # s
  /\ ring' = [ring EXCEPT ![d] = WithCounters(ring[d], ring[s]),
                          ![s] = IF kind = "move" THEN WithCounters(ring[s], ring[d]) ELSE @]
  /\ torn' = torn \cup Written(d, s, kind)
  /\ Goes(t, [at |-> "vector", buf |-> d, from |-> s, kind |-> kind,
              disturbed |-> \/ s \in torn \/ (kind = "move" /\ d \in torn)
                            \/ \E u \in Readers : call[u].at = "vector" /\ d \in Written(call[u].buf, call[u].from, call[u].kind)],
          (UNION {Using(b) : b \in Written(d, s, kind)}) \cup CopyingFrom(d))
  /\ UNCHANGED <<last_value, answer>>

\* The vector follows, and the mutex is unlocked.  When another thread has
\* used the target meanwhile, the members do not belong together.
FinishAssign(t) ==
  LET c == call[t]
      d == c.buf
      s == c.from
  IN /\ c.at = "vector"
     /\ ring' = [ring EXCEPT ![d].buffer = ring[s].buffer,
                             ![s].buffer = IF c.kind = "move" THEN ring[d].buffer ELSE @]
     /\ torn' = IF c.disturbed THEN torn \cup Written(d, s, c.kind)
                ELSE torn \ Written(d, s, c.kind)
     /\ Goes(t, Idle,
             ((UNION {Using(b) : b \in Written(d, s, c.kind)}) \cup CopyingFrom(d)) \ {t})
     /\ UNCHANGED <<last_value, answer, calls>>

\* Copying the elements throws: the counters have been copied already.
CopyFails(t) ==
  /\ call[t].at = "vector" /\ call[t].kind = "copy"
  /\ Goes(t, Idle, {})
  /\ UNCHANGED <<ring, last_value, answer, calls, torn>>

\* An object nobody uses any more is replaced by one that is constructed
\* from std::move(s).
Replace(t, d, s) ==
  /\ Begins(t) /\ ~Locked(s) /\ Using(d) = {} /\ CopyingFrom(d) = {}
  /\ MoveConstruct(d, s)
  /\ torn' = IF s \in torn THEN (torn \cup {d}) \ {s} ELSE torn \ {d}
  /\ Goes(t, Idle, Using(s))

NextThreads ==
  \E t \in Readers :
    \/ \E b \in Buffers :
         \/ \E v \in Values : AddOne(t, b, v)
         \/ \E values \in Ranges : BeginRange(t, b, values)
         \/ ClearAll(t, b)
         \/ \E q \in Requests : BeginGetVector(t, b, q)
         \/ \E s \in Buffers, kind \in {"copy", "move"} : BeginAssign(t, b, s, kind)
         \/ \E s \in Buffers : Replace(t, b, s)
    \/ AddNext(t) \/ ReadCounter(t) \/ Compare(t) \/ Shrink(t) \/ GetElements(t)
    \/ FinishAssign(t) \/ CopyFails(t)

SpecThreads == InitThreads /\ [][NextThreads]_threadVars

-----------------------------------------------------------------------------
(***************************************************************************)
(* Properties.                                                             *)
(***************************************************************************)

(* Array and counters of an object agree, whatever the threads do at the   *)
(* same time, but for a target in the middle of its assignment, or one     *)
(* whose assignment was disturbed or has thrown: that one is whole again   *)
(* after the next.                                                         *)
ObjectsWhole == \A b \in Buffers \ torn : WellFormed(ring[b])

Ends(t) == call[t] # Idle /\ call'[t] = Idle

(* What is copied is the source as it was at one moment: nobody adds to it *)
(* or clears it between the counters and the vector.                       *)
CopyIsSnapshot ==
  [][\A t \in Readers :
       LET c == call[t]
       IN  (FinishAssign(t) /\ c.kind = "copy" /\ c.buf \notin torn')
             => ring'[c.buf] = ring'[c.from]]_threadVars

Undisturbed(t) == Ends(t) /\ ~call[t].disturbed

CopiesOnePiece(t) ==
  OnePiece(ring[call[t].buf], call[t].amount, last_value[t], call[t].request.continous)

(* getVector(exactly) is given exactly the elements it asks for or none,   *)
(* and none only if fewer were there when it was called, although what it  *)
(* counts, compares and allocates has changed by the time get() locks the  *)
(* mutex: unless elements went away, additions do no harm.  (A range in    *)
(* two pieces may be longer, as for CircularBuffer!UnwrappedReadsMatch.)   *)
ExactOrNothing ==
  [][\A t \in Readers :
       (/\ Undisturbed(t) /\ call[t].at \in Reading /\ call[t].request.exactly
        /\ call[t].at = "get" => CopiesOnePiece(t))
         => LET asked == call[t].request.amount IN
            /\ ~answer'[t].thrown
            /\ \/ Len(answer'[t].target) = asked
               \/ /\ answer'[t].target = << >> /\ call[t].before < asked
                  /\ last_value'[t] = last_value[t]]_threadVars

(* A thread that reads a stream with getVector() or get() is given its     *)
(* elements in turn, none twice and none skipped that is still there,      *)
(* however many are added while it reads; getVector() does not throw.      *)
(* With two exceptions: a call that has found the buffer empty returns     *)
(* nothing, but goes on behind what was added since; and one that has      *)
(* found fewer elements than there are when it copies may copy a range in  *)
(* two pieces, even if it asked for the whole buffer.                      *)
StreamKept ==
  [][\A t \in Readers :
       LET c == call[t]
           r == ring[c.buf]
           lv == last_value[t]
           first == last_value'[t] - Len(answer'[t].target) + 1
       IN  (/\ Undisturbed(t) /\ c.at = "get"
            /\ c.request.continous /\ c.amount > 0 /\ Follows(r, lv) /\ CopiesOnePiece(t))
             => /\ c.request.raw \/ ~answer'[t].thrown
                /\ first > lv /\ last_value'[t] <= r.base_id
                /\ r.base_id - lv <= r.item_count => first = lv + 1]_threadVars

(* The elements of a range stand together, in their order, at the end of   *)
(* the buffer, when no other thread has written to it meanwhile, although  *)
(* the mutex is free between any two of them.                              *)
RangeTogether ==
  [][\A t \in Readers :
       LET b == call[t].buf
           window == Window(ring'[b])
           kept == Smaller(Len(call[t].values), Len(window))
       IN  (Undisturbed(t) /\ call[t].at = "range" /\ b \notin torn)
             => /\ kept = Smaller(Len(call[t].values), N)
                /\ \A k \in 0 .. kept - 1 :
                     window[Len(window) - k] = call[t].values[Len(call[t].values) - k]]_threadVars
=============================================================================
