--------------------------- MODULE CircularBuffer ---------------------------
(***************************************************************************)
(* Objects of type CircularBuffer<T, N> and the readers that call them,    *)
(* every method being one step: what the class does when its calls do not  *)
(* overlap.                                                                *)
(***************************************************************************)
EXTENDS CircularBufferOps

CONSTANTS
  Buffers,  \* the objects
  Readers,  \* the callers that keep a last_value between two reads
  Requests  \* the argument combinations they read with

\* raw: get() into an array of the caller; otherwise getVector().
RequestType == [amount : SizeT, exactly : BOOLEAN, continous : BOOLEAN, raw : BOOLEAN]

ASSUME RequestsAssumption ==
  /\ Requests \subseteq RequestType
  /\ \A q \in Requests : q.raw => ~q.exactly

VARIABLES
  ring,        \* the data members of every object
  last_value,  \* what the last read of a reader returned
  answer       \* the outcome of that read

vars == <<ring, last_value, answer>>

Answer == [thrown : BOOLEAN, target : Seq(Data)]

TypeOK ==
  /\ ring \in [Buffers -> Ring]
  /\ last_value \in [Readers -> SizeT]
  /\ answer \in [Readers -> Answer]

Init ==
  /\ ring \in [Buffers -> {Fresh(TRUE), Fresh(FALSE)}]
  /\ last_value = [c \in Readers |-> 0]
  /\ answer = [c \in Readers |-> [thrown |-> FALSE, target |-> << >>]]

\* An object is destroyed and constructed anew.
Construct(b, preallocate) ==
  /\ ring' = [ring EXCEPT ![b] = Fresh(preallocate)]
  /\ UNCHANGED <<last_value, answer>>

Add(b, v) ==
  /\ ring' = [ring EXCEPT ![b] = Added(@, v)]
  /\ UNCHANGED <<last_value, answer>>

Clear(b) ==
  /\ ring' = [ring EXCEPT ![b] = Cleared(@)]
  /\ UNCHANGED <<last_value, answer>>

\* d = s.
CopyAssign(d, s) ==
  /\ ring' = [ring EXCEPT ![d] = ring[s]]
  /\ UNCHANGED <<last_value, answer>>

\* d = std::move(s), which swaps the two.
MoveAssign(d, s) ==
  /\ ring' = [ring EXCEPT ![d] = ring[s], ![s] = ring[d]]
  /\ UNCHANGED <<last_value, answer>>

\* d is constructed from std::move(s), which swaps s with an empty object.
MoveConstruct(d, s) ==
  /\ d # s
  /\ ring' = [ring EXCEPT ![d] = ring[s], ![s] = Fresh(FALSE)]
  /\ UNCHANGED <<last_value, answer>>

Outcome(r, q, lv) ==
  IF q.raw THEN Get(r, q.amount, lv, q.continous)
  ELSE GetVector(r, q.amount, lv, q.exactly, q.continous)

\* last_value is assigned what get() returns, and keeps its value when it throws.
Read(c, b, q) ==
  LET out == Outcome(ring[b], q, last_value[c]) IN
  /\ answer' = [answer EXCEPT ![c] = [thrown |-> out.thrown, target |-> out.target]]
  /\ last_value' = [last_value EXCEPT ![c] = out.last_value]
  /\ UNCHANGED ring

Next ==
  \/ \E b \in Buffers :
       \/ \E preallocate \in BOOLEAN : Construct(b, preallocate)
       \/ \E v \in Values : Add(b, v)
       \/ Clear(b)
       \/ \E s \in Buffers : CopyAssign(b, s) \/ MoveAssign(b, s) \/ MoveConstruct(b, s)
  \/ \E c \in Readers, b \in Buffers, q \in Requests : Read(c, b, q)

Spec == Init /\ [][Next]_vars

-----------------------------------------------------------------------------
(***************************************************************************)
(* Properties.                                                             *)
(***************************************************************************)

(* The array and the counters agree: while the vector grows, its end is    *)
(* the insert position, so that push_back in add() lands in the slot the   *)
(* counters mean, and no counted element lies outside the array, however   *)
(* adds, clears, copies, moves and preallocation follow each other.        *)
WellFormed(r) ==
  /\ Len(r.buffer) \in {r.current_insert_position, N}
  /\ r.item_count <= Len(r.buffer)

RingInv == \A b \in Buffers : WellFormed(ring[b])

\* The retained elements, oldest first.
Window(r) == [k \in 1 .. r.item_count |-> r.buffer[Offset(r, r.item_count - k) + 1]]

Log == INSTANCE BoundedLog WITH
         window <- [b \in Buffers |-> Window(ring[b])],
         id <- [b \in Buffers |-> ring[b].base_id]

(* The class implements the bounded log: its array, insert position and    *)
(* offsets are indistinguishable from the window of the last N elements,   *)
(* for the adds and clears of every order and for the reads of every       *)
(* reader.                                                                 *)
ImplementsLog == Log!Spec

(* getPosition(pos) and operator[] return the element `pos` behind the     *)
(* newest for every position that is retained and throw for every other;   *)
(* get(id) counts from the oldest element once the buffer is full.         *)
SingleReadsMatch ==
  \A b \in Buffers : LET w == Window(ring[b]) IN
    \A pos \in 0 .. N :
      /\ GetPosition(ring[b], pos) = IF pos < Len(w) THEN w[Len(w) - pos] ELSE Thrown
      /\ Len(w) = N /\ pos < N => GetSingle(ring[b], pos) = w[pos + 1]

\* Every way of reading, asking for none to more than the capacity.
AllRequests == {q \in [amount : 0 .. N + 1, exactly : BOOLEAN,
                       continous : BOOLEAN, raw : BOOLEAN] : q.raw => ~q.exactly}

\* How many elements a read has room for.
Allocated(r, q) == IF q.raw THEN q.amount ELSE Smaller(q.amount, r.item_count)

\* The range get() copies ends at the newest element, or does not cross the
\* end of the array; any other is copied wrongly: see TargetNotOverrun.
OnePiece(r, amount, lv, continous) ==
  LET start == ReadStart(r, amount, lv, continous)
      end == ReadEnd(r, amount, lv)
  IN  start = 0 \/ Offset(r, end - 1) + (end - start) <= N

(* A read of any size hands out the elements the bounded log promises,     *)
(* provided it ends at the newest element or the range it copies does not  *)
(* cross the end of the array.  (Asking for no element skips a reader to   *)
(* the newest one, so that is no read here.)                               *)
UnwrappedReadsMatch ==
  \A b \in Buffers, q \in AllRequests, c \in Readers :
    LET r == ring[b]
        lv == last_value[c]
        out == Outcome(r, q, lv)
    IN  (/\ q.amount > 0
         /\ OnePiece(r, Allocated(r, q), lv, q.continous)
         /\ ~Log!Declined(Window(r), r.base_id, lv, q)
         /\ ~out.thrown)
        => /\ out.target = Log!Given(Window(r), r.base_id, q.amount, lv, q.continous)
           /\ out.last_value =
                Log!NextNumber(Window(r), r.base_id, q.amount, lv, q.continous)

(* A read never writes more elements to its target than were asked for.    *)
(* getRange copies `end - len` elements in its second part, which is the   *)
(* right number only if `start` is 0.                                      *)
TargetNotOverrun ==
  \A b \in Buffers, q \in AllRequests, lv \in SizeT :
    Len(Outcome(ring[b], q, lv).target) <= q.amount

(* A second read with the last_value that the first one returned, and no   *)
(* add in between, is empty.                                               *)
SecondReadEmpty ==
  \A b \in Buffers, q \in Requests, lv \in SizeT :
    LET first == Outcome(ring[b], q, lv) IN
    (~first.thrown /\ first.last_value = ring[b].base_id)
      => Outcome(ring[b], q, first.last_value).target = << >>

(* A read that continues where a reader stopped hands out consecutive      *)
(* elements beyond the reader's last_value: none a second time, and, when  *)
(* nothing pending was overwritten or cleared, none skipped, provided the  *)
(* range it copies is in one piece.                                        *)
ContinuesStream ==
  [][\A c \in Readers, b \in Buffers :
       LET lv == last_value[c]
           first == last_value'[c] - Len(answer'[c].target) + 1
           lost == ring[b].base_id - lv > ring[b].item_count
       IN  (/\ Follows(ring[b], lv)
            /\ \E q \in Requests :
                 /\ q.continous /\ q.amount > 0
                 /\ OnePiece(ring[b], Allocated(ring[b], q), lv, TRUE)
                 /\ Read(c, b, q))
           => /\ first > lv
              /\ ~lost => first = lv + 1
              /\ last_value'[c] \in lv .. ring[b].base_id]_vars
=============================================================================
