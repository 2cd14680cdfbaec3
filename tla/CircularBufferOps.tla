-------------------------- MODULE CircularBufferOps --------------------------
(***************************************************************************)
(* The methods of bestsens::CircularBuffer<T, N>                           *)
(* (include/bone_helper/circular_buffer.hpp) as operators on a record that *)
(* holds the four data members of one object.  A method that changes the   *)
(* object is an operator from a record to a record, a getter an operator   *)
(* from a record and its arguments to its result.  Locking is left to the  *)
(* module that uses these operators.                                       *)
(***************************************************************************)
EXTENDS Integers, Sequences

CONSTANTS
  N,        \* capacity, the template argument
  Modulus,  \* number of values of size_t: 2^32 on the ARM targets, else 2^64
  Values,   \* the elements that are added
  Default,  \* T{}, the element a preallocated or resized vector is filled with
  Thrown    \* the outcome of a single-value getter that ends in an exception

ASSUME CapacityAssumption == N \in Nat \ {0}
ASSUME WidthAssumption == Modulus \in Nat /\ N < Modulus
ASSUME ThrownAssumption == Thrown \notin Values \cup {Default}

SizeT == 0 .. Modulus - 1
MaxSizeT == Modulus - 1
Data == Values \cup {Default}

\* The data members; `buffer` is the std::vector, which grows up to N.
Ring == [buffer : Seq(Data),
         current_insert_position : 0 .. N - 1,
         item_count : 0 .. N,
         base_id : SizeT]

Smaller(a, b) == IF a < b THEN a ELSE b

-----------------------------------------------------------------------------
(* Counter arithmetic. *)

SubtractWithRollover(a, b, limit) ==
  IF b > a THEN (limit - b) + a + 1 ELSE a - b

\* Mutant: a plain addition.
AddWithoutRollover(a, b, limit) == a + b

AddWithRollover(a, b, limit) ==
  IF limit - a < b THEN b - (limit - a) - 1 ELSE a + b

-----------------------------------------------------------------------------
(* Construction and the methods that change the object. *)

Fresh(preallocate) ==
  [buffer |-> IF preallocate THEN [i \in 1 .. N |-> Default] ELSE << >>,
   current_insert_position |-> 0,
   item_count |-> 0,
   base_id |-> 0]

IncrementCounters(r) ==
  [r EXCEPT !.item_count = IF @ < N THEN @ + 1 ELSE @,
            !.current_insert_position = AddWithRollover(@, 1, N - 1),
            !.base_id = AddWithRollover(@, 1, MaxSizeT)]

\* push_back while the vector still grows, overwrite afterwards.
Stored(r, v) ==
  IF Len(r.buffer) <= r.current_insert_position
  THEN Append(r.buffer, v)
  ELSE [r.buffer EXCEPT ![r.current_insert_position + 1] = v]

Added(r, v) == IncrementCounters([r EXCEPT !.buffer = Stored(r, v)])

\* Mutant: clear() also rewinds the insert position, but not the vector.
ClearedAndRewound(r) == [r EXCEPT !.item_count = 0, !.current_insert_position = 0]

Cleared(r) == [r EXCEPT !.item_count = 0]

-----------------------------------------------------------------------------
(* Getters.  Vector indices are one-based here and zero-based in the code. *)

\* std::vector::at
At(buffer, i) == IF i < Len(buffer) THEN buffer[i + 1] ELSE Thrown

\* Index of the element that is `pos` places behind the newest one.
Offset(r, pos) ==
  SubtractWithRollover(SubtractWithRollover(r.current_insert_position, 1, N - 1),
                       pos, N - 1)

\* Mutant: the bound lets one position too many through.
GetPositionOneTooFar(r, pos) ==
  IF pos > r.item_count \/ r.item_count = 0 THEN Thrown
  ELSE At(r.buffer, Offset(r, pos))

GetPosition(r, pos) ==
  IF pos >= r.item_count \/ r.item_count = 0 THEN Thrown
  ELSE At(r.buffer, Offset(r, pos))

\* get(id): the element `id` places after the next slot to be written.
GetSingle(r, id) ==
  IF r.item_count = 0 THEN Thrown
  ELSE At(r.buffer, AddWithRollover(r.current_insert_position, id, N - 1))

GetNewDataAmount(base_id, item_count, last_value) ==
  Smaller(SubtractWithRollover(base_id, last_value, MaxSizeT), item_count)

\* Mutant: a range that wraps is cut off at the end of the array.
GetRangeUnwrapped(r, start, end) ==
  LET offset == Offset(r, end - 1)
      wraps  == end - start > N - offset
      len    == IF wraps THEN N - offset ELSE end - start
  IN  [k \in 1 .. len |-> r.buffer[offset + k]]

\* The elements between `start` and `end` places behind the newest one, oldest
\* first, as the two std::copy calls leave them in the target.
GetRange(r, start, end) ==
  LET offset == Offset(r, end - 1)
      wraps  == end - start > N - offset
      len    == IF wraps THEN N - offset ELSE end - start
      len2   == IF wraps THEN end - len ELSE 0
  IN  [k \in 1 .. len + len2 |->
         IF k <= len THEN r.buffer[offset + k] ELSE r.buffer[k - len]]

\* last_value names an element this object has handed out.
Follows(r, last_value) == last_value \in 1 .. r.base_id

\* Mutant: the element `last_value` names is handed out again.
ReadEndIncludingLast(r, amount, last_value) ==
  Smaller(IF Follows(r, last_value)
            THEN SubtractWithRollover(r.base_id, last_value, MaxSizeT) + 1
            ELSE amount,
          r.item_count)

\* How far behind the newest element a read of `amount` starts and ends.
ReadEnd(r, amount, last_value) ==
  Smaller(IF Follows(r, last_value)
            THEN SubtractWithRollover(r.base_id, last_value, MaxSizeT)
            ELSE amount,
          r.item_count)

\* Mutant: every read, not only a continuing one, starts at the oldest.
ReadStartAlways(r, amount, last_value, continous) ==
  IF ReadEnd(r, amount, last_value) > amount
  THEN ReadEnd(r, amount, last_value) - amount
  ELSE 0

ReadStart(r, amount, last_value, continous) ==
  IF continous /\ ReadEnd(r, amount, last_value) > amount
  THEN ReadEnd(r, amount, last_value) - amount
  ELSE 0

\* get(target, amount, last_value, return_continous): what is written to
\* target (its length is the new `amount`) and the value returned; an empty
\* range makes getRange throw.
Get(r, amount, last_value, continous) ==
  LET end   == ReadEnd(r, amount, last_value)
      start == ReadStart(r, amount, last_value, continous)
      last  == IF continous THEN end ELSE Smaller(end, amount)
      idle  == amount = 0 \/ (Follows(r, last_value) /\ last_value = r.base_id)
  IN  [thrown |-> ~idle /\ last <= start,
       target |-> IF idle \/ last <= start THEN << >> ELSE GetRange(r, start, last),
       last_value |-> IF idle THEN r.base_id
                      ELSE IF last <= start THEN last_value
                      ELSE SubtractWithRollover(r.base_id, start, MaxSizeT)]

\* The vector getVector returns: `allocated` elements are constructed, get()
\* writes to them, resize() appends default elements to a longer result.
Resized(target, allocated) ==
  [k \in 1 .. Len(target) |-> IF k <= allocated THEN target[k] ELSE Default]

\* getVector(amount, last_value, exactly, return_continous)
GetVector(r, amount, last_value, exactly, continous) ==
  LET allocated == Smaller(amount, r.item_count)
      read  == Get(r, allocated, last_value, continous)
      short == /\ exactly
               /\ GetNewDataAmount(r.base_id, r.item_count, last_value) < amount
  IN  IF short THEN [thrown |-> FALSE, target |-> << >>, last_value |-> last_value]
      ELSE [thrown |-> read.thrown,
            target |-> Resized(read.target, allocated),
            last_value |-> read.last_value]
=============================================================================
