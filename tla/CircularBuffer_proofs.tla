----------------------- MODULE CircularBuffer_proofs -----------------------
(***************************************************************************)
(* Proofs about CircularBuffer and CircularBufferThreads for every         *)
(* capacity, every width of size_t and every set of objects, readers or    *)
(* threads, and requests.                                                  *)
(***************************************************************************)
EXTENDS CircularBufferThreads, SequenceTheorems, TLAPS

(* Adding one with rollover wraps from the limit to zero and never leaves   *)
(* the range of the counter.                                               *)
LEMMA CountedOn ==
  ASSUME NEW limit \in Nat, NEW a \in 0 .. limit
  PROVE  /\ AddWithRollover(a, 1, limit) = IF a = limit THEN 0 ELSE a + 1
         /\ AddWithRollover(a, 1, limit) \in 0 .. limit
  BY DEF AddWithRollover

(* Where the element `pos` behind the newest one lies: the two nested      *)
(* rollover subtractions are one subtraction modulo the capacity.          *)
LEMMA OffsetValue ==
  ASSUME NEW r \in Ring, NEW pos \in 0 .. N - 1
  PROVE  /\ Offset(r, pos) \in 0 .. N - 1
         /\ Offset(r, pos) = IF pos < r.current_insert_position
                             THEN r.current_insert_position - 1 - pos
                             ELSE N + r.current_insert_position - 1 - pos
  <1>1. N \in Nat \ {0} /\ r.current_insert_position \in 0 .. N - 1
    BY CapacityAssumption DEF Ring
  <1> QED
    BY <1>1 DEF Offset, SubtractWithRollover

-----------------------------------------------------------------------------
(* The methods that change an object keep its members typed and in         *)
(* agreement with each other.                                              *)

LEMMA FreshSound ==
  ASSUME NEW preallocate \in BOOLEAN
  PROVE  Fresh(preallocate) \in Ring /\ WellFormed(Fresh(preallocate))
  <1>1. N \in Nat \ {0} /\ 0 \in SizeT /\ Modulus \in Nat
    BY CapacityAssumption, WidthAssumption DEF SizeT
  <1>2. Default \in Data
    BY DEF Data
  <1>3. Fresh(preallocate).buffer \in Seq(Data)
    BY <1>1, <1>2 DEF Fresh
  <1>4. Fresh(preallocate) \in Ring
    BY <1>1, <1>3 DEF Fresh, Ring
  <1>5. Len(Fresh(preallocate).buffer) = IF preallocate THEN N ELSE 0
    BY <1>1 DEF Fresh
  <1> QED
    BY <1>1, <1>4, <1>5 DEF WellFormed, Fresh

LEMMA StoredSound ==
  ASSUME NEW r \in Ring, WellFormed(r), NEW v \in Values
  PROVE  /\ Stored(r, v) \in Seq(Data)
         /\ Len(Stored(r, v)) = IF Len(r.buffer) = r.current_insert_position
                                THEN r.current_insert_position + 1 ELSE N
         /\ Stored(r, v)[r.current_insert_position + 1] = v
         /\ \A i \in 1 .. Len(r.buffer) :
              i # r.current_insert_position + 1 => Stored(r, v)[i] = r.buffer[i]
  <1>1. /\ N \in Nat \ {0}
        /\ r.buffer \in Seq(Data)
        /\ r.current_insert_position \in 0 .. N - 1
        /\ Len(r.buffer) \in {r.current_insert_position, N}
    BY CapacityAssumption DEF Ring, WellFormed
  <1>2. v \in Data
    BY DEF Data
  <1>3. CASE Len(r.buffer) = r.current_insert_position
    <2>1. Stored(r, v) = Append(r.buffer, v)
      BY <1>1, <1>3 DEF Stored
    <2> QED
      BY <1>1, <1>2, <1>3, <2>1, SMTT(30)
  <1>4. CASE Len(r.buffer) = N
    <2>1. Stored(r, v) = [r.buffer EXCEPT ![r.current_insert_position + 1] = v]
      BY <1>1, <1>4 DEF Stored
    <2> QED
      BY <1>1, <1>2, <1>4, <2>1
  <1> QED
    BY <1>1, <1>3, <1>4

LEMMA AddedMembers ==
  ASSUME NEW r \in Ring, NEW v \in Values
  PROVE  LET a == Added(r, v) IN
         /\ a = [buffer |-> a.buffer,
                 current_insert_position |-> a.current_insert_position,
                 item_count |-> a.item_count,
                 base_id |-> a.base_id]
         /\ a.buffer = Stored(r, v)
         /\ a.current_insert_position =
              IF r.current_insert_position = N - 1 THEN 0 ELSE r.current_insert_position + 1
         /\ a.item_count = IF r.item_count < N THEN r.item_count + 1 ELSE r.item_count
         /\ a.base_id = IF r.base_id = MaxSizeT THEN 0 ELSE r.base_id + 1
         /\ a.base_id \in SizeT
  <1>1. /\ N \in Nat \ {0} /\ Modulus \in Nat /\ N < Modulus
        /\ r.current_insert_position \in 0 .. N - 1
        /\ r.base_id \in 0 .. Modulus - 1
    BY CapacityAssumption, WidthAssumption DEF Ring, SizeT
  <1> DEFINE a == Added(r, v)
  <1>2. a = [buffer |-> Stored(r, v),
             current_insert_position |->
               AddWithRollover(r.current_insert_position, 1, N - 1),
             item_count |-> IF r.item_count < N THEN r.item_count + 1 ELSE r.item_count,
             base_id |-> AddWithRollover(r.base_id, 1, MaxSizeT)]
    <2> DEFINE s == [r EXCEPT !.buffer = Stored(r, v)]
    <2>1. s = [buffer |-> Stored(r, v),
               current_insert_position |-> r.current_insert_position,
               item_count |-> r.item_count,
               base_id |-> r.base_id]
      BY DEF Ring
    <2>2. a = IncrementCounters(s)
      BY DEF Added
    <2> HIDE DEF s
    <2> QED
      BY <2>1, <2>2 DEF IncrementCounters
  <1> HIDE DEF a
  <1>3. /\ AddWithRollover(r.base_id, 1, MaxSizeT) \in SizeT
        /\ AddWithRollover(r.base_id, 1, MaxSizeT) =
             IF r.base_id = MaxSizeT THEN 0 ELSE r.base_id + 1
    <2>1. MaxSizeT \in Nat /\ r.base_id \in 0 .. MaxSizeT /\ SizeT = 0 .. MaxSizeT
      BY <1>1 DEF MaxSizeT, SizeT
    <2> QED
      BY ONLY <2>1, CountedOn
  <1>4. AddWithRollover(r.current_insert_position, 1, N - 1) =
          IF r.current_insert_position = N - 1 THEN 0 ELSE r.current_insert_position + 1
    <2>1. N - 1 \in Nat /\ r.current_insert_position \in 0 .. N - 1
      BY <1>1
    <2> QED
      BY ONLY <2>1, CountedOn
  <1> QED
    BY <1>2, <1>3, <1>4 DEF a

LEMMA AddedSound ==
  ASSUME NEW r \in Ring, WellFormed(r), NEW v \in Values
  PROVE  Added(r, v) \in Ring /\ WellFormed(Added(r, v))
  <1>1. /\ N \in Nat \ {0}
        /\ r.current_insert_position \in 0 .. N - 1
        /\ r.item_count \in 0 .. N
        /\ Len(r.buffer) \in {r.current_insert_position, N}
        /\ r.item_count <= Len(r.buffer)
    BY CapacityAssumption DEF Ring, WellFormed
  <1> DEFINE a == Added(r, v)
  <1>2. /\ a = [buffer |-> a.buffer,
                current_insert_position |-> a.current_insert_position,
                item_count |-> a.item_count,
                base_id |-> a.base_id]
        /\ a.buffer = Stored(r, v)
        /\ a.current_insert_position =
             IF r.current_insert_position = N - 1 THEN 0 ELSE r.current_insert_position + 1
        /\ a.item_count = IF r.item_count < N THEN r.item_count + 1 ELSE r.item_count
        /\ a.base_id \in SizeT
    BY AddedMembers
  <1> HIDE DEF a
  <1>3. /\ Stored(r, v) \in Seq(Data)
        /\ Len(Stored(r, v)) = IF Len(r.buffer) = r.current_insert_position
                               THEN r.current_insert_position + 1 ELSE N
    BY StoredSound
  <1>4. a \in Ring
    <2>1. a.current_insert_position \in 0 .. N - 1 /\ a.item_count \in 0 .. N
      BY <1>1, <1>2
    <2> QED
      BY <1>2, <1>3, <2>1 DEF Ring
  <1>5. WellFormed(a)
    BY <1>1, <1>2, <1>3, SMTT(30) DEF WellFormed
  <1> QED
    BY <1>4, <1>5 DEF a

LEMMA ClearedSound ==
  ASSUME NEW r \in Ring, WellFormed(r)
  PROVE  Cleared(r) \in Ring /\ WellFormed(Cleared(r))
  <1>1. N \in Nat \ {0} /\ Len(r.buffer) \in Nat
    BY CapacityAssumption DEF Ring
  <1> QED
    BY <1>1 DEF Cleared, Ring, WellFormed

-----------------------------------------------------------------------------
(* Reads stay inside the array.                                            *)

(* The arithmetic of a range that ends `e` places behind the newest        *)
(* element, in an array of `l` elements filled up to `p` or completely.    *)
LEMMA RangeArithmetic ==
  ASSUME NEW n \in Nat, NEW p \in 0 .. n - 1, NEW l \in {p, n},
         NEW s \in Nat, NEW e \in Nat, s < e, e <= l,
         NEW o \in Int, o = IF e - 1 < p THEN p - e ELSE n + p - e
  PROVE  /\ e - s <= n - o => o + (e - s) <= l
         /\ e - s > n - o => l = n /\ e - (n - o) \in 1 .. n
  <1>1. CASE e <= p
    <2>1. o = p - e
      BY <1>1
    <2> QED
      BY <1>1, <2>1
  <1>2. CASE e > p
    <2>1. o = n + p - e /\ l = n
      BY <1>2
    <2> QED
      BY <1>2, <2>1
  <1> QED
    BY <1>1, <1>2

(* getRange copies from indices the vector has, in both of its copies: the *)
(* two assertions in the code, sharpened from the capacity to the size the *)
(* vector has reached.                                                     *)
LEMMA RangeInBounds ==
  ASSUME NEW r \in Ring, WellFormed(r), NEW start \in Nat, NEW end \in Nat,
         start < end, end <= r.item_count
  PROVE  LET offset == Offset(r, end - 1) IN
         /\ offset \in 0 .. N - 1
         /\ end - start <= N - offset => offset + (end - start) <= Len(r.buffer)
         /\ end - start > N - offset => /\ Len(r.buffer) = N
                                        /\ end - (N - offset) \in 1 .. N
  <1> DEFINE offset == Offset(r, end - 1)
             p == r.current_insert_position
             l == Len(r.buffer)
  <1>1. N \in Nat /\ p \in 0 .. N - 1 /\ l \in {p, N} /\ end <= l
    BY CapacityAssumption DEF Ring, WellFormed
  <1>2. end - 1 \in 0 .. N - 1
    BY <1>1
  <1>3. /\ offset \in 0 .. N - 1
        /\ offset = IF end - 1 < p THEN p - 1 - (end - 1) ELSE N + p - 1 - (end - 1)
    BY ONLY <1>2, OffsetValue, r \in Ring
  <1> HIDE DEF offset, p, l
  <1>4. offset \in Int /\ offset = IF end - 1 < p THEN p - end ELSE N + p - end
    BY <1>1, <1>3
  <1>5. /\ end - start <= N - offset => offset + (end - start) <= l
        /\ end - start > N - offset => l = N /\ end - (N - offset) \in 1 .. N
    BY ONLY <1>1, <1>4, RangeArithmetic, start \in Nat, end \in Nat, start < end
  <1> QED
    BY <1>3, <1>5 DEF offset, l

LEMMA GetRangeSound ==
  ASSUME NEW r \in Ring, WellFormed(r), NEW start \in Nat, NEW end \in Nat,
         start < end, end <= r.item_count
  PROVE  GetRange(r, start, end) \in Seq(Data)
  <1> DEFINE offset == Offset(r, end - 1)
             wraps == end - start > N - offset
             len == IF wraps THEN N - offset ELSE end - start
             len2 == IF wraps THEN end - len ELSE 0
             elt(k) == IF k <= len THEN r.buffer[offset + k] ELSE r.buffer[k - len]
  <1>1. /\ N \in Nat /\ r.buffer \in Seq(Data) /\ Len(r.buffer) \in Nat
        /\ offset \in 0 .. N - 1
        /\ ~wraps => offset + (end - start) <= Len(r.buffer)
        /\ wraps => Len(r.buffer) = N /\ end - (N - offset) \in 1 .. N
    <2>1. N \in Nat /\ r.buffer \in Seq(Data) /\ Len(r.buffer) \in Nat
      BY CapacityAssumption DEF Ring
    <2>2. /\ offset \in 0 .. N - 1
          /\ end - start <= N - offset => offset + (end - start) <= Len(r.buffer)
          /\ end - start > N - offset => /\ Len(r.buffer) = N
                                         /\ end - (N - offset) \in 1 .. N
      BY RangeInBounds
    <2> HIDE DEF offset
    <2> QED
      BY <2>1, <2>2
  <1>2. GetRange(r, start, end) = [k \in 1 .. len + len2 |-> elt(k)]
    BY DEF GetRange
  <1> HIDE DEF offset
  <1>3. len + len2 \in Nat
    BY <1>1
  <1>4. ASSUME NEW k \in 1 .. len + len2 PROVE elt(k) \in Data
    <2>1. CASE k <= len
      <3>1. offset + k \in 1 .. Len(r.buffer) /\ elt(k) = r.buffer[offset + k]
        BY <1>1, <2>1
      <3> HIDE DEF elt, len, len2
      <3> QED
        BY <1>1, <3>1
    <2>2. CASE k > len
      <3>1. k - len \in 1 .. Len(r.buffer) /\ elt(k) = r.buffer[k - len]
        BY <1>1, <2>2
      <3> HIDE DEF elt, len, len2
      <3> QED
        BY <1>1, <3>1
    <2>3. k \in Int /\ len \in Int
      BY <1>1
    <2> HIDE DEF elt, len, len2
    <2> QED
      BY <2>1, <2>2, <2>3
  <1> HIDE DEF elt, len, len2
  <1> QED
    BY <1>2, <1>3, <1>4

(* Where a read starts and ends, whatever its arguments are.               *)
LEMMA ReadBounds ==
  ASSUME NEW r \in Ring, NEW amount \in SizeT, NEW last \in SizeT,
         NEW continous \in BOOLEAN
  PROVE  /\ ReadEnd(r, amount, last) \in 0 .. r.item_count
         /\ ReadStart(r, amount, last, continous) \in 0 .. r.item_count
         /\ ReadStart(r, amount, last, continous) <= ReadEnd(r, amount, last)
  <1>1. /\ Modulus \in Nat /\ amount \in Nat /\ last \in Nat
        /\ r.base_id \in Nat /\ r.item_count \in Nat
    BY CapacityAssumption, WidthAssumption DEF Ring, SizeT
  <1>2. ReadEnd(r, amount, last) \in 0 .. r.item_count
    BY <1>1 DEF ReadEnd, Follows, SubtractWithRollover, Smaller
  <1> QED
    BY <1>1, <1>2 DEF ReadStart

LEMMA GetSound ==
  ASSUME NEW r \in Ring, WellFormed(r), NEW amount \in SizeT, NEW last \in SizeT,
         NEW continous \in BOOLEAN
  PROVE  Get(r, amount, last, continous) \in
           [thrown : BOOLEAN, target : Seq(Data), last_value : SizeT]
  <1> DEFINE end == ReadEnd(r, amount, last)
             start == ReadStart(r, amount, last, continous)
             stop == IF continous THEN end ELSE Smaller(end, amount)
             next == SubtractWithRollover(r.base_id, start, MaxSizeT)
  <1>1. /\ N \in Nat /\ Modulus \in Nat /\ N < Modulus
        /\ amount \in Nat /\ r.item_count \in 0 .. N
        /\ r.base_id \in 0 .. Modulus - 1
    BY CapacityAssumption, WidthAssumption DEF Ring, SizeT
  <1>2. end \in 0 .. r.item_count /\ start \in 0 .. r.item_count
    BY ReadBounds
  <1> HIDE DEF end, start
  <1>3. stop \in Nat /\ stop <= r.item_count
    BY <1>1, <1>2 DEF Smaller
  <1>4. next \in SizeT
    BY <1>1, <1>2 DEF SubtractWithRollover, MaxSizeT, SizeT
  <1>5. ~(stop <= start) => GetRange(r, start, stop) \in Seq(Data)
    BY <1>1, <1>2, <1>3, GetRangeSound, SMTT(30)
  <1>6. << >> \in Seq(Data)
    OBVIOUS
  <1>7. r.base_id \in SizeT
    BY DEF Ring
  <1> HIDE DEF stop, next
  <1> QED
    BY <1>4, <1>5, <1>6, <1>7 DEF Get, end, start, stop, next

LEMMA ResizedSound ==
  ASSUME NEW target \in Seq(Data), NEW allocated \in Nat
  PROVE  Resized(target, allocated) \in Seq(Data)
  <1>1. Default \in Data /\ Len(target) \in Nat
    BY DEF Data
  <1>2. \A k \in 1 .. Len(target) :
          (IF k <= allocated THEN target[k] ELSE Default) \in Data
    BY <1>1
  <1> QED
    BY <1>1, <1>2 DEF Resized

LEMMA OutcomeSound ==
  ASSUME NEW r \in Ring, WellFormed(r), NEW q \in RequestType, NEW last \in SizeT
  PROVE  Outcome(r, q, last) \in
           [thrown : BOOLEAN, target : Seq(Data), last_value : SizeT]
  <1>1. /\ q.amount \in SizeT /\ q.exactly \in BOOLEAN
        /\ q.continous \in BOOLEAN /\ q.raw \in BOOLEAN
    BY DEF RequestType
  <1> DEFINE allocated == Smaller(q.amount, r.item_count)
             Kind == [thrown : BOOLEAN, target : Seq(Data), last_value : SizeT]
  <1>2. allocated \in SizeT /\ allocated \in Nat
    BY <1>1, CapacityAssumption, WidthAssumption DEF Smaller, Ring, SizeT
  <1> HIDE DEF allocated
  <1>3. CASE q.raw
    <2>1. Get(r, q.amount, last, q.continous) \in Kind
      BY <1>1, GetSound
    <2> QED
      BY <1>3, <2>1 DEF Outcome
  <1>4. CASE ~q.raw
    <2> DEFINE read == Get(r, allocated, last, q.continous)
    <2>1. read \in Kind
      BY <1>1, <1>2, GetSound
    <2>2. Resized(read.target, allocated) \in Seq(Data)
      BY <1>2, <2>1, ResizedSound
    <2> DEFINE result == [thrown |-> read.thrown,
                         target |-> Resized(read.target, allocated),
                         last_value |-> read.last_value]
    <2>3. result \in Kind
      <3> HIDE DEF read
      <3> QED
        BY <2>1, <2>2
    <2>4. [thrown |-> FALSE, target |-> << >>, last_value |-> last] \in Kind
      OBVIOUS
    <2>5. Outcome(r, q, last) = GetVector(r, q.amount, last, q.exactly, q.continous)
      BY <1>4 DEF Outcome
    <2>6. GetVector(r, q.amount, last, q.exactly, q.continous) \in
            {[thrown |-> FALSE, target |-> << >>, last_value |-> last],
             result}
      BY DEF GetVector, allocated
    <2> HIDE DEF Kind, read, result
    <2>7. Outcome(r, q, last) \in Kind
      BY ONLY <2>3, <2>4, <2>5, <2>6
    <2> QED
      BY <2>7 DEF Kind
  <1> QED
    BY <1>3, <1>4

-----------------------------------------------------------------------------
(* TypeOK is not inductive: that add() writes to an index the vector has,  *)
(* and that a read returns elements at all, needs the array and the        *)
(* counters to agree.                                                      *)
IInv == TypeOK /\ RingInv

LEMMA InitSound == Init => IInv
  <1> SUFFICES ASSUME Init PROVE IInv
    OBVIOUS
  <1>1. /\ ring \in [Buffers -> {Fresh(TRUE), Fresh(FALSE)}]
        /\ last_value = [c \in Readers |-> 0]
        /\ answer = [c \in Readers |-> [thrown |-> FALSE, target |-> << >>]]
    BY DEF Init
  <1>2. \A b \in Buffers : ring[b] \in Ring /\ WellFormed(ring[b])
    <2>1. \A b \in Buffers : ring[b] = Fresh(TRUE) \/ ring[b] = Fresh(FALSE)
      BY <1>1
    <2> QED
      BY <2>1, FreshSound
  <1>3. ring \in [Buffers -> Ring]
    BY <1>1, <1>2
  <1>4. 0 \in SizeT
    BY CapacityAssumption, WidthAssumption DEF SizeT
  <1> QED
    BY <1>1, <1>2, <1>3, <1>4 DEF IInv, TypeOK, RingInv, Answer

(* The steps that replace objects and leave the readers alone.             *)
LEMMA RingStepSound ==
  ASSUME IInv, UNCHANGED <<last_value, answer>>,
         ring' \in [Buffers -> Ring], \A b \in Buffers : WellFormed(ring'[b])
  PROVE  IInv'
  BY DEF IInv, TypeOK, RingInv

LEMMA NextSound == IInv /\ [Next]_vars => IInv'
  <1> SUFFICES ASSUME IInv, [Next]_vars PROVE IInv'
    OBVIOUS
  <1>1. /\ ring \in [Buffers -> Ring]
        /\ last_value \in [Readers -> SizeT]
        /\ answer \in [Readers -> Answer]
        /\ \A b \in Buffers : ring[b] \in Ring /\ WellFormed(ring[b])
    BY DEF IInv, TypeOK, RingInv
  <1>2. ASSUME NEW b \in Buffers, NEW preallocate \in BOOLEAN,
               Construct(b, preallocate)
        PROVE  IInv'
    BY <1>1, <1>2, FreshSound, RingStepSound DEF Construct
  <1>3. ASSUME NEW b \in Buffers, NEW v \in Values, Add(b, v)
        PROVE  IInv'
    <2>1. Added(ring[b], v) \in Ring /\ WellFormed(Added(ring[b], v))
      BY <1>1, AddedSound
    <2> QED
      BY <1>1, <1>3, <2>1, RingStepSound DEF Add
  <1>4. ASSUME NEW b \in Buffers, Clear(b)
        PROVE  IInv'
    <2>1. Cleared(ring[b]) \in Ring /\ WellFormed(Cleared(ring[b]))
      BY <1>1, ClearedSound
    <2> QED
      BY <1>1, <1>4, <2>1, RingStepSound DEF Clear
  <1>5. ASSUME NEW b \in Buffers, NEW s \in Buffers, CopyAssign(b, s)
        PROVE  IInv'
    BY <1>1, <1>5, RingStepSound DEF CopyAssign
  <1>6. ASSUME NEW b \in Buffers, NEW s \in Buffers, MoveAssign(b, s)
        PROVE  IInv'
    BY <1>1, <1>6, RingStepSound DEF MoveAssign
  <1>7. ASSUME NEW b \in Buffers, NEW s \in Buffers, MoveConstruct(b, s)
        PROVE  IInv'
    BY <1>1, <1>7, FreshSound, RingStepSound DEF MoveConstruct
  <1>8. ASSUME NEW c \in Readers, NEW b \in Buffers, NEW q \in Requests, Read(c, b, q)
        PROVE  IInv'
    <2> DEFINE out == Outcome(ring[b], q, last_value[c])
    <2>1. q \in RequestType
      BY RequestsAssumption
    <2>2. out \in [thrown : BOOLEAN, target : Seq(Data), last_value : SizeT]
      BY <1>1, <2>1, OutcomeSound
    <2>3. /\ answer' = [answer EXCEPT ![c] =
                          [thrown |-> out.thrown, target |-> out.target]]
          /\ last_value' = [last_value EXCEPT ![c] = out.last_value]
          /\ ring' = ring
      BY <1>8 DEF Read
    <2> HIDE DEF out
    <2>4. [thrown |-> out.thrown, target |-> out.target] \in Answer
      BY <2>2 DEF Answer
    <2>5. out.last_value \in SizeT
      BY <2>2
    <2>6. answer' \in [Readers -> Answer] /\ last_value' \in [Readers -> SizeT]
      BY <1>1, <2>3, <2>4, <2>5
    <2> QED
      BY <1>1, <2>3, <2>6 DEF IInv, TypeOK, RingInv
  <1>9. CASE UNCHANGED vars
    BY <1>9 DEF vars, IInv, TypeOK, RingInv
  <1> QED
    BY <1>2, <1>3, <1>4, <1>5, <1>6, <1>7, <1>8, <1>9 DEF Next

(* Every member of every object keeps its type, and every read hands out   *)
(* elements that were stored and a last_value that fits its type.          *)
THEOREM TypeCorrectness == Spec => []TypeOK
  <1>1. IInv => TypeOK
    BY DEF IInv
  <1> QED
    BY <1>1, InitSound, NextSound, PTL DEF Spec

(* For every capacity, and for every sequence of constructions, adds,      *)
(* clears, copies and moves, the array and the counters agree: add()       *)
(* writes to the slot the counters mean and no counted element lies        *)
(* outside the vector.                                                     *)
THEOREM RingAgrees == Spec => []RingInv
  <1>1. IInv => RingInv
    BY DEF IInv
  <1> QED
    BY <1>1, InitSound, NextSound, PTL DEF Spec

-----------------------------------------------------------------------------
(* The same objects in CircularBufferThreads.                              *)

LEMMA StoredTyped ==
  ASSUME NEW r \in Ring, NEW v \in Values
  PROVE  Stored(r, v) \in Seq(Data)
  <1>1. r.buffer \in Seq(Data) /\ r.current_insert_position \in Nat /\ v \in Data
    BY CapacityAssumption DEF Ring, Data
  <1>2. CASE Len(r.buffer) <= r.current_insert_position
    BY <1>1, <1>2 DEF Stored
  <1>3. CASE ~(Len(r.buffer) <= r.current_insert_position)
    BY <1>1, <1>3 DEF Stored
  <1> QED
    BY <1>2, <1>3

\* Of an object that is torn as well.
LEMMA AddedTyped ==
  ASSUME NEW r \in Ring, NEW v \in Values
  PROVE  Added(r, v) \in Ring
  <1>1. /\ N \in Nat \ {0}
        /\ r.current_insert_position \in 0 .. N - 1
        /\ r.item_count \in 0 .. N
    BY CapacityAssumption DEF Ring
  <1> DEFINE a == Added(r, v)
  <1>2. /\ a = [buffer |-> a.buffer,
                current_insert_position |-> a.current_insert_position,
                item_count |-> a.item_count,
                base_id |-> a.base_id]
        /\ a.buffer = Stored(r, v)
        /\ a.current_insert_position =
             IF r.current_insert_position = N - 1 THEN 0 ELSE r.current_insert_position + 1
        /\ a.item_count = IF r.item_count < N THEN r.item_count + 1 ELSE r.item_count
        /\ a.base_id \in SizeT
    BY AddedMembers
  <1> HIDE DEF a
  <1>3. Stored(r, v) \in Seq(Data)
    BY StoredTyped
  <1>4. a.current_insert_position \in 0 .. N - 1 /\ a.item_count \in 0 .. N
    BY <1>1, <1>2
  <1>5. a \in Ring
    BY <1>2, <1>3, <1>4 DEF Ring
  <1> QED
    BY <1>5 DEF a

LEMMA ClearedTyped ==
  ASSUME NEW r \in Ring
  PROVE  Cleared(r) \in Ring
  BY CapacityAssumption DEF Cleared, Ring

LEMMA CountersTyped ==
  ASSUME NEW r \in Ring, NEW of \in Ring
  PROVE  WithCounters(r, of) \in Ring
  BY DEF WithCounters, Ring

(* The calls, as far as an object can be changed by what they do next.  Of *)
(* a reading call only that it is one is needed.                           *)
RangeCall ==
  [at : {"range"}, buf : Buffers, left : Seq(Values) \ {<< >>}, values : Seq(Values),
   disturbed : BOOLEAN]
VectorCall ==
  [at : {"vector"}, buf : Buffers, from : Buffers, kind : {"copy", "move"}, disturbed : BOOLEAN]

Shaped(c) ==
  \/ c = Idle \/ c \in RangeCall \/ c \in VectorCall
  \/ c.at \in Reading /\ "at" \in DOMAIN c

Types == ring \in [Buffers -> Ring] /\ \A t \in Readers : Shaped(call[t])

Assigning(t) == call[t].at = "vector"

\* Its mutex keeps a second assignment from the same source out.
SourcesApart ==
  \A t, u \in Readers : (Assigning(t) /\ Assigning(u) /\ t # u) => call[t].from # call[u].from

\* As long as an assignment is not disturbed, the vectors it has still to copy
\* or swap are those that go with the counters it has copied or swapped.
Pending ==
  \A t \in Readers :
    (Assigning(t) /\ ~call[t].disturbed)
      => LET d == ring[call[t].buf]
             s == ring[call[t].from]
         IN  /\ WellFormed(WithCounters(s, d))
             /\ call[t].kind = "move" => WellFormed(WithCounters(d, s))
             /\ call[t].kind = "copy" => call[t].buf # call[t].from /\ WithCounters(s, d) = s

TInv == Types /\ SourcesApart /\ Pending /\ ObjectsWhole

\* What is left of the calls when one goes on and others are disturbed.
LEMMA GoesKeeps ==
  ASSUME Types, NEW t \in Readers, NEW mine, NEW upset,
         Shaped(mine), Goes(t, mine, upset)
  PROVE  /\ call'[t] = mine
         /\ \A u \in Readers : Shaped(call'[u])
         /\ \A u \in Readers \ {t} :
              /\ Assigning(u)' => Assigning(u)
              /\ Assigning(u) =>
                   /\ Assigning(u)'
                   /\ call'[u].buf = call[u].buf /\ call'[u].from = call[u].from
                   /\ call'[u].kind = call[u].kind
                   /\ ~call'[u].disturbed => ~call[u].disturbed /\ u \notin upset
  <1>1. /\ call'[t] = mine
        /\ \A u \in Readers \ {t} :
             call'[u] = call[u] \/ call'[u] = [call[u] EXCEPT !.disturbed = TRUE]
    BY DEF Goes
  <1>2. ASSUME NEW u \in Readers \ {t}
        PROVE  /\ Shaped(call'[u])
               /\ Assigning(u)' => Assigning(u)
               /\ Assigning(u) =>
                   /\ Assigning(u)'
                   /\ call'[u].buf = call[u].buf /\ call'[u].from = call[u].from
                   /\ call'[u].kind = call[u].kind
                   /\ ~call'[u].disturbed => ~call[u].disturbed /\ u \notin upset
    <2> DEFINE c == call[u]
    <2>1. call'[u] = IF u \in upset THEN [c EXCEPT !.disturbed = TRUE] ELSE c
      BY DEF Goes
    <2>2. Shaped(c)
      BY DEF Types
    <2>3. CASE c = Idle
      <3>1. [c EXCEPT !.disturbed = TRUE] = c
        BY <2>3 DEF Idle
      <3> QED
        BY <2>1, <2>2, <2>3, <3>1 DEF Assigning, Idle
    <2>4. CASE c \in RangeCall
      <3>1. [c EXCEPT !.disturbed = TRUE] \in RangeCall
        BY <2>4 DEF RangeCall
      <3> QED
        BY <2>1, <2>4, <3>1 DEF Shaped, Assigning, RangeCall
    <2>5. CASE c \in VectorCall
      <3>1. /\ [c EXCEPT !.disturbed = TRUE] \in VectorCall
            /\ [c EXCEPT !.disturbed = TRUE].disturbed
            /\ [c EXCEPT !.disturbed = TRUE].buf = c.buf
            /\ [c EXCEPT !.disturbed = TRUE].from = c.from
            /\ [c EXCEPT !.disturbed = TRUE].kind = c.kind
        BY <2>5 DEF VectorCall
      <3>2. c.at = "vector" /\ [c EXCEPT !.disturbed = TRUE].at = "vector"
        BY <2>5 DEF VectorCall
      <3>3. CASE u \in upset
        BY <2>1, <3>1, <3>2, <3>3 DEF Shaped, Assigning
      <3>4. CASE u \notin upset
        BY <2>1, <2>5, <3>2, <3>4 DEF Shaped, Assigning
      <3> QED
        BY <3>3, <3>4
    <2>6. CASE c.at \in Reading /\ "at" \in DOMAIN c
      <3>1. /\ [c EXCEPT !.disturbed = TRUE].at \in Reading
            /\ "at" \in DOMAIN [c EXCEPT !.disturbed = TRUE]
        BY <2>6
      <3>2. "vector" \notin Reading
        BY DEF Reading
      <3> QED
        BY <2>1, <2>6, <3>1, <3>2 DEF Shaped, Assigning
    <2> QED
      BY <2>2, <2>3, <2>4, <2>5, <2>6 DEF Shaped
  <1> QED
    BY <1>1, <1>2

\* A step that begins no assignment, and disturbs every one whose objects it changes.
LEMMA StepSound ==
  ASSUME TInv, NEW t \in Readers, NEW mine, NEW upset,
         Shaped(mine), mine.at # "vector", Goes(t, mine, upset),
         ring' \in [Buffers -> Ring],
         \A u \in Readers \ {t} :
           (Assigning(u) /\ ~call[u].disturbed /\ u \notin upset)
             => ring'[call[u].buf] = ring[call[u].buf] /\ ring'[call[u].from] = ring[call[u].from],
         \A b \in Buffers \ torn' : WellFormed(ring'[b])
  PROVE  TInv'
  <1>1. Types'
    BY GoesKeeps DEF TInv, Types
  <1>2. ~Assigning(t)'
    BY GoesKeeps DEF TInv, Assigning
  <1>3. SourcesApart'
    BY <1>2, GoesKeeps DEF TInv, SourcesApart
  <1>4. Pending'
    <2> SUFFICES ASSUME NEW u \in Readers, Assigning(u)', ~call'[u].disturbed
                 PROVE  LET d == ring'[call'[u].buf]
                            s == ring'[call'[u].from]
                        IN  /\ WellFormed(WithCounters(s, d))
                            /\ call'[u].kind = "move" => WellFormed(WithCounters(d, s))
                            /\ call'[u].kind = "copy" => /\ call'[u].buf # call'[u].from
                                                       /\ WithCounters(s, d) = s
      BY DEF Pending
    <2>1. u # t
      BY <1>2
    <2>2. /\ Assigning(u) /\ ~call[u].disturbed /\ u \notin upset
          /\ call'[u].buf = call[u].buf /\ call'[u].from = call[u].from
          /\ call'[u].kind = call[u].kind
      BY <2>1, GoesKeeps DEF TInv
    <2>3. ring'[call[u].buf] = ring[call[u].buf] /\ ring'[call[u].from] = ring[call[u].from]
      BY <2>1, <2>2
    <2> QED
      BY <2>2, <2>3 DEF TInv, Pending
  <1> QED
    BY <1>1, <1>3, <1>4 DEF TInv, ObjectsWhole

\* What an assignment to an object or from it is disturbed by.
LEMMA DisturbedOrApart ==
  ASSUME TInv, NEW t \in Readers, NEW u \in Readers \ {t}, NEW b \in Buffers, Assigning(u)
  PROVE  /\ ~Locked(b) => call[u].from # b
         /\ u \notin Filling(b) \ {t} => call[u].buf # b
         /\ u \notin Using(b) => call[u].buf # b
         /\ u \notin CopyingFrom(b) => call[u].from # b
         /\ call[u].buf \in Buffers /\ call[u].from \in Buffers
         /\ call[u].kind \in {"copy", "move"} /\ call[u] \in VectorCall
  <1>1. Shaped(call[u]) /\ call[u].at = "vector"
    BY DEF TInv, Types, Assigning
  <1>2. call[u] \in VectorCall
    BY <1>1 DEF Shaped, Idle, RangeCall, Reading
  <1>3. call[u] # Idle /\ call[u].at \notin Reading
    BY <1>1 DEF Idle, Reading
  <1>4. /\ call[u].buf \in Buffers /\ call[u].from \in Buffers
        /\ call[u].kind \in {"copy", "move"}
    BY <1>2 DEF VectorCall
  <1>5. ~Locked(b) => call[u].from # b
    BY <1>1 DEF Locked
  <1>6. u \notin Using(b) => call[u].buf # b
    BY <1>3 DEF Using
  <1>7. u \notin Filling(b) \ {t} => call[u].buf # b
    BY <1>3, <1>6 DEF Filling
  <1>8. u \notin CopyingFrom(b) => call[u].from # b
    BY <1>1 DEF CopyingFrom
  <1> QED
    BY <1>2, <1>4, <1>5, <1>6, <1>7, <1>8

\* A method that changes one object under its mutex.
LEMMA MethodSound ==
  ASSUME TInv, NEW t \in Readers, NEW b \in Buffers, NEW mine, NEW upset, NEW r \in Ring,
         Shaped(mine), mine.at # "vector", Goes(t, mine, upset),
         Filling(b) \ {t} \subseteq upset, ~Locked(b),
         ring' = [ring EXCEPT ![b] = r], WellFormed(ring[b]) => WellFormed(r), torn' = torn
  PROVE  TInv'
  <1>1. ring \in [Buffers -> Ring] /\ \A x \in Buffers \ torn : WellFormed(ring[x])
    BY DEF TInv, Types, ObjectsWhole
  <1>2. ring' \in [Buffers -> Ring]
    BY <1>1
  <1>3. \A x \in Buffers \ torn' : WellFormed(ring'[x])
    BY <1>1
  <1>4. ASSUME NEW u \in Readers \ {t}, Assigning(u), u \notin upset
        PROVE  ring'[call[u].buf] = ring[call[u].buf] /\ ring'[call[u].from] = ring[call[u].from]
    <2>1. call[u].buf # b /\ call[u].from # b
      BY <1>4, DisturbedOrApart
    <2>2. call[u].buf \in Buffers /\ call[u].from \in Buffers
      BY <1>4, DisturbedOrApart
    <2> QED
      BY <1>1, <2>1, <2>2
  <1> QED
    BY <1>2, <1>3, <1>4, StepSound

LEMMA IdleShaped == Shaped(Idle) /\ Idle.at # "vector"
  BY DEF Shaped, Idle

LEMMA AddOneSound ==
  ASSUME TInv, NEW t \in Readers, NEW b \in Buffers, NEW v \in Values, AddOne(t, b, v)
  PROVE  TInv'
  <1>1. ring[b] \in Ring
    BY DEF TInv, Types
  <1>2. Added(ring[b], v) \in Ring /\ (WellFormed(ring[b]) => WellFormed(Added(ring[b], v)))
    BY <1>1, AddedTyped, AddedSound
  <1>3. /\ ~Locked(b) /\ Goes(t, Idle, Filling(b)) /\ torn' = torn
        /\ ring' = [ring EXCEPT ![b] = Added(ring[b], v)]
    BY DEF AddOne
  <1>4. Filling(b) \ {t} \subseteq Filling(b)
    OBVIOUS
  <1> QED
    BY <1>2, <1>3, <1>4, IdleShaped, MethodSound

LEMMA ClearAllSound ==
  ASSUME TInv, NEW t \in Readers, NEW b \in Buffers, ClearAll(t, b)
  PROVE  TInv'
  <1>1. ring[b] \in Ring
    BY DEF TInv, Types
  <1>2. Cleared(ring[b]) \in Ring /\ (WellFormed(ring[b]) => WellFormed(Cleared(ring[b])))
    BY <1>1, ClearedTyped, ClearedSound
  <1>3. /\ ~Locked(b) /\ Goes(t, Idle, Using(b)) /\ torn' = torn
        /\ ring' = [ring EXCEPT ![b] = Cleared(ring[b])]
    BY DEF ClearAll
  <1>4. Filling(b) \ {t} \subseteq Using(b)
    BY DEF Filling
  <1> QED
    BY <1>2, <1>3, <1>4, IdleShaped, MethodSound

LEMMA TailNotEmpty ==
  ASSUME NEW S, NEW q \in Seq(S), q # << >>, Len(q) # 1
  PROVE  Tail(q) # << >>
  <1>1. Len(q) \in Nat /\ Len(q) # 0
    OBVIOUS
  <1>2. Len(Tail(q)) = Len(q) - 1
    BY <1>1
  <1>3. Len(Tail(q)) # 0
    BY <1>1, <1>2
  <1>4. Len(<< >>) = 0
    OBVIOUS
  <1> QED
    BY <1>3, <1>4, Zenon

LEMMA AddNextSound ==
  ASSUME TInv, NEW t \in Readers, AddNext(t)
  PROVE  TInv'
  <1> DEFINE c == call[t]
  <1>1. c \in RangeCall
    BY DEF AddNext, TInv, Types, Shaped, Idle, VectorCall, Reading
  <1>2. c.buf \in Buffers /\ c.left \in Seq(Values) /\ c.left # << >>
    BY <1>1 DEF RangeCall
  <1>3. Head(c.left) \in Values /\ Tail(c.left) \in Seq(Values) /\ Len(c.left) \in Nat
    BY <1>2
  <1> DEFINE mine == IF Len(c.left) = 1 THEN Idle ELSE [c EXCEPT !.left = Tail(c.left)]
             r == Added(ring[c.buf], Head(c.left))
  <1>4. /\ ~Locked(c.buf) /\ Goes(t, mine, Filling(c.buf) \ {t}) /\ torn' = torn
        /\ ring' = [ring EXCEPT ![c.buf] = r]
    BY DEF AddNext
  <1>5. ring[c.buf] \in Ring
    BY <1>2 DEF TInv, Types
  <1>6. r \in Ring /\ (WellFormed(ring[c.buf]) => WellFormed(r))
    BY <1>3, <1>5, AddedTyped, AddedSound
  <1>7. Shaped(mine) /\ mine.at # "vector"
    <2>1. CASE Len(c.left) = 1
      BY <2>1, IdleShaped
    <2>2. CASE Len(c.left) # 1
      <3>1. Tail(c.left) # << >>
        BY <1>2, <2>2, TailNotEmpty
      <3>2. mine = [c EXCEPT !.left = Tail(c.left)]
        BY <2>2
      <3>3. mine \in RangeCall /\ mine.at = "range"
        BY <1>1, <1>3, <3>1, <3>2 DEF RangeCall
      <3> QED
        BY <3>3 DEF Shaped
    <2> QED
      BY <2>1, <2>2
  <1> HIDE DEF mine, r, c
  <1> QED
    BY <1>2, <1>4, <1>6, <1>7, MethodSound

\* A step that changes no object and disturbs nobody.
LEMMA QuietSound ==
  ASSUME TInv, NEW t \in Readers, NEW mine,
         Shaped(mine), mine.at # "vector", Goes(t, mine, {}), UNCHANGED <<ring, torn>>
  PROVE  TInv'
  <1>1. ring' \in [Buffers -> Ring] /\ \A b \in Buffers \ torn' : WellFormed(ring'[b])
    BY DEF TInv, Types, ObjectsWhole
  <1> QED
    BY <1>1, StepSound

\* A reading call that goes on is one.
LEMMA StillReading ==
  ASSUME NEW c, "at" \in DOMAIN c, NEW state \in Reading, NEW x, NEW y
  PROVE  /\ [c EXCEPT !.at = state].at = state
         /\ "at" \in DOMAIN [c EXCEPT !.at = state]
         /\ [c EXCEPT !.at = state, !.base = x].at = state
         /\ "at" \in DOMAIN [c EXCEPT !.at = state, !.base = x]
         /\ [c EXCEPT !.at = state, !.count = x].at = state
         /\ "at" \in DOMAIN [c EXCEPT !.at = state, !.count = x]
         /\ [c EXCEPT !.at = state, !.amount = x].at = state
         /\ "at" \in DOMAIN [c EXCEPT !.at = state, !.amount = x]
         /\ [c EXCEPT !.at = state, !.base = x, !.count = y].at = state
         /\ "at" \in DOMAIN [c EXCEPT !.at = state, !.base = x, !.count = y]
  OBVIOUS

LEMMA ReadingStepSound ==
  ASSUME TInv, NEW t \in Readers, ReadCounter(t) \/ Compare(t) \/ Shrink(t) \/ GetElements(t)
  PROVE  TInv'
  <1> DEFINE c == call[t]
  <1>1. c.at \in Reading /\ "at" \in DOMAIN c /\ UNCHANGED <<ring, torn>>
    <2>1. c.at \in {"available", "count", "base", "compare", "shrink", "get"}
      BY DEF ReadCounter, Compare, Shrink, GetElements
    <2>2. UNCHANGED <<ring, torn>>
      BY DEF ReadCounter, Compare, Shrink, GetElements
    <2>3. Shaped(c)
      BY DEF TInv, Types
    <2> QED
      BY <2>1, <2>2, <2>3 DEF Shaped, Idle, RangeCall, VectorCall, Reading
  <1>2. PICK mine : Goes(t, mine, {}) /\ (mine = Idle \/ (mine.at \in Reading /\ "at" \in DOMAIN mine))
    <2> DEFINE r == ring[c.buf]
               m1 == [c EXCEPT !.at = "count", !.base = r.base_id]
               m2 == [c EXCEPT !.at = "base", !.count = r.item_count]
               m3 == [c EXCEPT !.at = "compare", !.base = 0, !.count = 0]
               m4 == [c EXCEPT !.at = "get", !.amount = r.item_count]
    <2>m. /\ m1.at \in Reading /\ "at" \in DOMAIN m1 /\ m2.at \in Reading /\ "at" \in DOMAIN m2
          /\ m3.at \in Reading /\ "at" \in DOMAIN m3 /\ m4.at \in Reading /\ "at" \in DOMAIN m4
      <3>1. {"count", "base", "compare", "get"} \subseteq Reading
        BY DEF Reading
      <3> QED
        BY <1>1, <3>1, StillReading
    <2>1. CASE ReadCounter(t)
      <3>1. \/ Goes(t, m1, {}) \/ Goes(t, m2, {}) \/ Goes(t, m3, {}) \/ Goes(t, Idle, {})
        <4>1. \/ Goes(t, m1, {}) \/ Goes(t, m2, {})
              \/ Decide(t, c.base, r.item_count) \/ Decide(t, r.base_id, c.count)
          BY <2>1 DEF ReadCounter
        <4> QED
          BY <4>1 DEF Decide, Return
      <3> HIDE DEF m1, m2, m3
      <3> QED
        BY <2>m, <3>1
    <2>2. CASE Compare(t)
      BY <2>2, <1>1 DEF Compare, Reading
    <2>3. CASE Shrink(t)
      <3>1. Goes(t, m4, {})
        BY <2>3 DEF Shrink
      <3> HIDE DEF m4
      <3> QED
        BY <2>m, <3>1
    <2>4. CASE GetElements(t)
      BY <2>4 DEF GetElements, Return
    <2> QED
      BY <2>1, <2>2, <2>3, <2>4
  <1>3. Shaped(mine) /\ mine.at # "vector"
    BY <1>2, IdleShaped DEF Shaped, Reading
  <1> QED
    BY <1>1, <1>2, <1>3, QuietSound

LEMMA BeginSound ==
  ASSUME TInv, NEW t \in Readers, NEW b \in Buffers,
         \/ \E q \in Requests : BeginGetVector(t, b, q)
         \/ \E values \in Ranges : BeginRange(t, b, values)
  PROVE  TInv'
  <1>1. UNCHANGED <<ring, torn>>
    BY DEF BeginGetVector, BeginRange
  <1>2. ASSUME NEW q \in Requests, BeginGetVector(t, b, q)
        PROVE  TInv'
    <2>1. PICK mine : Goes(t, mine, {}) /\ mine.at \in Reading /\ "at" \in DOMAIN mine
      BY <1>2 DEF BeginGetVector, Reading
    <2>2. Shaped(mine) /\ mine.at # "vector"
      BY <2>1 DEF Shaped, Reading
    <2> QED
      BY <1>1, <2>1, <2>2, QuietSound
  <1>3. ASSUME NEW values \in Ranges, BeginRange(t, b, values)
        PROVE  TInv'
    <2> DEFINE mine == [at |-> "range", buf |-> b, left |-> values, values |-> values,
                        disturbed |-> FALSE]
    <2>1. values \in Seq(Values) \ {<< >>}
      BY ThreadsAssumption
    <2>2. mine \in RangeCall /\ mine.at = "range"
      BY <2>1 DEF RangeCall
    <2>3. Goes(t, mine, {})
      BY <1>3 DEF BeginRange
    <2>4. Shaped(mine)
      BY <2>2 DEF Shaped
    <2> HIDE DEF mine
    <2> QED
      BY <1>1, <2>2, <2>3, <2>4, QuietSound
  <1> QED
    BY <1>2, <1>3

LEMMA CopyFailsSound ==
  ASSUME TInv, NEW t \in Readers, CopyFails(t)
  PROVE  TInv'
  <1>1. Goes(t, Idle, {}) /\ UNCHANGED <<ring, torn>>
    BY DEF CopyFails
  <1> QED
    BY <1>1, IdleShaped, QuietSound

LEMMA ReplaceSound ==
  ASSUME TInv, NEW t \in Readers, NEW d \in Buffers, NEW s \in Buffers, Replace(t, d, s)
  PROVE  TInv'
  <1>1. /\ ~Locked(s) /\ Using(d) = {} /\ CopyingFrom(d) = {} /\ d # s
        /\ ring' = [ring EXCEPT ![d] = ring[s], ![s] = Fresh(FALSE)]
        /\ torn' = IF s \in torn THEN (torn \cup {d}) \ {s} ELSE torn \ {d}
        /\ Goes(t, Idle, Using(s))
    BY DEF Replace, MoveConstruct
  <1>2. ring \in [Buffers -> Ring] /\ \A x \in Buffers \ torn : WellFormed(ring[x])
    BY DEF TInv, Types, ObjectsWhole
  <1>3. Fresh(FALSE) \in Ring /\ WellFormed(Fresh(FALSE))
    BY FreshSound
  <1>4. ring' \in [Buffers -> Ring]
    BY <1>1, <1>2, <1>3
  <1>5. \A x \in Buffers \ torn' : WellFormed(ring'[x])
    <2> SUFFICES ASSUME NEW x \in Buffers, x \notin torn' PROVE WellFormed(ring'[x])
      OBVIOUS
    <2>1. CASE x = s
      BY <1>1, <1>2, <1>3, <2>1
    <2>2. CASE x = d
      BY <1>1, <1>2, <2>2
    <2>3. CASE x # s /\ x # d
      BY <1>1, <1>2, <2>3
    <2> QED
      BY <2>1, <2>2, <2>3
  <1>6. ASSUME NEW u \in Readers \ {t}, Assigning(u), u \notin Using(s)
        PROVE  ring'[call[u].buf] = ring[call[u].buf] /\ ring'[call[u].from] = ring[call[u].from]
    <2>1. call[u].buf # s /\ call[u].from # s
      BY <1>1, <1>6, DisturbedOrApart
    <2>2. call[u].buf # d /\ call[u].from # d
      BY <1>1, <1>6, DisturbedOrApart
    <2>3. call[u].buf \in Buffers /\ call[u].from \in Buffers
      BY <1>6, DisturbedOrApart
    <2> QED
      BY <1>1, <1>2, <2>1, <2>2, <2>3
  <1> QED
    BY <1>1, <1>4, <1>5, <1>6, IdleShaped, StepSound

LEMMA BeginAssignSound ==
  ASSUME TInv, NEW t \in Readers, NEW d \in Buffers, NEW s \in Buffers,
         NEW kind \in {"copy", "move"}, BeginAssign(t, d, s, kind)
  PROVE  TInv'
  <1> DEFINE mine == [at |-> "vector", buf |-> d, from |-> s, kind |-> kind,
                      disturbed |->
                        \/ s \in torn \/ (kind = "move" /\ d \in torn)
                        \/ \E u \in Readers : call[u].at = "vector" /\ d \in Written(call[u].buf, call[u].from, call[u].kind)]
             written == Written(d, s, kind)
             upset == (UNION {Using(b) : b \in written}) \cup CopyingFrom(d)
  <1>1. /\ ~Locked(s) /\ (kind = "copy" => d # s)
        /\ ring' = [ring EXCEPT ![d] = WithCounters(ring[d], ring[s]),
                                ![s] = IF kind = "move" THEN WithCounters(ring[s], ring[d]) ELSE @]
        /\ torn' = torn \cup written
        /\ Goes(t, mine, upset)
    BY DEF BeginAssign
  <1>2. /\ mine \in VectorCall /\ mine.at = "vector" /\ mine.buf = d /\ mine.from = s
        /\ mine.kind = kind
        /\ ~mine.disturbed => s \notin torn /\ (kind = "move" => d \notin torn)
    <2>1. mine.disturbed \in BOOLEAN
      OBVIOUS
    <2> QED
      BY <2>1 DEF VectorCall
  <1> HIDE DEF mine
  <1>3. Shaped(mine)
    BY <1>2 DEF Shaped
  <1>4. /\ ring \in [Buffers -> Ring] /\ ring[d] \in Ring /\ ring[s] \in Ring
        /\ \A x \in Buffers \ torn : WellFormed(ring[x])
    BY DEF TInv, Types, ObjectsWhole
  <1>5. WithCounters(ring[d], ring[s]) \in Ring /\ WithCounters(ring[s], ring[d]) \in Ring
    BY <1>4, CountersTyped
  <1>6. ring' \in [Buffers -> Ring]
    BY <1>1, <1>4, <1>5
  <1>7. /\ d \in written /\ (kind = "move" => s \in written) /\ (s \in written => kind = "move" \/ s = d)
        /\ \A x \in Buffers \ written : ring'[x] = ring[x]
    BY <1>1, <1>4 DEF Written
  <1>8. \A b \in written : Using(b) \subseteq upset
    OBVIOUS
  <1>9. CopyingFrom(d) \subseteq upset
    OBVIOUS
  <1> HIDE DEF written, upset
  <1>10. ASSUME NEW u \in Readers \ {t}, Assigning(u)
         PROVE  /\ call[u].from # s
                /\ u \notin upset => /\ ring'[call[u].buf] = ring[call[u].buf]
                                     /\ ring'[call[u].from] = ring[call[u].from]
    <2>1. call[u].from # s
      BY <1>1, <1>10, DisturbedOrApart
    <2>2. ASSUME u \notin upset
          PROVE  /\ ring'[call[u].buf] = ring[call[u].buf]
                 /\ ring'[call[u].from] = ring[call[u].from]
      <3>1. call[u].buf \in Buffers /\ call[u].from \in Buffers
        BY <1>10, DisturbedOrApart
      <3>2. call[u].buf \notin written
        <4>1. \A b \in Buffers : b \in written => call[u].buf # b
          BY <1>8, <1>10, <2>2, DisturbedOrApart
        <4> QED
          BY <3>1, <4>1
      <3>3. call[u].from # d
        BY <1>9, <1>10, <2>2, DisturbedOrApart
      <3>4. call[u].from \notin written
        BY <2>1, <3>3 DEF written, Written
      <3> QED
        BY <1>7, <3>1, <3>2, <3>4
    <2> QED
      BY <2>1, <2>2
  <1>11. Types'
    BY <1>1, <1>3, <1>6, GoesKeeps DEF TInv, Types
  <1>12. call'[t] = mine
    BY <1>1, <1>3, GoesKeeps DEF TInv
  <1>13. \A u \in Readers \ {t} :
           /\ Assigning(u)' => Assigning(u)
           /\ Assigning(u) =>
                /\ call'[u].buf = call[u].buf /\ call'[u].from = call[u].from
                /\ call'[u].kind = call[u].kind
                /\ ~call'[u].disturbed => ~call[u].disturbed /\ u \notin upset
    BY <1>1, <1>3, GoesKeeps DEF TInv
  <1>14. SourcesApart'
    <2> SUFFICES ASSUME NEW u \in Readers, NEW v \in Readers, Assigning(u)', Assigning(v)', u # v
                 PROVE  call'[u].from # call'[v].from
      BY DEF SourcesApart
    <2>1. CASE u = t
      BY <1>2, <1>10, <1>12, <1>13, <2>1
    <2>2. CASE v = t
      BY <1>2, <1>10, <1>12, <1>13, <2>2
    <2>3. CASE u # t /\ v # t
      BY <1>13, <2>3 DEF TInv, SourcesApart
    <2> QED
      BY <2>1, <2>2, <2>3
  <1>15. Pending'
    <2> SUFFICES ASSUME NEW u \in Readers, Assigning(u)', ~call'[u].disturbed
                 PROVE  LET x == ring'[call'[u].buf]
                            y == ring'[call'[u].from]
                        IN  /\ WellFormed(WithCounters(y, x))
                            /\ call'[u].kind = "move" => WellFormed(WithCounters(x, y))
                            /\ call'[u].kind = "copy" => /\ call'[u].buf # call'[u].from
                                                       /\ WithCounters(y, x) = y
      BY DEF Pending
    <2>1. CASE u = t
      <3>1. s \notin torn /\ (kind = "move" => d \notin torn)
        BY <1>2, <1>12, <2>1
      <3>2. WellFormed(ring[s]) /\ (kind = "move" => WellFormed(ring[d]))
        BY <1>4, <3>1
      <3>3. WithCounters(ring'[s], ring'[d]) = ring[s]
        BY <1>1, <1>4 DEF WithCounters, Ring
      <3>4. kind = "move" => WithCounters(ring'[d], ring'[s]) = ring[d]
        BY <1>1, <1>4 DEF WithCounters, Ring
      <3>5. kind = "copy" => ring'[s] = ring[s]
        BY <1>1, <1>4
      <3> QED
        BY <1>1, <1>2, <1>12, <2>1, <3>2, <3>3, <3>4, <3>5
    <2>2. CASE u # t
      <3>1. /\ Assigning(u) /\ ~call[u].disturbed /\ u \notin upset
            /\ call'[u].buf = call[u].buf /\ call'[u].from = call[u].from
            /\ call'[u].kind = call[u].kind
        BY <1>13, <2>2
      <3>2. ring'[call[u].buf] = ring[call[u].buf] /\ ring'[call[u].from] = ring[call[u].from]
        BY <1>10, <2>2, <3>1
      <3> QED
        BY <3>1, <3>2 DEF TInv, Pending
    <2> QED
      BY <2>1, <2>2
  <1>16. ObjectsWhole'
    BY <1>1, <1>4, <1>7 DEF ObjectsWhole
  <1> QED
    BY <1>11, <1>14, <1>15, <1>16 DEF TInv

LEMMA FinishAssignSound ==
  ASSUME TInv, NEW t \in Readers, FinishAssign(t)
  PROVE  TInv'
  <1> DEFINE c == call[t]
             d == c.buf
             s == c.from
             written == Written(d, s, c.kind)
             upset == ((UNION {Using(b) : b \in written}) \cup CopyingFrom(d)) \ {t}
  <1>1. /\ c.at = "vector"
        /\ ring' = [ring EXCEPT ![d].buffer = ring[s].buffer,
                                ![s].buffer = IF c.kind = "move" THEN ring[d].buffer ELSE @]
        /\ torn' = IF c.disturbed THEN torn \cup written ELSE torn \ written
        /\ Goes(t, Idle, upset)
    BY DEF FinishAssign
  <1>2. c \in VectorCall
    BY <1>1 DEF TInv, Types, Shaped, Idle, RangeCall, Reading
  <1>3. d \in Buffers /\ s \in Buffers /\ c.kind \in {"copy", "move"}
    BY <1>2 DEF VectorCall
  <1>4. /\ ring \in [Buffers -> Ring] /\ ring[d] \in Ring /\ ring[s] \in Ring
        /\ \A x \in Buffers \ torn : WellFormed(ring[x])
    BY <1>3 DEF TInv, Types, ObjectsWhole
  <1>5. /\ [ring[d] EXCEPT !.buffer = ring[s].buffer] = WithCounters(ring[s], ring[d])
        /\ [ring[s] EXCEPT !.buffer = ring[d].buffer] = WithCounters(ring[d], ring[s])
    BY DEF WithCounters
  <1>6. WithCounters(ring[d], ring[s]) \in Ring /\ WithCounters(ring[s], ring[d]) \in Ring
    BY <1>4, CountersTyped
  <1>7. /\ d # s => ring'[d] = WithCounters(ring[s], ring[d])
        /\ d # s => ring'[s] = IF c.kind = "move" THEN WithCounters(ring[d], ring[s]) ELSE ring[s]
        /\ d = s => ring'[s] = ring[s]
        /\ \A x \in Buffers : x # d /\ x # s => ring'[x] = ring[x]
    <2>1. CASE d # s
      <3>1. ring'[d] = [ring[d] EXCEPT !.buffer = ring[s].buffer]
        BY <1>1, <1>3, <1>4, <2>1
      <3>2. c.kind = "move" => ring'[s] = [ring[s] EXCEPT !.buffer = ring[d].buffer]
        BY <1>1, <1>3, <1>4, <2>1, SMTT(30)
      <3>3. c.kind # "move" => ring'[s] = [ring[s] EXCEPT !.buffer = ring[s].buffer]
        BY <1>1, <1>3, <1>4, <2>1, SMTT(30)
      <3>4. [ring[s] EXCEPT !.buffer = ring[s].buffer] = ring[s]
        BY <1>4 DEF Ring
      <3>5. \A x \in Buffers : x # d /\ x # s => ring'[x] = ring[x]
        BY <1>1, <1>4
      <3> QED
        BY <1>5, <2>1, <3>1, <3>2, <3>3, <3>4, <3>5
    <2>2. CASE d = s
      <3>1. ring'[s] = [ring[s] EXCEPT !.buffer = ring[s].buffer]
        BY <1>1, <1>3, <1>4, <2>2, ZenonT(40)
      <3>2. [ring[s] EXCEPT !.buffer = ring[s].buffer] = ring[s]
        BY <1>4 DEF Ring
      <3>3. \A x \in Buffers : x # d /\ x # s => ring'[x] = ring[x]
        BY <1>1, <1>4
      <3> QED
        BY <2>2, <3>1, <3>2, <3>3
    <2> QED
      BY <2>1, <2>2
  <1>8. \A x \in Buffers : ring'[x] \in Ring
    BY <1>4, <1>6, <1>7
  <1>9. ring' \in [Buffers -> Ring]
    BY <1>1, <1>4, <1>8, ZenonT(40)
  <1>10. /\ d \in written /\ (s \in written => c.kind = "move" \/ s = d)
         /\ \A x \in Buffers \ written : ring'[x] = ring[x]
    BY <1>3, <1>7 DEF Written
  <1>11. (\A b \in written : Using(b) \ {t} \subseteq upset) /\ CopyingFrom(d) \ {t} \subseteq upset
    OBVIOUS
  <1>12. \A x \in Buffers \ torn' : WellFormed(ring'[x])
    <2> SUFFICES ASSUME NEW x \in Buffers, x \notin torn' PROVE WellFormed(ring'[x])
      OBVIOUS
    <2>1. CASE x \notin written
      BY <1>1, <1>4, <1>10, <2>1, ZenonT(40)
    <2>2. CASE x \in written
      <3>1. ~c.disturbed
        BY <1>1, <2>2
      <3>2. /\ WellFormed(WithCounters(ring[s], ring[d]))
            /\ c.kind = "move" => WellFormed(WithCounters(ring[d], ring[s]))
            /\ c.kind = "copy" => d # s
        BY <1>1, <3>1 DEF TInv, Pending, Assigning
      <3>3. CASE d # s
        <4>1. x = d \/ (x = s /\ c.kind = "move")
          BY <2>2 DEF Written
        <4> QED
          BY <1>7, <3>2, <3>3, <4>1
      <3>4. CASE d = s
        <4>1. x = d
          BY <2>2, <3>4 DEF Written
        <4>2. WithCounters(ring[s], ring[d]) = ring[d]
          BY <1>4, <3>4 DEF WithCounters, Ring
        <4> QED
          BY <1>7, <3>2, <3>4, <4>1, <4>2
      <3> QED
        BY <3>3, <3>4
    <2> QED
      BY <2>1, <2>2
  <1> HIDE DEF upset
  <1>13. ASSUME NEW u \in Readers \ {t}, Assigning(u), u \notin upset
         PROVE  ring'[call[u].buf] = ring[call[u].buf] /\ ring'[call[u].from] = ring[call[u].from]
    <2>1. call[u].buf \in Buffers /\ call[u].from \in Buffers
      BY <1>3, <1>13, DisturbedOrApart
    <2>2. call[u].buf \notin written
      <3>1. \A b \in Buffers : b \in written => call[u].buf # b
        BY <1>11, <1>13, DisturbedOrApart
      <3> QED
        BY <2>1, <3>1
    <2>3. call[u].from # d
      BY <1>3, <1>11, <1>13, DisturbedOrApart
    <2>4. call[u].from # s
      BY <1>1, <1>13 DEF TInv, SourcesApart, Assigning
    <2>5. call[u].from \notin written
      BY <2>3, <2>4 DEF Written
    <2> QED
      BY <1>10, <2>1, <2>2, <2>5
  <1> QED
    BY <1>1, <1>9, <1>12, <1>13, IdleShaped, StepSound, ZenonT(40)

LEMMA ThreadsBegin == InitThreads => TInv
  <1> SUFFICES ASSUME InitThreads PROVE TInv
    OBVIOUS
  <1>1. /\ ring \in [Buffers -> Starts] /\ torn = {}
        /\ \A t \in Readers : call[t] = Idle
    BY DEF InitThreads
  <1>2. Starts \subseteq Ring /\ \A r \in Starts : WellFormed(r)
    BY ThreadsAssumption
  <1>3. Types
    BY <1>1, <1>2, IdleShaped DEF Types
  <1>4. ObjectsWhole
    BY <1>1, <1>2 DEF ObjectsWhole
  <1>5. \A t \in Readers : ~Assigning(t)
    BY <1>1, IdleShaped DEF Assigning
  <1>6. SourcesApart
    BY <1>5 DEF SourcesApart
  <1>7. Pending
    BY <1>5 DEF Pending
  <1> QED
    BY <1>3, <1>4, <1>6, <1>7 DEF TInv

LEMMA ThreadsKeep == TInv /\ [NextThreads]_threadVars => TInv'
  <1> SUFFICES ASSUME TInv, [NextThreads]_threadVars PROVE TInv'
    OBVIOUS
  <1>1. CASE UNCHANGED threadVars
    BY <1>1 DEF TInv, Types, SourcesApart, Pending, ObjectsWhole, Assigning, threadVars
  <1>2. ASSUME NEW t \in Readers, NEW b \in Buffers, NEW v \in Values, AddOne(t, b, v)
        PROVE  TInv'
    BY <1>2, AddOneSound
  <1>3. ASSUME NEW t \in Readers, NEW b \in Buffers,
               \/ \E values \in Ranges : BeginRange(t, b, values)
               \/ \E q \in Requests : BeginGetVector(t, b, q)
        PROVE  TInv'
    BY <1>3, BeginSound
  <1>4. ASSUME NEW t \in Readers, NEW b \in Buffers, ClearAll(t, b)
        PROVE  TInv'
    BY <1>4, ClearAllSound
  <1>5. ASSUME NEW t \in Readers, NEW b \in Buffers, NEW s \in Buffers,
               NEW kind \in {"copy", "move"}, BeginAssign(t, b, s, kind)
        PROVE  TInv'
    BY <1>5, BeginAssignSound
  <1>6. ASSUME NEW t \in Readers, NEW b \in Buffers, NEW s \in Buffers, Replace(t, b, s)
        PROVE  TInv'
    BY <1>6, ReplaceSound
  <1>7. ASSUME NEW t \in Readers, AddNext(t)
        PROVE  TInv'
    BY <1>7, AddNextSound
  <1>8. ASSUME NEW t \in Readers, ReadCounter(t) \/ Compare(t) \/ Shrink(t) \/ GetElements(t)
        PROVE  TInv'
    BY <1>8, ReadingStepSound
  <1>9. ASSUME NEW t \in Readers, FinishAssign(t)
        PROVE  TInv'
    BY <1>9, FinishAssignSound
  <1>10. ASSUME NEW t \in Readers, CopyFails(t)
         PROVE  TInv'
    BY <1>10, CopyFailsSound
  <1> QED
    BY <1>1, <1>2, <1>3, <1>4, <1>5, <1>6, <1>7, <1>8, <1>9, <1>10 DEF NextThreads

(* However many threads use however many objects at the same time: array   *)
(* and counters of an object agree, but for the target of an assignment    *)
(* that is not done, was disturbed or has thrown.                          *)
THEOREM ObjectsStayWhole == SpecThreads => []ObjectsWhole
  <1>1. TInv => ObjectsWhole
    BY DEF TInv
  <1> QED
    BY <1>1, ThreadsBegin, ThreadsKeep, PTL DEF SpecThreads

(* However many threads use however many objects: a copy that is not       *)
(* disturbed is its source as it was at one moment.                        *)
THEOREM CopiesAreSnapshots == SpecThreads => CopyIsSnapshot
  <1>1. ASSUME TInv, NEW t \in Readers, FinishAssign(t), call[t].kind = "copy",
               call[t].buf \notin torn'
        PROVE  ring'[call[t].buf] = ring'[call[t].from]
    <2> DEFINE d == call[t].buf
               s == call[t].from
    <2>1. /\ call[t].at = "vector"
          /\ ring' = [ring EXCEPT ![d].buffer = ring[s].buffer,
                                  ![s].buffer = IF call[t].kind = "move" THEN ring[d].buffer ELSE @]
          /\ torn' = IF call[t].disturbed THEN torn \cup Written(d, s, call[t].kind)
                     ELSE torn \ Written(d, s, call[t].kind)
      BY <1>1 DEF FinishAssign
    <2>2. ~call[t].disturbed
      BY <1>1, <2>1 DEF Written
    <2>3. d # s /\ WithCounters(ring[s], ring[d]) = ring[s]
      BY <1>1, <2>1, <2>2 DEF TInv, Pending, Assigning
    <2>4. call[t] \in VectorCall
      BY <1>1, <2>1 DEF TInv, Types, Shaped, Idle, RangeCall, Reading
    <2>5. /\ ring \in [Buffers -> Ring] /\ d \in Buffers /\ s \in Buffers
          /\ ring[d] \in Ring /\ ring[s] \in Ring
      BY <1>1, <2>4 DEF TInv, Types, VectorCall
    <2>6. ring'[d] = [ring[d] EXCEPT !.buffer = ring[s].buffer]
      BY <2>1, <2>3, <2>5
    <2>7. ring'[s] = [ring[s] EXCEPT !.buffer = ring[s].buffer]
      BY <1>1, <2>1, <2>3, <2>5, SMTT(30)
    <2>8. ring'[d] = WithCounters(ring[s], ring[d]) /\ ring'[s] = ring[s]
      BY <2>5, <2>6, <2>7 DEF WithCounters, Ring
    <2> QED
      BY <2>3, <2>8
  <1>2. TInv /\ [NextThreads]_threadVars
          => [\A t \in Readers :
                LET c == call[t]
                IN  (FinishAssign(t) /\ c.kind = "copy" /\ c.buf \notin torn')
                      => ring'[c.buf] = ring'[c.from]]_threadVars
    BY <1>1
  <1> QED
    BY <1>2, ThreadsBegin, ThreadsKeep, PTL DEF SpecThreads, CopyIsSnapshot

-----------------------------------------------------------------------------
(***************************************************************************)
(* CircularBuffer implements BoundedLog, for every capacity and every      *)
(* width of size_t, when every continuing read asks for at least the       *)
(* capacity.  A smaller one is equivalent to the log when the range it     *)
(* copies is in one piece; otherwise it is not:                            *)
(* CircularBuffer!TargetNotOverrun is violated.  With several threads, the *)
(* elements of a range stay together, a stream is read without gaps, and   *)
(* a read with `exactly` is given what it asks for or nothing.             *)
(***************************************************************************)

(* A retained element lies inside the array, and not in the slot that the  *)
(* next add overwrites unless it is the oldest of a full buffer.           *)
LEMMA RetainedInBounds ==
  ASSUME NEW r \in Ring, WellFormed(r), NEW pos \in Nat, pos < r.item_count
  PROVE  /\ Offset(r, pos) + 1 \in 1 .. Len(r.buffer)
         /\ pos < N - 1 => Offset(r, pos) # r.current_insert_position
  <1>1. /\ N \in Nat \ {0}
        /\ r.current_insert_position \in 0 .. N - 1
        /\ r.item_count \in 0 .. N
        /\ Len(r.buffer) \in {r.current_insert_position, N}
        /\ r.item_count <= Len(r.buffer)
    BY CapacityAssumption DEF Ring, WellFormed
  <1>2. pos \in 0 .. N - 1
    BY <1>1
  <1>3. /\ Offset(r, pos) \in 0 .. N - 1
        /\ Offset(r, pos) = IF pos < r.current_insert_position
                            THEN r.current_insert_position - 1 - pos
                            ELSE N + r.current_insert_position - 1 - pos
    BY ONLY <1>2, OffsetValue, r \in Ring
  <1>4. CASE pos < r.current_insert_position
    <2>1. Offset(r, pos) = r.current_insert_position - 1 - pos
      BY <1>3, <1>4
    <2> QED
      BY <1>1, <1>2, <1>4, <2>1, SMTT(30)
  <1>5. CASE pos >= r.current_insert_position
    <2>1. Len(r.buffer) = N
      BY <1>1, <1>5
    <2>2. Offset(r, pos) = N + r.current_insert_position - 1 - pos
      BY <1>1, <1>2, <1>3, <1>5
    <2> QED
      BY <1>1, <1>2, <1>3, <1>5, <2>1, <2>2, SMTT(30)
  <1> QED
    BY <1>1, <1>2, <1>4, <1>5

(* The window is a sequence of as many elements as are counted.            *)
LEMMA WindowSound ==
  ASSUME NEW r \in Ring, WellFormed(r)
  PROVE  /\ Window(r) \in Seq(Data)
         /\ Len(Window(r)) = r.item_count
         /\ \A k \in 1 .. r.item_count :
              Window(r)[k] = r.buffer[Offset(r, r.item_count - k) + 1]
  <1>1. r.item_count \in Nat /\ r.buffer \in Seq(Data)
    BY CapacityAssumption DEF Ring
  <1>2. ASSUME NEW k \in 1 .. r.item_count
        PROVE  r.buffer[Offset(r, r.item_count - k) + 1] \in Data
    <2>1. r.item_count - k \in Nat /\ r.item_count - k < r.item_count
      BY <1>1
    <2>2. Offset(r, r.item_count - k) + 1 \in 1 .. Len(r.buffer)
      BY <2>1, RetainedInBounds
    <2> QED
      BY <1>1, <2>2
  <1>3. Window(r) = [k \in 1 .. r.item_count |->
                       r.buffer[Offset(r, r.item_count - k) + 1]]
    BY DEF Window
  <1> QED
    BY <1>1, <1>2, <1>3

(* The elements between `start` and `end` places behind the newest, when   *)
(* the range ends at the newest one or does not cross the end of the       *)
(* array: a piece of the window.                                           *)
LEMMA GetRangePiece ==
  ASSUME NEW r \in Ring, WellFormed(r), NEW start \in Nat, NEW end \in 1 .. r.item_count,
         start < end, start = 0 \/ Offset(r, end - 1) + (end - start) <= N
  PROVE  GetRange(r, start, end) =
           [k \in 1 .. end - start |-> Window(r)[r.item_count - end + k]]
  <1> DEFINE offset == Offset(r, end - 1)
             wraps == end - start > N - offset
             len == IF wraps THEN N - offset ELSE end - start
             len2 == IF wraps THEN end - len ELSE 0
             elt(k) == IF k <= len THEN r.buffer[offset + k] ELSE r.buffer[k - len]
  <1>1. /\ N \in Nat \ {0} /\ end \in Nat /\ end >= 1 /\ start \in Nat
        /\ r.current_insert_position \in 0 .. N - 1
        /\ r.item_count \in 0 .. N /\ end <= r.item_count
    BY CapacityAssumption DEF Ring
  <1>2. GetRange(r, start, end) = [k \in 1 .. len + len2 |-> elt(k)]
    BY DEF GetRange
  <1>3. /\ offset \in 0 .. N - 1
        /\ offset = IF end - 1 < r.current_insert_position
                    THEN r.current_insert_position - 1 - (end - 1)
                    ELSE N + r.current_insert_position - 1 - (end - 1)
    <2>1. end - 1 \in 0 .. N - 1
      BY <1>1
    <2> QED
      BY ONLY <2>1, OffsetValue, r \in Ring
  <1>8. start = 0 \/ ~wraps
    BY <1>1, <1>3
  <1> HIDE DEF offset
  <1>4. len + len2 = end - start
    BY <1>1, <1>3, <1>8
  <1>5. ASSUME NEW k \in 1 .. end - start
        PROVE  elt(k) = Window(r)[r.item_count - end + k]
    <2>1. end - k \in 0 .. N - 1 /\ k \in Nat /\ k >= 1 /\ k <= end
      BY <1>1
    <2>2. Offset(r, end - k) = IF end - k < r.current_insert_position
                               THEN r.current_insert_position - 1 - (end - k)
                               ELSE N + r.current_insert_position - 1 - (end - k)
      BY ONLY <2>1, OffsetValue, r \in Ring
    <2>3. Window(r)[r.item_count - end + k] = r.buffer[Offset(r, end - k) + 1]
      <3>1. /\ r.item_count - end + k \in 1 .. r.item_count
            /\ r.item_count - (r.item_count - end + k) = end - k
        BY <1>1, <2>1
      <3> QED
        BY <3>1, WindowSound
    <2>4. CASE k <= len
      <3>1. offset + k = Offset(r, end - k) + 1
        BY <1>1, <1>3, <1>8, <2>1, <2>2, <2>4
      <3> QED
        BY <2>3, <2>4, <3>1
    <2>5. CASE ~(k <= len)
      <3>1. k - len = Offset(r, end - k) + 1
        BY <1>1, <1>3, <1>8, <2>1, <2>2, <2>5
      <3> QED
        BY <2>3, <2>5, <3>1
    <2> QED
      BY <2>4, <2>5
  <1> HIDE DEF elt, len, len2
  <1> QED
    BY <1>2, <1>4, <1>5

-----------------------------------------------------------------------------
(* Each method that changes an object does to its window and its base_id   *)
(* what the log's operation does.                                          *)

LEMMA EmptyWindow ==
  ASSUME NEW r \in Ring, r.item_count = 0
  PROVE  Window(r) = << >>
  BY DEF Window

LEMMA WindowAdded ==
  ASSUME NEW r \in Ring, WellFormed(r), NEW v \in Values
  PROVE  Window(Added(r, v)) = Log!Kept(Window(r), v)
  <1> DEFINE a == Added(r, v)
             w == Window(r)
             m == r.item_count
             p == r.current_insert_position
  <1>1. /\ N \in Nat \ {0} /\ m \in 0 .. N /\ p \in 0 .. N - 1
        /\ Len(r.buffer) \in {p, N} /\ m <= Len(r.buffer)
    BY CapacityAssumption DEF Ring, WellFormed
  <1>2. a \in Ring /\ WellFormed(a)
    BY AddedSound
  <1>3. /\ a.buffer = Stored(r, v)
        /\ a.item_count = IF m < N THEN m + 1 ELSE m
        /\ a.current_insert_position = IF p = N - 1 THEN 0 ELSE p + 1
    BY AddedMembers
  <1>4. /\ w \in Seq(Data) /\ Len(w) = m
        /\ \A k \in 1 .. m : w[k] = r.buffer[Offset(r, m - k) + 1]
    BY WindowSound
  <1>5. /\ Window(a) \in Seq(Data) /\ Len(Window(a)) = a.item_count
        /\ \A k \in 1 .. a.item_count :
             Window(a)[k] = a.buffer[Offset(a, a.item_count - k) + 1]
    BY <1>2, WindowSound
  <1>6. /\ Stored(r, v)[p + 1] = v
        /\ \A i \in 1 .. Len(r.buffer) : i # p + 1 => Stored(r, v)[i] = r.buffer[i]
    BY StoredSound
  <1> HIDE DEF a, w, m, p
  <1>7. a.buffer[Offset(a, 0) + 1] = v
    <2>1. 0 \in 0 .. N - 1
      BY <1>1
    <2>2. Offset(a, 0) = IF 0 < a.current_insert_position
                         THEN a.current_insert_position - 1 - 0
                         ELSE N + a.current_insert_position - 1 - 0
      BY ONLY <1>2, <2>1, OffsetValue
    <2>3. Offset(a, 0) = p
      BY <1>1, <1>3, <2>2
    <2> QED
      BY <1>3, <1>6, <2>3
  <1>8. ASSUME NEW pos \in Nat, pos < m, pos < N - 1
        PROVE  a.buffer[Offset(a, pos + 1) + 1] = r.buffer[Offset(r, pos) + 1]
    <2>1. pos \in 0 .. N - 1 /\ pos + 1 \in 0 .. N - 1
      BY <1>1, <1>8
    <2>2. Offset(a, pos + 1) = IF pos + 1 < a.current_insert_position
                               THEN a.current_insert_position - 1 - (pos + 1)
                               ELSE N + a.current_insert_position - 1 - (pos + 1)
      BY ONLY <1>2, <2>1, OffsetValue
    <2>3. Offset(r, pos) = IF pos < p THEN p - 1 - pos ELSE N + p - 1 - pos
      BY ONLY <2>1, OffsetValue, r \in Ring DEF p
    <2>4. Offset(a, pos + 1) = Offset(r, pos)
      BY <1>1, <1>3, <2>1, <2>2, <2>3
    <2>5. Offset(r, pos) + 1 \in 1 .. Len(r.buffer) /\ Offset(r, pos) # p
      BY <1>8, RetainedInBounds DEF m, p
    <2>6. Offset(r, pos) + 1 # p + 1
      BY <1>1, <2>1, <2>3, <2>5
    <2> QED
      BY <1>3, <1>6, <2>4, <2>5, <2>6
  <1>9. v \in Data
    BY DEF Data
  <1>10. CASE m < N
    <2>1. a.item_count = m + 1
      BY <1>3, <1>10
    <2>2. ASSUME NEW k \in 1 .. m + 1
          PROVE  Window(a)[k] = Append(w, v)[k]
      <3>1. Window(a)[k] = a.buffer[Offset(a, m + 1 - k) + 1]
        <4>1. k \in 1 .. a.item_count
          BY <2>1
        <4>2. a.item_count - k = m + 1 - k
          BY <1>1, <2>1
        <4>3. Window(a)[k] = a.buffer[Offset(a, a.item_count - k) + 1]
          BY <1>5, <4>1
        <4> QED
          BY <4>2, <4>3
      <3>2. CASE k = m + 1
        <4>1. m + 1 - k = 0
          BY <1>1, <3>2
        <4> QED
          BY <1>1, <1>4, <1>7, <1>9, <3>1, <3>2, <4>1
      <3>3. CASE k \in 1 .. m
        <4>1. m - k \in Nat /\ m - k < m /\ m - k < N - 1 /\ m + 1 - k = (m - k) + 1
          BY <1>1, <1>10, <3>3
        <4>2. Window(a)[k] = r.buffer[Offset(r, m - k) + 1]
          BY <1>8, <3>1, <4>1
        <4> QED
          BY <1>4, <1>9, <3>3, <4>2
      <3>4. k = m + 1 \/ k \in 1 .. m
        BY <1>1
      <3> QED
        BY <3>2, <3>3, <3>4
    <2>3. Append(w, v) \in Seq(Data) /\ Len(Append(w, v)) = m + 1
      BY <1>4, <1>9
    <2>4. Window(a) = Append(w, v)
      BY ONLY <1>5, <2>1, <2>2, <2>3, SeqEqual
    <2> QED
      BY <1>4, <1>10, <2>4 DEF Log!Kept, a, w, m
  <1>11. CASE m = N
    <2>1. a.item_count = N
      BY <1>1, <1>3, <1>11
    <2> DEFINE l == Log!LastOf(w, N - 1)
    <2>2. l = [i \in 1 .. N - 1 |-> w[i + 1]]
      BY <1>1, <1>4, <1>11 DEF Log!LastOf
    <2>3. l \in Seq(Data) /\ Len(l) = N - 1
      <3>1. \A i \in 1 .. N - 1 : w[i + 1] \in Data
        BY <1>1, <1>4, <1>11
      <3>2. N - 1 \in Nat
        BY <1>1
      <3> HIDE DEF l
      <3> QED
        BY <2>2, <3>1, <3>2
    <2> HIDE DEF l
    <2>4. ASSUME NEW k \in 1 .. N
          PROVE  Window(a)[k] = Append(l, v)[k]
      <3>1. Window(a)[k] = a.buffer[Offset(a, N - k) + 1]
        BY <1>5, <2>1
      <3>2. CASE k = N
        <4>1. N - k = 0
          BY <1>1, <3>2
        <4> QED
          BY <1>1, <1>7, <1>9, <2>3, <3>1, <3>2, <4>1
      <3>3. CASE k \in 1 .. N - 1
        <4>1. /\ N - k - 1 \in Nat /\ N - k - 1 < m /\ N - k - 1 < N - 1
              /\ N - k = (N - k - 1) + 1
          BY <1>1, <1>11, <3>3
        <4>2. Window(a)[k] = r.buffer[Offset(r, N - k - 1) + 1]
          BY <1>8, <3>1, <4>1
        <4>3. w[k + 1] = r.buffer[Offset(r, N - k - 1) + 1]
          <5>1. k + 1 \in 1 .. m /\ m - (k + 1) = N - k - 1
            BY <1>1, <1>11, <3>3
          <5> QED
            BY <1>4, <5>1
        <4> QED
          <5>1. l[k] = w[k + 1]
            BY <2>2, <3>3
          <5>2. Append(l, v)[k] = l[k]
            BY <1>1, <1>9, <2>3, <3>3
          <5> QED
            BY <4>2, <4>3, <5>1, <5>2
      <3>4. k = N \/ k \in 1 .. N - 1
        BY <1>1
      <3> QED
        BY <3>2, <3>3, <3>4
    <2>5. Append(l, v) \in Seq(Data) /\ Len(Append(l, v)) = N
      BY <1>1, <1>9, <2>3
    <2>6. Window(a) = Append(l, v)
      BY ONLY <1>5, <2>1, <2>4, <2>5, SeqEqual
    <2> QED
      BY <1>1, <1>4, <1>11, <2>6 DEF Log!Kept, a, l, w, m
  <1> QED
    BY <1>1, <1>10, <1>11

-----------------------------------------------------------------------------
(* Reads.                                                                  *)

(* How many elements the log has for a reader, how many of them a read of  *)
(* `amount` is given, and how many it leaves for the next one.             *)
Available(w, i, last) ==
  IF Log!Known(i, last) THEN Log!Least(i - last, Len(w)) ELSE Len(w)

Taken(w, i, amount, last) == Log!Least(amount, Available(w, i, last))

Left(w, i, amount, last, continous) ==
  IF continous /\ Log!Known(i, last)
  THEN Available(w, i, last) - Taken(w, i, amount, last) ELSE 0

LEMMA TakenBounds ==
  ASSUME NEW w \in Seq(Data), NEW i \in Nat, NEW amount \in Nat, NEW last \in Nat,
         NEW continous
  PROVE  /\ Available(w, i, last) \in 0 .. Len(w)
         /\ Taken(w, i, amount, last) \in 0 .. Available(w, i, last)
         /\ Taken(w, i, amount, last) <= amount
         /\ Left(w, i, amount, last, continous) \in
              0 .. Available(w, i, last) - Taken(w, i, amount, last)
  <1> DEFINE available == Available(w, i, last)
  <1>1. available \in 0 .. Len(w) /\ Len(w) \in Nat
    BY DEF Available, Log!Known, Log!Least
  <1> HIDE DEF available
  <1>2. Log!Least(amount, available) \in 0 .. available /\ Log!Least(amount, available) <= amount
    BY <1>1 DEF Log!Least
  <1> QED
    BY <1>1, <1>2 DEF Taken, Left, available

(* What the log gives a reader, without the intermediate sequences: a      *)
(* piece of the window.                                                    *)
LEMMA GivenValue ==
  ASSUME NEW w \in Seq(Data), NEW i \in Nat, NEW amount \in Nat, NEW last \in Nat,
         NEW continous
  PROVE  LET n == Taken(w, i, amount, last)
             left == Left(w, i, amount, last, continous)
         IN  /\ Log!Given(w, i, amount, last, continous) \in Seq(Data)
             /\ Len(Log!Given(w, i, amount, last, continous)) = n
             /\ \A k \in 1 .. n : Log!Given(w, i, amount, last, continous)[k] =
                                   w[Len(w) - (n + left) + k]
             /\ Log!NextNumber(w, i, amount, last, continous) = i - left
  <1> DEFINE available == Available(w, i, last)
             pending == Log!Pending(w, i, last)
             given == Log!Given(w, i, amount, last, continous)
             n == Taken(w, i, amount, last)
             left == Left(w, i, amount, last, continous)
  <1>1. /\ available \in 0 .. Len(w) /\ Len(w) \in Nat
        /\ n \in 0 .. available /\ left \in 0 .. available - n
    BY TakenBounds
  <1>3. pending = [k \in 1 .. available |-> w[Len(w) - available + k]]
    <2>1. CASE Log!Known(i, last)
      BY <2>1 DEF Available, Log!Pending, Log!LastOf
    <2>2. CASE ~Log!Known(i, last)
      <3>1. pending = w /\ available = Len(w)
        BY <2>2 DEF Available, Log!Pending
      <3>2. w = [k \in 1 .. Len(w) |-> w[k]]
        OBVIOUS
      <3>3. [k \in 1 .. Len(w) |-> w[Len(w) - Len(w) + k]] = [k \in 1 .. Len(w) |-> w[k]]
        BY <1>1
      <3> QED
        BY <3>1, <3>2, <3>3
    <2> QED
      BY <2>1, <2>2
  <1>4. Len(pending) = available
    <2>1. \A k \in 1 .. available : w[Len(w) - available + k] \in Data
      BY <1>1, SMTT(30)
    <2> HIDE DEF pending, available
    <2>2. available \in Nat
      BY <1>1
    <2>3. pending \in Seq(Data)
      BY <1>3, <2>1, <2>2
    <2> QED
      BY <1>3, <2>2, <2>3
  <1>5. n = Log!Least(amount, Len(pending))
    BY <1>4 DEF Taken
  <1>6. left = IF continous /\ Log!Known(i, last) THEN available - n ELSE 0
    BY DEF Left
  <1>7. given = IF continous /\ Log!Known(i, last) THEN Log!FirstOf(pending, n)
                ELSE Log!LastOf(pending, n)
    BY <1>5 DEF Log!Given
  <1> HIDE DEF pending, available, n, left, given
  <1>8. given = [k \in 1 .. n |-> w[Len(w) - (n + left) + k]]
    <2>1. CASE continous /\ Log!Known(i, last)
      <3>1. given = [k \in 1 .. n |-> pending[k]]
        BY <1>7, <2>1 DEF Log!FirstOf
      <3>2. ASSUME NEW k \in 1 .. n
            PROVE  pending[k] = w[Len(w) - (n + left) + k]
        <4>1. k \in 1 .. available /\ n + left = available
          BY <1>1, <1>6, <2>1
        <4> QED
          BY <1>3, <4>1
      <3> QED
        BY <3>1, <3>2
    <2>2. CASE ~(continous /\ Log!Known(i, last))
      <3>1. given = [k \in 1 .. n |-> pending[available - n + k]]
        BY <1>4, <1>7, <2>2 DEF Log!LastOf
      <3>2. ASSUME NEW k \in 1 .. n
            PROVE  pending[available - n + k] = w[Len(w) - (n + left) + k]
        <4>1. /\ available - n + k \in 1 .. available /\ left = 0
              /\ Len(w) - available + (available - n + k) = Len(w) - (n + 0) + k
          BY <1>1, <1>6, <2>2
        <4> QED
          BY <1>3, <4>1
      <3> QED
        BY <3>1, <3>2
    <2> QED
      BY <2>1, <2>2
  <1>9. given \in Seq(Data) /\ Len(given) = n
    <2>1. \A k \in 1 .. n : w[Len(w) - (n + left) + k] \in Data
      BY <1>1
    <2>2. n \in Nat
      BY <1>1
    <2>3. given \in Seq(Data)
      BY <1>8, <2>1, <2>2
    <2> QED
      BY <1>8, <2>2, <2>3
  <1>10. Log!NextNumber(w, i, amount, last, continous) = i - left
    <2>1. CASE continous /\ Log!Known(i, last)
      <3>1. Log!NextNumber(w, i, amount, last, continous) = i - (Len(pending) - Len(given))
        BY <2>1 DEF Log!NextNumber, pending, given
      <3> QED
        BY <1>4, <1>6, <1>9, <2>1, <3>1
    <2>2. CASE ~(continous /\ Log!Known(i, last))
      <3>1. Log!NextNumber(w, i, amount, last, continous) = i
        BY <2>2 DEF Log!NextNumber
      <3> QED
        BY <1>6, <2>2, <3>1
    <2> QED
      BY <2>1, <2>2
  <1> QED
    BY <1>8, <1>9, <1>10 DEF n, left, given

LEMMA GivenCounted ==
  ASSUME NEW w \in Seq(Data), NEW i \in Nat, NEW amount \in Nat, NEW last \in Nat,
         NEW continous
  PROVE  /\ Len(Log!Given(w, i, amount, last, continous)) = Taken(w, i, amount, last)
         /\ Log!NextNumber(w, i, amount, last, continous) =
              i - Left(w, i, amount, last, continous)
  BY GivenValue

(* get() hands out what the log gives, or throws because there is nothing. *)
(* Asked for no element, it returns the newest number.                     *)
LEMMA GetMeaning ==
  ASSUME NEW r \in Ring, WellFormed(r), NEW amount \in Nat, NEW last \in SizeT,
         NEW continous \in BOOLEAN, OnePiece(r, amount, last, continous)
  PROVE  LET w == Window(r)
             nothing == /\ amount > 0 /\ r.item_count = 0
                        /\ ~(Log!Known(r.base_id, last) /\ last = r.base_id)
         IN  Get(r, amount, last, continous) =
               IF nothing
               THEN [thrown |-> TRUE, target |-> << >>, last_value |-> last]
               ELSE [thrown |-> FALSE,
                     target |-> Log!Given(w, r.base_id, amount, last, continous),
                     last_value |-> IF amount = 0 THEN r.base_id ELSE
                       Log!NextNumber(w, r.base_id, amount, last, continous)]
  <1> DEFINE w == Window(r)
             i == r.base_id
             m == r.item_count
             end == ReadEnd(r, amount, last)
             start == ReadStart(r, amount, last, continous)
             stop == IF continous THEN end ELSE Smaller(end, amount)
             idle == amount = 0 \/ (Follows(r, last) /\ last = i)
             available == Available(w, i, last)
             n == Taken(w, i, amount, last)
             left == Left(w, i, amount, last, continous)
             given == Log!Given(w, i, amount, last, continous)
             next == Log!NextNumber(w, i, amount, last, continous)
  <1>1. /\ amount \in Nat /\ last \in Nat /\ i \in Nat /\ m \in Nat
        /\ w \in Seq(Data) /\ Len(w) = m
        /\ Follows(r, last) <=> Log!Known(i, last)
        /\ Follows(r, last) => last <= i /\ 1 <= last
    BY CapacityAssumption, WidthAssumption, WindowSound
    DEF Ring, SizeT, Follows, Log!Known
  <1>2. end = IF Follows(r, last) THEN Smaller(i - last, m) ELSE Smaller(amount, m)
    BY <1>1 DEF ReadEnd, SubtractWithRollover
  <1>3. start = IF continous /\ end > amount THEN end - amount ELSE 0
    BY DEF ReadStart
  <1>4. /\ given \in Seq(Data) /\ Len(given) = n
        /\ \A k \in 1 .. n : given[k] = w[m - (n + left) + k]
        /\ next = i - left
    <2> HIDE DEF w, i, m
    <2>1. /\ w \in Seq(Data) /\ i \in Nat /\ last \in Nat
      BY <1>1
    <2>2. LET nn == Taken(w, i, amount, last)
              ll == Left(w, i, amount, last, continous)
          IN  /\ Log!Given(w, i, amount, last, continous) \in Seq(Data)
              /\ \A k \in 1 .. nn : Log!Given(w, i, amount, last, continous)[k] =
                                     w[Len(w) - (nn + ll) + k]
      BY ONLY <2>1, GivenValue, SMTT(30)
    <2>3. /\ Len(Log!Given(w, i, amount, last, continous)) = Taken(w, i, amount, last)
          /\ Log!NextNumber(w, i, amount, last, continous) =
               i - Left(w, i, amount, last, continous)
      BY ONLY <2>1, GivenCounted
    <2> QED
      BY <1>1, <2>2, <2>3
  <1>10. available \in 0 .. m /\ n \in 0 .. available /\ left \in 0 .. available - n
    <2> HIDE DEF w, i, m
    <2>1. /\ Available(w, i, last) \in 0 .. Len(w)
          /\ Taken(w, i, amount, last) \in 0 .. Available(w, i, last)
          /\ Left(w, i, amount, last, continous) \in
               0 .. Available(w, i, last) - Taken(w, i, amount, last)
      BY ONLY <1>1, TakenBounds
    <2> QED
      BY <1>1, <2>1
  <1>5. Get(r, amount, last, continous) =
          [thrown |-> ~idle /\ stop <= start,
           target |-> IF idle \/ stop <= start THEN << >> ELSE GetRange(r, start, stop),
           last_value |-> IF idle THEN i
                          ELSE IF stop <= start THEN last
                          ELSE SubtractWithRollover(i, start, MaxSizeT)]
    BY DEF Get
  <1>6. /\ available = IF Follows(r, last) THEN Smaller(i - last, m) ELSE m
        /\ n = Smaller(amount, available)
        /\ left = IF continous /\ Follows(r, last) THEN available - n ELSE 0
    BY <1>1 DEF Available, Taken, Left, Smaller, Log!Least
  <1>9. start = 0 \/ Offset(r, end - 1) + (end - start) <= N
    BY DEF OnePiece
  <1> HIDE DEF end, start, w, given, available, n, left, next
  <1>7. CASE idle
    <2>1. n = 0 /\ (amount # 0 => left = 0)
      <3>1. CASE amount = 0
        BY <1>6, <1>10, <3>1 DEF Smaller
      <3>2. CASE Follows(r, last) /\ last = i
        <4>2. available = Smaller(i - last, m) /\ i - last = 0 /\ m \in Nat
          BY <1>1, <1>6, <3>2
        <4> HIDE DEF i, m
        <4>1. available = 0
          BY <4>2 DEF Smaller
        <4> QED
          BY <1>10, <4>1
      <3> QED
        BY <1>7, <3>1, <3>2
    <2>2. given = << >> /\ (amount # 0 => next = i)
      BY <1>1, <1>4, <2>1
    <2>3. ~(/\ amount > 0 /\ m = 0
            /\ ~(Log!Known(i, last) /\ last = i))
      BY <1>1, <1>7
    <2>4. Get(r, amount, last, continous) =
            [thrown |-> FALSE, target |-> << >>, last_value |-> i]
      BY <1>5, <1>7
    <2> QED
      BY <2>2, <2>3, <2>4 DEF given, next, w
  <1>8. CASE ~idle
    <2>1. amount > 0 /\ ~(Follows(r, last) /\ last = i)
      BY <1>1, <1>8
    <2>2. /\ start = left
          /\ stop - start = n
          /\ stop \in 0 .. m
          /\ stop = start <=> m = 0
      <3> DEFINE follows == Follows(r, last)
      <3>0. /\ amount \in Nat /\ last \in Nat /\ i \in Nat /\ m \in Nat /\ amount > 0
            /\ follows => last < i
        BY <1>1, <2>1
      <3>4. end = IF follows THEN Smaller(i - last, m) ELSE Smaller(amount, m)
        BY <1>2
      <3>5. /\ available = IF follows THEN Smaller(i - last, m) ELSE m
            /\ n = Smaller(amount, available)
            /\ left = IF continous /\ follows THEN available - n ELSE 0
        BY <1>6
      <3> HIDE DEF i, m, follows
      <3>1. CASE continous /\ follows
        <4>1. end = available /\ stop = end /\ available = Smaller(i - last, m)
          BY <3>1, <3>4, <3>5
        <4>2. available \in 0 .. m /\ (available = 0 <=> m = 0)
          BY ONLY <3>0, <3>1, <4>1 DEF Smaller
        <4>3. left = available - n /\ n = Smaller(amount, available)
          BY <3>1, <3>5
        <4>4. start = IF end > amount THEN end - amount ELSE 0
          BY <1>3, <3>1
        <4> HIDE DEF stop
        <4> QED
          BY ONLY <3>0, <4>1, <4>2, <4>3, <4>4 DEF Smaller
      <3>2. CASE continous /\ ~follows
        <4>1. /\ end = Smaller(amount, m) /\ stop = end /\ left = 0
              /\ n = Smaller(amount, m)
          BY <3>2, <3>4, <3>5
        <4>2. start = IF end > amount THEN end - amount ELSE 0
          BY <1>3, <3>2
        <4> HIDE DEF stop
        <4> QED
          BY ONLY <3>0, <4>1, <4>2 DEF Smaller
      <3>3. CASE ~continous
        <4>1. start = 0 /\ left = 0 /\ stop = Smaller(end, amount)
          BY <1>3, <3>3, <3>5
        <4> HIDE DEF stop
        <4>2. stop = n /\ n \in 0 .. m /\ (n = 0 <=> m = 0)
          <5>1. CASE follows
            <6>1. end = Smaller(i - last, m) /\ available = end /\ n = Smaller(amount, end)
              BY <3>4, <3>5, <5>1
            <6> QED
              BY ONLY <3>0, <4>1, <5>1, <6>1 DEF Smaller
          <5>2. CASE ~follows
            <6>1. end = Smaller(amount, m) /\ n = Smaller(amount, m)
              BY <3>4, <3>5, <5>2
            <6> QED
              BY ONLY <3>0, <4>1, <6>1 DEF Smaller
          <5> QED
            BY <5>1, <5>2
        <4> QED
          BY ONLY <3>0, <4>1, <4>2
      <3> QED
        BY <3>1, <3>2, <3>3
    <2>6. start > 0 => stop = end
      BY <1>3
    <2> HIDE DEF stop, idle
    <2>4. CASE m = 0
      <3>1. stop <= start
        BY <2>2, <2>4
      <3>2. Get(r, amount, last, continous) =
              [thrown |-> TRUE, target |-> << >>, last_value |-> last]
        BY <1>5, <1>8, <3>1
      <3> QED
        BY <1>1, <2>1, <2>4, <3>2
    <2>5. CASE m # 0
      <3>1. /\ start \in Nat /\ stop \in 1 .. m /\ start < stop /\ ~(stop <= start)
            /\ i - start \in Nat
        <4>1. left \in 0 .. i
          <5>1. CASE Follows(r, last)
            <6>1. available = Smaller(i - last, m)
              BY <1>6, <5>1
            <6>2. i - last \in 0 .. i
              BY <1>1, <5>1
            <6> HIDE DEF i, m
            <6> QED
              BY <1>1, <1>10, <6>1, <6>2 DEF Smaller
          <5>2. CASE ~Follows(r, last)
            BY <1>1, <1>6, <5>2
          <5> QED
            BY <5>1, <5>2
        <4>2. /\ i \in Nat /\ m \in Nat /\ n \in Nat /\ stop # start
          BY <1>1, <1>10, <2>2, <2>5
        <4> HIDE DEF i, m
        <4> QED
          BY ONLY <4>1, <4>2, <2>2
      <3>2. GetRange(r, start, stop) = given
        <4>1. start = 0 \/ Offset(r, stop - 1) + (stop - start) <= N
          BY <1>9, <2>6, <3>1
        <4>2. GetRange(r, start, stop) =
                [k \in 1 .. stop - start |-> w[m - stop + k]]
          BY <3>1, <4>1, GetRangePiece DEF w
        <4>3. stop - start = n /\ stop = n + left
          BY <1>10, <2>2, <3>1
        <4>4. given = [k \in 1 .. n |-> given[k]]
          BY <1>4
        <4>5. [k \in 1 .. n |-> given[k]] = [k \in 1 .. n |-> w[m - (n + left) + k]]
          BY <1>4
        <4> QED
          BY <4>2, <4>3, <4>4, <4>5
      <3>3. SubtractWithRollover(i, start, MaxSizeT) = next
        BY <1>1, <1>4, <2>2, <3>1 DEF SubtractWithRollover
      <3>4. Get(r, amount, last, continous) =
              [thrown |-> FALSE, target |-> given, last_value |-> next]
        BY <1>5, <1>8, <3>1, <3>2, <3>3
      <3>5. amount # 0
        BY <1>1, <2>1
      <3> QED
        BY <2>5, <3>4, <3>5 DEF given, next, w
    <2> QED
      BY <2>4, <2>5
  <1> QED
    BY <1>7, <1>8

(* A read hands out what the log gives, is declined where the log declines *)
(* it and fails where the log fails it.                                    *)
LEMMA ReadMeaning ==
  ASSUME NEW r \in Ring, WellFormed(r), NEW q, NEW last \in SizeT,
         q.amount \in Nat, q.exactly \in BOOLEAN, q.continous \in BOOLEAN,
         q.raw \in BOOLEAN, q.raw => ~q.exactly,
         q.amount > 0 \/ ~q.continous,
         OnePiece(r, Allocated(r, q), last, q.continous)
  PROVE  LET w == Window(r)
             i == r.base_id
         IN  Outcome(r, q, last) =
               IF Log!Declined(w, i, last, q) \/ Log!Failed(w, i, last, q)
               THEN [thrown |-> Log!Failed(w, i, last, q), target |-> << >>,
                     last_value |-> last]
               ELSE [thrown |-> FALSE,
                     target |-> Log!Given(w, i, q.amount, last, q.continous),
                     last_value |-> Log!NextNumber(w, i, q.amount, last, q.continous)]
  <1> DEFINE w == Window(r)
             i == r.base_id
             amount == q.amount
             continous == q.continous
             cut == Smaller(amount, r.item_count)
             given(a) == Log!Given(w, i, a, last, continous)
             next(a) == Log!NextNumber(w, i, a, last, continous)
             available == Available(w, i, last)
  <1>2. /\ N \in Nat /\ amount \in Nat /\ last \in Nat /\ i \in Nat
        /\ i < Modulus /\ last < Modulus /\ Modulus \in Nat
        /\ r.item_count \in 0 .. N
        /\ w \in Seq(Data) /\ Len(w) = r.item_count
        /\ continous \in BOOLEAN
    BY CapacityAssumption, WidthAssumption, WindowSound DEF Ring, SizeT
  <1>3. w = << >> <=> r.item_count = 0
    BY <1>2
  <1>4. cut \in Nat /\ cut <= r.item_count /\ cut <= amount
    BY <1>2 DEF Smaller
  <1>8. ASSUME NEW a \in Nat
        PROVE  LET n == Log!Least(a, available)
                   left == IF continous /\ Log!Known(i, last) THEN available - n ELSE 0
               IN  /\ given(a) \in Seq(Data) /\ Len(given(a)) = n
                   /\ \A k \in 1 .. n : given(a)[k] = w[Len(w) - (n + left) + k]
                   /\ next(a) = i - left
                   /\ available \in 0 .. Len(w)
    <2> HIDE DEF w, i, continous
    <2>1. Available(w, i, last) \in 0 .. Len(w)
      BY ONLY <1>2, TakenBounds, a \in Nat
    <2>2. LET n == Taken(w, i, a, last)
              left == Left(w, i, a, last, continous)
          IN  /\ given(a) \in Seq(Data) /\ Len(given(a)) = n
              /\ \A k \in 1 .. n : given(a)[k] = w[Len(w) - (n + left) + k]
              /\ next(a) = i - left
      BY ONLY <1>2, GivenValue, a \in Nat
    <2> QED
      BY <2>1, <2>2 DEF Taken, Left
  <1>5. amount = 0 => next(amount) = i
    <2>1. amount = 0 => ~continous
      BY <1>2
    <2> HIDE DEF w, i, given, next, available, continous
    <2> QED
      BY <1>2, <1>8, <2>1
  <1> HIDE DEF w, i, given, next, available
  <1>6. CASE q.raw
    <2>1. ~Log!Declined(w, i, last, q)
      BY <1>6 DEF Log!Declined
    <2>2. Outcome(r, q, last) = Get(r, amount, last, continous)
      BY <1>6 DEF Outcome
    <2>4. Log!Failed(w, i, last, q) <=>
            /\ amount > 0 /\ r.item_count = 0
            /\ ~(Log!Known(i, last) /\ last = i)
      BY <1>3, <1>6 DEF Log!Failed
    <2>3. OnePiece(r, amount, last, continous)
      BY <1>6 DEF Allocated
    <2>5. Get(r, amount, last, continous) =
            IF /\ amount > 0 /\ r.item_count = 0
               /\ ~(Log!Known(i, last) /\ last = i)
            THEN [thrown |-> TRUE, target |-> << >>, last_value |-> last]
            ELSE [thrown |-> FALSE, target |-> given(amount),
                  last_value |-> IF amount = 0 THEN i ELSE next(amount)]
      <3> HIDE DEF amount, continous
      <3> QED
        BY ONLY <1>2, <2>3, GetMeaning, r \in Ring, WellFormed(r), last \in SizeT
        DEF w, i, given, next
    <2>6. (IF amount = 0 THEN i ELSE next(amount)) = next(amount)
      BY <1>5
    <2> QED
      BY <2>1, <2>2, <2>4, <2>5, <2>6 DEF w, i, given, next
  <1>7. CASE ~q.raw
    <2>1. Log!Failed(w, i, last, q) = FALSE
      BY <1>7 DEF Log!Failed
    <2>2. Log!Declined(w, i, last, q) <=>
            q.exactly /\ GetNewDataAmount(r.base_id, r.item_count, last) < amount
      <3>1. SubtractWithRollover(r.base_id, last, MaxSizeT) = Log!Distance(i, last)
        BY <1>2 DEF SubtractWithRollover, Log!Distance, MaxSizeT, i
      <3>2. Smaller(Log!Distance(i, last), r.item_count) =
              Log!Least(Log!Distance(i, last), Len(w))
        BY <1>2 DEF Smaller, Log!Least
      <3> QED
        BY <3>1, <3>2 DEF GetNewDataAmount, Log!Declined
    <2> DEFINE read == Get(r, cut, last, continous)
               result == [thrown |-> read.thrown,
                          target |-> Resized(read.target, cut),
                          last_value |-> read.last_value]
    <2>3. Outcome(r, q, last) =
            IF q.exactly /\ GetNewDataAmount(r.base_id, r.item_count, last) < amount
            THEN [thrown |-> FALSE, target |-> << >>, last_value |-> last]
            ELSE result
      BY <1>7 DEF Outcome, GetVector
    <2>5. /\ given(cut) = given(amount) /\ Len(given(cut)) <= cut /\ given(cut) \in Seq(Data)
          /\ (IF cut = 0 THEN i ELSE next(cut)) = next(amount)
      <3>1. Log!Least(cut, available) = Log!Least(amount, available)
            /\ Log!Least(cut, available) <= cut
        <4>1. available \in 0 .. Len(w)
          BY <1>2, <1>8
        <4> QED
          BY <1>2, <1>4, <4>1 DEF Log!Least, Smaller
      <3>2. cut = 0 => amount = 0 \/ available = 0
        <4>1. available \in 0 .. Len(w)
          BY <1>2, <1>8
        <4> QED
          BY <1>2, <1>4, <4>1 DEF Smaller
      <3> HIDE DEF cut, amount, continous
      <3> DEFINE n == Log!Least(amount, available)
                 left == IF continous /\ Log!Known(i, last) THEN available - n ELSE 0
      <3>6. /\ given(amount) \in Seq(Data) /\ Len(given(amount)) = n
            /\ \A k \in 1 .. n : given(amount)[k] = w[Len(w) - (n + left) + k]
            /\ next(amount) = i - left
        BY <1>2, <1>8
      <3>7. /\ given(cut) \in Seq(Data) /\ Len(given(cut)) = n
            /\ \A k \in 1 .. n : given(cut)[k] = w[Len(w) - (n + left) + k]
            /\ next(cut) = i - left
        BY <1>4, <1>8, <3>1
      <3>3. given(cut) = given(amount) /\ next(cut) = next(amount)
        <4> HIDE DEF n, left
        <4>1. \A k \in 1 .. Len(given(cut)) : given(cut)[k] = given(amount)[k]
          BY <3>6, <3>7
        <4>2. given(cut) = given(amount)
          BY ONLY <3>6, <3>7, <4>1, SeqEqual
        <4> QED
          BY <3>6, <3>7, <4>2
      <3>4. Len(given(cut)) <= cut /\ given(cut) \in Seq(Data)
        BY <1>4, <1>8, <3>1
      <3>5. available = 0 => next(amount) = i
        BY <1>2, <1>8 DEF Log!Least
      <3> QED
        BY <1>5, <3>2, <3>3, <3>4, <3>5
    <2>4. read = [thrown |-> FALSE, target |-> given(amount), last_value |-> next(amount)]
      <3>1. OnePiece(r, cut, last, continous)
        BY <1>7 DEF Allocated
      <3>2. ~(cut > 0 /\ r.item_count = 0)
        BY <1>4, <1>2
      <3> HIDE DEF cut, continous, amount
      <3>3. read = [thrown |-> FALSE, target |-> given(cut),
                    last_value |-> IF cut = 0 THEN i ELSE next(cut)]
        BY ONLY <1>2, <1>4, <3>1, <3>2, GetMeaning, r \in Ring, WellFormed(r), last \in SizeT
        DEF w, i, given, next
      <3> QED
        BY <2>5, <3>3
    <2>6. Resized(given(cut), cut) = given(cut)
      <3>1. \A k \in 1 .. Len(given(cut)) : k <= cut
        BY <1>4, <2>5
      <3>2. given(cut) = [k \in 1 .. Len(given(cut)) |-> given(cut)[k]]
        BY <2>5
      <3> HIDE DEF cut
      <3> QED
        BY <3>1, <3>2 DEF Resized
    <2> HIDE DEF read, cut
    <2>7. result = [thrown |-> FALSE, target |-> given(amount), last_value |-> next(amount)]
      <3>1. read.thrown = FALSE /\ read.target = given(amount) /\ read.last_value = next(amount)
        BY <2>4
      <3>2. Resized(given(amount), cut) = given(amount)
        BY <2>5, <2>6
      <3> QED
        BY <3>1, <3>2
    <2> HIDE DEF result
    <2>8. Outcome(r, q, last) =
            IF Log!Declined(w, i, last, q)
            THEN [thrown |-> FALSE, target |-> << >>, last_value |-> last]
            ELSE [thrown |-> FALSE, target |-> given(amount), last_value |-> next(amount)]
      BY ONLY <2>2, <2>3, <2>7
    <2> QED
      BY ONLY <2>1, <2>8 DEF w, i, given, next
  <1> QED
    BY <1>6, <1>7

-----------------------------------------------------------------------------
(* The refinement.                                                         *)

LEMMA FreshIsEmpty ==
  ASSUME NEW preallocate \in BOOLEAN
  PROVE  Window(Fresh(preallocate)) = << >> /\ Fresh(preallocate).base_id = 0
  <1>1. Fresh(preallocate).item_count = 0 /\ Fresh(preallocate).base_id = 0
    BY DEF Fresh
  <1> QED
    BY <1>1, FreshSound, EmptyWindow

LEMMA InitImplements == Init => Log!Init
  <1> SUFFICES ASSUME Init PROVE Log!Init
    OBVIOUS
  <1>1. \A b \in Buffers : Window(ring[b]) = << >> /\ ring[b].base_id = 0
    <2>1. \A b \in Buffers : ring[b] = Fresh(TRUE) \/ ring[b] = Fresh(FALSE)
      BY DEF Init
    <2> QED
      BY <2>1, FreshIsEmpty
  <1> QED
    BY <1>1 DEF Init, Log!Init

(* A read that does not continue, or has room for the whole buffer, starts *)
(* at the newest element.                                                  *)
LEMMA WholeReadInOnePiece ==
  ASSUME NEW r \in Ring, NEW q \in Requests, NEW last \in SizeT,
         q.continous => q.amount >= N
  PROVE  /\ q.amount \in Nat
         /\ q.amount > 0 \/ ~q.continous
         /\ OnePiece(r, Allocated(r, q), last, q.continous)
  <1> DEFINE amount == Allocated(r, q)
             end == ReadEnd(r, amount, last)
             start == ReadStart(r, amount, last, q.continous)
  <1>1. /\ q.amount \in Nat /\ q.continous \in BOOLEAN
        /\ N \in Nat \ {0} /\ r.item_count \in 0 .. N
        /\ r.base_id \in Nat /\ last \in Nat
    BY CapacityAssumption, WidthAssumption, RequestsAssumption DEF RequestType, SizeT, Ring
  <1>2. q.continous => amount \in Nat /\ amount >= r.item_count
    BY <1>1 DEF Allocated, Smaller
  <1>3. q.continous => end \in Nat /\ end <= r.item_count
    BY <1>1, <1>2 DEF ReadEnd, Follows, SubtractWithRollover, Smaller
  <1>4. start = 0
    BY <1>1, <1>2, <1>3 DEF ReadStart
  <1> QED
    BY <1>1, <1>4 DEF OnePiece

LEMMA NextImplements ==
  ASSUME \A q \in Requests : q.continous => q.amount >= N
  PROVE  IInv /\ [Next]_vars => [Log!Next]_(Log!vars)
  <1> SUFFICES ASSUME IInv, [Next]_vars PROVE [Log!Next]_(Log!vars)
    OBVIOUS
  <1> DEFINE W == [b \in Buffers |-> Window(ring[b])]
             I == [b \in Buffers |-> ring[b].base_id]
  <1>1. /\ ring \in [Buffers -> Ring]
        /\ last_value \in [Readers -> SizeT]
        /\ \A b \in Buffers : ring[b] \in Ring /\ WellFormed(ring[b])
    BY DEF IInv, TypeOK, RingInv
  <1>2. ASSUME NEW b \in Buffers, NEW preallocate \in BOOLEAN,
               Construct(b, preallocate)
        PROVE  Log!Replace(b, << >>, 0)
    <2>1. /\ W' = [W EXCEPT ![b] = << >>] /\ I' = [I EXCEPT ![b] = 0]
      BY <1>1, <1>2, FreshIsEmpty DEF Construct
    <2> QED
      BY <1>2, <2>1 DEF Construct, Log!Replace
  <1>3. ASSUME NEW b \in Buffers, NEW v \in Values, Add(b, v)
        PROVE  Log!Add(b, v)
    <2>1. /\ ring'[b] = Added(ring[b], v)
          /\ \A o \in Buffers \ {b} : ring'[o] = ring[o]
      BY <1>1, <1>3 DEF Add
    <2>2. W' = [W EXCEPT ![b] = Log!Kept(W[b], v)]
      BY <1>1, <2>1, WindowAdded
    <2>3. I' = [I EXCEPT ![b] = IF I[b] = Modulus - 1 THEN 0 ELSE I[b] + 1]
      <3>1. Added(ring[b], v).base_id =
              IF ring[b].base_id = Modulus - 1 THEN 0 ELSE ring[b].base_id + 1
        BY <1>1, AddedMembers DEF MaxSizeT
      <3> QED
        BY <1>1, <2>1, <3>1
    <2> QED
      BY <1>3, <2>2, <2>3 DEF Add, Log!Add
  <1>4. ASSUME NEW b \in Buffers, Clear(b)
        PROVE  Log!Clear(b)
    <2>1. /\ ring'[b] = Cleared(ring[b])
          /\ \A o \in Buffers \ {b} : ring'[o] = ring[o]
      BY <1>1, <1>4 DEF Clear
    <2>2. /\ Cleared(ring[b]).item_count = 0
          /\ Cleared(ring[b]).base_id = ring[b].base_id
          /\ Cleared(ring[b]) \in Ring
      BY <1>1, ClearedSound DEF Cleared, Ring
    <2>3. Window(Cleared(ring[b])) = << >>
      BY <2>2, EmptyWindow
    <2>4. W' = [W EXCEPT ![b] = << >>] /\ I' = I
      BY <1>1, <2>1, <2>2, <2>3
    <2> QED
      BY <1>4, <2>4 DEF Clear, Log!Clear
  <1>5. ASSUME NEW b \in Buffers, NEW s \in Buffers, CopyAssign(b, s)
        PROVE  Log!Copy(b, s)
    <2>1. W' = [W EXCEPT ![b] = W[s]] /\ I' = [I EXCEPT ![b] = I[s]]
      BY <1>1, <1>5 DEF CopyAssign
    <2> QED
      BY <1>5, <2>1 DEF CopyAssign, Log!Copy, Log!Replace
  <1>6. ASSUME NEW b \in Buffers, NEW s \in Buffers, MoveAssign(b, s)
        PROVE  Log!Swap(b, s)
    <2>1. /\ W' = [W EXCEPT ![b] = W[s], ![s] = W[b]]
          /\ I' = [I EXCEPT ![b] = I[s], ![s] = I[b]]
      BY <1>1, <1>6 DEF MoveAssign
    <2> QED
      BY <1>6, <2>1 DEF MoveAssign, Log!Swap
  <1>7. ASSUME NEW b \in Buffers, NEW s \in Buffers, MoveConstruct(b, s)
        PROVE  b # s /\ Log!Move(b, s)
    <2>1. /\ W' = [W EXCEPT ![b] = W[s], ![s] = << >>]
          /\ I' = [I EXCEPT ![b] = I[s], ![s] = 0]
      BY <1>1, <1>7, FreshIsEmpty DEF MoveConstruct
    <2> QED
      BY <1>7, <2>1 DEF MoveConstruct, Log!Move
  <1>8. ASSUME NEW c \in Readers, NEW b \in Buffers, NEW q \in Requests, Read(c, b, q)
        PROVE  Log!Read(c, b, q)
    <2> DEFINE out == Outcome(ring[b], q, last_value[c])
               no == \/ Log!Declined(W[b], I[b], last_value[c], q)
                     \/ Log!Failed(W[b], I[b], last_value[c], q)
    <2>1. /\ answer' = [answer EXCEPT ![c] =
                          [thrown |-> out.thrown, target |-> out.target]]
          /\ last_value' = [last_value EXCEPT ![c] = out.last_value]
          /\ W' = W /\ I' = I
      BY <1>8 DEF Read
    <2>2. out = IF no
                THEN [thrown |-> Log!Failed(W[b], I[b], last_value[c], q),
                      target |-> << >>, last_value |-> last_value[c]]
                ELSE [thrown |-> FALSE,
                      target |-> Log!Given(W[b], I[b], q.amount, last_value[c], q.continous),
                      last_value |->
                        Log!NextNumber(W[b], I[b], q.amount, last_value[c], q.continous)]
      <3>1. W[b] = Window(ring[b]) /\ I[b] = ring[b].base_id /\ last_value[c] \in SizeT
        BY <1>1
      <3>2. /\ q.amount \in SizeT /\ q.exactly \in BOOLEAN /\ q.continous \in BOOLEAN
            /\ q.raw \in BOOLEAN /\ (q.raw => ~q.exactly)
        BY RequestsAssumption DEF RequestType
      <3>3. /\ q.amount \in Nat
            /\ q.amount > 0 \/ ~q.continous
            /\ OnePiece(ring[b], Allocated(ring[b], q), last_value[c], q.continous)
        BY <1>1, <3>1, <3>2, WholeReadInOnePiece
      <3> HIDE DEF W, I
      <3> QED
        BY <1>1, <3>1, <3>2, <3>3, ReadMeaning
    <2> HIDE DEF out
    <2>3. CASE no
      <3>1. last_value' = last_value
        BY <1>1, <2>1, <2>2, <2>3
      <3> QED
        BY <2>1, <2>2, <2>3, <3>1 DEF Log!Read
    <2>4. CASE ~no
      BY <2>1, <2>2, <2>4 DEF Log!Read
    <2> QED
      BY <2>3, <2>4
  <1>9. CASE UNCHANGED vars
    BY <1>9 DEF vars, Log!vars
  <1> QED
    BY <1>2, <1>3, <1>4, <1>5, <1>6, <1>7, <1>8, <1>9 DEF Next, Log!Next

(* Whatever the capacity and the width of size_t, the class is the bounded *)
(* log: for the adds, clears, copies and moves of every order and for      *)
(* every reader whose continuing reads ask for at least the capacity.      *)
THEOREM ImplementsBoundedLog ==
  ASSUME \A q \in Requests : q.continous => q.amount >= N
  PROVE  Spec => ImplementsLog
  <1>1. IInv /\ [Next]_vars => [Log!Next]_(Log!vars)
    BY NextImplements
  <1> QED
    BY <1>1, InitSound, NextSound, InitImplements, PTL DEF Spec, ImplementsLog, Log!Spec

-----------------------------------------------------------------------------
LEMMA SingleReads ==
  ASSUME NEW r \in Ring, WellFormed(r), NEW pos \in 0 .. N
  PROVE  LET w == Window(r) IN
         /\ GetPosition(r, pos) = IF pos < Len(w) THEN w[Len(w) - pos] ELSE Thrown
         /\ Len(w) = N /\ pos < N => GetSingle(r, pos) = w[pos + 1]
  <1> DEFINE w == Window(r)
             m == r.item_count
             p == r.current_insert_position
  <1>1. /\ N \in Nat \ {0} /\ pos \in Nat /\ m \in 0 .. N /\ p \in 0 .. N - 1
        /\ Len(r.buffer) \in {p, N} /\ m <= Len(r.buffer)
    BY CapacityAssumption DEF Ring, WellFormed
  <1>2. Len(w) = m /\ \A k \in 1 .. m : w[k] = r.buffer[Offset(r, m - k) + 1]
    BY WindowSound
  <1>3. GetPosition(r, pos) = IF pos < Len(w) THEN w[Len(w) - pos] ELSE Thrown
    <2>1. CASE pos < m
      <3>1. m - pos \in 1 .. m /\ m - (m - pos) = pos
        BY <1>1, <2>1, SMTT(30)
      <3>2. w[m - pos] = r.buffer[Offset(r, pos) + 1]
        BY <1>2, <3>1
      <3>3. Offset(r, pos) \in Int /\ Offset(r, pos) < Len(r.buffer)
        <4>1. Offset(r, pos) \in 0 .. N - 1
          <5>1. pos \in 0 .. N - 1
            BY <1>1, <2>1
          <5> QED
            BY ONLY <5>1, OffsetValue, r \in Ring
        <4>2. Offset(r, pos) + 1 \in 1 .. Len(r.buffer)
          BY <1>1, <2>1, RetainedInBounds
        <4> QED
          BY <1>1, <4>1, <4>2
      <3>4. GetPosition(r, pos) = r.buffer[Offset(r, pos) + 1]
        BY <1>1, <2>1, <3>3, SMTT(30) DEF GetPosition, At
      <3> QED
        BY <1>2, <2>1, <3>2, <3>4
    <2>2. CASE pos >= m
      BY <1>1, <1>2, <2>2 DEF GetPosition
    <2> QED
      BY <1>1, <2>1, <2>2
  <1>4. ASSUME m = N, pos < N
        PROVE  GetSingle(r, pos) = w[pos + 1]
    <2>1. Len(r.buffer) = N
      BY <1>1, <1>4
    <2>2. AddWithRollover(p, pos, N - 1) = IF p + pos < N THEN p + pos ELSE p + pos - N
      BY <1>1, <1>4 DEF AddWithRollover
    <2>3. w[pos + 1] = r.buffer[Offset(r, N - pos - 1) + 1]
      <3>1. pos + 1 \in 1 .. m /\ m - (pos + 1) = N - pos - 1
        BY <1>1, <1>4
      <3> QED
        BY <1>2, <3>1
    <2>4. Offset(r, N - pos - 1) = IF p + pos < N THEN p + pos ELSE p + pos - N
      <3>1. N - pos - 1 \in 0 .. N - 1
        BY <1>1, <1>4
      <3>2. Offset(r, N - pos - 1) = IF N - pos - 1 < p
                                     THEN p - 1 - (N - pos - 1)
                                     ELSE N + p - 1 - (N - pos - 1)
        BY ONLY <3>1, OffsetValue, r \in Ring
      <3> QED
        BY <1>1, <1>4, <3>2
    <2>5. AddWithRollover(p, pos, N - 1) \in 0 .. N - 1
      BY <1>1, <1>4, <2>2
    <2>6. GetSingle(r, pos) = r.buffer[AddWithRollover(p, pos, N - 1) + 1]
      BY <1>1, <1>4, <2>1, <2>5 DEF GetSingle, At
    <2> QED
      BY <2>2, <2>3, <2>4, <2>6
  <1> QED
    BY <1>2, <1>3, <1>4

(* For every capacity, getPosition() and operator[] return the element     *)
(* `pos` behind the newest one or throw, and get(id) of a full buffer      *)
(* counts from the oldest element.                                         *)
THEOREM SingleReadsCorrect == Spec => []SingleReadsMatch
  <1>1. IInv => SingleReadsMatch
    BY SingleReads DEF IInv, TypeOK, RingInv, SingleReadsMatch
  <1> QED
    BY <1>1, InitSound, NextSound, PTL DEF Spec
-----------------------------------------------------------------------------
(* Reads of fewer elements than there are.                                 *)

(* For every capacity, a read of any size hands out what the log promises, *)
(* unless it continues with a range that crosses the end of the array and  *)
(* does not reach the newest element.                                      *)
THEOREM ReadsCorrect == Spec => []UnwrappedReadsMatch
  <1>1. IInv => UnwrappedReadsMatch
    <2> SUFFICES ASSUME IInv, NEW b \in Buffers, NEW q \in AllRequests, NEW c \in Readers,
                        q.amount > 0,
                        OnePiece(ring[b], Allocated(ring[b], q), last_value[c], q.continous),
                        ~Log!Declined(Window(ring[b]), ring[b].base_id, last_value[c], q),
                        ~Outcome(ring[b], q, last_value[c]).thrown
                 PROVE  LET r == ring[b]
                            lv == last_value[c]
                            out == Outcome(r, q, lv)
                        IN  /\ out.target =
                                 Log!Given(Window(r), r.base_id, q.amount, lv, q.continous)
                            /\ out.last_value =
                                 Log!NextNumber(Window(r), r.base_id, q.amount, lv, q.continous)
      BY DEF UnwrappedReadsMatch
    <2>1. /\ ring[b] \in Ring /\ WellFormed(ring[b]) /\ last_value[c] \in SizeT
      BY DEF IInv, TypeOK, RingInv
    <2>2. /\ q.amount \in Nat /\ q.exactly \in BOOLEAN /\ q.continous \in BOOLEAN
          /\ q.raw \in BOOLEAN /\ (q.raw => ~q.exactly)
      BY CapacityAssumption DEF AllRequests
    <2> DEFINE r == ring[b]
               lv == last_value[c]
    <2>3. Outcome(r, q, lv) =
            IF \/ Log!Declined(Window(r), r.base_id, lv, q)
               \/ Log!Failed(Window(r), r.base_id, lv, q)
            THEN [thrown |-> Log!Failed(Window(r), r.base_id, lv, q), target |-> << >>,
                  last_value |-> lv]
            ELSE [thrown |-> FALSE,
                  target |-> Log!Given(Window(r), r.base_id, q.amount, lv, q.continous),
                  last_value |-> Log!NextNumber(Window(r), r.base_id, q.amount, lv, q.continous)]
      BY <2>1, <2>2, ReadMeaning
    <2> QED
      BY <2>3
  <1> QED
    BY <1>1, InitSound, NextSound, PTL DEF Spec

(* Whatever the sizes of its reads, a reader that continues is given       *)
(* consecutive elements behind its last_value: none twice, and none        *)
(* skipped that is still there.                                            *)
THEOREM StreamsContinue == Spec => ContinuesStream
  <1> DEFINE Continues(c, b) ==
        LET lv == last_value[c]
            first == last_value'[c] - Len(answer'[c].target) + 1
            lost == ring[b].base_id - lv > ring[b].item_count
        IN  (/\ Follows(ring[b], lv)
             /\ \E q \in Requests :
                  /\ q.continous /\ q.amount > 0
                  /\ OnePiece(ring[b], Allocated(ring[b], q), lv, TRUE)
                  /\ Read(c, b, q))
            => /\ first > lv
               /\ ~lost => first = lv + 1
               /\ last_value'[c] \in lv .. ring[b].base_id
  <1>1. ASSUME IInv, NEW c \in Readers, NEW b \in Buffers
        PROVE  Continues(c, b)
    <2> DEFINE r == ring[b]
               lv == last_value[c]
               w == Window(r)
    <2> SUFFICES ASSUME Follows(r, lv),
                        NEW q \in Requests, q.continous, q.amount > 0,
                        OnePiece(r, Allocated(r, q), lv, TRUE),
                        Read(c, b, q)
                 PROVE  LET first == last_value'[c] - Len(answer'[c].target) + 1
                        IN  /\ first > lv
                            /\ r.base_id - lv <= r.item_count => first = lv + 1
                            /\ last_value'[c] \in lv .. r.base_id
      <3>1. r.base_id \in Nat /\ lv \in Nat /\ r.item_count \in Nat
        BY <1>1, CapacityAssumption, WidthAssumption DEF IInv, TypeOK, Ring, SizeT
      <3>2. r.base_id - lv > r.item_count <=> ~(r.base_id - lv <= r.item_count)
        BY <3>1
      <3> QED
        BY <3>2
    <2>1. /\ r \in Ring /\ WellFormed(r) /\ lv \in SizeT
          /\ last_value \in [Readers -> SizeT] /\ answer \in [Readers -> Answer]
      BY <1>1 DEF IInv, TypeOK, RingInv
    <2>2. /\ q.amount \in Nat /\ q.exactly \in BOOLEAN /\ q.continous \in BOOLEAN
          /\ q.raw \in BOOLEAN /\ (q.raw => ~q.exactly) /\ q.continous = TRUE
      BY RequestsAssumption, WidthAssumption DEF RequestType, SizeT
    <2>3. /\ r.base_id \in Nat /\ lv \in Nat /\ lv >= 1 /\ lv <= r.base_id
          /\ r.item_count \in Nat /\ w \in Seq(Data) /\ Len(w) = r.item_count
          /\ Log!Known(r.base_id, lv)
      BY <2>1, CapacityAssumption, WidthAssumption, WindowSound
      DEF Ring, SizeT, Follows, Log!Known
    <2> DEFINE out == Outcome(r, q, lv)
               no == Log!Declined(w, r.base_id, lv, q) \/ Log!Failed(w, r.base_id, lv, q)
    <2>4. out = IF no
                THEN [thrown |-> Log!Failed(w, r.base_id, lv, q), target |-> << >>,
                      last_value |-> lv]
                ELSE [thrown |-> FALSE,
                      target |-> Log!Given(w, r.base_id, q.amount, lv, q.continous),
                      last_value |-> Log!NextNumber(w, r.base_id, q.amount, lv, q.continous)]
      <3>1. OnePiece(r, Allocated(r, q), lv, q.continous)
        BY <2>2
      <3> HIDE DEF r, lv
      <3> QED
        BY <2>1, <2>2, <3>1, ReadMeaning
    <2>5. last_value'[c] = out.last_value /\ answer'[c].target = out.target
      BY <2>1 DEF Read
    <2>6. CASE no
      <3>3. out = [thrown |-> Log!Failed(w, r.base_id, lv, q), target |-> << >>,
                   last_value |-> lv]
        BY <2>4, <2>6
      <3> HIDE DEF out
      <3>1. out.last_value = lv /\ Len(out.target) = 0
        BY <3>3
      <3> QED
        BY <2>3, <2>5, <3>1
    <2>7. CASE ~no
      <3> DEFINE available == Available(w, r.base_id, lv)
                 n == Taken(w, r.base_id, q.amount, lv)
      <3>1. /\ available \in 0 .. Len(w) /\ n \in 0 .. available
            /\ out.last_value = r.base_id - (available - n)
            /\ Len(out.target) = n
        <4> DEFINE i == r.base_id
                   continous == q.continous
                   amount == q.amount
        <4>1. /\ Available(w, i, lv) \in 0 .. Len(w)
              /\ Taken(w, i, amount, lv) \in 0 .. Available(w, i, lv)
          <5> HIDE DEF w, i, lv, amount
          <5> QED
            BY <2>2, <2>3, TakenBounds DEF i, amount
        <4>2. /\ Len(Log!Given(w, i, amount, lv, continous)) = Taken(w, i, amount, lv)
              /\ Log!NextNumber(w, i, amount, lv, continous) =
                   i - Left(w, i, amount, lv, continous)
          <5> HIDE DEF w, i, lv, amount, continous
          <5>1. /\ w \in Seq(Data) /\ i \in Nat /\ amount \in Nat /\ lv \in Nat
                /\ continous \in BOOLEAN
            BY <2>2, <2>3 DEF i, amount, continous
          <5> QED
            BY ONLY <5>1, GivenCounted
        <4>3. Left(w, i, amount, lv, continous) = available - n
          BY <2>2, <2>3 DEF Left
        <4>4. out = [thrown |-> FALSE, target |-> Log!Given(w, i, amount, lv, continous),
                     last_value |-> Log!NextNumber(w, i, amount, lv, continous)]
          BY <2>4, <2>7
        <4> HIDE DEF out, w
        <4>5. /\ out.target = Log!Given(w, i, amount, lv, continous)
              /\ out.last_value = Log!NextNumber(w, i, amount, lv, continous)
          BY <4>4
        <4> QED
          BY <4>1, <4>2, <4>3, <4>5
      <3>2. available = IF r.base_id - lv < r.item_count THEN r.base_id - lv
                        ELSE r.item_count
        BY <2>3 DEF Available, Log!Least
      <3> HIDE DEF available, n, w, r, lv, out, no
      <3>3. last_value'[c] = r.base_id - (available - n) /\ Len(answer'[c].target) = n
        BY <2>5, <3>1
      <3>4. available \in Nat /\ n \in Nat /\ n <= available
        BY <2>3, <3>1
      <3> QED
        <4> DEFINE last == last_value'[c]
                   length == Len(answer'[c].target)
        <4>1. last = r.base_id - (available - n) /\ length = n
          BY <3>3
        <4> HIDE DEF last, length
        <4>2. /\ last - length + 1 > lv
              /\ r.base_id - lv <= r.item_count => last - length + 1 = lv + 1
              /\ last \in lv .. r.base_id
          <5> DEFINE i == r.base_id
                     m == r.item_count
          <5>1. /\ i \in Nat /\ lv \in Nat /\ lv <= i /\ m \in Nat
                /\ available = IF i - lv < m THEN i - lv ELSE m
                /\ last = i - (available - n) /\ length = n
            BY <2>3, <3>2, <4>1
          <5> HIDE DEF i, m
          <5>2. /\ last - length + 1 > lv
                /\ i - lv <= m => last - length + 1 = lv + 1
                /\ last \in lv .. i
            BY ONLY <5>1, <3>4
          <5> QED
            BY <5>2 DEF i, m
        <4> QED
          BY <4>2 DEF last, length
    <2> QED
      BY <2>6, <2>7
  <1>2. IInv /\ [Next]_vars =>
          [\A c \in Readers, b \in Buffers : Continues(c, b)]_vars
    BY <1>1
  <1>3. Spec => [][\A c \in Readers, b \in Buffers : Continues(c, b)]_vars
    <2> HIDE DEF Continues
    <2> QED
      BY <1>2, InitSound, NextSound, PTL DEF Spec
  <1> QED
    BY <1>3 DEF ContinuesStream
-----------------------------------------------------------------------------
(* Several threads.                                                        *)

(* A reading call, its members typed.                                      *)
ReadCall ==
  [at : Reading, buf : Buffers, request : Requests, amount : SizeT, base : SizeT,
   count : 0 .. N, before : Nat, disturbed : BOOLEAN]

CallsTyped ==
  /\ last_value \in [Readers -> SizeT]
  /\ \A t \in Readers : call[t].at \in Reading => call[t] \in ReadCall

(* What a thread has added of a range so far stands at the end of the      *)
(* buffer, unless another has written to it.                               *)
AddedSoFar(c, w) ==
  LET m == Len(c.values) - Len(c.left) IN
  /\ Smaller(m, N) <= Len(w)
  /\ \A k \in 0 .. Smaller(m, N) - 1 : w[Len(w) - k] = c.values[m - k]

LeftOver(c) ==
  LET m == Len(c.values) - Len(c.left) IN
  m \in Nat /\ \A i \in 1 .. Len(c.left) : c.left[i] = c.values[m + i]

RangesAdded ==
  \A t \in Readers : call[t].at = "range" =>
    /\ LeftOver(call[t])
    /\ (~call[t].disturbed /\ call[t].buf \notin torn)
          => AddedSoFar(call[t], Window(ring[call[t].buf]))

(* getVector() has not allocated more than there is to copy.               *)
RoomFilled(c, r) == (c.at = "get" /\ ~c.request.raw) => c.amount <= r.item_count

RoomsFilled ==
  \A t \in Readers : (call[t].at \in Reading /\ ~call[t].disturbed)
                        => RoomFilled(call[t], ring[call[t].buf])

(* What an undisturbed call has counted is still there, and as many as it  *)
(* was asked for once it has checked that.                                 *)
New(r, lv) == Smaller(r.base_id - lv, r.item_count)

Counted(c, r, lv) ==
  /\ lv <= r.base_id /\ c.before <= New(r, lv)
  /\ c.at = "count" => c.base \in lv .. r.base_id /\ c.before <= c.base - lv
  /\ c.at = "base" => c.count <= r.item_count /\ c.before <= c.count
  /\ c.request.exactly =>
       /\ c.amount = c.request.amount /\ c.at # "shrink"
       /\ c.at \in {"compare", "get"} => c.amount <= New(r, lv)

CountsHold ==
  \A t \in Readers : (call[t].at \in Reading /\ ~call[t].disturbed)
                        => Counted(call[t], ring[call[t].buf], last_value[t])

(* A step of NextThreads is one of a thread.                               *)
Moves(t) ==
  \/ \E b \in Buffers :
       \/ \E v \in Values : AddOne(t, b, v)
       \/ \E values \in Ranges : BeginRange(t, b, values)
       \/ ClearAll(t, b)
       \/ \E q \in Requests : BeginGetVector(t, b, q)
       \/ \E s \in Buffers, kind \in {"copy", "move"} : BeginAssign(t, b, s, kind)
       \/ \E s \in Buffers : Replace(t, b, s)
  \/ AddNext(t) \/ ReadCounter(t) \/ Compare(t) \/ Shrink(t) \/ GetElements(t)
  \/ FinishAssign(t) \/ CopyFails(t)

LEMMA SomeoneMoves == NextThreads <=> \E t \in Readers : Moves(t)
  BY DEF NextThreads, Moves

(* What the objects are to a call of u, unless the step disturbs it: as    *)
(* they were, or, for a reading one, with one more element.                *)
Unharmed(u) ==
  LET b == call[u].buf IN
  /\ b \notin torn' => b \notin torn
  /\ call[u].at \notin Reading => ring'[b] = ring[b]
  /\ call[u].at \in Reading =>
       ring'[b] = ring[b] \/ \E v \in Values : ring'[b] = Added(ring[b], v)

CallTyped(c) == c \in RangeCall \/ c \in VectorCall \/ c \in ReadCall

LEMMA CallsHaveTypes ==
  ASSUME TInv, CallsTyped, NEW u \in Readers, call[u] # Idle
  PROVE  /\ CallTyped(call[u])
         /\ call[u].buf \in Buffers
         /\ call[u].disturbed \in BOOLEAN
         /\ call[u].at = "range" <=> call[u] \in RangeCall
         /\ call[u].at = "vector" <=> call[u] \in VectorCall
         /\ call[u].at \in Reading <=> call[u] \in ReadCall
  <1>1. Shaped(call[u])
    BY DEF TInv, Types
  <1>2. CallTyped(call[u])
    BY <1>1 DEF Shaped, CallsTyped, CallTyped
  <1>3. CASE call[u] \in RangeCall
    BY <1>2, <1>3 DEF RangeCall, VectorCall, ReadCall, Reading
  <1>4. CASE call[u] \in VectorCall
    BY <1>2, <1>4 DEF RangeCall, VectorCall, ReadCall, Reading
  <1>5. CASE call[u] \in ReadCall
    BY <1>2, <1>5 DEF RangeCall, VectorCall, ReadCall, Reading
  <1> QED
    BY <1>2, <1>3, <1>4, <1>5 DEF CallTyped

LEMMA OthersGo ==
  ASSUME TInv, CallsTyped, NEW t \in Readers, NEW mine, NEW upset, Goes(t, mine, upset),
         NEW u \in Readers \ {t}
  PROVE  /\ call[u] = Idle => call'[u] = Idle
         /\ call[u] # Idle =>
              /\ call'[u] # Idle /\ call'[u].at = call[u].at
              /\ \/ call'[u] = call[u] /\ u \notin upset
                 \/ /\ call'[u] = [call[u] EXCEPT !.disturbed = TRUE]
                    /\ call'[u].disturbed = TRUE /\ CallTyped(call'[u])
  <1> DEFINE c == call[u]
             d == [c EXCEPT !.disturbed = TRUE]
  <1>1. call'[u] = IF u \in upset THEN d ELSE c
    BY DEF Goes
  <1>2. CASE c = Idle
    <2>1. d = c
      BY <1>2 DEF Idle
    <2> QED
      BY <1>1, <1>2, <2>1
  <1>3. CASE c # Idle
    <2>1. CallTyped(c)
      BY <1>3, CallsHaveTypes
    <2>2. d.at = c.at /\ d.disturbed = TRUE /\ CallTyped(d)
      <3>1. CASE c \in RangeCall
        <4>1. d \in RangeCall /\ d.at = c.at /\ d.disturbed = TRUE
          BY <3>1 DEF RangeCall
        <4> QED
          BY <4>1 DEF CallTyped
      <3>2. CASE c \in VectorCall
        <4>1. d \in VectorCall /\ d.at = c.at /\ d.disturbed = TRUE
          BY <3>2 DEF VectorCall
        <4> QED
          BY <4>1 DEF CallTyped
      <3>3. CASE c \in ReadCall
        <4>1. d \in ReadCall /\ d.at = c.at /\ d.disturbed = TRUE
          BY <3>3 DEF ReadCall
        <4> QED
          BY <4>1 DEF CallTyped
      <3> QED
        BY <2>1, <3>1, <3>2, <3>3 DEF CallTyped
    <2>3. c.at # "idle"
      BY <2>1 DEF CallTyped, RangeCall, VectorCall, ReadCall, Reading
    <2>4. d # Idle
      BY <2>2, <2>3 DEF Idle
    <2> HIDE DEF d
    <2>5. CASE u \in upset
      <3>1. call'[u] = d
        BY <1>1, <2>5
      <3> QED
        BY <1>3, <2>2, <2>4, <3>1 DEF d
    <2>6. CASE u \notin upset
      BY <1>1, <1>3, <2>6
    <2> QED
      BY <2>5, <2>6
  <1> QED
    BY <1>2, <1>3

(* A step of one thread leaves the call of another as it was, disturbs it, *)
(* or does it no harm.                                                     *)
LEMMA OthersKept ==
  ASSUME TInv, CallsTyped, NEW t \in Readers, Moves(t), NEW u \in Readers \ {t}
  PROVE  /\ last_value'[u] = last_value[u]
         /\ call[u] = Idle => call'[u] = Idle
         /\ call[u] # Idle =>
              /\ call'[u] # Idle /\ call'[u].at = call[u].at
              /\ \/ call'[u] = call[u] /\ Unharmed(u)
                 \/ /\ call'[u] = [call[u] EXCEPT !.disturbed = TRUE]
                    /\ call'[u].disturbed = TRUE /\ CallTyped(call'[u])
  <1> DEFINE c == call[u]
             Fine(upset) ==
               /\ \E mine : Goes(t, mine, upset)
               /\ last_value'[u] = last_value[u]
               /\ (c # Idle /\ u \notin upset) => Unharmed(u)
  <1>1. ASSUME NEW upset, Fine(upset)
        PROVE  /\ last_value'[u] = last_value[u]
               /\ c = Idle => call'[u] = Idle
               /\ c # Idle =>
                    /\ call'[u] # Idle /\ call'[u].at = c.at
                    /\ \/ call'[u] = c /\ Unharmed(u)
                       \/ /\ call'[u] = [c EXCEPT !.disturbed = TRUE]
                          /\ call'[u].disturbed = TRUE /\ CallTyped(call'[u])
    <2>1. PICK mine : Goes(t, mine, upset)
      BY <1>1
    <2>2. /\ c = Idle => call'[u] = Idle
          /\ c # Idle =>
               /\ call'[u] # Idle /\ call'[u].at = c.at
               /\ \/ call'[u] = c /\ u \notin upset
                  \/ /\ call'[u] = [c EXCEPT !.disturbed = TRUE]
                     /\ call'[u].disturbed = TRUE /\ CallTyped(call'[u])
      BY <2>1, OthersGo
    <2> QED
      BY <1>1, <2>2
  <1>2. /\ ring \in [Buffers -> Ring] /\ last_value \in [Readers -> SizeT]
        /\ c # Idle => c.buf \in Buffers
        /\ u \in Readers /\ u # t
    BY CallsHaveTypes DEF TInv, Types, CallsTyped
  <1>3. UNCHANGED <<ring, torn>> => Unharmed(u)
    BY DEF Unharmed
  <1>4. \A b \in Buffers : /\ (c # Idle /\ u \notin Using(b)) => c.buf # b
                           /\ (c # Idle /\ u \notin Filling(b)) => c.buf # b \/ c.at \in Reading
    BY <1>2 DEF Using, Filling
  <1> HIDE DEF Fine
  <1>5. ASSUME NEW b \in Buffers, NEW v \in Values, NEW upset,
               ring' = [ring EXCEPT ![b] = Added(@, v)], torn' = torn,
               c # Idle, u \notin Filling(b)
        PROVE  Unharmed(u)
    <2>1. ring'[b] = Added(ring[b], v) /\ \A x \in Buffers \ {b} : ring'[x] = ring[x]
      BY <1>2, <1>5
    <2> QED
      BY <1>2, <1>4, <1>5, <2>1 DEF Unharmed
  <1>6. ASSUME NEW b \in Buffers, NEW v \in Values, AddOne(t, b, v)
        PROVE  Fine(Filling(b))
    BY <1>5, <1>6 DEF AddOne, Fine
  <1>7. ASSUME AddNext(t)
        PROVE  Fine(Filling(call[t].buf) \ {t})
    <2>1. call[t] \in RangeCall
      BY <1>7 DEF AddNext, TInv, Types, Shaped, Idle, VectorCall, Reading
    <2>2. call[t].buf \in Buffers /\ Head(call[t].left) \in Values
      BY <2>1 DEF RangeCall
    <2>3. /\ ring' = [ring EXCEPT ![call[t].buf] = Added(@, Head(call[t].left))]
          /\ torn' = torn /\ last_value' = last_value
          /\ \E mine : Goes(t, mine, Filling(call[t].buf) \ {t})
      BY <1>7 DEF AddNext
    <2> QED
      BY <1>2, <1>5, <2>2, <2>3 DEF Fine
  <1>8. ASSUME NEW b \in Buffers, NEW values \in Ranges, BeginRange(t, b, values)
        PROVE  Fine({})
    BY <1>3, <1>8 DEF BeginRange, Fine
  <1>9. ASSUME NEW b \in Buffers, ClearAll(t, b)
        PROVE  Fine(Using(b))
    <2>1. \A x \in Buffers \ {b} : ring'[x] = ring[x]
      BY <1>2, <1>9 DEF ClearAll
    <2>2. (c # Idle /\ u \notin Using(b)) => Unharmed(u)
      BY <1>2, <1>4, <1>9, <2>1 DEF ClearAll, Unharmed
    <2> QED
      BY <1>9, <2>2 DEF ClearAll, Fine
  <1>10. ASSUME NEW b \in Buffers, NEW q \in Requests, BeginGetVector(t, b, q)
         PROVE  Fine({})
    <2>1. \E mine : Goes(t, mine, {})
      BY <1>10 DEF BeginGetVector
    <2>2. UNCHANGED <<ring, torn, last_value>>
      BY <1>10 DEF BeginGetVector
    <2> QED
      BY <1>3, <2>1, <2>2 DEF Fine
  <1>11. ASSUME NEW d \in Buffers, NEW s \in Buffers, NEW kind \in {"copy", "move"},
                BeginAssign(t, d, s, kind)
         PROVE  Fine((UNION {Using(b) : b \in Written(d, s, kind)}) \cup CopyingFrom(d))
    <2> DEFINE written == Written(d, s, kind)
               upset == (UNION {Using(b) : b \in written}) \cup CopyingFrom(d)
    <2>1. /\ ring' = [ring EXCEPT ![d] = WithCounters(ring[d], ring[s]),
                                  ![s] = IF kind = "move" THEN WithCounters(ring[s], ring[d])
                                         ELSE @]
          /\ torn' = torn \cup written
          /\ \E mine : Goes(t, mine, upset)
          /\ last_value' = last_value
      BY <1>11 DEF BeginAssign
    <2>2. written \subseteq Buffers /\ (kind = "move" => s \in written) /\ d \in written
      BY DEF Written
    <2>3. \A x \in Buffers \ written : ring'[x] = ring[x]
      BY <1>2, <2>1, <2>2
    <2>4. (c # Idle /\ u \notin upset) => c.buf \notin written
      BY <1>4, <2>2
    <2> HIDE DEF written, upset
    <2>5. (c # Idle /\ u \notin upset) => Unharmed(u)
      BY <1>2, <2>1, <2>3, <2>4 DEF Unharmed
    <2>6. Fine(upset)
      BY <2>1, <2>5 DEF Fine
    <2> QED
      BY <2>6 DEF upset, written
  <1>12. ASSUME FinishAssign(t)
         PROVE  Fine(((UNION {Using(b) : b \in Written(call[t].buf, call[t].from, call[t].kind)})
                       \cup CopyingFrom(call[t].buf)) \ {t})
    <2> DEFINE d == call[t].buf
               s == call[t].from
               kind == call[t].kind
               written == Written(d, s, kind)
               upset == ((UNION {Using(b) : b \in written}) \cup CopyingFrom(d)) \ {t}
    <2>0. call[t].at = "vector"
      BY <1>12 DEF FinishAssign
    <2>1. /\ ring' = [ring EXCEPT ![d].buffer = ring[s].buffer,
                                  ![s].buffer = IF kind = "move" THEN ring[d].buffer ELSE @]
          /\ torn' = torn \cup written \/ torn' = torn \ written
          /\ \E mine : Goes(t, mine, upset)
          /\ last_value' = last_value
      BY <1>12 DEF FinishAssign
    <2>2. d \in Buffers /\ s \in Buffers
      <3>1. call[t] \in VectorCall
        BY <2>0 DEF TInv, Types, Shaped, Idle, RangeCall, Reading
      <3> QED
        BY <3>1 DEF VectorCall
    <2>3. written \subseteq Buffers /\ (kind = "move" => s \in written) /\ d \in written
      BY <2>2 DEF Written
    <2> HIDE DEF d, s, kind
    <2>4. \A x \in Buffers \ written : ring'[x] = ring[x]
      <3> SUFFICES ASSUME NEW x \in Buffers, x \notin written PROVE ring'[x] = ring[x]
        OBVIOUS
      <3>1. CASE x = s
        <4>1. kind # "move" /\ x # d
          BY <2>3, <3>1
        <4>2. ring'[x] = [ring[x] EXCEPT !.buffer = ring[x].buffer]
          BY <1>2, <2>1, <2>2, <3>1, <4>1
        <4>3. ring[x] \in Ring
          BY <1>2
        <4> QED
          BY <4>2, <4>3 DEF Ring
      <3>2. CASE x # s
        BY <1>2, <2>1, <2>2, <2>3, <3>2
      <3> QED
        BY <3>1, <3>2
    <2>5. (c # Idle /\ u \notin upset) => c.buf \notin written
      BY <1>2, <1>4, <2>3
    <2> HIDE DEF written, upset
    <2>6. (c # Idle /\ u \notin upset) => Unharmed(u)
      BY <1>2, <2>1, <2>4, <2>5 DEF Unharmed
    <2>7. Fine(upset)
      BY <2>1, <2>6 DEF Fine
    <2> QED
      BY <2>7 DEF upset, written, d, s, kind
  <1>13. ASSUME CopyFails(t)
         PROVE  Fine({})
    BY <1>3, <1>13 DEF CopyFails, Fine
  <1>14. ASSUME NEW d \in Buffers, NEW s \in Buffers, Replace(t, d, s)
         PROVE  Fine(Using(s))
    <2>1. /\ ring' = [ring EXCEPT ![d] = ring[s], ![s] = Fresh(FALSE)]
          /\ torn' = IF s \in torn THEN (torn \cup {d}) \ {s} ELSE torn \ {d}
          /\ Goes(t, Idle, Using(s)) /\ last_value' = last_value /\ Using(d) = {}
      BY <1>14 DEF Replace, MoveConstruct
    <2>2. \A x \in Buffers \ {d, s} : ring'[x] = ring[x] /\ (x \in torn => x \in torn')
      BY <1>2, <2>1
    <2>3. (c # Idle /\ u \notin Using(s)) => c.buf \in Buffers \ {d, s}
      BY <1>2, <1>4, <2>1
    <2>4. (c # Idle /\ u \notin Using(s)) => Unharmed(u)
      BY <2>2, <2>3 DEF Unharmed
    <2> QED
      BY <2>1, <2>4 DEF Fine
  <1>15. ASSUME Compare(t) \/ Shrink(t)
         PROVE  Fine({})
    <2>1. UNCHANGED <<ring, torn, last_value>> /\ \E mine : Goes(t, mine, {})
      BY <1>15 DEF Compare, Shrink
    <2> QED
      BY <1>3, <2>1 DEF Fine
  <1>16. ASSUME ReadCounter(t) \/ GetElements(t)
         PROVE  Fine({})
    <2>1. UNCHANGED <<ring, torn>>
      BY <1>16 DEF ReadCounter, GetElements
    <2>2. \/ last_value' = last_value /\ \E mine : Goes(t, mine, {})
          \/ \E thrown, target, lv : Return(t, thrown, target, lv)
      <3>1. CASE ReadCounter(t)
        <4>1. \/ last_value' = last_value /\ \E mine : Goes(t, mine, {})
              \/ \E base, count : Decide(t, base, count)
          BY <3>1 DEF ReadCounter
        <4> QED
          BY <4>1 DEF Decide
      <3>2. CASE GetElements(t)
        BY <3>2 DEF GetElements
      <3> QED
        BY <1>16, <3>1, <3>2
    <2>3. last_value'[u] = last_value[u] /\ \E mine : Goes(t, mine, {})
      BY <1>2, <2>2 DEF Return
    <2> QED
      BY <1>3, <2>1, <2>3 DEF Fine
  <1>17. \E upset : Fine(upset)
    BY <1>6, <1>7, <1>8, <1>9, <1>10, <1>11, <1>12, <1>13, <1>14, <1>15, <1>16 DEF Moves
  <1> QED
    BY <1>1, <1>17

\* What get() returns is a number, of a torn object as well.
LEMMA NumberTyped ==
  ASSUME NEW r \in Ring, NEW amount \in SizeT, NEW last \in SizeT, NEW continous \in BOOLEAN
  PROVE  Get(r, amount, last, continous).last_value \in SizeT
  <1> DEFINE start == ReadStart(r, amount, last, continous)
             next == SubtractWithRollover(r.base_id, start, MaxSizeT)
  <1>1. /\ N \in Nat /\ Modulus \in Nat /\ N < Modulus
        /\ r.item_count \in 0 .. N /\ r.base_id \in 0 .. Modulus - 1
    BY CapacityAssumption, WidthAssumption DEF Ring, SizeT
  <1>2. start \in 0 .. r.item_count
    BY ReadBounds
  <1> HIDE DEF start
  <1>3. next \in SizeT
    BY <1>1, <1>2 DEF SubtractWithRollover, MaxSizeT, SizeT
  <1>4. r.base_id \in SizeT
    BY DEF Ring
  <1> HIDE DEF next
  <1> QED
    BY <1>3, <1>4 DEF Get, start, next

(* The members of a reading call after each of its steps.                  *)
LEMMA ReadCallSteps ==
  ASSUME NEW c \in ReadCall, NEW x \in SizeT, NEW y \in 0 .. N, NEW at \in Reading
  PROVE  /\ c.amount \in SizeT /\ c.base \in SizeT /\ c.count \in 0 .. N /\ c.before \in Nat
         /\ c.buf \in Buffers /\ c.request \in Requests /\ c.disturbed \in BOOLEAN
         /\ LET d == [c EXCEPT !.at = "count", !.base = x] IN
            /\ d \in ReadCall /\ d.at = "count" /\ d.base = x /\ d.buf = c.buf
            /\ d.request = c.request /\ d.amount = c.amount /\ d.before = c.before
            /\ d.disturbed = c.disturbed
         /\ LET d == [c EXCEPT !.at = "base", !.count = y] IN
            /\ d \in ReadCall /\ d.at = "base" /\ d.count = y /\ d.buf = c.buf
            /\ d.request = c.request /\ d.amount = c.amount /\ d.before = c.before
            /\ d.disturbed = c.disturbed
         /\ LET d == [c EXCEPT !.at = "compare", !.base = 0, !.count = 0] IN
            /\ d \in ReadCall /\ d.at = "compare" /\ d.buf = c.buf
            /\ d.request = c.request /\ d.amount = c.amount /\ d.before = c.before
            /\ d.disturbed = c.disturbed
         /\ LET d == [c EXCEPT !.at = at] IN
            /\ d \in ReadCall /\ d.at = at /\ d.buf = c.buf
            /\ d.request = c.request /\ d.amount = c.amount /\ d.before = c.before
            /\ d.disturbed = c.disturbed
         /\ LET d == [c EXCEPT !.at = "get", !.amount = y] IN
            /\ d \in ReadCall /\ d.at = "get" /\ d.buf = c.buf
            /\ d.request = c.request /\ d.amount = y /\ d.before = c.before
            /\ d.disturbed = c.disturbed
  <1>1. 0 \in SizeT /\ 0 \in 0 .. N /\ y \in SizeT
    BY CapacityAssumption, WidthAssumption DEF SizeT
  <1>2. {"count", "base", "compare", "get"} \subseteq Reading
    BY DEF Reading
  <1> QED
    BY <1>1, <1>2 DEF ReadCall

(* getVector() begins.                                                     *)
FirstStep(t, b, q) ==
  LET r == ring[b] IN
  [at |-> IF q.raw THEN "get" ELSE IF q.exactly THEN "available" ELSE "compare",
   buf |-> b, request |-> q, amount |-> q.amount, base |-> 0, count |-> 0,
   before |-> GetNewDataAmount(r.base_id, r.item_count, last_value[t]),
   disturbed |-> b \in torn \/ last_value[t] > r.base_id]

\* getVector() goes on.
NextStep(t) ==
  LET c == call[t]
      r == ring[c.buf]
      d == call'[t]
      enough == d = [c EXCEPT !.at = "compare", !.base = 0, !.count = 0]
  IN  \/ c.at = "available" /\ d = [c EXCEPT !.at = "count", !.base = r.base_id]
      \/ c.at = "available" /\ d = [c EXCEPT !.at = "base", !.count = r.item_count]
      \/ /\ c.at = "count" /\ enough
         /\ ~(GetNewDataAmount(c.base, r.item_count, last_value[t]) < c.amount)
      \/ /\ c.at = "base" /\ enough
         /\ ~(GetNewDataAmount(r.base_id, c.count, last_value[t]) < c.amount)
      \/ c.at = "compare" /\ c.amount > r.item_count /\ d = [c EXCEPT !.at = "shrink"]
      \/ c.at = "compare" /\ ~(c.amount > r.item_count) /\ d = [c EXCEPT !.at = "get"]
      \/ c.at = "shrink" /\ d = [c EXCEPT !.at = "get", !.amount = r.item_count]

(* A call that is a reading one after a step of its thread has begun, or   *)
(* was one.                                                                *)
LEMMA ReadingGoesOn ==
  ASSUME TInv, CallsTyped, NEW t \in Readers, Moves(t), call'[t].at \in Reading
  PROVE  /\ UNCHANGED <<ring, torn, last_value>>
         /\ \/ \E b \in Buffers, q \in Requests : call'[t] = FirstStep(t, b, q)
            \/ call[t] \in ReadCall /\ NextStep(t)
  <1> DEFINE c == call[t]
  <1>1. ASSUME NEW mine, NEW upset, Goes(t, mine, upset)
        PROVE  call'[t] = mine
    BY <1>1 DEF Goes
  <1>2. /\ "idle" \notin Reading /\ "range" \notin Reading /\ "vector" \notin Reading
        /\ Idle.at = "idle" /\ call'[t] # Idle
    BY DEF Reading, Idle
  <1>3. c.at \in Reading => c \in ReadCall
    BY DEF CallsTyped
  <1>4. ASSUME NEW b \in Buffers, NEW v \in Values, AddOne(t, b, v)
        PROVE  FALSE
    BY <1>1, <1>2, <1>4 DEF AddOne
  <1>5. ASSUME NEW b \in Buffers, NEW values \in Ranges, BeginRange(t, b, values)
        PROVE  FALSE
    <2>1. call'[t].at = "range"
      BY <1>1, <1>5 DEF BeginRange
    <2> QED
      BY <1>2, <2>1
  <1>6. ASSUME NEW b \in Buffers, ClearAll(t, b)
        PROVE  FALSE
    BY <1>1, <1>2, <1>6 DEF ClearAll
  <1>7. ASSUME NEW d \in Buffers, NEW s \in Buffers, NEW kind \in {"copy", "move"},
               BeginAssign(t, d, s, kind)
        PROVE  FALSE
    <2>1. call'[t].at = "vector"
      BY <1>1, <1>7 DEF BeginAssign
    <2> QED
      BY <1>2, <2>1
  <1>8. ASSUME NEW d \in Buffers, NEW s \in Buffers, Replace(t, d, s)
        PROVE  FALSE
    BY <1>1, <1>2, <1>8 DEF Replace
  <1>9. ASSUME AddNext(t)
        PROVE  FALSE
    <2>1. c \in RangeCall
      BY <1>9 DEF AddNext, TInv, Types, Shaped, Idle, VectorCall, Reading
    <2>2. call'[t] = Idle \/ call'[t] = [c EXCEPT !.left = Tail(c.left)]
      BY <1>1, <1>9 DEF AddNext
    <2>3. [c EXCEPT !.left = Tail(c.left)].at = "range"
      BY <2>1 DEF RangeCall
    <2> QED
      BY <1>2, <2>2, <2>3
  <1>10. ASSUME FinishAssign(t) \/ CopyFails(t)
         PROVE  FALSE
    BY <1>1, <1>2, <1>10 DEF FinishAssign, CopyFails
  <1>11. ASSUME GetElements(t)
         PROVE  FALSE
    BY <1>1, <1>2, <1>11 DEF GetElements, Return
  <1>12. ASSUME NEW b \in Buffers, NEW q \in Requests, BeginGetVector(t, b, q)
         PROVE  UNCHANGED <<ring, torn, last_value>> /\ call'[t] = FirstStep(t, b, q)
    <2>1. Goes(t, FirstStep(t, b, q), {}) /\ UNCHANGED <<ring, torn, last_value>>
      BY <1>12 DEF BeginGetVector, FirstStep
    <2> QED
      BY <1>1, <2>1
  <1>13. ASSUME NEW base, NEW count, Decide(t, base, count)
         PROVE  /\ call'[t] = [c EXCEPT !.at = "compare", !.base = 0, !.count = 0]
                /\ ~(GetNewDataAmount(base, count, last_value[t]) < c.amount)
                /\ UNCHANGED last_value
    <2>1. ~ \E thrown, target, lv : Return(t, thrown, target, lv)
      BY <1>1, <1>2 DEF Return
    <2>2. ~(GetNewDataAmount(base, count, last_value[t]) < c.amount)
      BY <1>13, <2>1 DEF Decide
    <2>3. /\ Goes(t, [c EXCEPT !.at = "compare", !.base = 0, !.count = 0], {})
          /\ UNCHANGED last_value
      BY <1>13, <2>2 DEF Decide
    <2> QED
      BY <1>1, <2>2, <2>3
  <1>14. ASSUME ReadCounter(t)
         PROVE  UNCHANGED <<ring, torn, last_value>> /\ c \in ReadCall /\ NextStep(t)
    <2> DEFINE r == ring[c.buf]
    <2>1. UNCHANGED <<ring, torn>> /\ c.at \in {"available", "count", "base"}
      BY <1>14 DEF ReadCounter
    <2>2. c \in ReadCall
      BY <1>3, <2>1 DEF Reading
    <2>3. CASE c.at = "available"
      <3>1. /\ \/ Goes(t, [c EXCEPT !.at = "count", !.base = r.base_id], {})
               \/ Goes(t, [c EXCEPT !.at = "base", !.count = r.item_count], {})
            /\ UNCHANGED last_value
        BY <1>14, <2>3 DEF ReadCounter
      <3>2. \/ call'[t] = [c EXCEPT !.at = "count", !.base = r.base_id]
            \/ call'[t] = [c EXCEPT !.at = "base", !.count = r.item_count]
        BY <1>1, <3>1
      <3> QED
        BY <2>1, <2>2, <2>3, <3>1, <3>2 DEF NextStep
    <2>4. CASE c.at = "count"
      <3>1. Decide(t, c.base, r.item_count)
        BY <1>14, <2>4 DEF ReadCounter
      <3>2. /\ call'[t] = [c EXCEPT !.at = "compare", !.base = 0, !.count = 0]
            /\ ~(GetNewDataAmount(c.base, r.item_count, last_value[t]) < c.amount)
            /\ UNCHANGED last_value
        BY <1>13, <3>1
      <3> QED
        BY <2>1, <2>2, <2>4, <3>2 DEF NextStep
    <2>5. CASE c.at = "base"
      <3>1. Decide(t, r.base_id, c.count)
        BY <1>14, <2>5 DEF ReadCounter
      <3>2. /\ call'[t] = [c EXCEPT !.at = "compare", !.base = 0, !.count = 0]
            /\ ~(GetNewDataAmount(r.base_id, c.count, last_value[t]) < c.amount)
            /\ UNCHANGED last_value
        BY <1>13, <3>1
      <3> QED
        BY <2>1, <2>2, <2>5, <3>2 DEF NextStep
    <2> QED
      BY <2>1, <2>3, <2>4, <2>5
  <1>15. ASSUME Compare(t)
         PROVE  UNCHANGED <<ring, torn, last_value>> /\ c \in ReadCall /\ NextStep(t)
    <2> DEFINE over == c.amount > ring[c.buf].item_count
    <2>1. /\ c.at = "compare" /\ UNCHANGED <<ring, torn, last_value>>
          /\ Goes(t, [c EXCEPT !.at = IF over THEN "shrink" ELSE "get"], {})
      BY <1>15 DEF Compare
    <2>2. c \in ReadCall
      BY <1>3, <2>1 DEF Reading
    <2>3. call'[t] = [c EXCEPT !.at = IF over THEN "shrink" ELSE "get"]
      BY <1>1, <2>1
    <2>4. over => call'[t] = [c EXCEPT !.at = "shrink"]
      BY <2>3
    <2>5. ~over => call'[t] = [c EXCEPT !.at = "get"]
      BY <2>3
    <2> QED
      BY <2>1, <2>2, <2>4, <2>5 DEF NextStep
  <1>16. ASSUME Shrink(t)
         PROVE  UNCHANGED <<ring, torn, last_value>> /\ c \in ReadCall /\ NextStep(t)
    <2>1. /\ c.at = "shrink" /\ UNCHANGED <<ring, torn, last_value>>
          /\ Goes(t, [c EXCEPT !.at = "get", !.amount = ring[c.buf].item_count], {})
      BY <1>16 DEF Shrink
    <2>2. c \in ReadCall
      BY <1>3, <2>1 DEF Reading
    <2>3. call'[t] = [c EXCEPT !.at = "get", !.amount = ring[c.buf].item_count]
      BY <1>1, <2>1
    <2> QED
      BY <2>1, <2>2, <2>3 DEF NextStep
  <1> QED
    BY <1>4, <1>5, <1>6, <1>7, <1>8, <1>9, <1>10, <1>11, <1>12, <1>14, <1>15, <1>16
    DEF Moves

LEMMA CallsTypedBegin == InitThreads => CallsTyped
  <1> SUFFICES ASSUME InitThreads PROVE CallsTyped
    OBVIOUS
  <1>1. last_value \in [Readers -> Seen] /\ \A t \in Readers : call[t] = Idle
    BY DEF InitThreads
  <1>2. Idle.at \notin Reading
    BY DEF Idle, Reading
  <1> QED
    BY <1>1, <1>2, ThreadsAssumption DEF CallsTyped

\* The first step of a call is typed.
LEMMA FirstStepTyped ==
  ASSUME TInv, CallsTyped, NEW t \in Readers, NEW b \in Buffers, NEW q \in Requests
  PROVE  FirstStep(t, b, q) \in ReadCall
  <1>1. /\ ring[b] \in Ring /\ last_value[t] \in SizeT /\ q \in RequestType
    BY RequestsAssumption DEF TInv, Types, CallsTyped
  <1>2. /\ 0 \in SizeT /\ 0 \in 0 .. N /\ q.amount \in SizeT
        /\ ring[b].base_id \in Nat /\ last_value[t] \in Nat /\ ring[b].item_count \in Nat
        /\ ring[b].base_id < Modulus /\ last_value[t] < Modulus /\ Modulus \in Nat
    BY <1>1, CapacityAssumption, WidthAssumption DEF Ring, RequestType, SizeT
  <1>3. GetNewDataAmount(ring[b].base_id, ring[b].item_count, last_value[t]) \in Nat
    BY <1>2 DEF GetNewDataAmount, SubtractWithRollover, Smaller, MaxSizeT
  <1>4. (IF q.raw THEN "get" ELSE IF q.exactly THEN "available" ELSE "compare") \in Reading
    BY DEF Reading
  <1>5. (b \in torn \/ last_value[t] > ring[b].base_id) \in BOOLEAN
    OBVIOUS
  <1> QED
    BY <1>2, <1>3, <1>4, <1>5 DEF FirstStep, ReadCall

LEMMA CallsTypedKept ==
  TInv /\ CallsTyped /\ [NextThreads]_threadVars => CallsTyped'
  <1> SUFFICES ASSUME TInv, CallsTyped, [NextThreads]_threadVars PROVE CallsTyped'
    OBVIOUS
  <1>1. CASE UNCHANGED threadVars
    BY <1>1 DEF CallsTyped, threadVars
  <1>2. ASSUME NEW t \in Readers, Moves(t)
        PROVE  CallsTyped'
    <2>1. ASSUME NEW u \in Readers, call'[u].at \in Reading
          PROVE  call'[u] \in ReadCall
      <3>1. CASE u # t
        <4>1. call'[u] # Idle
          BY <2>1 DEF Idle, Reading
        <4>2. /\ call[u] # Idle
              /\ call'[u].at = call[u].at
              /\ call'[u] = call[u] \/ CallTyped(call'[u])
          BY <1>2, <3>1, <4>1, OthersKept
        <4>3. CASE call'[u] = call[u]
          BY <2>1, <4>3 DEF CallsTyped
        <4>4. CASE CallTyped(call'[u])
          BY <2>1, <4>4 DEF CallTyped, RangeCall, VectorCall, Reading
        <4> QED
          BY <4>2, <4>3, <4>4
      <3>2. CASE u = t
        <4>1. \/ \E b \in Buffers, q \in Requests : call'[t] = FirstStep(t, b, q)
              \/ call[t] \in ReadCall /\ NextStep(t)
          BY <1>2, <2>1, <3>2, ReadingGoesOn
        <4>2. CASE \E b \in Buffers, q \in Requests : call'[t] = FirstStep(t, b, q)
          BY <3>2, <4>2, FirstStepTyped
        <4>3. CASE call[t] \in ReadCall /\ NextStep(t)
          <5> DEFINE c == call[t]
                     r == ring[c.buf]
          <5>1. r.base_id \in SizeT /\ r.item_count \in 0 .. N
            <6>1. r \in Ring
              BY <4>3 DEF ReadCall, TInv, Types
            <6> QED
              BY <6>1 DEF Ring
          <5>2. "shrink" \in Reading /\ "get" \in Reading
            BY DEF Reading
          <5>3. /\ [c EXCEPT !.at = "count", !.base = r.base_id] \in ReadCall
                /\ [c EXCEPT !.at = "base", !.count = r.item_count] \in ReadCall
                /\ [c EXCEPT !.at = "compare", !.base = 0, !.count = 0] \in ReadCall
                /\ [c EXCEPT !.at = "shrink"] \in ReadCall
                /\ [c EXCEPT !.at = "get"] \in ReadCall
                /\ [c EXCEPT !.at = "get", !.amount = r.item_count] \in ReadCall
            <6> DEFINE x == r.base_id
                       y == r.item_count
            <6>1. c \in ReadCall /\ x \in SizeT /\ y \in 0 .. N
              BY <4>3, <5>1
            <6>2. y \in SizeT /\ 0 \in SizeT /\ 0 \in 0 .. N
              BY <6>1, CapacityAssumption, WidthAssumption DEF SizeT
            <6>3. {"count", "base", "compare", "shrink", "get"} \subseteq Reading
              BY DEF Reading
            <6> HIDE DEF x, y, c, r
            <6>4. /\ [c EXCEPT !.at = "count", !.base = x] \in ReadCall
                  /\ [c EXCEPT !.at = "base", !.count = y] \in ReadCall
                  /\ [c EXCEPT !.at = "compare", !.base = 0, !.count = 0] \in ReadCall
                  /\ [c EXCEPT !.at = "shrink"] \in ReadCall
                  /\ [c EXCEPT !.at = "get"] \in ReadCall
                  /\ [c EXCEPT !.at = "get", !.amount = y] \in ReadCall
              BY ONLY <6>1, <6>2, <6>3, ZenonT(40) DEF ReadCall
            <6> QED
              BY <6>4 DEF x, y
          <5> QED
            BY <3>2, <4>3, <5>3 DEF NextStep
        <4> QED
          BY <4>1, <4>2, <4>3
      <3> QED
        BY <3>1, <3>2
    <2>2. last_value' \in [Readers -> SizeT]
      <3>0. last_value \in [Readers -> SizeT]
        BY DEF CallsTyped
      <3>1. \/ UNCHANGED last_value
            \/ ReadCounter(t) \/ GetElements(t)
        BY <1>2, ZenonT(40) DEF Moves, AddOne, BeginRange, ClearAll, BeginGetVector, BeginAssign, Replace,
           MoveConstruct, AddNext, Compare, Shrink, FinishAssign, CopyFails
      <3>2. ASSUME NEW thrown, NEW target, NEW lv \in SizeT, Return(t, thrown, target, lv)
            PROVE  last_value' \in [Readers -> SizeT]
        BY <3>0, <3>2 DEF Return
      <3>3. CASE ReadCounter(t)
        <4>1. \/ UNCHANGED last_value
              \/ \E base, count : Decide(t, base, count)
          BY <3>3 DEF ReadCounter
        <4>2. \/ UNCHANGED last_value
              \/ Return(t, FALSE, << >>, last_value[t])
          BY <4>1 DEF Decide
        <4> QED
          BY <3>0, <3>2, <4>2
      <3>4. CASE GetElements(t)
        <4> DEFINE c == call[t]
                   out == Get(ring[c.buf], c.amount, last_value[t], c.request.continous)
        <4>1. c.at = "get" /\ \E thrown, target : Return(t, thrown, target, out.last_value)
          BY <3>4 DEF GetElements
        <4>2. c \in ReadCall
          BY <4>1 DEF CallsTyped, Reading
        <4>3. /\ c.buf \in Buffers /\ c.amount \in SizeT
              /\ c.request \in Requests /\ c.request.continous \in BOOLEAN
          BY <4>2, RequestsAssumption DEF ReadCall, RequestType
        <4>4. ring[c.buf] \in Ring /\ last_value[t] \in SizeT
          BY <3>0, <4>3 DEF TInv, Types
        <4>5. out.last_value \in SizeT
          BY <4>3, <4>4, NumberTyped
        <4> QED
          BY <3>2, <4>1, <4>5
      <3> QED
        BY <3>0, <3>1, <3>3, <3>4
    <2> QED
      BY <2>1, <2>2 DEF CallsTyped
  <1> QED
    BY <1>1, <1>2, SomeoneMoves

-----------------------------------------------------------------------------
(* add() of a range.                                                       *)

(* The end of the log after an element has been added.                     *)
LEMMA KeptEnd ==
  ASSUME NEW w \in Seq(Data), Len(w) <= N, NEW v \in Values
  PROVE  LET x == Log!Kept(w, v) IN
         /\ Len(x) = Smaller(Len(w) + 1, N)
         /\ x[Len(x)] = v
         /\ \A k \in 1 .. Len(x) - 1 : x[Len(x) - k] = w[Len(w) - (k - 1)]
  <1>1. /\ N \in Nat \ {0} /\ Len(w) \in Nat /\ v \in Data
    BY CapacityAssumption DEF Data
  <1>2. CASE Len(w) < N
    <2>1. Log!Kept(w, v) = Append(w, v)
      BY <1>2 DEF Log!Kept
    <2>2. /\ Len(Append(w, v)) = Len(w) + 1 /\ Append(w, v)[Len(w) + 1] = v
          /\ \A i \in 1 .. Len(w) : Append(w, v)[i] = w[i]
      BY <1>1
    <2>3. Smaller(Len(w) + 1, N) = Len(w) + 1
      BY <1>1, <1>2 DEF Smaller
    <2>4. \A k \in 1 .. Len(w) :
            Len(w) + 1 - k \in 1 .. Len(w) /\ Len(w) + 1 - k = Len(w) - (k - 1)
      BY <1>1
    <2> QED
      BY <1>1, <2>1, <2>2, <2>3, <2>4
  <1>3. CASE Len(w) = N
    <2> DEFINE l == Log!LastOf(w, N - 1)
    <2>1. Log!Kept(w, v) = Append(l, v)
      BY <1>1, <1>3 DEF Log!Kept
    <2>2. l = [i \in 1 .. N - 1 |-> w[i + 1]]
      <3>1. \A i \in 1 .. N - 1 : Len(w) - (N - 1) + i = i + 1
        BY <1>1, <1>3
      <3> QED
        BY <3>1 DEF Log!LastOf
    <2> HIDE DEF l
    <2>3. l \in Seq(Data) /\ Len(l) = N - 1 /\ \A i \in 1 .. N - 1 : l[i] = w[i + 1]
      <3>1. \A i \in 1 .. N - 1 : w[i + 1] \in Data
        BY <1>1, <1>3
      <3>2. N - 1 \in Nat
        BY <1>1
      <3> QED
        BY <2>2, <3>1, <3>2
    <2>4. /\ Len(Append(l, v)) = N /\ Append(l, v)[N] = v
          /\ \A i \in 1 .. N - 1 : Append(l, v)[i] = w[i + 1]
      BY <1>1, <2>3
    <2>5. Smaller(Len(w) + 1, N) = N
      BY <1>1, <1>3 DEF Smaller
    <2>6. \A k \in 1 .. N - 1 : N - k \in 1 .. N - 1 /\ N - k + 1 = Len(w) - (k - 1)
      BY <1>1, <1>3
    <2>7. \A k \in 1 .. N - 1 : Append(l, v)[N - k] = w[Len(w) - (k - 1)]
      BY <2>4, <2>6
    <2> QED
      BY <2>1, <2>4, <2>5, <2>7
  <1> QED
    BY <1>1, <1>2, <1>3

(* The next element of a range goes behind those that have been added.     *)
LEMMA NextAdded ==
  ASSUME TInv, CallsTyped, RangesAdded, NEW t \in Readers, AddNext(t)
  PROVE  LET c == call[t]
             m == Len(c.values) - Len(c.left)
             x == Window(ring'[c.buf])
         IN  /\ c \in RangeCall /\ LeftOver(c) /\ torn' = torn
             /\ call'[t] = IF Len(c.left) = 1 THEN Idle
                           ELSE [c EXCEPT !.left = Tail(c.left)]
             /\ (~c.disturbed /\ c.buf \notin torn) =>
                  /\ Smaller(m + 1, N) <= Len(x) /\ Len(x) \in 0 .. N
                  /\ \A k \in 0 .. Smaller(m + 1, N) - 1 : x[Len(x) - k] = c.values[(m + 1) - k]
  <1> DEFINE c == call[t]
             m == Len(c.values) - Len(c.left)
             b == c.buf
             v == Head(c.left)
             w == Window(ring[b])
             x == Window(ring'[b])
  <1>1. c.at = "range" /\ c \in RangeCall
    BY DEF AddNext, TInv, Types, Shaped, Idle, VectorCall, Reading
  <1>2. /\ b \in Buffers /\ c.left \in Seq(Values) /\ c.left # << >> /\ c.values \in Seq(Values)
        /\ Len(c.left) \in Nat \ {0} /\ v \in Values /\ v = c.left[1]
    <2>1. /\ b \in Buffers /\ c.left \in Seq(Values) /\ c.left # << >> /\ c.values \in Seq(Values)
      BY <1>1 DEF RangeCall
    <2> QED
      BY <2>1
  <1>3. /\ ring' = [ring EXCEPT ![b] = Added(@, v)] /\ torn' = torn
        /\ call'[t] = IF Len(c.left) = 1 THEN Idle ELSE [c EXCEPT !.left = Tail(c.left)]
    BY DEF AddNext, Goes
  <1>4. LeftOver(c) /\ ((~c.disturbed /\ b \notin torn) => AddedSoFar(c, w))
    BY <1>1 DEF RangesAdded
  <1>5. ASSUME ~c.disturbed, b \notin torn
        PROVE  /\ Smaller(m + 1, N) <= Len(x) /\ Len(x) \in 0 .. N
               /\ \A k \in 0 .. Smaller(m + 1, N) - 1 : x[Len(x) - k] = c.values[(m + 1) - k]
    <2>1. ring[b] \in Ring /\ WellFormed(ring[b]) /\ ring'[b] = Added(ring[b], v)
      BY <1>2, <1>3, <1>5 DEF TInv, Types, ObjectsWhole
    <2>2. x = Log!Kept(w, v) /\ w \in Seq(Data) /\ Len(w) = ring[b].item_count
      BY <1>2, <2>1, WindowAdded, WindowSound
    <2>3. /\ N \in Nat \ {0} /\ Len(w) \in Nat /\ Len(w) <= N
          /\ m \in Nat
      BY <1>4, <2>1, <2>2, CapacityAssumption DEF Ring, LeftOver
    <2>4. /\ Smaller(m, N) <= Len(w)
          /\ \A k \in 0 .. Smaller(m, N) - 1 : w[Len(w) - k] = c.values[m - k]
      BY <1>4, <1>5 DEF AddedSoFar
    <2> HIDE DEF x, w, v, b
    <2>5. /\ Len(x) = Smaller(Len(w) + 1, N)
          /\ x[Len(x)] = v
          /\ \A k \in 1 .. Len(x) - 1 : x[Len(x) - k] = w[Len(w) - (k - 1)]
      <3>1. w \in Seq(Data) /\ Len(w) <= N /\ v \in Values /\ x = Log!Kept(w, v)
        BY <1>2, <2>2, <2>3 DEF v
      <3> QED
        BY ONLY <3>1, KeptEnd
    <2>6. v = c.values[m + 1]
      <3>1. 1 \in 1 .. Len(c.left)
        BY <1>2
      <3> QED
        BY <1>2, <1>4, <3>1 DEF LeftOver
    <2> HIDE DEF m
    <2>7. /\ Smaller(m + 1, N) <= Len(x) /\ Len(x) \in 1 .. N
          /\ \A k \in 1 .. Smaller(m + 1, N) - 1 : k \in 1 .. Len(x) - 1
          /\ \A k \in 1 .. Smaller(m + 1, N) - 1 : k - 1 \in 0 .. Smaller(m, N) - 1
      BY <2>3, <2>4, <2>5 DEF Smaller
    <2>8. ASSUME NEW k \in 0 .. Smaller(m + 1, N) - 1
          PROVE  x[Len(x) - k] = c.values[(m + 1) - k]
      <3>1. CASE k = 0
        <4>1. Len(x) - k = Len(x) /\ (m + 1) - k = m + 1
          BY <2>3, <2>7, <3>1
        <4> QED
          BY <2>5, <2>6, <4>1
      <3>2. CASE k # 0
        <4>1. k \in 1 .. Smaller(m + 1, N) - 1
          BY <3>2
        <4>2. x[Len(x) - k] = w[Len(w) - (k - 1)]
          BY <2>5, <2>7, <4>1
        <4>3. w[Len(w) - (k - 1)] = c.values[m - (k - 1)]
          BY <2>4, <2>7, <4>1
        <4>4. m - (k - 1) = (m + 1) - k
          BY <2>3, <4>1
        <4> QED
          BY <4>2, <4>3, <4>4
      <3> QED
        BY <3>1, <3>2
    <2> QED
      BY <2>7, <2>8
  <1> QED
    BY <1>1, <1>3, <1>4, <1>5

LEMMA RangeGoesOn ==
  ASSUME TInv, CallsTyped, NEW t \in Readers, Moves(t), call'[t].at = "range"
  PROVE  \/ \E b \in Buffers, values \in Ranges :
              call'[t] = [at |-> "range", buf |-> b, left |-> values, values |-> values,
                          disturbed |-> FALSE]
         \/ AddNext(t)
  <1>1. ASSUME NEW mine, NEW upset, Goes(t, mine, upset)
        PROVE  call'[t] = mine
    BY <1>1 DEF Goes
  <1>2. Idle.at = "idle" /\ call'[t] # Idle /\ "range" \notin Reading
    BY DEF Idle, Reading
  <1>3. ASSUME NEW b \in Buffers,
               \/ \E v \in Values : AddOne(t, b, v)
               \/ ClearAll(t, b)
               \/ \E s \in Buffers : Replace(t, b, s)
        PROVE  FALSE
    BY <1>1, <1>2, <1>3 DEF AddOne, ClearAll, Replace
  <1>4. ASSUME NEW b \in Buffers, NEW values \in Ranges, BeginRange(t, b, values)
        PROVE  call'[t] = [at |-> "range", buf |-> b, left |-> values, values |-> values,
                           disturbed |-> FALSE]
    BY <1>1, <1>4 DEF BeginRange
  <1>5. ASSUME NEW b \in Buffers, NEW q \in Requests, BeginGetVector(t, b, q)
        PROVE  FALSE
    <2>1. call'[t] = FirstStep(t, b, q)
      BY <1>1, <1>5 DEF BeginGetVector, FirstStep
    <2> QED
      BY <1>2, <2>1, FirstStepTyped DEF ReadCall
  <1>6. ASSUME NEW d \in Buffers, NEW s \in Buffers, NEW kind \in {"copy", "move"},
               BeginAssign(t, d, s, kind)
        PROVE  FALSE
    <2>1. call'[t].at = "vector"
      BY <1>1, <1>6 DEF BeginAssign
    <2> QED
      BY <2>1
  <1>7. ASSUME ReadCounter(t) \/ Compare(t) \/ Shrink(t) \/ GetElements(t)
        PROVE  FALSE
    <2> DEFINE c == call[t]
    <2>1. c \in ReadCall
      <3>1. c.at \in Reading
        BY <1>7 DEF ReadCounter, Compare, Shrink, GetElements, Reading
      <3> QED
        BY <3>1 DEF CallsTyped
    <2>2. /\ \A x : [c EXCEPT !.at = "count", !.base = x].at = "count"
          /\ \A x : [c EXCEPT !.at = "base", !.count = x].at = "base"
          /\ [c EXCEPT !.at = "compare", !.base = 0, !.count = 0].at = "compare"
          /\ \A at : [c EXCEPT !.at = at].at = at
          /\ \A x : [c EXCEPT !.at = "get", !.amount = x].at = "get"
      BY <2>1 DEF ReadCall
    <2>3. call'[t].at \in Reading
      <3>0. {"count", "base", "compare", "shrink", "get"} \subseteq Reading
        BY DEF Reading
      <3>1. CASE ReadCounter(t)
        <4>1. \/ Goes(t, [c EXCEPT !.at = "count", !.base = ring[c.buf].base_id], {})
              \/ Goes(t, [c EXCEPT !.at = "base", !.count = ring[c.buf].item_count], {})
              \/ \E base, count : Decide(t, base, count)
          BY <3>1 DEF ReadCounter
        <4>2. \/ Goes(t, [c EXCEPT !.at = "count", !.base = ring[c.buf].base_id], {})
              \/ Goes(t, [c EXCEPT !.at = "base", !.count = ring[c.buf].item_count], {})
              \/ Goes(t, [c EXCEPT !.at = "compare", !.base = 0, !.count = 0], {})
              \/ Goes(t, Idle, {})
          BY <4>1 DEF Decide, Return
        <4>3. \/ call'[t] = [c EXCEPT !.at = "count", !.base = ring[c.buf].base_id]
              \/ call'[t] = [c EXCEPT !.at = "base", !.count = ring[c.buf].item_count]
              \/ call'[t] = [c EXCEPT !.at = "compare", !.base = 0, !.count = 0]
          BY <1>1, <1>2, <4>2
        <4> QED
          BY <2>2, <3>0, <4>3
      <3>2. CASE Compare(t)
        <4> DEFINE at == IF c.amount > ring[c.buf].item_count THEN "shrink" ELSE "get"
        <4>1. call'[t] = [c EXCEPT !.at = at]
          BY <1>1, <3>2 DEF Compare
        <4>2. at \in Reading
          BY <3>0
        <4> HIDE DEF at
        <4> QED
          BY <2>2, <4>1, <4>2
      <3>3. CASE Shrink(t)
        <4>1. call'[t] = [c EXCEPT !.at = "get", !.amount = ring[c.buf].item_count]
          BY <1>1, <3>3 DEF Shrink
        <4> QED
          BY <2>2, <3>0, <4>1
      <3>4. CASE GetElements(t)
        BY <1>1, <1>2, <3>4 DEF GetElements, Return
      <3> QED
        BY <1>7, <3>1, <3>2, <3>3, <3>4
    <2> QED
      BY <1>2, <2>3
  <1>8. ASSUME FinishAssign(t) \/ CopyFails(t)
        PROVE  FALSE
    BY <1>1, <1>2, <1>8 DEF FinishAssign, CopyFails
  <1> QED
    BY <1>3, <1>4, <1>5, <1>6, <1>7, <1>8 DEF Moves

LEMMA RangesBegin == InitThreads => RangesAdded
  BY DEF InitThreads, RangesAdded, Idle

LEMMA RangesKept ==
  TInv /\ CallsTyped /\ RangesAdded /\ [NextThreads]_threadVars => RangesAdded'
  <1> SUFFICES ASSUME TInv, CallsTyped, RangesAdded, [NextThreads]_threadVars
               PROVE  RangesAdded'
    OBVIOUS
  <1>1. CASE UNCHANGED threadVars
    BY <1>1 DEF RangesAdded, threadVars
  <1>2. ASSUME NEW t \in Readers, Moves(t), NEW u \in Readers, call'[u].at = "range"
        PROVE  /\ LeftOver(call'[u])
               /\ (~call'[u].disturbed /\ call'[u].buf \notin torn')
                     => AddedSoFar(call'[u], Window(ring'[call'[u].buf]))
    <2>1. CASE u # t
      <3>1. call'[u] # Idle
        BY <1>2 DEF Idle
      <3>2. /\ call[u] # Idle /\ call[u].at = "range"
            /\ \/ call'[u] = call[u] /\ Unharmed(u)
               \/ /\ call'[u] = [call[u] EXCEPT !.disturbed = TRUE]
                  /\ call'[u].disturbed = TRUE
        BY <1>2, <2>1, <3>1, OthersKept
      <3>3. /\ LeftOver(call[u])
            /\ (~call[u].disturbed /\ call[u].buf \notin torn)
                  => AddedSoFar(call[u], Window(ring[call[u].buf]))
        BY <3>2 DEF RangesAdded
      <3>4. CASE call'[u] = call[u] /\ Unharmed(u)
        BY <3>2, <3>3, <3>4 DEF Unharmed, Reading
      <3>5. CASE call'[u] = [call[u] EXCEPT !.disturbed = TRUE] /\ call'[u].disturbed = TRUE
        <4>1. call[u] \in RangeCall
          BY <3>2, CallsHaveTypes
        <4>2. call'[u].left = call[u].left /\ call'[u].values = call[u].values
          BY <3>5, <4>1 DEF RangeCall
        <4> QED
          BY <3>3, <3>5, <4>2 DEF LeftOver
      <3> QED
        BY <3>2, <3>4, <3>5
    <2>2. CASE u = t
      <3>1. \/ \E b \in Buffers, values \in Ranges :
                 call'[t] = [at |-> "range", buf |-> b, left |-> values, values |-> values,
                             disturbed |-> FALSE]
            \/ AddNext(t)
        BY <1>2, <2>2, RangeGoesOn
      <3>2. ASSUME NEW b \in Buffers, NEW values \in Ranges,
                   call'[t] = [at |-> "range", buf |-> b, left |-> values, values |-> values,
                               disturbed |-> FALSE]
            PROVE  /\ LeftOver(call'[t])
                   /\ AddedSoFar(call'[t], Window(ring'[b]))
                   /\ call'[t].buf = b
        <4>1. values \in Seq(Values) /\ Len(values) \in Nat
          BY ThreadsAssumption
        <4>2. call'[t].left = values /\ call'[t].values = values /\ call'[t].buf = b
          BY <3>2
        <4>3. Len(values) - Len(values) = 0
          BY <4>1
        <4>4. LeftOver(call'[t])
          BY <4>1, <4>2, <4>3 DEF LeftOver
        <4>5. AddedSoFar(call'[t], Window(ring'[b]))
          <5>1. /\ N \in Nat \ {0} /\ Smaller(0, N) = 0
            BY CapacityAssumption DEF Smaller
          <5>2. Len(Window(ring'[b])) \in Nat
            <6>1. ring'[b].item_count \in Nat
              <7>1. TInv'
                BY ThreadsKeep
              <7> QED
                BY <7>1, CapacityAssumption DEF TInv, Types, Ring
            <6> DEFINE n == ring'[b].item_count
            <6>2. Window(ring'[b]) =
                    [k \in 1 .. n |-> ring'[b].buffer[Offset(ring'[b], n - k) + 1]]
              BY DEF Window
            <6> HIDE DEF n
            <6>3. Len(Window(ring'[b])) = n
              BY <6>1, <6>2 DEF n
            <6> QED
              BY <6>1, <6>3 DEF n
          <5> QED
            BY <4>2, <4>3, <5>1, <5>2 DEF AddedSoFar
        <4> QED
          BY <4>2, <4>4, <4>5
      <3>3. CASE AddNext(t)
        <4> DEFINE c == call[t]
                   d == call'[t]
                   m == Len(c.values) - Len(c.left)
        <4>1. /\ c \in RangeCall /\ LeftOver(c) /\ torn' = torn
              /\ d = IF Len(c.left) = 1 THEN Idle ELSE [c EXCEPT !.left = Tail(c.left)]
              /\ (~c.disturbed /\ c.buf \notin torn) =>
                   LET x == Window(ring'[c.buf]) IN
                   /\ Smaller(m + 1, N) <= Len(x)
                   /\ \A k \in 0 .. Smaller(m + 1, N) - 1 : x[Len(x) - k] = c.values[(m + 1) - k]
          BY <3>3, NextAdded
        <4>2. d = [c EXCEPT !.left = Tail(c.left)] /\ Len(c.left) # 1
          BY <1>2, <2>2, <4>1 DEF Idle
        <4>3. /\ d.left = Tail(c.left) /\ d.values = c.values /\ d.buf = c.buf
              /\ d.disturbed = c.disturbed
              /\ c.left \in Seq(Values) /\ c.left # << >> /\ c.values \in Seq(Values)
          BY <4>1, <4>2 DEF RangeCall
        <4>4. /\ Len(c.left) \in Nat /\ Len(c.left) # 0 /\ Len(d.left) = Len(c.left) - 1
              /\ \A i \in 1 .. Len(d.left) : d.left[i] = c.left[i + 1]
          BY <4>3
        <4>5. Len(d.values) - Len(d.left) = m + 1 /\ m \in Nat
          <5>1. m \in Nat
            BY <4>1 DEF LeftOver
          <5>2. Len(c.values) \in Nat /\ Len(d.values) = Len(c.values)
            BY <4>3
          <5> DEFINE i == Len(c.values)
                     j == Len(c.left)
          <5>3. i \in Nat /\ j \in Nat /\ Len(d.values) = i /\ Len(d.left) = j - 1 /\ m = i - j
            BY <4>4, <5>2
          <5> HIDE DEF i, j, d, m, c
          <5>4. Len(d.values) - Len(d.left) = m + 1
            BY ONLY <5>3
          <5> QED
            BY <5>1, <5>4
        <4>6. \A i \in 1 .. Len(c.left) : c.left[i] = c.values[m + i]
          BY <4>1 DEF LeftOver
        <4> DEFINE n == m + 1
                   x == Window(ring'[c.buf])
        <4> HIDE DEF c, d, m, x
        <4>7. LeftOver(d)
          <5>1. ASSUME NEW i \in 1 .. Len(d.left)
                PROVE  d.left[i] = d.values[n + i]
            <6>1. i + 1 \in 1 .. Len(c.left) /\ m + (i + 1) = m + 1 + i
              BY <4>4, <4>5
            <6>2. c.left[i + 1] = c.values[m + (i + 1)]
              BY <4>6, <6>1
            <6> QED
              BY <4>3, <4>4, <6>1, <6>2
          <5>2. Len(d.values) - Len(d.left) = n
            BY <4>5, Zenon
          <5>3. n \in Nat
            BY <4>5
          <5> HIDE DEF n
          <5> QED
            BY <5>1, <5>2, <5>3 DEF LeftOver
        <4>8. (~d.disturbed /\ d.buf \notin torn') => AddedSoFar(d, Window(ring'[d.buf]))
          <5> SUFFICES ASSUME ~d.disturbed, d.buf \notin torn'
                       PROVE  AddedSoFar(d, Window(ring'[d.buf]))
            OBVIOUS
          <5>1. /\ Smaller(n, N) <= Len(x)
                /\ \A k \in 0 .. Smaller(n, N) - 1 : x[Len(x) - k] = c.values[n - k]
            <6>1. ~c.disturbed /\ c.buf \notin torn
              BY <4>1, <4>3
            <6> QED
              BY <4>1, <6>1, Zenon DEF x
          <5>2. /\ Len(d.values) - Len(d.left) = n /\ d.values = c.values
                /\ Window(ring'[d.buf]) = x
            BY <4>3, <4>5 DEF x
          <5> HIDE DEF n
          <5> QED
            BY <5>1, <5>2 DEF AddedSoFar
        <4> QED
          BY <2>2, <4>7, <4>8 DEF d
      <3> QED
        BY <2>2, <3>1, <3>2, <3>3
    <2> QED
      BY <2>1, <2>2
  <1>3. ASSUME NEW t \in Readers, Moves(t)
        PROVE  RangesAdded'
    BY <1>2, <1>3 DEF RangesAdded
  <1> QED
    BY <1>1, <1>3, SomeoneMoves

(* A call ends with a step of its own thread, and that of a range with its *)
(* last element.                                                           *)
LEMMA EndsItself ==
  ASSUME TInv, CallsTyped, NextThreads, NEW t \in Readers, Ends(t)
  PROVE  Moves(t)
  BY SomeoneMoves, OthersKept DEF Ends

LEMMA RangeEnds ==
  ASSUME TInv, CallsTyped, NEW t \in Readers, Moves(t), call[t].at = "range"
  PROVE  AddNext(t)
  <1>1. call[t] # Idle /\ call[t].at \notin Reading /\ call[t].at # "vector"
    BY DEF Idle, Reading
  <1>2. ~Begins(t)
    BY <1>1 DEF Begins
  <1>3. ASSUME NEW b \in Buffers
        PROVE  /\ \A v \in Values : ~AddOne(t, b, v)
               /\ \A values \in Ranges : ~BeginRange(t, b, values)
               /\ ~ClearAll(t, b)
               /\ \A q \in Requests : ~BeginGetVector(t, b, q)
               /\ \A s \in Buffers : ~Replace(t, b, s)
               /\ \A s \in Buffers, kind \in {"copy", "move"} : ~BeginAssign(t, b, s, kind)
    BY <1>2 DEF AddOne, BeginRange, ClearAll, BeginGetVector, BeginAssign, Replace
  <1>4. ~ReadCounter(t) /\ ~Compare(t) /\ ~Shrink(t) /\ ~GetElements(t)
    BY <1>1 DEF ReadCounter, Compare, Shrink, GetElements, Reading
  <1>5. ~FinishAssign(t) /\ ~CopyFails(t)
    BY <1>1 DEF FinishAssign, CopyFails
  <1> QED
    BY <1>3, <1>4, <1>5 DEF Moves

(* However many threads add to however many objects: the elements of a     *)
(* range stand together at the end of the buffer, in their order, unless   *)
(* another thread has written to it between two of them.                   *)
THEOREM RangesStayTogether == SpecThreads => RangeTogether
  <1> DEFINE Together(t) ==
        LET b == call[t].buf
            window == Window(ring'[b])
            kept == Smaller(Len(call[t].values), Len(window))
        IN  (Undisturbed(t) /\ call[t].at = "range" /\ b \notin torn)
              => /\ kept = Smaller(Len(call[t].values), N)
                 /\ \A k \in 0 .. kept - 1 :
                      window[Len(window) - k] = call[t].values[Len(call[t].values) - k]
  <1>1. ASSUME TInv, CallsTyped, RangesAdded, NextThreads, NEW t \in Readers
        PROVE  Together(t)
    <2> DEFINE c == call[t]
               m == Len(c.values) - Len(c.left)
               window == Window(ring'[c.buf])
               kept == Smaller(Len(c.values), Len(window))
    <2> SUFFICES ASSUME Ends(t), ~c.disturbed, c.at = "range", c.buf \notin torn
                 PROVE  /\ kept = Smaller(Len(c.values), N)
                        /\ \A k \in 0 .. kept - 1 :
                             window[Len(window) - k] = c.values[Len(c.values) - k]
      BY DEF Undisturbed
    <2>1. AddNext(t)
      BY <1>1, EndsItself, RangeEnds
    <2>2. /\ c \in RangeCall /\ LeftOver(c)
          /\ call'[t] = IF Len(c.left) = 1 THEN Idle ELSE [c EXCEPT !.left = Tail(c.left)]
          /\ Smaller(m + 1, N) <= Len(window) /\ Len(window) \in 0 .. N
          /\ \A k \in 0 .. Smaller(m + 1, N) - 1 :
               window[Len(window) - k] = c.values[(m + 1) - k]
      BY <1>1, <2>1, NextAdded
    <2>3. Len(c.left) = 1
      <3>1. [c EXCEPT !.left = Tail(c.left)] # Idle
        <4>1. [c EXCEPT !.left = Tail(c.left)].at = "range"
          BY <2>2 DEF RangeCall
        <4> QED
          BY <4>1 DEF Idle
      <3> QED
        BY <2>2, <3>1 DEF Ends
    <2>4. Len(c.values) \in Nat /\ m + 1 = Len(c.values)
      BY <2>2, <2>3 DEF RangeCall
    <2>5. N \in Nat
      BY CapacityAssumption
    <2> HIDE DEF window, c, m
    <2>6. kept = Smaller(Len(c.values), N)
      BY <2>2, <2>4, <2>5 DEF Smaller
    <2>7. ASSUME NEW k \in 0 .. kept - 1
          PROVE  window[Len(window) - k] = c.values[Len(c.values) - k]
      <3> DEFINE n == Len(c.values)
      <3>1. n = m + 1 /\ kept = Smaller(n, N)
        BY <2>4, <2>6
      <3> HIDE DEF n, kept
      <3>2. \A i \in 0 .. Smaller(n, N) - 1 : window[Len(window) - i] = c.values[n - i]
        BY <2>2, <3>1, Zenon
      <3>3. k \in 0 .. Smaller(n, N) - 1
        BY <2>7, <3>1, Zenon
      <3> QED
        BY <3>2, <3>3, Zenon DEF n
    <2> QED
      BY <2>6, <2>7
  <1>2. TInv /\ CallsTyped /\ RangesAdded /\ [NextThreads]_threadVars
          => [\A t \in Readers : Together(t)]_threadVars
    BY <1>1
  <1>3. SpecThreads => [][\A t \in Readers : Together(t)]_threadVars
    <2> HIDE DEF Together
    <2> QED
      BY <1>2, ThreadsBegin, ThreadsKeep, CallsTypedBegin, CallsTypedKept, RangesBegin, RangesKept,
         PTL DEF SpecThreads
  <1> QED
    BY <1>3 DEF RangeTogether

-----------------------------------------------------------------------------
(* Reading with several threads.                                           *)

(* A continuing reader is given the elements behind its last_value.        *)
LEMMA GetContinues ==
  ASSUME NEW r \in Ring, WellFormed(r), NEW amount \in Nat, amount > 0, NEW lv \in SizeT,
         NEW continous \in BOOLEAN, continous = TRUE, Follows(r, lv),
         OnePiece(r, amount, lv, continous)
  PROVE  LET out == Get(r, amount, lv, continous)
             first == out.last_value - Len(out.target) + 1
         IN  /\ out.target \in Seq(Data) /\ out.last_value \in Nat
             /\ out.last_value <= r.base_id /\ first > lv
             /\ r.base_id - lv <= r.item_count => first = lv + 1
             /\ r.item_count > 0 => ~out.thrown
  <1> DEFINE w == Window(r)
             i == r.base_id
             m == r.item_count
             out == Get(r, amount, lv, continous)
             nothing == amount > 0 /\ m = 0 /\ ~(Log!Known(i, lv) /\ lv = i)
             given == Log!Given(w, i, amount, lv, continous)
             next == Log!NextNumber(w, i, amount, lv, continous)
  <1>1. /\ i \in Nat /\ lv \in Nat /\ lv >= 1 /\ lv <= i
        /\ m \in Nat /\ w \in Seq(Data) /\ Len(w) = m
        /\ Log!Known(i, lv)
    BY CapacityAssumption, WidthAssumption, WindowSound DEF Ring, SizeT, Follows, Log!Known
  <1>2. out = IF nothing
              THEN [thrown |-> TRUE, target |-> << >>, last_value |-> lv]
              ELSE [thrown |-> FALSE, target |-> given,
                    last_value |-> IF amount = 0 THEN i ELSE next]
    BY <1>1, GetMeaning
  <1> DEFINE last == out.last_value
             length == Len(out.target)
  <1>3. CASE nothing
    <2>1. out = [thrown |-> TRUE, target |-> << >>, last_value |-> lv]
      BY <1>2, <1>3
    <2>2. ~(m > 0)
      BY <1>1, <1>3
    <2> HIDE DEF out
    <2>3. out.target = << >> /\ out.last_value = lv
      BY <2>1
    <2>4. last = lv /\ length = 0 /\ out.target \in Seq(Data)
      BY <2>3
    <2> HIDE DEF last, length, i, m
    <2>5. last \in Nat /\ last <= i /\ last - length + 1 > lv /\ last - length + 1 = lv + 1
      BY <1>1, <2>4
    <2> QED
      BY <2>2, <2>4, <2>5 DEF i, m, out, last, length
  <1>4. CASE ~nothing
    <2> DEFINE available == Available(w, i, lv)
               n == Taken(w, i, amount, lv)
    <2>0. out = [thrown |-> FALSE, target |-> given,
                 last_value |-> IF amount = 0 THEN i ELSE next]
      BY <1>2, <1>4
    <2>1. out.thrown = FALSE /\ out.target = given /\ out.last_value = next
      <3> HIDE DEF out, given, next
      <3> QED
        BY <2>0
    <2>2. available \in 0 .. m /\ n \in 0 .. available
      <3> HIDE DEF w, i, m
      <3>1. Available(w, i, lv) \in 0 .. Len(w)
        BY ONLY <1>1, TakenBounds, amount \in Nat
      <3>2. Taken(w, i, amount, lv) \in 0 .. Available(w, i, lv)
        BY ONLY <1>1, TakenBounds, amount \in Nat
      <3> QED
        BY <1>1, <3>1, <3>2
    <2>3. given \in Seq(Data) /\ Len(given) = n /\ next = i - Left(w, i, amount, lv, continous)
      <3> HIDE DEF w, i, m
      <3>1. Log!Given(w, i, amount, lv, continous) \in Seq(Data)
        BY ONLY <1>1, GivenValue, amount \in Nat
      <3>2. /\ Len(Log!Given(w, i, amount, lv, continous)) = Taken(w, i, amount, lv)
            /\ Log!NextNumber(w, i, amount, lv, continous) = i - Left(w, i, amount, lv, continous)
        BY ONLY <1>1, GivenCounted, amount \in Nat
      <3> QED
        BY <3>1, <3>2
    <2>4. Left(w, i, amount, lv, continous) = available - n
      BY <1>1 DEF Left
    <2>5. available = IF i - lv < m THEN i - lv ELSE m
      BY <1>1 DEF Available, Log!Least
    <2> HIDE DEF out, w, i, m, available, n, given, next
    <2>6. last = i - (available - n) /\ length = n
      BY <2>1, <2>3, <2>4
    <2> HIDE DEF last, length
    <2>7. /\ last \in Nat /\ last <= i /\ last - length + 1 > lv
          /\ i - lv <= m => last - length + 1 = lv + 1
      BY ONLY <1>1, <2>2, <2>5, <2>6
    <2> QED
      BY <2>1, <2>3, <2>7 DEF last, length, i, m, out
  <1> QED
    BY <1>3, <1>4

Answered == DOMAIN answer = Readers

RInv == TInv /\ CallsTyped /\ RoomsFilled /\ Answered

LEMMA RInvBegins == InitThreads => RInv
  <1>1. InitThreads => RoomsFilled /\ Answered
    <2>1. Idle.at \notin Reading
      BY DEF Idle, Reading
    <2> QED
      BY <2>1 DEF InitThreads, RoomsFilled, Answered
  <1> QED
    BY <1>1, ThreadsBegin, CallsTypedBegin DEF RInv

LEMMA AnsweredKept ==
  ASSUME Answered, NEW t \in Readers, Moves(t)
  PROVE  Answered'
  <1>1. UNCHANGED answer \/ \E x : answer' = [answer EXCEPT ![t] = x]
    <2>1. ASSUME NEW b \in Buffers
          PROVE  /\ \A v \in Values : AddOne(t, b, v) => UNCHANGED answer
                 /\ \A values \in Ranges : BeginRange(t, b, values) => UNCHANGED answer
                 /\ ClearAll(t, b) => UNCHANGED answer
                 /\ \A s \in Buffers : Replace(t, b, s) => UNCHANGED answer
                 /\ \A s \in Buffers, kind \in {"copy", "move"} :
                      BeginAssign(t, b, s, kind) => UNCHANGED answer
                 /\ \A q \in Requests : BeginGetVector(t, b, q) =>
                      \E x : answer' = [answer EXCEPT ![t] = x]
      BY DEF AddOne, BeginRange, ClearAll, Replace, MoveConstruct, BeginAssign, BeginGetVector
    <2>2. AddNext(t) \/ Compare(t) \/ Shrink(t) \/ FinishAssign(t) \/ CopyFails(t)
            => UNCHANGED answer
      BY DEF AddNext, Compare, Shrink, FinishAssign, CopyFails
    <2>3. \A thrown, target, lv : Return(t, thrown, target, lv) =>
            \E x : answer' = [answer EXCEPT ![t] = x]
      BY DEF Return
    <2>4. ReadCounter(t) => UNCHANGED answer \/ \E x : answer' = [answer EXCEPT ![t] = x]
      <3>1. ReadCounter(t) => UNCHANGED answer \/ \E base, count : Decide(t, base, count)
        BY DEF ReadCounter
      <3>2. \A base, count : Decide(t, base, count) =>
              UNCHANGED answer \/ \E thrown, target, lv : Return(t, thrown, target, lv)
        BY DEF Decide
      <3> QED
        BY <2>3, <3>1, <3>2
    <2>5. GetElements(t) => \E x : answer' = [answer EXCEPT ![t] = x]
      BY DEF GetElements, Return
    <2> QED
      BY <2>1, <2>2, <2>4, <2>5 DEF Moves
  <1> QED
    BY <1>1 DEF Answered

LEMMA RInvKept == RInv /\ [NextThreads]_threadVars => RInv'
  <1> SUFFICES ASSUME RInv, [NextThreads]_threadVars PROVE RInv'
    OBVIOUS
  <1>0. TInv /\ CallsTyped /\ RoomsFilled /\ Answered
    BY DEF RInv
  <1>1. CASE UNCHANGED threadVars
    BY <1>0, <1>1, ThreadsKeep, CallsTypedKept DEF RInv, RoomsFilled, Answered, threadVars
  <1>2. ASSUME NEW t \in Readers, Moves(t), NEW u \in Readers,
               call'[u].at = "get", ~call'[u].disturbed, ~call'[u].request.raw
        PROVE  call'[u].amount <= ring'[call'[u].buf].item_count
    <2>0. "get" \in Reading /\ call'[u].at \in Reading /\ call'[u] # Idle
      BY <1>2 DEF Reading, Idle
    <2>1. CASE u # t
      <3> DEFINE c == call[u]
                 r == ring[c.buf]
      <3>1. /\ c # Idle /\ c.at = "get" /\ call'[u] = c /\ Unharmed(u)
        <4>1. /\ c = Idle => call'[u] = Idle
              /\ c # Idle =>
                   /\ call'[u].at = c.at
                   /\ \/ call'[u] = c /\ Unharmed(u)
                      \/ call'[u].disturbed = TRUE
          BY <1>0, <1>2, <2>1, OthersKept
        <4> QED
          BY <1>2, <2>0, <4>1
      <3>2. c \in ReadCall /\ c.buf \in Buffers
        BY <1>0, <2>0, <3>1, CallsHaveTypes
      <3>3. c.amount <= r.item_count /\ r \in Ring /\ c.amount \in Nat /\ r.item_count \in Nat
        <4>1. c.amount <= r.item_count
          BY <1>0, <1>2, <2>0, <3>1 DEF RoomsFilled, RoomFilled
        <4>2. r \in Ring
          BY <1>0, <3>2 DEF TInv, Types
        <4> QED
          BY <3>2, <4>1, <4>2, CapacityAssumption, WidthAssumption DEF ReadCall, SizeT, Ring
      <3>4. ring'[c.buf] = r \/ \E v \in Values : ring'[c.buf] = Added(r, v)
        BY <2>0, <3>1 DEF Unharmed
      <3>5. ring'[c.buf].item_count \in Nat /\ r.item_count <= ring'[c.buf].item_count
        <4>1. ASSUME NEW v \in Values, ring'[c.buf] = Added(r, v)
              PROVE  ring'[c.buf].item_count \in Nat /\ r.item_count <= ring'[c.buf].item_count
          <5>1. Added(r, v).item_count =
                  IF r.item_count < N THEN r.item_count + 1 ELSE r.item_count
            BY <3>3, AddedMembers
          <5> QED
            BY <3>3, <4>1, <5>1
        <4> QED
          BY <3>3, <3>4, <4>1
      <3> HIDE DEF c
      <3> QED
        BY <3>1, <3>3, <3>5 DEF c
    <2>2. CASE u = t
      <3> DEFINE c == call[t]
                 d == call'[t]
                 r == ring[c.buf]
      <3>1. /\ UNCHANGED ring
            /\ \/ \E b \in Buffers, q \in Requests : d = FirstStep(t, b, q)
               \/ c \in ReadCall /\ NextStep(t)
        BY <1>0, <1>2, <2>0, <2>2, ReadingGoesOn
      <3>2. ASSUME NEW b \in Buffers, NEW q \in Requests, d = FirstStep(t, b, q)
            PROVE  FALSE
        <4>1. /\ d.request = q
              /\ d.at = IF q.raw THEN "get" ELSE IF q.exactly THEN "available" ELSE "compare"
          BY <3>2 DEF FirstStep
        <4> QED
          BY <1>2, <2>2, <4>1
      <3>3. CASE c \in ReadCall /\ NextStep(t)
        <4>1. r \in Ring /\ r.item_count \in 0 .. N /\ r.base_id \in SizeT
              /\ c.amount \in Nat /\ r.item_count \in Nat
          <5>1. r \in Ring
            BY <1>0, <3>3 DEF ReadCall, TInv, Types
          <5> QED
            BY <3>3, <5>1, CapacityAssumption, WidthAssumption DEF ReadCall, Ring, SizeT
        <4>2. /\ [c EXCEPT !.at = "count", !.base = r.base_id].at = "count"
              /\ [c EXCEPT !.at = "base", !.count = r.item_count].at = "base"
              /\ [c EXCEPT !.at = "compare", !.base = 0, !.count = 0].at = "compare"
              /\ [c EXCEPT !.at = "shrink"].at = "shrink"
          BY <3>3 DEF ReadCall
        <4>3. \/ d = [c EXCEPT !.at = "get"] /\ ~(c.amount > r.item_count)
              \/ d = [c EXCEPT !.at = "get", !.amount = r.item_count]
          BY <1>2, <2>2, <3>3, <4>2 DEF NextStep
        <4>4. d.buf = c.buf /\ d.amount <= r.item_count
          <5>1. CASE d = [c EXCEPT !.at = "get"] /\ ~(c.amount > r.item_count)
            <6>1. d.buf = c.buf /\ d.amount = c.amount
              BY <3>3, <5>1 DEF ReadCall
            <6> QED
              BY <4>1, <5>1, <6>1
          <5>2. CASE d = [c EXCEPT !.at = "get", !.amount = r.item_count]
            <6>1. d.buf = c.buf /\ d.amount = r.item_count
              BY <3>3, <5>2 DEF ReadCall
            <6> QED
              BY <4>1, <6>1
          <5> QED
            BY <4>3, <5>1, <5>2
        <4> QED
          BY <2>2, <3>1, <4>4
      <3> QED
        BY <3>1, <3>2, <3>3
    <2> QED
      BY <2>1, <2>2
  <1>3. ASSUME NEW t \in Readers, Moves(t)
        PROVE  RoomsFilled' /\ Answered'
    BY <1>0, <1>2, <1>3, AnsweredKept DEF RoomsFilled, RoomFilled
  <1> QED
    BY <1>0, <1>1, <1>3, SomeoneMoves, ThreadsKeep, CallsTypedKept DEF RInv

(* A reading call ends when its thread returns.                            *)
LEMMA GetEnds ==
  ASSUME TInv, CallsTyped, NEW t \in Readers, Moves(t), call[t].at = "get"
  PROVE  GetElements(t)
  <1>1. call[t] # Idle
    BY DEF Idle
  <1>2. ~Begins(t)
    BY <1>1 DEF Begins
  <1>3. ASSUME NEW b \in Buffers
        PROVE  /\ \A v \in Values : ~AddOne(t, b, v)
               /\ \A values \in Ranges : ~BeginRange(t, b, values)
               /\ ~ClearAll(t, b)
               /\ \A q \in Requests : ~BeginGetVector(t, b, q)
               /\ \A s \in Buffers : ~Replace(t, b, s)
               /\ \A s \in Buffers, kind \in {"copy", "move"} : ~BeginAssign(t, b, s, kind)
    BY <1>2 DEF AddOne, BeginRange, ClearAll, BeginGetVector, BeginAssign, Replace
  <1>4. ~ReadCounter(t) /\ ~Compare(t) /\ ~Shrink(t)
    BY DEF ReadCounter, Compare, Shrink
  <1>5. ~FinishAssign(t) /\ ~CopyFails(t) /\ ~AddNext(t)
    BY DEF FinishAssign, CopyFails, AddNext
  <1> QED
    BY <1>3, <1>4, <1>5 DEF Moves

(* What get() leaves behind, of the object it has locked.                  *)
LEMMA GetReturns ==
  ASSUME RInv, NEW t \in Readers, GetElements(t)
  PROVE  LET c == call[t]
             r == ring[c.buf]
             lv == last_value[t]
             out == Get(r, c.amount, lv, c.request.continous)
         IN  /\ c \in ReadCall /\ r \in Ring /\ lv \in SizeT
             /\ c.amount \in Nat /\ c.request.continous \in BOOLEAN
             /\ c.amount > 0 => WellFormed(r)
             /\ last_value'[t] = out.last_value /\ answer'[t].thrown = out.thrown
             /\ Len(answer'[t].target) = Len(out.target)
  <1> DEFINE c == call[t]
             r == ring[c.buf]
             lv == last_value[t]
             out == Get(r, c.amount, lv, c.request.continous)
             target == IF c.request.raw THEN out.target ELSE Resized(out.target, c.amount)
  <1>0. TInv /\ CallsTyped /\ Answered
    BY DEF RInv
  <1>1. /\ c.at = "get" /\ (c.amount = 0 \/ c.buf \notin torn)
        /\ Return(t, out.thrown, target, out.last_value)
    BY DEF GetElements
  <1>2. c \in ReadCall
    BY <1>0, <1>1 DEF CallsTyped, Reading
  <1>3. /\ r \in Ring /\ lv \in SizeT /\ c.amount \in SizeT /\ c.request \in RequestType
        /\ c.buf \in Buffers
    BY <1>0, <1>2, RequestsAssumption DEF TInv, Types, CallsTyped, ReadCall
  <1>4. c.amount \in Nat /\ c.request.continous \in BOOLEAN
    BY <1>3, WidthAssumption DEF SizeT, RequestType
  <1>5. c.amount > 0 => WellFormed(r)
    BY <1>0, <1>1, <1>3 DEF TInv, ObjectsWhole
  <1>6. /\ last_value'[t] = out.last_value
        /\ answer'[t] = [thrown |-> out.thrown, target |-> target]
    <2> HIDE DEF out, target
    <2> QED
      BY <1>0, <1>1 DEF Return, CallsTyped, Answered
  <1>7. Len(target) = Len(out.target)
    <2>1. out.target \in Seq(Data)
      <3>1. CASE c.amount > 0
        BY <1>3, <1>4, <1>5, <3>1, GetSound
      <3>2. CASE ~(c.amount > 0)
        <4>1. c.amount = 0
          BY <1>4, <3>2
        <4>2. out.target = << >>
          BY <4>1 DEF Get
        <4> HIDE DEF out
        <4> QED
          BY <4>2
      <3> QED
        BY <3>1, <3>2
    <2>2. Len(Resized(out.target, c.amount)) = Len(out.target)
      <3> DEFINE s == out.target
                 a == c.amount
      <3> HIDE DEF s, a
      <3>1. s \in Seq(Data) /\ a \in Nat
        BY <1>4, <2>1 DEF s, a
      <3>2. Resized(s, a) \in Seq(Data)
        BY ONLY <3>1, ResizedSound
      <3>3. Resized(s, a) = [k \in 1 .. Len(s) |-> IF k <= a THEN s[k] ELSE Default]
        BY DEF Resized
      <3>4. Len(Resized(s, a)) = Len(s)
        BY ONLY <3>1, <3>2, <3>3
      <3> QED
        BY <3>4 DEF s, a
    <2> QED
      BY <2>2
  <1> HIDE DEF out, target
  <1>8. answer'[t].thrown = out.thrown /\ answer'[t].target = target
    BY <1>6
  <1> QED
    BY <1>2, <1>3, <1>4, <1>5, <1>6, <1>7, <1>8 DEF out

(* However many threads add to an object while another reads a stream from *)
(* it: that one is given consecutive elements behind its last_value, and   *)
(* none is skipped that is still there.                                    *)
THEOREM StreamsKept == SpecThreads => StreamKept
  <1> DEFINE Kept(t) ==
        LET c == call[t]
            r == ring[c.buf]
            lv == last_value[t]
            first == last_value'[t] - Len(answer'[t].target) + 1
        IN  (/\ Undisturbed(t) /\ c.at = "get"
             /\ c.request.continous /\ c.amount > 0 /\ Follows(r, lv) /\ CopiesOnePiece(t))
              => /\ c.request.raw \/ ~answer'[t].thrown
                 /\ first > lv /\ last_value'[t] <= r.base_id
                 /\ r.base_id - lv <= r.item_count => first = lv + 1
  <1>1. ASSUME RInv, NextThreads, NEW t \in Readers
        PROVE  Kept(t)
    <2> DEFINE c == call[t]
               r == ring[c.buf]
               lv == last_value[t]
               first == last_value'[t] - Len(answer'[t].target) + 1
               continous == c.request.continous
               out == Get(r, c.amount, lv, continous)
    <2> SUFFICES ASSUME Undisturbed(t), c.at = "get", c.request.continous, c.amount > 0,
                        Follows(r, lv), CopiesOnePiece(t)
                 PROVE  /\ c.request.raw \/ ~answer'[t].thrown
                        /\ first > lv /\ last_value'[t] <= r.base_id
                        /\ r.base_id - lv <= r.item_count => first = lv + 1
      OBVIOUS
    <2>1. GetElements(t)
      BY <1>1, EndsItself, GetEnds DEF Undisturbed, RInv
    <2>2. /\ c \in ReadCall /\ r \in Ring /\ lv \in SizeT /\ c.amount \in Nat
          /\ c.request.continous \in BOOLEAN /\ WellFormed(r)
          /\ last_value'[t] = Get(r, c.amount, lv, c.request.continous).last_value
          /\ answer'[t].thrown = Get(r, c.amount, lv, c.request.continous).thrown
          /\ Len(answer'[t].target) = Len(Get(r, c.amount, lv, c.request.continous).target)
      BY <1>1, <2>1, GetReturns
    <2>4. /\ last_value'[t] = out.last_value /\ answer'[t].thrown = out.thrown
          /\ Len(answer'[t].target) = Len(out.target)
      BY <2>2
    <2>5. OnePiece(r, c.amount, lv, continous)
      BY DEF CopiesOnePiece
    <2>6. /\ out.last_value <= r.base_id /\ out.last_value - Len(out.target) + 1 > lv
          /\ r.base_id - lv <= r.item_count => out.last_value - Len(out.target) + 1 = lv + 1
          /\ r.item_count > 0 => ~out.thrown
      <3> DEFINE a == c.amount
      <3>1. /\ a \in Nat /\ a > 0 /\ OnePiece(r, a, lv, continous)
            /\ continous \in BOOLEAN /\ continous = TRUE
            /\ r \in Ring /\ WellFormed(r) /\ lv \in SizeT /\ Follows(r, lv)
        BY <2>2, <2>5
      <3> HIDE DEF a, r, lv, continous
      <3>2. LET o == Get(r, a, lv, continous) IN
            /\ o.last_value <= r.base_id /\ o.last_value - Len(o.target) + 1 > lv
            /\ r.base_id - lv <= r.item_count => o.last_value - Len(o.target) + 1 = lv + 1
            /\ r.item_count > 0 => ~o.thrown
        BY ONLY <3>1, GetContinues
      <3> QED
        BY <3>2 DEF a
    <2>7. c.request.raw \/ r.item_count > 0
      <3>1. c.request.raw \/ c.amount <= r.item_count
        BY <1>1 DEF Undisturbed, RInv, RoomsFilled, RoomFilled, Reading
      <3>2. r.item_count \in Nat
        BY <2>2, CapacityAssumption DEF Ring
      <3> QED
        BY <2>2, <3>1, <3>2
    <2> HIDE DEF out, c
    <2> QED
      BY <2>4, <2>6, <2>7
  <1>2. RInv /\ [NextThreads]_threadVars => [\A t \in Readers : Kept(t)]_threadVars
    BY <1>1
  <1>3. SpecThreads => [][\A t \in Readers : Kept(t)]_threadVars
    <2> HIDE DEF Kept
    <2> QED
      BY <1>2, RInvBegins, RInvKept, PTL DEF SpecThreads
  <1> QED
    BY <1>3 DEF StreamKept

-----------------------------------------------------------------------------
(* The check of `exactly`.                                                 *)

(* base_id is far from the largest size_t.  When it does roll over, a      *)
(* thread that has read nothing yet (its last_value is 0) finds nothing    *)
(* new in a full buffer.                                                   *)
NotRolledOver == \A b \in Buffers : ring[b].base_id < MaxSizeT

XInv == RInv /\ CountsHold

LEMMA XInvBegins == InitThreads => XInv
  <1>1. InitThreads => CountsHold
    <2>1. Idle.at \notin Reading
      BY DEF Idle, Reading
    <2> QED
      BY <2>1 DEF InitThreads, CountsHold
  <1> QED
    BY <1>1, RInvBegins DEF XInv

\* Below the largest number, additions only add to what is new.
LEMMA NewCounted ==
  ASSUME NEW i \in SizeT, NEW m \in 0 .. N, NEW lv \in SizeT, lv <= i
  PROVE  GetNewDataAmount(i, m, lv) = Smaller(i - lv, m)
  BY CapacityAssumption, WidthAssumption DEF GetNewDataAmount, SubtractWithRollover, SizeT

LEMMA CountedGrows ==
  ASSUME NEW c \in ReadCall, NEW r \in Ring, NEW lv \in SizeT, NEW v \in Values,
         r.base_id < MaxSizeT, Counted(c, r, lv)
  PROVE  Counted(c, Added(r, v), lv)
  <1> DEFINE a == Added(r, v)
             i == r.base_id
             m == r.item_count
             j == a.base_id
             n == a.item_count
  <1>1. /\ i \in Nat /\ m \in Nat /\ lv \in Nat /\ N \in Nat
        /\ c.before \in Nat /\ c.amount \in Nat /\ c.base \in Nat /\ c.count \in Nat
    BY CapacityAssumption, WidthAssumption DEF Ring, SizeT, ReadCall
  <1>2. j = i + 1 /\ (n = m \/ n = m + 1)
    <2>1. /\ j = IF i = MaxSizeT THEN 0 ELSE i + 1
          /\ n = IF m < N THEN m + 1 ELSE m
      BY AddedMembers
    <2>2. i # MaxSizeT
      BY <1>1
    <2> QED
      BY <2>1, <2>2
  <1> HIDE DEF a, i, m, j, n
  <1>3. lv <= i /\ c.before <= Smaller(i - lv, m)
    BY DEF Counted, New, i, m
  <1>4. /\ Smaller(i - lv, m) \in Nat /\ Smaller(j - lv, n) \in Nat
        /\ Smaller(i - lv, m) <= Smaller(j - lv, n)
    <2> DEFINE k == i - lv
               l == j - lv
    <2>1. k \in Nat /\ l = k + 1
      BY <1>1, <1>2, <1>3
    <2> HIDE DEF k, l
    <2>2. Smaller(k, m) \in Nat /\ Smaller(l, n) \in Nat /\ Smaller(k, m) <= Smaller(l, n)
      <3>1. m \in Nat /\ n \in Nat /\ l \in Nat /\ m <= n
        BY <1>1, <1>2, <2>1
      <3> QED
        BY ONLY <2>1, <3>1 DEF Smaller
    <2> QED
      BY <2>2 DEF k, l
  <1>5. lv <= j /\ c.before <= Smaller(j - lv, n)
    BY <1>1, <1>2, <1>4, <1>3
  <1>6. c.at = "count" => c.base \in lv .. j /\ c.before <= c.base - lv
    <2>1. c.at = "count" => c.base \in lv .. i /\ c.before <= c.base - lv
      BY DEF Counted, i
    <2> QED
      BY <1>1, <1>2, <2>1
  <1>7. c.at = "base" => c.count <= n /\ c.before <= c.count
    <2>1. c.at = "base" => c.count <= m /\ c.before <= c.count
      BY DEF Counted, m
    <2> QED
      BY <1>1, <1>2, <2>1
  <1>8. c.request.exactly =>
          /\ c.amount = c.request.amount /\ c.at # "shrink"
          /\ c.at \in {"compare", "get"} => c.amount <= Smaller(j - lv, n)
    <2>1. c.request.exactly =>
            /\ c.amount = c.request.amount /\ c.at # "shrink"
            /\ c.at \in {"compare", "get"} => c.amount <= Smaller(i - lv, m)
      BY DEF Counted, New, i, m
    <2>2. c.amount <= Smaller(i - lv, m) => c.amount <= Smaller(j - lv, n)
      BY <1>1, <1>4
    <2> QED
      BY <2>1, <2>2
  <1> QED
    BY <1>5, <1>6, <1>7, <1>8 DEF Counted, New, a, j, n

\* A call that begins has counted what is new.
LEMMA FirstCounted ==
  ASSUME TInv, CallsTyped, NEW t \in Readers, NEW b \in Buffers, NEW q \in Requests,
         ~FirstStep(t, b, q).disturbed
  PROVE  Counted(FirstStep(t, b, q), ring[b], last_value[t])
  <1> DEFINE d == FirstStep(t, b, q)
             r == ring[b]
             lv == last_value[t]
  <1>1. r \in Ring /\ lv \in SizeT /\ q \in RequestType /\ (q.raw => ~q.exactly)
    BY RequestsAssumption DEF TInv, Types, CallsTyped
  <1>2. /\ r.base_id \in SizeT /\ r.item_count \in 0 .. N
        /\ r.base_id \in Nat /\ r.item_count \in Nat /\ lv \in Nat
    BY <1>1, CapacityAssumption, WidthAssumption DEF Ring, SizeT
  <1>3. /\ d.before = GetNewDataAmount(r.base_id, r.item_count, lv)
        /\ d.disturbed = (b \in torn \/ lv > r.base_id)
        /\ d.request = q /\ d.amount = q.amount
        /\ d.at = IF q.raw THEN "get" ELSE IF q.exactly THEN "available" ELSE "compare"
    BY DEF FirstStep
  <1>4. lv <= r.base_id
    <2>1. ~(lv > r.base_id)
      BY <1>3, Zenon
    <2> QED
      BY <1>2, <2>1
  <1>5. d.before = New(r, lv) /\ New(r, lv) \in Nat
    <2>1. d.before = Smaller(r.base_id - lv, r.item_count)
      BY <1>1, <1>2, <1>3, <1>4, NewCounted
    <2> HIDE DEF d, r, lv
    <2> QED
      BY <1>2, <1>4, <2>1 DEF New, Smaller
  <1>6. q.exactly => d.at = "available"
    BY <1>1, <1>3
  <1>7. d.at \notin {"count", "base"}
    BY <1>3
  <1> HIDE DEF d, r, lv
  <1>8. Counted(d, r, lv)
    BY <1>3, <1>4, <1>5, <1>6, <1>7 DEF Counted
  <1> QED
    BY <1>8 DEF d, r, lv

\* A call that goes on has compared what it read with what it was asked for.
LEMMA NextCounted ==
  ASSUME TInv, CallsTyped, NEW t \in Readers, NextStep(t), call[t] \in ReadCall,
         Counted(call[t], ring[call[t].buf], last_value[t])
  PROVE  LET c == call[t]
             d == call'[t]
         IN  d.buf = c.buf /\ Counted(d, ring[c.buf], last_value[t])
  <1> DEFINE c == call[t]
             d == call'[t]
             r == ring[c.buf]
             lv == last_value[t]
  <1>1. r \in Ring /\ lv \in SizeT
    BY DEF TInv, Types, CallsTyped, ReadCall
  <1>2. /\ r.base_id \in SizeT /\ r.item_count \in 0 .. N
        /\ r.base_id \in Nat /\ r.item_count \in Nat /\ lv \in Nat
        /\ c.base \in SizeT /\ c.count \in 0 .. N
        /\ c.base \in Nat /\ c.count \in Nat /\ c.amount \in Nat /\ c.before \in Nat
    BY <1>1, CapacityAssumption, WidthAssumption DEF Ring, SizeT, ReadCall
  <1>3. /\ lv <= r.base_id /\ c.before <= New(r, lv)
        /\ c.at = "count" => c.base \in lv .. r.base_id /\ c.before <= c.base - lv
        /\ c.at = "base" => c.count <= r.item_count /\ c.before <= c.count
        /\ c.request.exactly =>
             /\ c.amount = c.request.amount /\ c.at # "shrink"
             /\ c.at \in {"compare", "get"} => c.amount <= New(r, lv)
    BY DEF Counted
  <1>4. /\ New(r, lv) = Smaller(r.base_id - lv, r.item_count) /\ New(r, lv) \in Nat
        /\ New(r, lv) <= r.base_id - lv /\ New(r, lv) <= r.item_count
    <2>1. New(r, lv) = Smaller(r.base_id - lv, r.item_count)
      BY DEF New
    <2> HIDE DEF r, lv
    <2> QED
      BY <1>2, <1>3, <2>1 DEF Smaller
  <1>5. CASE c.at = "available" /\ d = [c EXCEPT !.at = "count", !.base = r.base_id]
    <2>1. /\ d.at = "count" /\ d.base = r.base_id /\ d.buf = c.buf /\ d.request = c.request
          /\ d.amount = c.amount /\ d.before = c.before
      BY <1>5 DEF ReadCall
    <2> HIDE DEF c, d, r, lv
    <2>2. r.base_id \in lv .. r.base_id /\ c.before <= r.base_id - lv
      BY <1>2, <1>3, <1>4
    <2> QED
      <3>1. Counted(d, r, lv)
        BY <1>3, <2>1, <2>2 DEF Counted
      <3> QED
        BY <2>1, <3>1 DEF c, d, r, lv
  <1>6. CASE c.at = "available" /\ d = [c EXCEPT !.at = "base", !.count = r.item_count]
    <2>1. /\ d.at = "base" /\ d.count = r.item_count /\ d.buf = c.buf /\ d.request = c.request
          /\ d.amount = c.amount /\ d.before = c.before
      BY <1>6 DEF ReadCall
    <2> HIDE DEF c, d, r, lv
    <2>2. r.item_count <= r.item_count /\ c.before <= r.item_count
      BY <1>2, <1>3, <1>4
    <2> QED
      <3>1. Counted(d, r, lv)
        BY <1>3, <2>1, <2>2 DEF Counted
      <3> QED
        BY <2>1, <3>1 DEF c, d, r, lv
  <1>7. CASE /\ d = [c EXCEPT !.at = "compare", !.base = 0, !.count = 0]
             /\ \/ c.at = "count" /\ ~(GetNewDataAmount(c.base, r.item_count, lv) < c.amount)
                \/ c.at = "base" /\ ~(GetNewDataAmount(r.base_id, c.count, lv) < c.amount)
    <2>1. /\ d.at = "compare" /\ d.buf = c.buf /\ d.request = c.request
          /\ d.amount = c.amount /\ d.before = c.before
      BY <1>7 DEF ReadCall
    <2> HIDE DEF c, d, r, lv
    <2>2. c.amount <= New(r, lv)
      <3>1. CASE c.at = "count"
        <4>1. c.base \in lv .. r.base_id /\ ~(GetNewDataAmount(c.base, r.item_count, lv) < c.amount)
          BY <1>3, <1>7, <3>1
        <4>2. GetNewDataAmount(c.base, r.item_count, lv) = Smaller(c.base - lv, r.item_count)
          BY <1>1, <1>2, <4>1, NewCounted
        <4> QED
          BY <1>2, <1>3, <1>4, <4>1, <4>2 DEF Smaller
      <3>2. CASE c.at = "base"
        <4>1. /\ c.count <= r.item_count
              /\ ~(GetNewDataAmount(r.base_id, c.count, lv) < c.amount)
          BY <1>3, <1>7, <3>2
        <4>2. GetNewDataAmount(r.base_id, c.count, lv) = Smaller(r.base_id - lv, c.count)
          BY <1>1, <1>2, <1>3, NewCounted
        <4> QED
          BY <1>2, <1>3, <1>4, <4>1, <4>2 DEF Smaller
      <3> QED
        BY <1>7, <3>1, <3>2
    <2> QED
      <3>1. Counted(d, r, lv)
        BY <1>3, <2>1, <2>2 DEF Counted
      <3> QED
        BY <2>1, <3>1 DEF c, d, r, lv
  <1>8. CASE /\ c.at = "compare"
             /\ \/ c.amount > r.item_count /\ d = [c EXCEPT !.at = "shrink"]
                \/ ~(c.amount > r.item_count) /\ d = [c EXCEPT !.at = "get"]
    <2>1. /\ d.at \in {"shrink", "get"} /\ (d.at = "shrink" => c.amount > r.item_count)
          /\ d.buf = c.buf /\ d.request = c.request
          /\ d.amount = c.amount /\ d.before = c.before
      BY <1>8 DEF ReadCall
    <2> HIDE DEF c, d, r, lv
    <2>2. c.request.exactly => c.amount <= New(r, lv) /\ ~(c.amount > r.item_count)
      BY <1>2, <1>3, <1>4, <1>8
    <2> QED
      <3>1. Counted(d, r, lv)
        BY <1>3, <2>1, <2>2 DEF Counted
      <3> QED
        BY <2>1, <3>1 DEF c, d, r, lv
  <1>9. CASE c.at = "shrink" /\ d = [c EXCEPT !.at = "get", !.amount = r.item_count]
    <2>1. /\ d.at = "get" /\ d.buf = c.buf /\ d.request = c.request /\ d.before = c.before
      BY <1>9 DEF ReadCall
    <2> HIDE DEF c, d, r, lv
    <2> QED
      <3>1. Counted(d, r, lv)
        BY <1>3, <1>9, <2>1 DEF Counted
      <3> QED
        BY <2>1, <3>1 DEF c, d, r, lv
  <1> QED
    BY <1>5, <1>6, <1>7, <1>8, <1>9 DEF NextStep

LEMMA XInvKept == XInv /\ NotRolledOver /\ [NextThreads]_threadVars => XInv'
  <1> SUFFICES ASSUME XInv, NotRolledOver, [NextThreads]_threadVars PROVE XInv'
    OBVIOUS
  <1>0. TInv /\ CallsTyped /\ RInv /\ CountsHold
    BY DEF XInv, RInv
  <1>1. CASE UNCHANGED threadVars
    <2>1. CountsHold'
      BY <1>0, <1>1 DEF CountsHold, threadVars
    <2> QED
      BY <1>0, <2>1, RInvKept DEF XInv
  <1>2. ASSUME NEW t \in Readers, Moves(t), NEW u \in Readers,
               call'[u].at \in Reading, ~call'[u].disturbed
        PROVE  Counted(call'[u], ring'[call'[u].buf], last_value'[u])
    <2>0. call'[u] # Idle
      BY <1>2 DEF Reading, Idle
    <2>1. CASE u # t
      <3> DEFINE c == call[u]
                 r == ring[c.buf]
                 lv == last_value[u]
      <3>1. /\ c # Idle /\ c.at \in Reading /\ call'[u] = c /\ Unharmed(u)
            /\ last_value'[u] = lv
        <4>1. /\ last_value'[u] = lv
              /\ c = Idle => call'[u] = Idle
              /\ c # Idle =>
                   /\ call'[u].at = c.at
                   /\ \/ call'[u] = c /\ Unharmed(u)
                      \/ call'[u].disturbed = TRUE
          BY <1>0, <1>2, <2>1, OthersKept
        <4> QED
          BY <1>2, <2>0, <4>1
      <3>2. c \in ReadCall /\ c.buf \in Buffers
        BY <1>0, <3>1, CallsHaveTypes
      <3>3. Counted(c, r, lv) /\ r \in Ring /\ lv \in SizeT /\ r.base_id < MaxSizeT
        BY <1>0, <1>2, <3>1, <3>2 DEF CountsHold, TInv, Types, CallsTyped, NotRolledOver
      <3>4. ring'[c.buf] = r \/ \E v \in Values : ring'[c.buf] = Added(r, v)
        BY <3>1 DEF Unharmed
      <3> HIDE DEF c, r, lv
      <3>5. Counted(c, ring'[c.buf], lv)
        BY <3>2, <3>3, <3>4, CountedGrows
      <3> QED
        BY <3>1, <3>5 DEF c, r, lv
    <2>2. CASE u = t
      <3> DEFINE c == call[t]
                 d == call'[t]
      <3>1. /\ UNCHANGED <<ring, last_value>>
            /\ \/ \E b \in Buffers, q \in Requests : d = FirstStep(t, b, q)
               \/ c \in ReadCall /\ NextStep(t)
        BY <1>0, <1>2, <2>2, ReadingGoesOn
      <3>2. ASSUME NEW b \in Buffers, NEW q \in Requests, d = FirstStep(t, b, q)
            PROVE  Counted(d, ring[d.buf], last_value[t])
        <4>1. d.buf = b
          BY <3>2 DEF FirstStep
        <4>2. ~FirstStep(t, b, q).disturbed
          BY <1>2, <2>2, <3>2
        <4>3. Counted(FirstStep(t, b, q), ring[b], last_value[t])
          BY <1>0, <4>2, FirstCounted
        <4> QED
          BY <3>2, <4>1, <4>3
      <3>3. ASSUME c \in ReadCall, NextStep(t)
            PROVE  Counted(d, ring[d.buf], last_value[t])
        <4>1. c.at \in Reading /\ ~c.disturbed
          <5>1. c.at \in Reading
            BY <3>3 DEF ReadCall
          <5>2. d.disturbed = c.disturbed
            BY <3>3 DEF NextStep, ReadCall
          <5> QED
            BY <1>2, <2>2, <5>1, <5>2
        <4>2. Counted(c, ring[c.buf], last_value[t])
          BY <1>0, <4>1 DEF CountsHold
        <4>3. d.buf = c.buf /\ Counted(d, ring[c.buf], last_value[t])
          BY <1>0, <3>3, <4>2, NextCounted
        <4> QED
          BY <4>3
      <3>4. Counted(d, ring[d.buf], last_value[t])
        BY <3>1, <3>2, <3>3
      <3> QED
        BY <2>2, <3>1, <3>4
    <2> QED
      BY <2>1, <2>2
  <1>3. ASSUME NEW t \in Readers, Moves(t)
        PROVE  CountsHold'
    BY <1>2, <1>3 DEF CountsHold
  <1> QED
    BY <1>0, <1>1, <1>3, SomeoneMoves, RInvKept DEF XInv

(* getVector() returns from get(), or because there are too few elements.  *)
Declines(t) ==
  LET c == call[t]
      r == ring[c.buf]
      lv == last_value[t]
  IN  /\ \/ c.at = "count" /\ GetNewDataAmount(c.base, r.item_count, lv) < c.amount
         \/ c.at = "base" /\ GetNewDataAmount(r.base_id, c.count, lv) < c.amount
      /\ Return(t, FALSE, << >>, lv)

LEMMA ReadEnds ==
  ASSUME TInv, CallsTyped, NEW t \in Readers, Moves(t), call[t].at \in Reading,
         call'[t] = Idle
  PROVE  GetElements(t) \/ Declines(t)
  <1> DEFINE c == call[t]
             r == ring[c.buf]
  <1>1. c # Idle /\ c.at \notin {"range", "vector"}
    BY DEF Idle, Reading
  <1>2. ~Begins(t)
    BY <1>1 DEF Begins
  <1>3. ASSUME NEW b \in Buffers
        PROVE  /\ \A v \in Values : ~AddOne(t, b, v)
               /\ \A values \in Ranges : ~BeginRange(t, b, values)
               /\ ~ClearAll(t, b)
               /\ \A q \in Requests : ~BeginGetVector(t, b, q)
               /\ \A s \in Buffers : ~Replace(t, b, s)
               /\ \A s \in Buffers, kind \in {"copy", "move"} : ~BeginAssign(t, b, s, kind)
    BY <1>2 DEF AddOne, BeginRange, ClearAll, BeginGetVector, BeginAssign, Replace
  <1>4. ~FinishAssign(t) /\ ~CopyFails(t) /\ ~AddNext(t)
    BY <1>1 DEF FinishAssign, CopyFails, AddNext
  <1>5. ReadCounter(t) \/ Compare(t) \/ Shrink(t) \/ GetElements(t)
    BY <1>3, <1>4 DEF Moves
  <1>6. ASSUME NEW mine, NEW upset, Goes(t, mine, upset)
        PROVE  call'[t] = mine
    BY <1>6 DEF Goes
  <1>7. /\ \A x : [c EXCEPT !.at = "count", !.base = x].at = "count"
        /\ \A x : [c EXCEPT !.at = "base", !.count = x].at = "base"
        /\ [c EXCEPT !.at = "compare", !.base = 0, !.count = 0].at = "compare"
        /\ \A at : [c EXCEPT !.at = at].at = at
        /\ \A x : [c EXCEPT !.at = "get", !.amount = x].at = "get"
    <2>1. c \in ReadCall
      BY DEF CallsTyped
    <2> QED
      BY <2>1 DEF ReadCall
  <1>8. call'[t].at = "idle" /\ "idle" \notin Reading
    BY DEF Idle, Reading
  <1>9. ~Compare(t) /\ ~Shrink(t)
    <2>1. ASSUME Compare(t)
          PROVE  FALSE
      <3> DEFINE at == IF c.amount > r.item_count THEN "shrink" ELSE "get"
      <3>1. call'[t] = [c EXCEPT !.at = at]
        BY <1>6, <2>1 DEF Compare
      <3>2. at \in Reading
        BY DEF Reading
      <3> HIDE DEF at
      <3> QED
        BY <1>7, <1>8, <3>1, <3>2
    <2>2. ASSUME Shrink(t)
          PROVE  FALSE
      <3>1. call'[t] = [c EXCEPT !.at = "get", !.amount = r.item_count]
        BY <1>6, <2>2 DEF Shrink
      <3> QED
        BY <1>7, <1>8, <3>1
    <2> QED
      BY <2>1, <2>2
  <1>10. ASSUME NEW base, NEW count, Decide(t, base, count)
        PROVE  /\ GetNewDataAmount(base, count, last_value[t]) < c.amount
               /\ Return(t, FALSE, << >>, last_value[t])
    <2>1. ~Goes(t, [c EXCEPT !.at = "compare", !.base = 0, !.count = 0], {})
      <3> SUFFICES ASSUME Goes(t, [c EXCEPT !.at = "compare", !.base = 0, !.count = 0], {})
                   PROVE  FALSE
        OBVIOUS
      <3>1. call'[t] = [c EXCEPT !.at = "compare", !.base = 0, !.count = 0]
        BY <1>6
      <3> QED
        BY <1>7, <1>8, <3>1
    <2> QED
      BY <1>10, <2>1 DEF Decide
  <1>11. ReadCounter(t) => Declines(t)
    <2>1. ASSUME ReadCounter(t)
          PROVE  \/ c.at = "count" /\ Decide(t, c.base, r.item_count)
                 \/ c.at = "base" /\ Decide(t, r.base_id, c.count)
      <3>1. ~Goes(t, [c EXCEPT !.at = "count", !.base = r.base_id], {})
        <4> SUFFICES ASSUME Goes(t, [c EXCEPT !.at = "count", !.base = r.base_id], {})
                     PROVE  FALSE
          OBVIOUS
        <4>1. call'[t] = [c EXCEPT !.at = "count", !.base = r.base_id]
          BY <1>6
        <4> QED
          BY <1>7, <1>8, <4>1
      <3>2. ~Goes(t, [c EXCEPT !.at = "base", !.count = r.item_count], {})
        <4> SUFFICES ASSUME Goes(t, [c EXCEPT !.at = "base", !.count = r.item_count], {})
                     PROVE  FALSE
          OBVIOUS
        <4>1. call'[t] = [c EXCEPT !.at = "base", !.count = r.item_count]
          BY <1>6
        <4> QED
          BY <1>7, <1>8, <4>1
      <3> QED
        BY <2>1, <3>1, <3>2 DEF ReadCounter
    <2> QED
      BY <1>10, <2>1 DEF Declines
  <1> QED
    BY <1>5, <1>9, <1>11

(* However many threads add to an object while another reads from it: one  *)
(* that reads with `exactly` is given what it asked for, or nothing, and   *)
(* that only if there was less when it called.                             *)
THEOREM ExactReads == SpecThreads /\ []NotRolledOver => ExactOrNothing
  <1> DEFINE Exact(t) ==
        (/\ Undisturbed(t) /\ call[t].at \in Reading /\ call[t].request.exactly
         /\ call[t].at = "get" => CopiesOnePiece(t))
          => LET asked == call[t].request.amount IN
             /\ ~answer'[t].thrown
             /\ \/ Len(answer'[t].target) = asked
                \/ /\ answer'[t].target = << >> /\ call[t].before < asked
                   /\ last_value'[t] = last_value[t]
  <1>1. ASSUME XInv, NextThreads, NEW t \in Readers
        PROVE  Exact(t)
    <2> DEFINE c == call[t]
               r == ring[c.buf]
               lv == last_value[t]
               asked == c.request.amount
    <2> SUFFICES ASSUME Undisturbed(t), c.at \in Reading, c.request.exactly,
                        c.at = "get" => CopiesOnePiece(t)
                 PROVE  /\ ~answer'[t].thrown
                        /\ \/ Len(answer'[t].target) = asked
                           \/ /\ answer'[t].target = << >> /\ c.before < asked
                              /\ last_value'[t] = lv
      OBVIOUS
    <2>0. TInv /\ CallsTyped /\ RInv /\ CountsHold /\ Answered
      BY <1>1 DEF XInv, RInv
    <2>1. GetElements(t) \/ Declines(t)
      BY <1>1, <2>0, EndsItself, ReadEnds DEF Undisturbed, Ends
    <2>2. c \in ReadCall /\ r \in Ring /\ lv \in SizeT /\ ~c.disturbed
      BY <2>0 DEF CallsTyped, ReadCall, TInv, Types, Undisturbed
    <2>3. /\ r.base_id \in SizeT /\ r.item_count \in 0 .. N
          /\ r.base_id \in Nat /\ r.item_count \in Nat /\ lv \in Nat
          /\ c.base \in SizeT /\ c.count \in 0 .. N
          /\ c.base \in Nat /\ c.count \in Nat /\ c.amount \in Nat /\ c.before \in Nat
      <3>1. /\ r.base_id \in SizeT /\ r.item_count \in 0 .. N
            /\ c.base \in SizeT /\ c.count \in 0 .. N /\ c.amount \in SizeT /\ c.before \in Nat
        BY <2>2 DEF Ring, ReadCall
      <3> HIDE DEF c, r, lv
      <3> QED
        BY <2>2, <3>1, CapacityAssumption, WidthAssumption DEF SizeT
    <2>4. /\ lv <= r.base_id /\ c.before <= New(r, lv)
          /\ c.at = "count" => c.base \in lv .. r.base_id /\ c.before <= c.base - lv
          /\ c.at = "base" => c.count <= r.item_count /\ c.before <= c.count
          /\ c.amount = asked
          /\ c.at = "get" => c.amount <= New(r, lv)
      BY <2>0, <2>2 DEF CountsHold, Counted
    <2>5. /\ New(r, lv) \in Nat /\ New(r, lv) <= r.base_id - lv /\ New(r, lv) <= r.item_count
          /\ New(r, lv) = r.base_id - lv \/ New(r, lv) = r.item_count
      <3>1. New(r, lv) = Smaller(r.base_id - lv, r.item_count)
        BY DEF New
      <3> HIDE DEF r, lv
      <3> QED
        BY <2>3, <2>4, <3>1 DEF Smaller
    <2>6. CASE Declines(t)
      <3>1. Return(t, FALSE, << >>, lv)
        BY <2>6 DEF Declines
      <3>2. answer'[t] = [thrown |-> FALSE, target |-> << >>] /\ last_value'[t] = lv
        <4> HIDE DEF lv
        <4> QED
          BY <2>0, <3>1 DEF Return, CallsTyped, Answered
      <3>3. c.before < c.amount
        <4>1. CASE c.at = "count"
          <5>1. GetNewDataAmount(c.base, r.item_count, lv) < c.amount
            BY <2>6, <4>1 DEF Declines
          <5>2. GetNewDataAmount(c.base, r.item_count, lv) = Smaller(c.base - lv, r.item_count)
            BY <2>2, <2>3, <2>4, <4>1, NewCounted
          <5> HIDE DEF c, r, lv
          <5> QED
            BY <2>3, <2>4, <2>5, <4>1, <5>1, <5>2 DEF Smaller
        <4>2. CASE c.at = "base"
          <5>1. GetNewDataAmount(r.base_id, c.count, lv) < c.amount
            BY <2>6, <4>2 DEF Declines
          <5>2. GetNewDataAmount(r.base_id, c.count, lv) = Smaller(r.base_id - lv, c.count)
            BY <2>2, <2>3, <2>4, NewCounted
          <5> HIDE DEF c, r, lv
          <5> QED
            BY <2>3, <2>4, <2>5, <4>2, <5>1, <5>2 DEF Smaller
        <4> QED
          BY <2>6, <4>1, <4>2 DEF Declines
      <3> QED
        BY <2>4, <3>2, <3>3
    <2>7. CASE GetElements(t)
      <3> DEFINE continous == c.request.continous
                 amount == c.amount
                 out == Get(r, amount, lv, continous)
      <3>1. /\ continous \in BOOLEAN /\ (amount > 0 => WellFormed(r))
            /\ answer'[t].thrown = out.thrown /\ Len(answer'[t].target) = Len(out.target)
        BY <2>0, <2>7, GetReturns
      <3>2. OnePiece(r, amount, lv, continous) /\ amount <= New(r, lv)
        BY <2>4, <2>7 DEF GetElements, CopiesOnePiece
      <3>3. amount \in Nat /\ amount <= r.item_count
        BY <2>3, <2>5, <3>2
      <3>4. out.thrown = FALSE /\ Len(out.target) = amount
        <4>1. CASE amount = 0
          <5>1. out.thrown = FALSE /\ out.target = << >>
            BY <4>1 DEF Get
          <5> HIDE DEF out
          <5> QED
            BY <4>1, <5>1
        <4>2. CASE amount # 0
          <5> DEFINE w == Window(r)
                     i == r.base_id
          <5>0. amount > 0 /\ WellFormed(r) /\ r.item_count # 0
            <6>1. amount > 0
              BY <3>3, <4>2
            <6>2. r.item_count \in Nat /\ amount <= r.item_count
              BY <2>3, <3>3
            <6>3. r.item_count # 0
              <7> HIDE DEF amount, r
              <7> QED
                BY <3>3, <6>1, <6>2
            <6> QED
              BY <3>1, <6>1, <6>3
          <5> HIDE DEF amount, continous, r, lv
          <5>1. LET nothing == /\ amount > 0 /\ r.item_count = 0
                               /\ ~(Log!Known(r.base_id, lv) /\ lv = r.base_id)
                IN  out = IF nothing
                          THEN [thrown |-> TRUE, target |-> << >>, last_value |-> lv]
                          ELSE [thrown |-> FALSE,
                                target |-> Log!Given(w, i, amount, lv, continous),
                                last_value |-> IF amount = 0 THEN i ELSE
                                  Log!NextNumber(w, i, amount, lv, continous)]
            BY <2>2, <3>1, <3>2, <3>3, <5>0, GetMeaning
          <5>2. out = [thrown |-> FALSE,
                       target |-> Log!Given(w, i, amount, lv, continous),
                       last_value |-> IF amount = 0 THEN i ELSE
                         Log!NextNumber(w, i, amount, lv, continous)]
            BY <5>0, <5>1
          <5> HIDE DEF out
          <5>3. out.thrown = FALSE /\ out.target = Log!Given(w, i, amount, lv, continous)
            BY <5>2
          <5>4. w \in Seq(Data) /\ Len(w) = r.item_count /\ i \in Nat /\ lv \in Nat
            BY <2>2, <2>3, <5>0, WindowSound
          <5> HIDE DEF w, i
          <5>5. Len(Log!Given(w, i, amount, lv, continous)) = Taken(w, i, amount, lv)
            BY ONLY <3>3, <5>4, GivenCounted
          <5>6. Taken(w, i, amount, lv) = Log!Least(amount, Available(w, i, lv))
            BY DEF Taken
          <5>7. \/ Available(w, i, lv) = Log!Least(i - lv, Len(w))
                \/ Available(w, i, lv) = Len(w)
            BY DEF Available
          <5>8. amount <= Available(w, i, lv) /\ Available(w, i, lv) \in Nat
            <6>1. amount <= i - lv /\ i - lv \in Nat /\ amount <= Len(w) /\ Len(w) \in Nat
              BY <2>3, <2>4, <2>5, <3>2, <3>3, <5>4 DEF i
            <6> QED
              BY <3>3, <5>7, <6>1 DEF Log!Least
          <5>9. Log!Least(amount, Available(w, i, lv)) = amount
            BY <3>3, <5>8 DEF Log!Least
          <5> QED
            BY <5>3, <5>5, <5>6, <5>9
        <4> QED
          BY <4>1, <4>2
      <3> HIDE DEF out
      <3> QED
        BY <2>4, <3>1, <3>4
    <2> QED
      BY <2>1, <2>6, <2>7
  <1>2. XInv /\ [NextThreads]_threadVars => [\A t \in Readers : Exact(t)]_threadVars
    BY <1>1
  <1>3. SpecThreads /\ []NotRolledOver => [][\A t \in Readers : Exact(t)]_threadVars
    <2> HIDE DEF Exact
    <2> QED
      BY <1>2, XInvBegins, XInvKept, PTL DEF SpecThreads
  <1> QED
    BY <1>3 DEF ExactOrNothing

=============================================================================
