---------------------- MODULE MCCircularBufferThreads ----------------------
(* Instances of CircularBufferThreads for TLC. *)
EXTENDS CircularBufferThreads, TLC

CONSTANTS v1, v2

\* An empty object, and one that was cleared when it had been written more
\* often than it has room: the next element is the last of the array.
Wrapped == Added(Added(Added(Added(Added(Fresh(FALSE), v1), v2), v1), v2), v1)
EmptyOrWrapping == {Fresh(FALSE), Added(Added(Cleared(Wrapped), v2), v1)}

\* A new reader, and one that has read everything before it was cleared.
NewOrUpToDate == {0, Wrapped.base_id}

TwoValues == {v1, v2}
TwoRanges == {<<v1, v2>>}

\* An exact read, and one of as much as there is.
ContinuingRequests ==
  {q \in AllRequests : q.amount = N /\ ~q.raw /\ q.continous}

ThreadSymmetry == Permutations(Readers) \cup Permutations(Buffers)
=============================================================================
