-------------------------- MODULE MCCircularBuffer --------------------------
(* Requests for the model-checked instances of CircularBuffer. *)
EXTENDS CircularBuffer, TLC

\* Those whose range always starts at the newest element: without
\* return_continous, or asking for at least the capacity.  (Other amounts are
\* met by UnwrappedReadsMatch.)
StartingAtNewest ==
  {q \in AllRequests : q.amount \in {0, N - 1, N} /\ (q.continous => q.amount = N)}

\* A plain read of the whole buffer and a continuing one.
WholeBufferRequests ==
  {q \in AllRequests : q.amount = N /\ ~q.raw /\ (q.exactly => q.continous)}

Symmetry == Permutations(Values) \cup Permutations(Buffers)

\* All objects but one are empty: the content of one moves to another and
\* back, but two that are filled differently are left to CircularBufferThreads.
OneFilled(rings) ==
  \A b, other \in Buffers : b # other => Fresh(FALSE) \in {rings[b], rings[other]}

InitOneInUse == Init /\ OneFilled(ring)
NextOneInUse == Next /\ OneFilled(ring')
SpecOneInUse == InitOneInUse /\ [][NextOneInUse]_vars
=============================================================================
