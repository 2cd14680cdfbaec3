---------------------------- MODULE MCNetHelper ----------------------------
(* Instances of NetHelper for TLC. *)
EXTENDS NetHelper, TLC

\* Refused and granted.
TwoLevels == {0, 1}
Symmetry == Permutations(Threads)
=============================================================================
