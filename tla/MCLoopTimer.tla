---------------------------- MODULE MCLoopTimer ----------------------------
(* Instances of LoopTimer for TLC. *)
EXTENDS LoopTimer

OneTime == {2}
TwoTimes == {1, 2}
=============================================================================
