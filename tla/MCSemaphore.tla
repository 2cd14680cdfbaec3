---------------------------- MODULE MCSemaphore ----------------------------
(* Instances of Semaphore for TLC. *)
EXTENDS Semaphore

ReleaseSizes == {0, 1, 2}
=============================================================================
