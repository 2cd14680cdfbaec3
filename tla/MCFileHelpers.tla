---------------------------- MODULE MCFileHelpers ----------------------------
(* The model-checked instance of FileHelpers: file names, and who takes    *)
(* part in a behaviour with which of them, so that not everybody has to be *)
(* in all of them.                                                         *)
EXTENDS FileHelpers

CONSTANTS plain, uff, walker  \* an OutputFile, a UffFile, a thread

VARIABLE cast

\* Two levels of directories, and a file where one of them should be, which
\* is in no directory; three levels with two slashes in a row.
Short == {<<"a", "b", "x">>, <<"a">>}
Slashes == {<<"a", "b", "", "c", "x">>, <<"a">>}
AllFiles == Short \cup Slashes

Casts == {[actors |-> {plain, uff}, files |-> Short],
          [actors |-> {uff, walker}, files |-> Short],
          [actors |-> {plain, walker}, files |-> Slashes]}

InitCast == InitFiles /\ cast \in Casts

NextCast ==
  /\ NextOf(cast.actors)
  /\ \A p \in Processes : path'[p] \in cast.files \cup {NoFile}
  /\ UNCHANGED cast

SpecCast == InitCast /\ [][NextCast]_<<filesVars, cast>> /\ Fairness

-----------------------------------------------------------------------------
\* Names of up to three of these characters: a space, 0, 1, A and a.
ShortNames == UNION {[1 .. n -> {32, 48, 49, 65, 97}] : n \in 0 .. 3}
=============================================================================
