----------------------------- MODULE FileHelpers -----------------------------
(***************************************************************************)
(* The file helpers together, in one file system: objects of OutputFile,   *)
(* some of them inside a UffFile, threads that list and delete             *)
(* directories, and other processes that remove what they like.            *)
(***************************************************************************)
EXTENDS DirectoryWalk, UffFile, NaturalOrder

CONSTANT SortedNames  \* names that a directory may hold, as C strings

ASSUME SortedNamesAssumption == SortedNames \subseteq Strings

filesVars == <<vars, walkVars, uffVars>>

InitFiles == Init /\ InitWalk /\ InitUff

\* A step of openFile(), which a UffFile's updateFilename() calls as it is.
FileStep(p) ==
  /\ \/ \E f \in FileNames : UpdateFilename(p, f)
     \/ InCall(p)
  /\ IF p \in Uffs THEN UpdateUff(p) ELSE UNCHANGED uffVars
  /\ UNCHANGED call /\ Meddle({}, {})

\* What a UffFile does not offer, or offers in another way.
PlainStep(p) ==
  /\ CloseFile(p) \/ ClearFile(p)
  /\ UNCHANGED <<call, uffVars>> /\ Meddle({}, {})

UffStep(p) ==
  \/ ClearUff(p) /\ UNCHANGED call /\ Meddle({}, {})
  \/ WriteUff(p) /\ UNCHANGED walkVars

RemovedByOthers(node) == Remove(node) /\ UNCHANGED <<call, uffVars>> /\ Meddle({}, {})

\* A step of one of these, or of another process.
NextOf(actors) ==
  \/ \E p \in Processes \cap actors : FileStep(p)
  \/ \E p \in Appending \cap actors : PlainStep(p)
  \/ \E p \in Uffs \cap actors : UffStep(p)
  \/ \E p \in Walkers \cap actors : WalkStep(p) /\ UNCHANGED uffVars
  \/ \E node \in DOMAIN tree : RemovedByOthers(node)

\* Only that a process in openFile() goes on is assumed, as in OutputFile: the
\* steps of the others do not satisfy InCall(p).
SpecFiles == InitFiles /\ [][NextOf(Processes \cup Walkers)]_filesVars /\ Fairness

-----------------------------------------------------------------------------
\* Irreflexive, and with "less" transitive, and so "neither is less".
StrictWeakOrder ==
  LET greater == [a \in SortedNames |-> {b \in SortedNames : CompareNat(a, b)}]
      equal == [a \in SortedNames |-> {b \in SortedNames : ~CompareNat(a, b) /\ ~CompareNat(b, a)}]
  IN \A a \in SortedNames :
       /\ a \notin greater[a]
       /\ \A b \in greater[a] : greater[b] \subseteq greater[a]
       /\ \A b \in equal[a] : equal[b] = equal[a]

(* std::sort, which getDirectories and readDirectoryNatural hand           *)
(* compareNat to, may leave the vector when that is no strict weak order:  *)
(* numbers are compared in one of two ways, by their length or as          *)
(* fractions, and in which depends on the other number.  With every name   *)
(* that a walker may come upon, it is one.                                 *)
SortsSafely ==
  \A p \in Walkers : call[p].task \in {"list", "read"} => StrictWeakOrder
=============================================================================
