----------------------------- MODULE OutputFile -----------------------------
(***************************************************************************)
(* bestsens::system_helper::fs::OutputFile (include/bone_helper/           *)
(* fsHelper.hpp) and makePath (src/fsHelper.cpp 18-57).  Every process has *)
(* an object of its own, and all of them make directories and open files   *)
(* in one file system.  openFile() is a step for each of its system calls, *)
(* and the recursion of makePath is the level it has reached: down to the  *)
(* first directory that exists or can be made, then up again.              *)
(***************************************************************************)
EXTENDS FileSystem

CONSTANTS
  Processes,
  Appending,  \* the objects whose mode contains app, as it does by default
  FileNames   \* that updateFilename() is called with

\* No file name begins or ends with a slash.
ASSUME OutputFileAssumption ==
  /\ Appending \subseteq Processes
  /\ \A f \in FileNames : f \in Seq(STRING) /\ f # <<>> /\ Head(f) # NoName /\ f[Len(f)] # NoName

VARIABLES
  tree,
  filename,   \* of each object
  stream,     \* the file its stream was opened for, when it is open
  pc,         \* where it is in openFile(): see States
  path,       \* openFile()'s argument
  level,      \* the names in the path the current call of makePath is for
  disturbed   \* something else has changed or refused what this call needs

vars == <<tree, filename, stream, pc, path, level, disturbed>>

NoFile == <<>>
Folder(f) == FirstNames(f, Len(f) - 1)

\* mkdir: the first attempt at a level.  stat: something is there.  again: the
\* attempt after the level below was made.  open: the file itself.
States == {"idle", "mkdir", "stat", "again", "open"}

TypeOK ==
  /\ \A n \in DOMAIN tree : tree[n] \in {"dir", "file"}
  /\ \A n \in DOMAIN tree : Above(tree, n) \subseteq {"dir"}
  /\ filename \in [Processes -> FileNames \cup {NoFile}]
  /\ stream \in [Processes -> FileNames \cup {NoFile}]
  /\ pc \in [Processes -> States]
  /\ path \in [Processes -> FileNames \cup {NoFile}]
  /\ level \in [Processes -> Nat]
  /\ \A p \in Processes : pc[p] \in {"mkdir", "stat", "again"} => level[p] \in 1 .. Len(Folder(path[p]))
  /\ disturbed \in [Processes -> BOOLEAN]

Init ==
  /\ tree = [n \in {} |-> "dir"]
  /\ filename = [p \in Processes |-> NoFile]
  /\ stream = [p \in Processes |-> NoFile]
  /\ pc = [p \in Processes |-> "idle"]
  /\ path = [p \in Processes |-> NoFile]
  /\ level = [p \in Processes |-> 0]
  /\ disturbed = [p \in Processes |-> FALSE]

Goto(p, state) == pc' = [pc EXCEPT ![p] = state]

\* Those that are on the way through a node, to something below it.
Passing(node) ==
  {p \in Processes : pc[p] # "idle" /\ Leads(node, NodeOf(Folder(path[p])))}
Within(node) ==
  {p \in Passing(node) : node # NodeOf(Folder(path[p]))}

Disturb(these) == disturbed' = [p \in Processes |-> disturbed[p] \/ p \in these]

-----------------------------------------------------------------------------
(* makePath                                                                *)

Attempt(p) == Mkdir(tree, FirstNames(Folder(path[p]), level[p]))
Here(p) == NodeOf(FirstNames(Folder(path[p]), level[p]))

\* Mutant: the level above is forgotten.
ReturnAtOnce(p) == Goto(p, "open") /\ UNCHANGED level

\* Mutant: one level too many.
ReturnTooHigh(p) ==
  IF level[p] > Len(Folder(path[p]))
  THEN Goto(p, "open") /\ UNCHANGED level
  ELSE Goto(p, "again") /\ level' = [level EXCEPT ![p] = @ + 1]

\* The call for this level returns true: the one above tries once more.
Return(p) ==
  IF level[p] = Len(Folder(path[p]))
  THEN Goto(p, "open") /\ UNCHANGED level
  ELSE Goto(p, "again") /\ level' = [level EXCEPT ![p] = @ + 1]

\* It returns false, and so does every call above; createFolderPath()'s
\* result is not looked at.
GiveUp(p) == Goto(p, "open") /\ UNCHANGED level

Made(p) ==
  /\ Attempt(p) = "made"
  /\ tree' = With(tree, Here(p), "dir")
  /\ Disturb(Within(Here(p)) \ {p})
  /\ Return(p)

\* No space, no permission, and whatever else the tree does not show.
Refused(p) == GiveUp(p) /\ Disturb({p}) /\ UNCHANGED tree

Descend(p) ==
  /\ Attempt(p) = "ENOENT" /\ level[p] > 1
  /\ level' = [level EXCEPT ![p] = @ - 1]
  /\ Goto(p, "mkdir")
  /\ UNCHANGED <<tree, disturbed>>

FirstAttempt(p) ==
  /\ pc[p] = "mkdir"
  /\ \/ Made(p)
     \/ Descend(p)
     \/ Attempt(p) = "EEXIST" /\ Goto(p, "stat") /\ UNCHANGED <<tree, level, disturbed>>
     \/ Attempt(p) = "ENOTDIR" /\ GiveUp(p) /\ UNCHANGED <<tree, disturbed>>
     \/ Refused(p)
  /\ UNCHANGED <<filename, stream, path>>

IsDirExist(p) ==
  /\ pc[p] = "stat"
  /\ IF KindOf(tree, Here(p)) = "dir" THEN Return(p) ELSE GiveUp(p)
  /\ UNCHANGED <<tree, filename, stream, path, disturbed>>

\* Mutant: a second attempt that fails begins once more.
SecondAttemptRepeated(p) ==
  /\ pc[p] = "again"
  /\ \/ Made(p)
     \/ Attempt(p) # "made" /\ Goto(p, "mkdir") /\ UNCHANGED <<tree, level, disturbed>>
     \/ Refused(p)
  /\ UNCHANGED <<filename, stream, path>>

SecondAttempt(p) ==
  /\ pc[p] = "again"
  /\ \/ Made(p)
     \/ Attempt(p) # "made" /\ GiveUp(p) /\ UNCHANGED <<tree, disturbed>>
     \/ Refused(p)
  /\ UNCHANGED <<filename, stream, path>>

-----------------------------------------------------------------------------
(* OutputFile                                                              *)

\* Mutant: the old file stays open.
OpenFileBesides(p, f) ==
  /\ path' = [path EXCEPT ![p] = f]
  /\ level' = [level EXCEPT ![p] = Len(f) - 1]
  /\ Goto(p, IF Folder(f) = <<>> THEN "open" ELSE "mkdir")
  /\ UNCHANGED <<stream, filename, tree, disturbed>>

\* openFile() up to its first system call.
OpenFile(p, f) ==
  /\ stream' = [stream EXCEPT ![p] = NoFile]
  /\ filename' = [filename EXCEPT ![p] = IF stream[p] = NoFile THEN @ ELSE NoFile]
  /\ path' = [path EXCEPT ![p] = f]
  /\ level' = [level EXCEPT ![p] = Len(f) - 1]
  /\ Goto(p, IF Folder(f) = <<>> THEN "open" ELSE "mkdir")
  /\ UNCHANGED <<tree, disturbed>>

UpdateFilename(p, f) ==
  /\ pc[p] = "idle"
  /\ filename[p] # f \/ stream[p] = NoFile
  /\ OpenFile(p, f)

\* open() on the stream: it fails for reasons of the tree and others, and on
\* a stream that is open.
Opened(p) ==
  /\ stream[p] = NoFile /\ MayOpen(tree, path[p])
  /\ tree' = With(tree, NodeOf(path[p]), "file")
  /\ stream' = [stream EXCEPT ![p] = path[p]]

NotOpened == UNCHANGED <<tree, stream>>

\* openFile() returns 0 when the stream is open then.
Open(p) ==
  /\ pc[p] = "open"
  /\ Opened(p) \/ NotOpened
  /\ filename' = [filename EXCEPT ![p] = IF stream'[p] = NoFile THEN @ ELSE path[p]]
  /\ Goto(p, "idle")
  /\ path' = [path EXCEPT ![p] = NoFile]
  /\ level' = [level EXCEPT ![p] = 0]
  /\ disturbed' = [disturbed EXCEPT ![p] = FALSE]

CloseFile(p) ==
  /\ pc[p] = "idle" /\ stream[p] # NoFile
  /\ stream' = [stream EXCEPT ![p] = NoFile]
  /\ filename' = [filename EXCEPT ![p] = NoFile]
  /\ UNCHANGED <<tree, pc, path, level, disturbed>>

\* The stream is closed and opened again with trunc, which does not go with
\* app, nor with an empty name; no directory is made this time.
ClearFile(p) ==
  /\ pc[p] = "idle"
  /\ \/ /\ p \notin Appending /\ filename[p] # NoFile /\ MayOpen(tree, filename[p])
        /\ tree' = With(tree, NodeOf(filename[p]), "file")
        /\ stream' = [stream EXCEPT ![p] = filename[p]]
     \/ stream' = [stream EXCEPT ![p] = NoFile] /\ UNCHANGED tree
  /\ UNCHANGED <<filename, pc, path, level, disturbed>>

\* A call of deleteFilesRecursive in another process removes a node.
Remove(node) ==
  /\ MayRemove(tree, node)
  /\ tree' = Without(tree, node)
  /\ Disturb(Passing(node))
  /\ UNCHANGED <<filename, stream, pc, path, level>>

InCall(p) == FirstAttempt(p) \/ IsDirExist(p) \/ SecondAttempt(p) \/ Open(p)

Next ==
  \/ \E p \in Processes :
       \/ \E f \in FileNames : UpdateFilename(p, f)
       \/ FirstAttempt(p) \/ IsDirExist(p) \/ SecondAttempt(p) \/ Open(p)
       \/ CloseFile(p) \/ ClearFile(p)
  \/ \E node \in DOMAIN tree : Remove(node)

\* A process that is in openFile() goes on.
Fairness == \A p \in Processes : WF_vars(InCall(p))

Spec == Init /\ [][Next]_vars /\ Fairness

-----------------------------------------------------------------------------
(***************************************************************************)
(* Properties.                                                             *)
(***************************************************************************)

(* What is written goes to the file getFilename() names: an open stream    *)
(* was opened for that name, however calls that fail, close and clear      *)
(* follow each other.                                                      *)
StreamMatchesName ==
  \A p \in Processes : stream[p] # NoFile => stream[p] = filename[p]

\* A file or directory is where the path needs the other one.
InTheWay(f) ==
  "file" \in Above(tree, NodeOf(f)) \/ KindOf(tree, NodeOf(f)) = "dir"

(* openFile() fails only for a reason: the system refuses, something of    *)
(* the path is removed meanwhile, something else is in its place, or two   *)
(* slashes in a row.  And one more: another process makes a directory      *)
(* above the last one at the same time, where makePath gives up.  That     *)
(* another one makes the last directory does no harm, because the result   *)
(* of createFolderPath() is not looked at.                                 *)
FailsForAReason ==
  [][\A p \in Processes :
       (pc[p] = "open" /\ pc'[p] = "idle" /\ stream'[p] = NoFile)
         => \/ disturbed[p] \/ MayOpen(tree, path[p])
            \/ InTheWay(path[p]) \/ NodeOf(path[p]) # path[p]]_vars

(* Every openFile() ends, whatever others make and remove meanwhile: the   *)
(* recursion goes down and up once.                                        *)
OpenEnds == \A p \in Processes : pc[p] # "idle" ~> pc[p] = "idle"
=============================================================================
