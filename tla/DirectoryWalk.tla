---------------------------- MODULE DirectoryWalk ----------------------------
(***************************************************************************)
(* deleteFilesRecursive, getDirectories and readDirectory (fsHelper.cpp    *)
(* 59-212) in the tree in which the processes of OutputFile make           *)
(* directories and files at the same time.  A call is a stack of the       *)
(* directories it has descended into.  tinydir is external: the names in a *)
(* directory are read when it is opened, and each is looked at (lstat)     *)
(* when it is its turn.  The system may refuse either: a right is missing, *)
(* or there are no handles left, of which deleteFilesRecursive closes none.*)
(***************************************************************************)
EXTENDS OutputFile

CONSTANTS
  Walkers,  \* the threads that delete, list and read directories
  Matching  \* the names that begin and end as readDirectory() is asked for

\* A path is made of the names of nodes.
ASSUME DirectoryWalkAssumption ==
  \A f \in FileNames : \A i \in 1 .. Len(f) : f[i] \notin {".", ".."}

VARIABLES
  call,    \* of each walker: see NoCall
  meddled  \* what others have "made" or "removed" above or below its target,
           \* and whether the system has "refused" a step of its call

walkVars == <<call, meddled>>

\* stack: the directories the call is in, the deepest last.  before: what
\* it looks for, as it was when the call began.  found: what it has found.
NoCall == [task |-> "none", target |-> <<>>, stack |-> <<>>, before |-> {}, found |-> {}]

InitWalk ==
  /\ call = [p \in Walkers |-> NoCall]
  /\ meddled = [p \in Walkers |-> {}]

\* A directory to be opened: its entries are not known before it is.
Directory(node) == [node |-> node, at |-> "open", left |-> {}, entry |-> NoName]

Stack(p) == call[p].stack
Top(p) == Stack(p)[Len(Stack(p))]
Inside(node) == {n \in DOMAIN tree : Leads(node, n) /\ Len(n) = Len(node) + 1}
Directories(node) == {n \in DOMAIN tree : Leads(node, n) /\ n # node /\ tree[n] = "dir"}
Files(node) == {n \in Inside(node) : tree[n] = "file" /\ n[Len(n)] \in Matching}

\* What a call is about: every directory below its own, or the files in it.
Sought(task, node) == IF task = "read" THEN Files(node) ELSE Directories(node)

\* Mutant: only the directory itself is passed over.
DotAlone == {"."}

\* The entries both functions pass over.
Dots == {".", ".."}

Entries(node) ==
  {".", ".."} \cup {n[Len(n)] : n \in Inside(node)}

\* What "directory/entry" leads to.
Entry(node, name) ==
  CASE name = "." -> node
    [] name = ".." -> FirstNames(node, Len(node) - 1)
    [] OTHER -> Append(node, name)

\* The call goes on in these directories, or finds another one as well: with
\* `top` as the deepest, below it, or without it.
GoOn(p, stack) == call' = [call EXCEPT ![p].stack = stack]
Find(p, node, stack) ==
  call' = [call EXCEPT ![p].found = @ \cup {node}, ![p].stack = stack]
WithTop(p, top) == [Stack(p) EXCEPT ![Len(Stack(p))] = top]
Below(p, top, node) == Append(WithTop(p, top), Directory(node))
Upper(p) == SubSeq(Stack(p), 1, Len(Stack(p)) - 1)

Now(p, top) == GoOn(p, WithTop(p, top))
Enter(p, top, node) == GoOn(p, Below(p, top, node))
ReturnTo(p, stack) ==
  IF Len(Stack(p)) = 1 THEN call' = [call EXCEPT ![p] = NoCall] ELSE GoOn(p, stack)
Leave(p) == ReturnTo(p, Upper(p))

\* An exception of deleteFilesRecursive: nothing catches it before the caller.
Throw(p) == call' = [call EXCEPT ![p] = NoCall] /\ UNCHANGED tree

\* An exception inside getDirectories: the loop above ends, and what it has
\* found is returned as if it were all.
UpperEnded(p) == [Upper(p) EXCEPT ![Len(Stack(p)) - 1].left = {}]
Swallow(p) == ReturnTo(p, UpperEnded(p))

Removes(p, node) ==
  /\ MayRemove(tree, node)
  /\ tree' = Without(tree, node)

-----------------------------------------------------------------------------
BeginWalk(p, node, task) ==
  /\ call[p] = NoCall /\ KindOf(tree, node) = "dir"
  /\ call' = [call EXCEPT ![p] = [task |-> task, target |-> node, stack |-> <<Directory(node)>>,
                                  before |-> Sought(task, node), found |-> {}]]
  /\ UNCHANGED tree

\* tinydir_open.  Of readDirectory() too the exception is the caller's.
OpenDirectory(p, refused) ==
  /\ Top(p).at = "open"
  /\ IF KindOf(tree, Top(p).node) = "dir" /\ ~refused
     THEN Now(p, [Top(p) EXCEPT !.at = "next", !.left = Entries(Top(p).node) \ Dots])
     ELSE IF call[p].task = "delete" THEN Throw(p) ELSE Swallow(p)
  /\ UNCHANGED tree

\* tinydir_readfile, whose result is not looked at: the kind of an entry that
\* has gone meanwhile, or that may not be looked at, is not set.
Taken(node, refused) ==
  IF KindOf(tree, node) = "missing" \/ refused THEN {"dir", "file", "neither"} ELSE {KindOf(tree, node)}

\* Mutant: regular files are left where they are.
DeleteNextDirectory(p, refused) ==
  /\ Top(p).at = "next" /\ call[p].task = "delete"
  /\ \E name \in Top(p).left :
       LET node == Entry(Top(p).node, name)
       IN IF KindOf(tree, node) = "dir"
          THEN Enter(p, [Top(p) EXCEPT !.at = "remove", !.left = @ \ {name}, !.entry = name], node)
          ELSE Now(p, [Top(p) EXCEPT !.left = @ \ {name}])
  /\ UNCHANGED tree

\* What is neither a directory nor a regular file is not removed.
DeleteNext(p, refused) ==
  /\ Top(p).at = "next" /\ call[p].task = "delete"
  /\ \E name \in Top(p).left :
       LET node == Entry(Top(p).node, name)
           kinds == Taken(node, refused)
           top == [Top(p) EXCEPT !.at = "remove", !.left = @ \ {name}, !.entry = name]
       IN \/ "dir" \in kinds /\ Enter(p, top, node)
          \/ "file" \in kinds /\ Now(p, top)
          \/ "neither" \in kinds /\ Throw(p)
  /\ UNCHANGED tree

\* std::remove of an entry; of a directory too, which deleteFilesRecursive
\* has already removed when it comes back from it.
RemoveEntry(p) ==
  /\ Top(p).at = "remove"
  /\ \/ /\ Removes(p, Entry(Top(p).node, Top(p).entry))
        /\ Now(p, [Top(p) EXCEPT !.at = "next", !.entry = NoName])
     \/ Throw(p)

\* ... and of the directory itself behind its last entry.
RemoveDirectory(p) ==
  /\ Top(p).at = "next" /\ call[p].task = "delete" /\ Top(p).left = {}
  /\ \/ Removes(p, Top(p).node) /\ Leave(p)
     \/ Throw(p)

\* Mutant: an entry is descended into before it is known to be a directory.
ListNextFirst(p, refused) ==
  /\ Top(p).at = "next" /\ call[p].task = "list"
  /\ \E name \in Top(p).left :
       Enter(p, [Top(p) EXCEPT !.left = @ \ {name}], Entry(Top(p).node, name))
  /\ UNCHANGED tree

\* A directory is added to the result and descended into.
ListNext(p, refused) ==
  /\ Top(p).at = "next" /\ call[p].task = "list"
  /\ \E name \in Top(p).left :
       LET node == Entry(Top(p).node, name)
           kinds == Taken(node, refused)
           top == [Top(p) EXCEPT !.left = @ \ {name}]
       IN \/ "dir" \in kinds /\ Find(p, node, Below(p, top, node))
          \/ kinds # {"dir"} /\ Now(p, top)
  /\ UNCHANGED tree

\* What is no directory is added to the result when its name matches.
ReadNext(p, refused) ==
  /\ Top(p).at = "next" /\ call[p].task = "read"
  /\ \E name \in Top(p).left :
       LET node == Entry(Top(p).node, name)
           kinds == Taken(node, refused)
           top == [Top(p) EXCEPT !.left = @ \ {name}]
       IN \/ kinds # {"dir"} /\ name \in Matching /\ Find(p, node, <<top>>)
          \/ ("dir" \in kinds \/ name \notin Matching) /\ Now(p, top)
  /\ UNCHANGED tree

\* The result is sorted and returned.
ListEnds(p) ==
  /\ Top(p).at = "next" /\ call[p].task # "delete" /\ Top(p).left = {}
  /\ Leave(p)
  /\ UNCHANGED tree

InWalk(p, refused) ==
  /\ call[p] # NoCall
  /\ \/ OpenDirectory(p, refused)
     \/ DeleteNext(p, refused) \/ ListNext(p, refused) \/ ReadNext(p, refused)
     \/ ~refused /\ (RemoveEntry(p) \/ RemoveDirectory(p) \/ ListEnds(p))

-----------------------------------------------------------------------------
(* With the processes of OutputFile                                        *)

NewNodes == DOMAIN tree' \ DOMAIN tree
GoneNodes == DOMAIN tree \ DOMAIN tree'

\* All walkers but these see what a step does to the tree around their
\* targets; to these it does what `marks` says.
Meddle(these, marks) ==
  LET near(p, nodes) == \E n \in nodes : Leads(n, call[p].target) \/ Leads(call[p].target, n)
  IN meddled' = [p \in Walkers |->
       IF call'[p] = NoCall THEN {}
       ELSE IF p \in these THEN meddled[p] \cup marks
       ELSE meddled[p] \cup {w \in {"made"} : near(p, NewNodes)}
                       \cup {w \in {"removed"} : near(p, GoneNodes)}]

WalkStep(p) ==
  /\ \/ /\ \E node \in DOMAIN tree, task \in {"delete", "list", "read"} : BeginWalk(p, node, task)
        /\ Meddle({p}, {})
     \/ InWalk(p, FALSE) /\ Meddle({p}, {})
     \/ InWalk(p, TRUE) /\ Meddle({p}, {"refused"})
  /\ Disturb(UNION {Passing(node) : node \in GoneNodes})
  /\ UNCHANGED <<filename, stream, pc, path, level>>

-----------------------------------------------------------------------------
(***************************************************************************)
(* Properties.                                                             *)
(***************************************************************************)

(* "This check is mandatory to not traverse upwards in folder structure!"  *)
(* (fsHelper.cpp 75): whatever others make and remove meanwhile, a call    *)
(* removes nothing but its directory and what is below it.                 *)
DeletesInside ==
  [][\A p \in Walkers, n \in GoneNodes :
        call'[p] # call[p] => call[p].task = "delete" /\ Leads(call[p].target, n)]_<<vars, walkVars>>

Ends(p) == call[p] # NoCall /\ call'[p] = NoCall

\* The step that the deepest directory of a call is at could be done.
Possible(p) ==
  CASE Top(p).at = "open" -> KindOf(tree, Top(p).node) = "dir"
    [] Top(p).at = "remove" -> MayRemove(tree, Entry(Top(p).node, Top(p).entry))
    [] Top(p).at = "next" /\ Top(p).left = {} -> MayRemove(tree, Top(p).node)
    [] OTHER -> \A name \in Top(p).left : KindOf(tree, Entry(Top(p).node, name)) # "missing"

(* deleteFilesRecursive throws, and leaves a part of the directory, only   *)
(* when another thread has made or removed something there, when the       *)
(* system refuses to open, to look at or to remove something, now or       *)
(* before - or when there was a directory inside, which its own nested     *)
(* call removes before it: then no call can succeed.                       *)
DeleteFailsForAReason ==
  [][\A p \in Walkers :
       Ends(p) /\ call[p].task = "delete" /\ KindOf(tree', call[p].target) # "missing"
         => meddled[p] # {} \/ Possible(p) \/ call[p].before # {}]_<<vars, walkVars>>

(* getDirectories swallows what goes wrong below its first directory and   *)
(* returns a part as if it were all.  That happens only when something was *)
(* removed meanwhile or the system has refused to open a directory or to   *)
(* look at an entry: otherwise what is returned are the directories that   *)
(* there were when it was called, all of them, and none that is not there  *)
(* now.  So it is of readDirectory and the files it is asked for.          *)
ListingComplete ==
  [][\A p \in Walkers :
       /\ Ends(p) /\ call[p].task # "delete" /\ Top(p).at # "open"
       /\ {"removed", "refused"} \cap meddled[p] = {}
       => /\ call[p].before \subseteq call[p].found
          /\ call[p].found \subseteq Sought(call[p].task, call[p].target)]_<<vars, walkVars>>
=============================================================================
