----------------------------- MODULE FileSystem -----------------------------
(***************************************************************************)
(* What the file helpers expect of the operating system (external): a tree *)
(* of directories and files below the root or the working directory, which *)
(* exists.  A path is the sequence of the names behind it, with NoName     *)
(* between two slashes in a row or behind the last one.  A tree maps the   *)
(* nodes there are to their kind; it is closed under parents.              *)
(***************************************************************************)
EXTENDS Naturals, Sequences

\* What stands between two slashes in a row.
NoName == ""

\* The node a path leads to: slashes too many are ignored.
NodeOf(path) ==
  LET names[k \in 0 .. Len(path)] ==
        IF k = 0 THEN <<>>
        ELSE IF path[k] = NoName THEN names[k - 1] ELSE Append(names[k - 1], path[k])
  IN names[Len(path)]

FirstNames(path, k) == SubSeq(path, 1, k)

KindOf(tree, node) ==
  IF node = <<>> THEN "dir" ELSE IF node \in DOMAIN tree THEN tree[node] ELSE "missing"

\* The kinds of the directories a node is said to be in.
Above(tree, node) == {KindOf(tree, FirstNames(node, k)) : k \in 1 .. Len(node) - 1}

With(tree, node, kind) ==
  [n \in DOMAIN tree \cup {node} |-> IF n = node THEN kind ELSE tree[n]]

Without(tree, node) == [n \in DOMAIN tree \ {node} |-> tree[n]]

\* node is `other` or is above it.
Leads(node, other) == Len(node) <= Len(other) /\ FirstNames(other, Len(node)) = node

\* The outcome of mkdir(path) when nothing is wrong but the tree.
Mkdir(tree, path) ==
  IF "file" \in Above(tree, NodeOf(path)) THEN "ENOTDIR"
  ELSE IF "missing" \in Above(tree, NodeOf(path)) THEN "ENOENT"
  ELSE IF KindOf(tree, NodeOf(path)) # "missing" THEN "EEXIST"
  ELSE "made"

\* Whether a file can be opened for writing.
MayOpen(tree, path) ==
  Above(tree, NodeOf(path)) \subseteq {"dir"} /\ KindOf(tree, NodeOf(path)) # "dir"

\* Whether a node can be removed: a file, or a directory without entries.
MayRemove(tree, node) ==
  node \in DOMAIN tree /\ \A n \in DOMAIN tree : Leads(node, n) => n = node
=============================================================================
