-------------------------- MODULE OutputFile_proofs --------------------------
(* Theorems about OutputFile, alone and among the other FileHelpers, and   *)
(* about the walkers and the order they sort in, for any processes, files, *)
(* names and trees.                                                        *)
EXTENDS FileHelpers, NaturalOrder_proofs

\* The objects' members keep their domain, and inside openFile() the stream
\* is closed: that makes StreamMatchesName inductive.
Members ==
  /\ filename \in [Processes -> FileNames \cup {NoFile}]
  /\ stream \in [Processes -> FileNames \cup {NoFile}]
  /\ path \in [Processes -> FileNames \cup {NoFile}]
  /\ pc \in [Processes -> States]

ClosedInCall == \A p \in Processes : pc[p] # "idle" => stream[p] = NoFile

IInv == Members /\ ClosedInCall /\ StreamMatchesName

LEMMA InitSound == Init => IInv
  BY DEF Init, IInv, Members, ClosedInCall, StreamMatchesName, States

\* A step of makePath changes where one process is, which is in a call.
LEMMA MakePathSound ==
  ASSUME IInv, NEW p \in Processes, pc[p] # "idle",
         NEW state \in States, Goto(p, state), UNCHANGED <<filename, stream, path>>
  PROVE  IInv'
  BY DEF IInv, Members, ClosedInCall, StreamMatchesName, Goto

\* What leaves the streams and everybody's place alone keeps the invariant.
LEMMA KeptSound ==
  ASSUME IInv, UNCHANGED <<filename, stream, pc, path>>
  PROVE  IInv'
  BY DEF IInv, Members, ClosedInCall, StreamMatchesName

LEMMA NextSound == IInv /\ [Next]_vars => IInv'
<1> SUFFICES ASSUME IInv, [Next]_vars PROVE IInv'
  OBVIOUS
<1>1. ASSUME NEW p \in Processes, NEW f \in FileNames, UpdateFilename(p, f) PROVE IInv'
  <2>1. PICK state \in States : Goto(p, state)
    BY <1>1 DEF UpdateFilename, OpenFile, States
  <2>2. stream' = [stream EXCEPT ![p] = NoFile] /\ path' = [path EXCEPT ![p] = f]
    BY <1>1 DEF UpdateFilename, OpenFile
  <2>3. filename' = [filename EXCEPT ![p] = IF stream[p] = NoFile THEN filename[p] ELSE NoFile]
    BY <1>1 DEF UpdateFilename, OpenFile
  <2>4. Members'
    BY <2>1, <2>2, <2>3 DEF IInv, Members, Goto
  <2>5. ClosedInCall' /\ StreamMatchesName'
    BY <2>1, <2>2, <2>3 DEF IInv, Members, ClosedInCall, StreamMatchesName, Goto
  <2> QED BY <2>4, <2>5 DEF IInv
<1>2. ASSUME NEW p \in Processes, FirstAttempt(p) PROVE IInv'
  <2>1. PICK state \in States : Goto(p, state)
    BY <1>2 DEF FirstAttempt, Made, Descend, Refused, GiveUp, Return, States
  <2> QED BY <1>2, <2>1, MakePathSound DEF FirstAttempt
<1>3. ASSUME NEW p \in Processes, IsDirExist(p) PROVE IInv'
  <2>1. PICK state \in States : Goto(p, state)
    BY <1>3 DEF IsDirExist, GiveUp, Return, States
  <2> QED BY <1>3, <2>1, MakePathSound DEF IsDirExist
<1>4. ASSUME NEW p \in Processes, SecondAttempt(p) PROVE IInv'
  <2>1. PICK state \in States : Goto(p, state)
    BY <1>4 DEF SecondAttempt, Made, Refused, GiveUp, Return, States
  <2> QED BY <1>4, <2>1, MakePathSound DEF SecondAttempt
<1>5. ASSUME NEW p \in Processes, Open(p) PROVE IInv'
  <2>1. stream[p] = NoFile /\ path[p] \in FileNames \cup {NoFile}
    BY <1>5 DEF IInv, Members, ClosedInCall, Open
  <2>2. stream' = [stream EXCEPT ![p] = path[p]] \/ stream' = stream
    BY <1>5 DEF Open, Opened, NotOpened
  <2>3. /\ pc' = [pc EXCEPT ![p] = "idle"] /\ path' = [path EXCEPT ![p] = NoFile]
        /\ filename' = [filename EXCEPT ![p] = IF stream'[p] = NoFile THEN filename[p] ELSE path[p]]
    BY <1>5 DEF Open, Goto
  <2>4. Members'
    BY <2>1, <2>2, <2>3 DEF IInv, Members, States
  <2>5. ClosedInCall' /\ StreamMatchesName'
    BY <2>1, <2>2, <2>3 DEF IInv, Members, ClosedInCall, StreamMatchesName
  <2> QED BY <2>4, <2>5 DEF IInv
<1>6. ASSUME NEW p \in Processes, CloseFile(p) PROVE IInv'
  BY <1>6 DEF CloseFile, IInv, Members, ClosedInCall, StreamMatchesName
<1>7. ASSUME NEW p \in Processes, ClearFile(p) PROVE IInv'
  <2>1. /\ UNCHANGED <<filename, pc, path>>
        /\ stream' = [stream EXCEPT ![p] = filename[p]] \/ stream' = [stream EXCEPT ![p] = NoFile]
    BY <1>7 DEF ClearFile
  <2>2. pc[p] = "idle"
    BY <1>7 DEF ClearFile
  <2> QED BY <2>1, <2>2 DEF IInv, Members, ClosedInCall, StreamMatchesName
<1>8. ASSUME NEW node \in DOMAIN tree, Remove(node) PROVE IInv'
  BY <1>8, KeptSound DEF Remove
<1>9. CASE UNCHANGED vars
  BY <1>9, KeptSound DEF vars
<1> QED BY <1>1, <1>2, <1>3, <1>4, <1>5, <1>6, <1>7, <1>8, <1>9 DEF Next

(* For any number of processes and any files, an open stream was opened    *)
(* for the name getFilename() returns.                                     *)
THEOREM StreamNamed == Spec => []StreamMatchesName
<1>1. IInv => StreamMatchesName
  BY DEF IInv
<1> QED BY <1>1, InitSound, NextSound, PTL DEF Spec

-----------------------------------------------------------------------------
(* The nodes of a tree.                                                    *)

\* f maps every k up to n to the names among the first k of a path.
NamesUpto(f, s, n) ==
  /\ f[0] = <<>>
  /\ \A k \in 1 .. n :
       f[k] = IF s[k] = NoName THEN f[k - 1] ELSE Append(f[k - 1], s[k])

LEMMA NamesExist ==
  ASSUME NEW A, NEW s \in Seq(A)
  PROVE  \E f \in [0 .. Len(s) -> Seq(A)] : NamesUpto(f, s, Len(s))
<1> DEFINE Reach(n) == \E f \in [0 .. n -> Seq(A)] : NamesUpto(f, s, n)
           S == {n \in Nat : n <= Len(s) => Reach(n)}
<1>1. Reach(0)
  <2>1. [k \in 0 .. 0 |-> <<>>] \in [0 .. 0 -> Seq(A)] /\ NamesUpto([k \in 0 .. 0 |-> <<>>], s, 0)
    BY DEF NamesUpto
  <2> QED BY <2>1
<1>2. ASSUME NEW n \in Nat, Reach(n), n + 1 <= Len(s) PROVE Reach(n + 1)
  <2>1. PICK f \in [0 .. n -> Seq(A)] : NamesUpto(f, s, n)
    BY <1>2
  <2> DEFINE next == IF s[n + 1] = NoName THEN f[n] ELSE Append(f[n], s[n + 1])
             g == [k \in 0 .. n + 1 |-> IF k = n + 1 THEN next ELSE f[k]]
  <2>2. s[n + 1] \in A /\ f[n] \in Seq(A) /\ n \in 0 .. n + 1
    BY <1>2
  <2>3. next \in Seq(A)
    BY <2>2
  <2> HIDE DEF next
  <2>4. g \in [0 .. n + 1 -> Seq(A)]
    BY <2>3
  <2>5. g[n + 1] = next /\ \A k \in 0 .. n : g[k] = f[k]
    OBVIOUS
  <2> HIDE DEF g
  <2>6. NamesUpto(g, s, n + 1)
    <3>1. g[0] = <<>>
      BY <2>1, <2>5 DEF NamesUpto
    <3>2. ASSUME NEW k \in 1 .. n + 1
          PROVE  g[k] = IF s[k] = NoName THEN g[k - 1] ELSE Append(g[k - 1], s[k])
      <4>1. CASE k = n + 1
        BY <4>1, <2>5 DEF next
      <4>2. CASE k # n + 1
        <5>1. k \in 1 .. n /\ k - 1 \in 0 .. n /\ k \in 0 .. n
          BY <4>2
        <5> QED
          BY <5>1, <2>1, <2>5 DEF NamesUpto
      <4> QED BY <4>1, <4>2
    <3> QED BY <3>1, <3>2 DEF NamesUpto
  <2> QED BY <2>4, <2>6
<1> HIDE DEF Reach
<1>3. 0 \in S /\ \A n \in Nat : n \in S => n + 1 \in S
  BY <1>1, <1>2
<1>4. Nat \subseteq S
  <2> HIDE DEF S
  <2> QED BY <1>3, Induction
<1>5. Reach(Len(s))
  BY <1>4
<1> QED BY <1>5 DEF Reach

\* What NodeOf returns, whatever the path.
LEMMA NodeOfNames ==
  ASSUME NEW A, NEW s \in Seq(A)
  PROVE  /\ NodeOf(s) \in Seq(A) /\ \A i \in 1 .. Len(NodeOf(s)) : NodeOf(s)[i] # NoName
         /\ (\A i \in 1 .. Len(s) : s[i] # NoName) => NodeOf(s) = s
<1> DEFINE Names(f) == f = [k \in 0 .. Len(s) |->
                              IF k = 0 THEN <<>>
                              ELSE IF s[k] = NoName THEN f[k - 1] ELSE Append(f[k - 1], s[k])]
           names == CHOOSE f : Names(f)
<1>1. Names(names)
  <2>1. PICK f \in [0 .. Len(s) -> Seq(A)] : NamesUpto(f, s, Len(s))
    BY NamesExist
  <2>2. Names(f)
    <3>1. ASSUME NEW k \in 0 .. Len(s)
          PROVE  f[k] = IF k = 0 THEN <<>>
                        ELSE IF s[k] = NoName THEN f[k - 1] ELSE Append(f[k - 1], s[k])
      <4>1. CASE k = 0
        BY <2>1, <4>1 DEF NamesUpto
      <4>2. CASE k # 0
        <5>1. k \in 1 .. Len(s)
          BY <4>2
        <5> QED BY <2>1, <4>2, <5>1 DEF NamesUpto
      <4> QED BY <4>1, <4>2
    <3> QED BY <3>1
  <2> HIDE DEF Names
  <2> QED BY <2>2
<1>2. NodeOf(s) = names[Len(s)]
  BY DEF NodeOf
<1> HIDE DEF names
<1>3. NamesUpto(names, s, Len(s))
  <2>1. Len(s) \in Nat
    OBVIOUS
  <2>2. names[0] = <<>>
    BY <1>1, <2>1
  <2>3. ASSUME NEW k \in 1 .. Len(s)
        PROVE  names[k] = IF s[k] = NoName THEN names[k - 1] ELSE Append(names[k - 1], s[k])
    <3>1. k \in 0 .. Len(s) /\ k # 0
      BY <2>1
    <3> QED BY <1>1, <3>1
  <2> QED BY <2>2, <2>3 DEF NamesUpto
<1> HIDE DEF Names
<1> DEFINE Same(n) == /\ Len(names[n]) = n
                      /\ \A i \in 1 .. n : names[n][i] = s[i]
           Good(n) == /\ names[n] \in Seq(A \ {NoName})
                      /\ (\A i \in 1 .. n : s[i] # NoName) => Same(n)
           S == {n \in Nat : n <= Len(s) => Good(n)}
<1>4. Good(0)
  BY <1>3 DEF NamesUpto
<1>5. ASSUME NEW n \in Nat, Good(n), n + 1 <= Len(s) PROVE Good(n + 1)
  <2>1. names[n] \in Seq(A \ {NoName}) /\ s[n + 1] \in A
    BY <1>5
  <2>2. names[n + 1] = IF s[n + 1] = NoName THEN names[n] ELSE Append(names[n], s[n + 1])
    <3>1. n + 1 \in 1 .. Len(s) /\ (n + 1) - 1 = n
      BY <1>5
    <3> QED BY <1>3, <3>1 DEF NamesUpto
  <2>3. names[n + 1] \in Seq(A \ {NoName})
    BY <2>1, <2>2
  <2>4. ASSUME \A i \in 1 .. n + 1 : s[i] # NoName PROVE Same(n + 1)
    <3>1. Same(n)
      BY <1>5, <2>4
    <3>2. names[n + 1] = Append(names[n], s[n + 1])
      BY <2>2, <2>4
    <3>3. Len(names[n + 1]) = n + 1
      BY <2>1, <3>1, <3>2
    <3>4. ASSUME NEW i \in 1 .. n + 1 PROVE names[n + 1][i] = s[i]
      <4>1. CASE i = n + 1
        BY <2>1, <3>1, <3>2, <4>1
      <4>2. CASE i # n + 1
        <5>1. i \in 1 .. n
          BY <4>2
        <5>2. names[n + 1][i] = names[n][i]
          BY <2>1, <3>1, <3>2, <5>1
        <5> QED BY <3>1, <5>1, <5>2
      <4> QED BY <4>1, <4>2
    <3> QED BY <3>3, <3>4
  <2> QED BY <2>3, <2>4
<1> HIDE DEF Good
<1>6. 0 \in S /\ \A n \in Nat : n \in S => n + 1 \in S
  BY <1>4, <1>5
<1>7. Nat \subseteq S
  <2> HIDE DEF S
  <2> QED BY <1>6, Induction
<1>8. Good(Len(s))
  BY <1>7
<1>9. names[Len(s)] \in Seq(A \ {NoName})
  BY <1>8 DEF Good
<1>10. ASSUME \A i \in 1 .. Len(s) : s[i] # NoName PROVE names[Len(s)] = s
  <2>1. Same(Len(s))
    BY <1>8, <1>10 DEF Good
  <2> QED BY <1>9, <2>1
<1>11. names[Len(s)] \in Seq(A) /\ \A i \in 1 .. Len(names[Len(s)]) : names[Len(s)][i] # NoName
  BY <1>9
<1> QED BY <1>2, <1>10, <1>11

LEMMA NodeIsSequence ==
  ASSUME NEW s \in Seq(STRING)
  PROVE  /\ NodeOf(s) \in Seq(STRING)
         /\ NodeOf(s) = s <=> \A i \in 1 .. Len(s) : s[i] # NoName
<1> DEFINE A == STRING
<1>1. s \in Seq(A)
  OBVIOUS
<1> HIDE DEF A
<1>2. /\ NodeOf(s) \in Seq(A) /\ \A i \in 1 .. Len(NodeOf(s)) : NodeOf(s)[i] # NoName
      /\ (\A i \in 1 .. Len(s) : s[i] # NoName) => NodeOf(s) = s
  BY <1>1, NodeOfNames
<1> QED BY <1>2 DEF A

\* The first names of a path, and of them the first again.
LEMMA FirstNamesOf ==
  ASSUME NEW A, NEW s \in Seq(A), NEW k \in 0 .. Len(s)
  PROVE  /\ FirstNames(s, k) \in Seq(A) /\ Len(FirstNames(s, k)) = k
         /\ \A i \in 1 .. k : FirstNames(s, k)[i] = s[i]
         /\ \A j \in 0 .. k : FirstNames(FirstNames(s, k), j) = FirstNames(s, j)
         /\ FirstNames(s, k) = <<>> <=> k = 0
<1>1. FirstNames(s, k) \in Seq(A) /\ Len(FirstNames(s, k)) = k
  BY DEF FirstNames
<1>2. \A i \in 1 .. k : FirstNames(s, k)[i] = s[i]
  BY DEF FirstNames
<1>3. ASSUME NEW j \in 0 .. k PROVE FirstNames(FirstNames(s, k), j) = FirstNames(s, j)
  <2>1. j \in 0 .. Len(s) /\ j \in 0 .. Len(FirstNames(s, k))
    BY <1>1
  <2>2. /\ FirstNames(FirstNames(s, k), j) \in Seq(A) /\ Len(FirstNames(FirstNames(s, k), j)) = j
        /\ FirstNames(s, j) \in Seq(A) /\ Len(FirstNames(s, j)) = j
    BY <1>1, <2>1 DEF FirstNames
  <2>3. ASSUME NEW i \in 1 .. j PROVE FirstNames(FirstNames(s, k), j)[i] = FirstNames(s, j)[i]
    <3>1. FirstNames(FirstNames(s, k), j)[i] = FirstNames(s, k)[i]
      BY <1>1, <2>1 DEF FirstNames
    <3>2. FirstNames(s, k)[i] = s[i] /\ FirstNames(s, j)[i] = s[i]
      BY <1>2, <2>1 DEF FirstNames
    <3> QED BY <3>1, <3>2
  <2> QED BY <2>2, <2>3
<1>4. FirstNames(s, k) = <<>> <=> k = 0
  BY <1>1
<1> QED BY <1>1, <1>2, <1>3, <1>4

\* A tree: the nodes are paths of at least one name, and what is above one
\* is a directory.
Tree(t) ==
  /\ DOMAIN t \subseteq Seq(STRING) \ {<<>>}
  /\ \A n \in DOMAIN t : t[n] \in {"dir", "file"} /\ Above(t, n) \subseteq {"dir"}

LEMMA KindsOf ==
  ASSUME NEW t, Tree(t), NEW n
  PROVE  /\ KindOf(t, n) \in {"dir", "file", "missing"}
         /\ n # <<>> => (KindOf(t, n) = "missing" <=> n \notin DOMAIN t)
  BY DEF Tree, KindOf

LEMMA KindOfWith ==
  ASSUME NEW t, NEW node, NEW kind, NEW n, node # <<>>
  PROVE  KindOf(With(t, node, kind), n) = IF n = node THEN kind ELSE KindOf(t, n)
  BY DEF With, KindOf

LEMMA KindOfWithout ==
  ASSUME NEW t, NEW node, NEW n, node # <<>>
  PROVE  KindOf(Without(t, node), n) = IF n = node THEN "missing" ELSE KindOf(t, n)
  BY DEF Without, KindOf

LEMMA TreeWith ==
  ASSUME NEW t, Tree(t), NEW node \in Seq(STRING), NEW kind \in {"dir", "file"},
         Above(t, node) \subseteq {"dir"},
         KindOf(t, node) = "missing" \/ KindOf(t, node) = kind, node # <<>>
  PROVE  Tree(With(t, node, kind))
<1> DEFINE t2 == With(t, node, kind)
<1>1. DOMAIN t2 = DOMAIN t \cup {node} /\ \A n \in DOMAIN t2 : t2[n] = IF n = node THEN kind ELSE t[n]
  BY DEF With
<1>2. ASSUME NEW n \in DOMAIN t2 PROVE Above(t2, n) \subseteq {"dir"}
  <2>1. n \in Seq(STRING) /\ Above(t, n) \subseteq {"dir"}
    BY <1>1 DEF Tree
  <2>2. ASSUME NEW k \in 1 .. Len(n) - 1 PROVE KindOf(t2, FirstNames(n, k)) = "dir"
    <3>1. KindOf(t, FirstNames(n, k)) = "dir"
      BY <2>1 DEF Above
    <3>2. CASE FirstNames(n, k) = node
      BY <3>1, <3>2, KindOfWith
    <3>3. CASE FirstNames(n, k) # node
      BY <3>1, <3>3, KindOfWith
    <3> QED BY <3>2, <3>3
  <2> QED BY <2>2 DEF Above
<1>3. DOMAIN t2 \subseteq Seq(STRING) \ {<<>>}
  BY <1>1 DEF Tree
<1>4. \A n \in DOMAIN t2 : t2[n] \in {"dir", "file"}
  BY <1>1 DEF Tree
<1> QED BY <1>2, <1>3, <1>4 DEF Tree

LEMMA TreeWithout ==
  ASSUME NEW t, Tree(t), NEW node, MayRemove(t, node)
  PROVE  Tree(Without(t, node))
<1> DEFINE t2 == Without(t, node)
<1>1. DOMAIN t2 = DOMAIN t \ {node} /\ \A n \in DOMAIN t2 : t2[n] = t[n]
  BY DEF Without
<1>2. ASSUME NEW n \in DOMAIN t2 PROVE Above(t2, n) \subseteq {"dir"}
  <2>1. /\ n \in Seq(STRING) /\ Above(t, n) \subseteq {"dir"} /\ n \in DOMAIN t /\ n # node
        /\ node # <<>>
    BY <1>1 DEF Tree, MayRemove
  <2>2. ASSUME NEW k \in 1 .. Len(n) - 1 PROVE KindOf(t2, FirstNames(n, k)) = "dir"
    <3>1. KindOf(t, FirstNames(n, k)) = "dir"
      BY <2>1 DEF Above
    <3>2. FirstNames(n, k) # node
      <4>1. k \in 0 .. Len(n) /\ k <= Len(n)
        BY <2>1
      <4>2. Len(FirstNames(n, k)) = k
        BY <2>1, <4>1, FirstNamesOf
      <4>3. FirstNames(n, k) = node => Leads(node, n)
        BY <4>1, <4>2 DEF Leads
      <4> QED BY <2>1, <4>3 DEF MayRemove
    <3> QED BY <2>1, <3>1, <3>2, KindOfWithout
  <2> QED BY <2>2 DEF Above
<1>3. DOMAIN t2 \subseteq Seq(STRING) \ {<<>>}
  BY <1>1 DEF Tree
<1>4. \A n \in DOMAIN t2 : t2[n] \in {"dir", "file"}
  BY <1>1 DEF Tree
<1> QED BY <1>2, <1>3, <1>4 DEF Tree

-----------------------------------------------------------------------------
(* The same objects, some of them in a UffFile, among FileHelpers.         *)

Uff ==
  /\ samples \in [Uffs -> 0 .. PerLine - 1]
  /\ column \in [Uffs -> 0 .. PerLine - 1]
  /\ behind \in [Uffs -> 0 .. PerLine - 1]
  /\ mixed \in [Uffs -> BOOLEAN]

FilesInv == IInv /\ Uff /\ DataLines

\* For one object: the values on the last line and those that were ahead when it
\* was begun are those that are counted.
Counted(p) ==
  /\ column[p] + (IF Writes(p) THEN behind[p] ELSE samples[p]) = samples[p]
  /\ ~mixed[p]

LEMMA CountedIsDataLines == DataLines <=> \A p \in Uffs : Counted(p)
  BY DEF DataLines, Counted

LEMMA FilesBegin == InitFiles => FilesInv
  <1> SUFFICES ASSUME InitFiles PROVE FilesInv
    OBVIOUS
  <1>1. IInv
    BY InitSound DEF InitFiles
  <1>2. Uff
    BY DEF InitFiles, InitUff, Uff, PerLine
  <1>3. DataLines
    BY DEF InitFiles, InitUff, DataLines
  <1> QED
    BY <1>1, <1>2, <1>3 DEF FilesInv

\* Steps that leave the streams and lines of UffFiles alone.
LEMMA LinesKept ==
  ASSUME FilesInv, IInv', UNCHANGED <<samples, column, behind, mixed>>,
         \A p \in Uffs : stream'[p] = stream[p]
  PROVE  FilesInv'
  <1>1. Uff'
    BY DEF FilesInv, Uff
  <1>2. DataLines'
    BY DEF FilesInv, DataLines, Writes
  <1> QED
    BY <1>1, <1>2 DEF FilesInv

\* A file is opened or closed, and its line begins anew.
LEMMA LinesBegin ==
  ASSUME FilesInv, IInv', NEW p \in Uffs, NEW count \in {samples[p], 0}, FileChanges(p, count),
         \A u \in Uffs \ {p} : stream'[u] = stream[u]
  PROVE  FilesInv'
  <1>1. count \in 0 .. PerLine - 1
    BY DEF FilesInv, Uff, PerLine
  <1>2. /\ samples' = [samples EXCEPT ![p] = count]
        /\ column' = [column EXCEPT ![p] = 0]
        /\ behind' = [behind EXCEPT ![p] = IF stream'[p] = NoFile THEN 0 ELSE count]
        /\ mixed' = [mixed EXCEPT ![p] = FALSE]
    BY DEF FileChanges, NewLine
  <1>3. Uff'
    BY <1>1, <1>2 DEF FilesInv, Uff, PerLine
  <1>4. Counted(p)'
    BY <1>1, <1>2 DEF FilesInv, Uff, Counted, Writes, PerLine
  <1>5. ASSUME NEW u \in Uffs \ {p}
        PROVE  Counted(u)'
    BY <1>2, CountedIsDataLines DEF FilesInv, Uff, Counted, Writes
  <1>6. DataLines'
    BY <1>4, <1>5 DEF DataLines, Counted
  <1> QED
    BY <1>3, <1>6 DEF FilesInv

\* What is written by one object.
LEMMA LinesWritten ==
  ASSUME FilesInv, NEW p \in Uffs, NEW s, NEW c, NEW b, NEW m,
         s \in 0 .. PerLine - 1, c \in 0 .. PerLine - 1, b \in 0 .. PerLine - 1, m = FALSE,
         samples' = [samples EXCEPT ![p] = s], column' = [column EXCEPT ![p] = c],
         behind' = [behind EXCEPT ![p] = b], mixed' = [mixed EXCEPT ![p] = m],
         Writes(p) => c + b = s, ~Writes(p) => c = 0, UNCHANGED vars
  PROVE  FilesInv'
  <1>1. IInv'
    BY KeptSound DEF FilesInv, vars
  <1>2. Uff'
    BY DEF FilesInv, Uff
  <1>3. Counted(p)'
    BY DEF FilesInv, Uff, Counted, Writes, vars
  <1>4. ASSUME NEW u \in Uffs \ {p}
        PROVE  Counted(u)'
    BY CountedIsDataLines DEF FilesInv, Uff, Counted, Writes, vars
  <1> QED
    BY <1>1, <1>2, <1>3, <1>4 DEF FilesInv, DataLines, Counted

LEMMA WriteUffSound ==
  ASSUME FilesInv, NEW p \in Uffs, WriteUff(p)
  PROVE  FilesInv'
  <1> DEFINE s == samples[p]
             c == column[p]
             b == behind[p]
  <1>1. /\ s \in 0 .. PerLine - 1 /\ c \in 0 .. PerLine - 1 /\ b \in 0 .. PerLine - 1
        /\ (Writes(p) => c + b = s) /\ (~Writes(p) => c = 0) /\ mixed[p] = FALSE
    <2>1. /\ s \in 0 .. PerLine - 1 /\ c \in 0 .. PerLine - 1 /\ b \in 0 .. PerLine - 1
      BY DEF FilesInv, Uff
    <2>2. c + (IF Writes(p) THEN b ELSE s) = s /\ mixed[p] = FALSE
      BY DEF FilesInv, Uff, DataLines
    <2> QED
      BY <2>1, <2>2 DEF PerLine
  <1>2. /\ samples = [samples EXCEPT ![p] = s] /\ column = [column EXCEPT ![p] = c]
        /\ behind = [behind EXCEPT ![p] = b] /\ mixed = [mixed EXCEPT ![p] = FALSE]
    BY <1>1 DEF FilesInv, Uff
  <1>3. UNCHANGED vars
    BY DEF WriteUff
  <1> HIDE DEF s, c, b
  <1>4. CASE WriteHeader(p)
    <2>1. samples' = [samples EXCEPT ![p] = s] /\ mixed' = [mixed EXCEPT ![p] = FALSE]
      BY <1>2, <1>4 DEF WriteHeader
    <2>2. CASE Writes(p)
      <3>1. /\ column' = [column EXCEPT ![p] = 0] /\ behind' = [behind EXCEPT ![p] = s]
        BY <1>4, <2>2 DEF WriteHeader, NewLine, s
      <3>2. 0 \in 0 .. PerLine - 1 /\ 0 + s = s
        BY <1>1 DEF PerLine
      <3> QED
        BY <1>1, <1>2, <1>3, <2>1, <2>2, <3>1, <3>2, LinesWritten
    <2>3. CASE ~Writes(p)
      <3>1. column' = [column EXCEPT ![p] = c] /\ behind' = [behind EXCEPT ![p] = b]
        BY <1>2, <1>4, <2>3 DEF WriteHeader, SameLine
      <3> QED
        BY <1>1, <1>2, <1>3, <2>1, <3>1, LinesWritten
    <2> QED
      BY <2>2, <2>3
  <1>5. CASE EndFile(p)
    <2>1. samples' = [samples EXCEPT ![p] = s]
      BY <1>2, <1>5 DEF EndFile
    <2>2. CASE Writes(p)
      <3>1. /\ column' = [column EXCEPT ![p] = 0] /\ behind' = [behind EXCEPT ![p] = s]
            /\ mixed' = [mixed EXCEPT ![p] = (c # 0 /\ s = 0)]
        BY <1>5, <2>2 DEF EndFile, NewLine, s, c
      <3>2. (c # 0 /\ s = 0) = FALSE
        BY <1>1, <2>2 DEF PerLine
      <3>3. 0 \in 0 .. PerLine - 1 /\ 0 + s = s
        BY <1>1 DEF PerLine
      <3> QED
        BY <1>1, <1>2, <1>3, <2>1, <2>2, <3>1, <3>2, <3>3, LinesWritten
    <2>3. CASE ~Writes(p)
      <3>1. /\ column' = [column EXCEPT ![p] = c] /\ behind' = [behind EXCEPT ![p] = b]
            /\ mixed' = [mixed EXCEPT ![p] = FALSE]
        BY <1>2, <1>5, <2>3 DEF EndFile, SameLine
      <3> QED
        BY <1>1, <1>2, <1>3, <2>1, <3>1, LinesWritten
    <2> QED
      BY <2>2, <2>3
  <1>6. ASSUME NEW n \in Lengths, AppendData(p, n)
        PROVE  FilesInv'
    <2>1. n \in Nat
      BY UffFileAssumption
    <2>2. /\ mixed' = [mixed EXCEPT ![p] = FALSE]
          /\ samples' = [samples EXCEPT ![p] = (s + n) % PerLine]
      BY <1>2, <1>6 DEF AppendData, s
    <2>3. (s + n) % PerLine \in 0 .. PerLine - 1 /\ 0 \in 0 .. PerLine - 1
      BY <1>1, <2>1 DEF PerLine
    <2>4. CASE Writes(p) /\ s + n >= PerLine
      <3>1. /\ column' = [column EXCEPT ![p] = (s + n) % PerLine]
            /\ behind' = [behind EXCEPT ![p] = 0]
        BY <1>6, <2>4 DEF AppendData, s
      <3>2. ((s + n) % PerLine) + 0 = (s + n) % PerLine
        BY <2>3 DEF PerLine
      <3> QED
        BY <1>1, <1>2, <1>3, <2>2, <2>3, <2>4, <3>1, <3>2, LinesWritten
    <2>5. CASE Writes(p) /\ ~(s + n >= PerLine)
      <3>1. column' = [column EXCEPT ![p] = c + n] /\ behind' = [behind EXCEPT ![p] = b]
        BY <1>2, <1>6, <2>5 DEF AppendData, s, c
      <3>2. (s + n) % PerLine = s + n /\ c + n \in 0 .. PerLine - 1 /\ (c + n) + b = s + n
        BY <1>1, <2>1, <2>5 DEF PerLine
      <3> QED
        BY <1>1, <1>2, <1>3, <2>2, <2>3, <2>5, <3>1, <3>2, LinesWritten
    <2>6. CASE ~Writes(p)
      <3>1. column' = [column EXCEPT ![p] = c] /\ behind' = [behind EXCEPT ![p] = b]
        BY <1>2, <1>6, <2>6 DEF AppendData, c
      <3> QED
        BY <1>1, <1>2, <1>3, <2>2, <2>3, <2>6, <3>1, LinesWritten
    <2> QED
      BY <2>4, <2>5, <2>6
  <1> QED
    BY <1>4, <1>5, <1>6 DEF WriteUff

\* A step of one object's file leaves the other streams alone.
LEMMA OwnStream ==
  ASSUME IInv, NEW p \in Processes,
         \/ \E f \in FileNames : UpdateFilename(p, f)
         \/ InCall(p) \/ CloseFile(p) \/ ClearFile(p)
  PROVE  \A u \in Processes \ {p} : stream'[u] = stream[u]
  <1>1. stream' = stream \/ \E f : stream' = [stream EXCEPT ![p] = f]
    BY DEF UpdateFilename, OpenFile, InCall, FirstAttempt, IsDirExist, SecondAttempt, Open,
           Opened, NotOpened, CloseFile, ClearFile
  <1> QED
    BY <1>1 DEF IInv, Members

LEMMA FilesKeep == FilesInv /\ [NextOf(Processes \cup Walkers)]_filesVars => FilesInv'
  <1> SUFFICES ASSUME FilesInv, [NextOf(Processes \cup Walkers)]_filesVars PROVE FilesInv'
    OBVIOUS
  <1>1. ASSUME NEW p \in Processes, FileStep(p)
        PROVE  FilesInv'
    <2>1. (\E f \in FileNames : UpdateFilename(p, f)) \/ InCall(p)
      BY <1>1 DEF FileStep
    <2>2. IInv'
      BY <2>1, NextSound DEF FilesInv, Next, InCall
    <2>3. \A u \in Processes \ {p} : stream'[u] = stream[u]
      BY <2>1, OwnStream DEF FilesInv
    <2>4. CASE p \in Uffs /\ stream'[p] # stream[p]
      <3>1. FileChanges(p, samples[p])
        BY <1>1, <2>4 DEF FileStep, UpdateUff
      <3> QED
        BY <2>2, <2>3, <2>4, <3>1, LinesBegin DEF Uffs
    <2>5. CASE ~(p \in Uffs /\ stream'[p] # stream[p])
      <3>1. UNCHANGED uffVars
        BY <1>1, <2>5 DEF FileStep, UpdateUff
      <3>2. \A u \in Uffs : stream'[u] = stream[u]
        BY <2>3, <2>5 DEF Uffs
      <3> QED
        BY <2>2, <3>1, <3>2, LinesKept DEF uffVars
    <2> QED
      BY <2>4, <2>5
  <1>2. ASSUME NEW p \in Processes, p \in Appending, PlainStep(p)
        PROVE  FilesInv'
    <2>1. CloseFile(p) \/ ClearFile(p)
      BY <1>2 DEF PlainStep
    <2>2. IInv'
      BY <2>1, NextSound DEF FilesInv, Next
    <2>3. \A u \in Uffs : stream'[u] = stream[u]
      BY <1>2, <2>1, OwnStream DEF FilesInv, Uffs
    <2> QED
      BY <1>2, <2>2, <2>3, LinesKept DEF PlainStep, uffVars
  <1>3. ASSUME NEW p \in Uffs, UffStep(p)
        PROVE  FilesInv'
    <2>1. CASE ClearUff(p)
      <3>1. ClearFile(p) /\ FileChanges(p, 0) /\ p \in Processes
        BY <2>1 DEF ClearUff, Uffs
      <3>2. IInv'
        BY <3>1, NextSound DEF FilesInv, Next
      <3>3. \A u \in Uffs \ {p} : stream'[u] = stream[u]
        BY <3>1, OwnStream DEF FilesInv, Uffs
      <3> QED
        BY <3>1, <3>2, <3>3, LinesBegin
    <2>2. CASE WriteUff(p)
      BY <2>2, WriteUffSound
    <2> QED
      BY <1>3, <2>1, <2>2 DEF UffStep
  <1>4. ASSUME NEW p \in Walkers, WalkStep(p), UNCHANGED uffVars
        PROVE  FilesInv'
    <2>1. UNCHANGED <<filename, stream, pc, path>>
      BY <1>4 DEF WalkStep
    <2>2. IInv'
      BY <2>1, KeptSound DEF FilesInv
    <2> QED
      BY <1>4, <2>1, <2>2, LinesKept DEF uffVars
  <1>5. ASSUME NEW node \in DOMAIN tree, RemovedByOthers(node)
        PROVE  FilesInv'
    <2>1. UNCHANGED <<filename, stream, pc, path>>
      BY <1>5 DEF RemovedByOthers, Remove
    <2>2. IInv'
      BY <2>1, KeptSound DEF FilesInv
    <2> QED
      BY <1>5, <2>1, <2>2, LinesKept DEF RemovedByOthers, uffVars
  <1>6. CASE UNCHANGED filesVars
    <2>1. IInv'
      BY <1>6, KeptSound DEF FilesInv, filesVars, vars
    <2> QED
      BY <1>6, <2>1, LinesKept DEF filesVars, vars, uffVars
  <1>7. Appending \subseteq Processes
    BY OutputFileAssumption, Zenon
  <1> QED
    BY <1>1, <1>2, <1>3, <1>4, <1>5, <1>6, <1>7 DEF NextOf

(* For any number of processes, UFF writers and walkers in one tree, and   *)
(* vectors of any length: the lines of a file have four values, and its    *)
(* end mark one of its own.                                                *)
THEOREM LinesOfFour == SpecFiles => []DataLines
  <1>1. FilesInv => DataLines
    BY DEF FilesInv
  <1> QED
    BY <1>1, FilesBegin, FilesKeep, PTL DEF SpecFiles

(* And among all of these too an open stream was opened for the name       *)
(* getFilename() returns.                                                  *)
THEOREM StreamNamedAmongAll == SpecFiles => []StreamMatchesName
  <1>1. FilesInv => StreamMatchesName
    BY DEF FilesInv, IInv
  <1> QED
    BY <1>1, FilesBegin, FilesKeep, PTL DEF SpecFiles

-----------------------------------------------------------------------------
(* What the tree looks like to those that are in openFile().               *)

LEMMA FileName ==
  ASSUME NEW f \in FileNames
  PROVE  /\ f \in Seq(STRING) /\ Len(f) \in Nat /\ Len(f) >= 1
         /\ Folder(f) \in Seq(STRING) /\ Len(Folder(f)) = Len(f) - 1
         /\ \A k \in 0 .. Len(f) - 1 : FirstNames(Folder(f), k) = FirstNames(f, k)
         /\ NodeOf(f) \in Seq(STRING)
<1>1. f \in Seq(STRING) /\ f # <<>>
  BY OutputFileAssumption
<1>2. Len(f) \in Nat /\ Len(f) >= 1
  BY <1>1
<1>3. /\ FirstNames(f, Len(f) - 1) \in Seq(STRING) /\ Len(FirstNames(f, Len(f) - 1)) = Len(f) - 1
      /\ \A k \in 0 .. Len(f) - 1 : FirstNames(FirstNames(f, Len(f) - 1), k) = FirstNames(f, k)
  BY <1>1, <1>2, FirstNamesOf
<1>4. NodeOf(f) \in Seq(STRING)
  BY <1>1, NodeIsSequence
<1> QED BY <1>1, <1>2, <1>3, <1>4 DEF Folder

\* A call in makePath is for a level of its path, and the tree is a tree.
Places ==
  /\ Tree(tree)
  /\ level \in [Processes -> Nat]
  /\ disturbed \in [Processes -> BOOLEAN]
  /\ \A p \in Processes : pc[p] # "idle" => path[p] \in FileNames
  /\ \A p \in Processes : pc[p] \in {"mkdir", "stat", "again"} => level[p] \in 1 .. Len(path[p]) - 1

LEMMA PlacesTyped == IInv /\ Places => TypeOK
<1> SUFFICES ASSUME IInv, Places PROVE TypeOK
  OBVIOUS
<1>1. ASSUME NEW p \in Processes, pc[p] \in {"mkdir", "stat", "again"}
      PROVE  level[p] \in 1 .. Len(Folder(path[p]))
  <2>1. path[p] \in FileNames /\ level[p] \in 1 .. Len(path[p]) - 1
    BY <1>1 DEF Places
  <2> QED BY <2>1, FileName
<1> QED BY <1>1 DEF IInv, Members, Places, Tree, TypeOK

LEMMA DisturbSound ==
  ASSUME disturbed \in [Processes -> BOOLEAN], NEW these, Disturb(these)
  PROVE  /\ disturbed' \in [Processes -> BOOLEAN]
         /\ \A q \in Processes : disturbed'[q] <=> (disturbed[q] \/ q \in these)
  BY Zenon DEF Disturb

\* A step of makePath for a level of the path, or to its end.
LEMMA LevelSound ==
  ASSUME IInv, Places, NEW p \in Processes, pc[p] # "idle",
         NEW state \in States, Goto(p, state), UNCHANGED path,
         NEW l \in Nat, level' = [level EXCEPT ![p] = l],
         state \in {"mkdir", "stat", "again"} => l \in 1 .. Len(path[p]) - 1,
         state # "idle",
         Tree(tree'), disturbed' \in [Processes -> BOOLEAN]
  PROVE  Places'
<1>1. pc \in [Processes -> States] /\ level \in [Processes -> Nat]
  BY DEF IInv, Members, Places
<1>2. pc' = [pc EXCEPT ![p] = state]
  BY DEF Goto
<1>3. ASSUME NEW q \in Processes, pc'[q] # "idle" PROVE path'[q] \in FileNames
  BY <1>1, <1>2, <1>3 DEF Places
<1>4. ASSUME NEW q \in Processes, pc'[q] \in {"mkdir", "stat", "again"}
      PROVE  level'[q] \in 1 .. Len(path'[q]) - 1
  <2>1. CASE q = p
    BY <1>1, <1>2, <1>4, <2>1
  <2>2. CASE q # p
    BY <1>1, <1>2, <1>4, <2>2 DEF Places
  <2> QED BY <2>1, <2>2
<1>5. level' \in [Processes -> Nat]
  BY <1>1
<1> QED BY <1>3, <1>4, <1>5 DEF Places

\* Where a call of makePath is.
LEMMA HereIsNode ==
  ASSUME Places, NEW p \in Processes, pc[p] \in {"mkdir", "stat", "again"}
  PROVE  /\ path[p] \in FileNames /\ level[p] \in 1 .. Len(path[p]) - 1
         /\ FirstNames(Folder(path[p]), level[p]) = FirstNames(path[p], level[p])
         /\ FirstNames(path[p], level[p]) \in Seq(STRING)
         /\ Here(p) = NodeOf(FirstNames(path[p], level[p])) /\ Here(p) \in Seq(STRING)
<1>1. path[p] \in FileNames /\ level[p] \in 1 .. Len(path[p]) - 1
  BY DEF Places
<1>2. path[p] \in Seq(STRING) /\ Len(path[p]) \in Nat /\ level[p] \in 0 .. Len(path[p])
      /\ level[p] \in 0 .. Len(path[p]) - 1
  BY <1>1, FileName
<1>3. FirstNames(Folder(path[p]), level[p]) = FirstNames(path[p], level[p])
  BY <1>1, <1>2, FileName
<1>4. FirstNames(path[p], level[p]) \in Seq(STRING)
  BY <1>2, FirstNamesOf
<1>5. NodeOf(FirstNames(path[p], level[p])) \in Seq(STRING)
  BY <1>4, NodeIsSequence
<1> QED BY <1>1, <1>3, <1>4, <1>5 DEF Here

LEMMA MadeTree ==
  ASSUME Places, NEW p \in Processes, pc[p] \in {"mkdir", "stat", "again"}, Attempt(p) = "made"
  PROVE  /\ Here(p) # <<>> /\ KindOf(tree, Here(p)) = "missing"
         /\ Above(tree, Here(p)) \subseteq {"dir"}
         /\ Tree(With(tree, Here(p), "dir"))
<1>1. Tree(tree) /\ Here(p) \in Seq(STRING)
  BY HereIsNode DEF Places
<1>2. /\ "file" \notin Above(tree, Here(p)) /\ "missing" \notin Above(tree, Here(p))
      /\ KindOf(tree, Here(p)) = "missing"
  BY DEF Attempt, Mkdir, Here
<1>3. Above(tree, Here(p)) \subseteq {"dir"}
  BY <1>1, <1>2, KindsOf DEF Above
<1>4. Here(p) # <<>>
  BY <1>2 DEF KindOf
<1>5. Tree(With(tree, Here(p), "dir"))
  BY <1>1, <1>2, <1>3, <1>4, TreeWith
<1> QED BY <1>2, <1>3, <1>4, <1>5

\* A call returns true.
LEMMA ReturnSound ==
  ASSUME IInv, Places, NEW p \in Processes, pc[p] \in {"mkdir", "stat", "again"}, Return(p),
         UNCHANGED path, Tree(tree'), disturbed' \in [Processes -> BOOLEAN]
  PROVE  Places'
<1>1. /\ level[p] \in 1 .. Len(path[p]) - 1 /\ path[p] \in FileNames
      /\ level \in [Processes -> Nat]
  BY DEF Places
<1>2. Len(Folder(path[p])) = Len(path[p]) - 1 /\ Len(path[p]) \in Nat
  BY <1>1, FileName
<1>3. CASE level[p] = Len(Folder(path[p]))
  <2>1. Goto(p, "open") /\ level' = [level EXCEPT ![p] = level[p]]
    BY <1>1, <1>3 DEF Return
  <2> QED BY <1>1, <2>1, LevelSound DEF States
<1>4. CASE level[p] # Len(Folder(path[p]))
  <2>1. Goto(p, "again") /\ level' = [level EXCEPT ![p] = level[p] + 1]
    BY <1>4 DEF Return
  <2>2. level[p] + 1 \in 1 .. Len(path[p]) - 1
    BY <1>1, <1>2, <1>4
  <2>3. "again" \in States /\ level[p] + 1 \in Nat /\ pc[p] # "idle"
    BY <1>1 DEF States
  <2> QED BY <1>1, <2>1, <2>2, <2>3, LevelSound
<1> QED BY <1>3, <1>4

\* A call goes on without changing its level.
LEMMA SameLevelSound ==
  ASSUME IInv, Places, NEW p \in Processes, pc[p] \in {"mkdir", "stat", "again"},
         NEW state \in {"mkdir", "stat", "again", "open"}, Goto(p, state), UNCHANGED <<path, level>>,
         Tree(tree'), disturbed' \in [Processes -> BOOLEAN]
  PROVE  Places'
<1>1. /\ level[p] \in 1 .. Len(path[p]) - 1 /\ level \in [Processes -> Nat]
      /\ level' = [level EXCEPT ![p] = level[p]] /\ level[p] \in Nat
  BY DEF Places
<1>2. state \in States /\ state # "idle" /\ pc[p] # "idle"
  BY DEF States
<1> QED BY <1>1, <1>2, LevelSound

LEMMA MadePlaces ==
  ASSUME IInv, Places, NEW p \in Processes, pc[p] \in {"mkdir", "stat", "again"}, Made(p), UNCHANGED path
  PROVE  Places'
<1>1. Tree(tree')
  BY MadeTree DEF Made
<1>2. disturbed' \in [Processes -> BOOLEAN]
  <2>1. disturbed \in [Processes -> BOOLEAN]
    BY DEF Places
  <2>2. Disturb(Within(Here(p)) \ {p})
    BY DEF Made
  <2> QED BY <2>1, <2>2, DisturbSound
<1> QED BY <1>1, <1>2, ReturnSound DEF Made

LEMMA RefusedPlaces ==
  ASSUME IInv, Places, NEW p \in Processes, pc[p] \in {"mkdir", "stat", "again"}, Refused(p), UNCHANGED path
  PROVE  Places'
<1>1. Tree(tree')
  BY DEF Refused, Places
<1>2. disturbed' \in [Processes -> BOOLEAN]
  <2>1. disturbed \in [Processes -> BOOLEAN]
    BY DEF Places
  <2>2. Disturb({p})
    BY DEF Refused
  <2> QED BY <2>1, <2>2, DisturbSound
<1> QED BY <1>1, <1>2, SameLevelSound DEF Refused, GiveUp

\* A call goes on and leaves the tree alone.
LEMMA QuietPlaces ==
  ASSUME IInv, Places, NEW p \in Processes, pc[p] \in {"mkdir", "stat", "again"},
         NEW state \in {"mkdir", "stat", "again", "open"}, Goto(p, state),
         UNCHANGED <<path, level, tree, disturbed>>
  PROVE  Places'
<1>1. Tree(tree') /\ disturbed' \in [Processes -> BOOLEAN]
  BY DEF Places
<1> QED BY <1>1, SameLevelSound

LEMMA FirstAttemptPlaces ==
  ASSUME IInv, Places, NEW p \in Processes, FirstAttempt(p)
  PROVE  Places'
<1>1. pc[p] = "mkdir" /\ UNCHANGED path
  BY DEF FirstAttempt
<1>2. CASE Made(p)
  BY <1>1, <1>2, MadePlaces
<1>3. CASE Descend(p)
  <2>1. /\ level[p] > 1 /\ level' = [level EXCEPT ![p] = level[p] - 1] /\ Goto(p, "mkdir")
        /\ UNCHANGED <<tree, disturbed>>
    BY <1>3 DEF Descend
  <2>2. level[p] - 1 \in 1 .. Len(path[p]) - 1 /\ level[p] - 1 \in Nat
    <3>1. level[p] \in 1 .. Len(path[p]) - 1 /\ path[p] \in FileNames
      BY <1>1 DEF Places
    <3>2. Len(path[p]) \in Nat
      BY <3>1, FileName
    <3> QED BY <2>1, <3>1, <3>2, SMTT(30)
  <2>3. Tree(tree') /\ disturbed' \in [Processes -> BOOLEAN]
    BY <2>1 DEF Places
  <2>4. "mkdir" \in States
    BY DEF States
  <2> QED BY <1>1, <2>1, <2>2, <2>3, <2>4, LevelSound
<1>4. CASE Attempt(p) = "EEXIST" /\ Goto(p, "stat") /\ UNCHANGED <<tree, level, disturbed>>
  BY <1>1, <1>4, QuietPlaces
<1>5. CASE Attempt(p) = "ENOTDIR" /\ GiveUp(p) /\ UNCHANGED <<tree, disturbed>>
  BY <1>1, <1>5, QuietPlaces DEF GiveUp
<1>6. CASE Refused(p)
  BY <1>1, <1>6, RefusedPlaces
<1> QED BY <1>2, <1>3, <1>4, <1>5, <1>6 DEF FirstAttempt

LEMMA IsDirExistPlaces ==
  ASSUME IInv, Places, NEW p \in Processes, IsDirExist(p)
  PROVE  Places'
<1>1. pc[p] = "stat" /\ UNCHANGED <<path, tree, disturbed>>
  BY DEF IsDirExist
<1>2. Tree(tree') /\ disturbed' \in [Processes -> BOOLEAN]
  BY <1>1 DEF Places
<1>3. CASE Return(p)
  BY <1>1, <1>2, <1>3, ReturnSound
<1>4. CASE GiveUp(p)
  BY <1>1, <1>4, QuietPlaces DEF GiveUp
<1> QED BY <1>3, <1>4 DEF IsDirExist

LEMMA SecondAttemptPlaces ==
  ASSUME IInv, Places, NEW p \in Processes, SecondAttempt(p)
  PROVE  Places'
<1>1. pc[p] = "again" /\ UNCHANGED path
  BY DEF SecondAttempt
<1>2. CASE Made(p)
  BY <1>1, <1>2, MadePlaces
<1>3. CASE GiveUp(p) /\ UNCHANGED <<tree, disturbed>>
  BY <1>1, <1>3, QuietPlaces DEF GiveUp
<1>4. CASE Refused(p)
  BY <1>1, <1>4, RefusedPlaces
<1> QED BY <1>2, <1>3, <1>4 DEF SecondAttempt

\* A file is made where one can be opened.
LEMMA OpenedTree ==
  ASSUME Tree(tree), NEW f \in FileNames, MayOpen(tree, f)
  PROVE  Tree(With(tree, NodeOf(f), "file")) /\ NodeOf(f) # <<>>
<1>1. Above(tree, NodeOf(f)) \subseteq {"dir"} /\ KindOf(tree, NodeOf(f)) # "dir"
  BY DEF MayOpen
<1>2. NodeOf(f) # <<>>
  BY <1>1 DEF KindOf
<1>3. NodeOf(f) \in Seq(STRING)
  BY FileName
<1>4. KindOf(tree, NodeOf(f)) \in {"missing", "file"}
  BY <1>1, KindsOf
<1> QED BY <1>1, <1>2, <1>3, <1>4, TreeWith

\* Outside makePath.
LEMMA OutsideSound ==
  ASSUME IInv, Places, NEW p \in Processes, NEW state \in {"idle", "open"},
         pc' = [pc EXCEPT ![p] = state],
         NEW f, path' = [path EXCEPT ![p] = f], state # "idle" => f \in FileNames,
         NEW l \in Nat, level' = [level EXCEPT ![p] = l],
         Tree(tree'), disturbed' \in [Processes -> BOOLEAN]
  PROVE  Places'
<1>1. /\ pc \in [Processes -> States] /\ level \in [Processes -> Nat]
      /\ path \in [Processes -> FileNames \cup {NoFile}]
  BY DEF IInv, Members, Places
<1>2. ASSUME NEW q \in Processes, pc'[q] # "idle" PROVE path'[q] \in FileNames
  <2>1. CASE q = p
    BY <1>1, <1>2, <2>1
  <2>2. CASE q # p
    BY <1>1, <1>2, <2>2 DEF Places
  <2> QED BY <2>1, <2>2
<1>3. ASSUME NEW q \in Processes, pc'[q] \in {"mkdir", "stat", "again"}
      PROVE  level'[q] \in 1 .. Len(path'[q]) - 1
  <2>1. q # p
    BY <1>1, <1>3
  <2> QED BY <1>1, <1>3, <2>1 DEF Places
<1>4. level' \in [Processes -> Nat]
  BY <1>1
<1> QED BY <1>2, <1>3, <1>4 DEF Places

LEMMA UpdatePlaces ==
  ASSUME IInv, Places, NEW p \in Processes, NEW f \in FileNames, UpdateFilename(p, f)
  PROVE  Places'
<1>1. /\ path' = [path EXCEPT ![p] = f] /\ level' = [level EXCEPT ![p] = Len(f) - 1]
      /\ Goto(p, IF Folder(f) = <<>> THEN "open" ELSE "mkdir") /\ UNCHANGED <<tree, disturbed>>
  BY DEF UpdateFilename, OpenFile
<1>2. Tree(tree') /\ disturbed' \in [Processes -> BOOLEAN]
  BY <1>1 DEF Places
<1>3. Len(f) - 1 \in Nat /\ Folder(f) \in Seq(STRING) /\ Len(Folder(f)) = Len(f) - 1
  BY FileName
<1>4. CASE Folder(f) = <<>>
  <2>1. pc' = [pc EXCEPT ![p] = "open"]
    BY <1>1, <1>4 DEF Goto
  <2> QED BY <1>1, <1>2, <1>3, <2>1, OutsideSound
<1>5. CASE Folder(f) # <<>>
  <2>1. pc' = [pc EXCEPT ![p] = "mkdir"]
    BY <1>1, <1>5 DEF Goto
  <2>2. Len(f) - 1 \in 1 .. Len(f) - 1
    BY <1>3, <1>5
  <2>3. /\ pc \in [Processes -> States] /\ level \in [Processes -> Nat]
        /\ path \in [Processes -> FileNames \cup {NoFile}]
    BY DEF IInv, Members, Places
  <2>4. ASSUME NEW q \in Processes, pc'[q] # "idle" PROVE path'[q] \in FileNames
    <3>1. CASE q = p
      BY <1>1, <2>3, <3>1
    <3>2. CASE q # p
      BY <1>1, <2>1, <2>3, <2>4, <3>2 DEF Places
    <3> QED BY <3>1, <3>2
  <2>5. ASSUME NEW q \in Processes, pc'[q] \in {"mkdir", "stat", "again"}
        PROVE  level'[q] \in 1 .. Len(path'[q]) - 1
    <3>1. CASE q = p
      BY <1>1, <2>2, <2>3, <3>1
    <3>2. CASE q # p
      BY <1>1, <2>1, <2>3, <2>5, <3>2 DEF Places
    <3> QED BY <3>1, <3>2
  <2>6. level' \in [Processes -> Nat]
    BY <1>1, <1>3, <2>3
  <2> QED BY <1>2, <2>4, <2>5, <2>6 DEF Places
<1> QED BY <1>4, <1>5

LEMMA OpenPlaces ==
  ASSUME IInv, Places, NEW p \in Processes, Open(p)
  PROVE  Places'
<1>1. /\ pc[p] = "open" /\ pc' = [pc EXCEPT ![p] = "idle"]
      /\ path' = [path EXCEPT ![p] = NoFile] /\ level' = [level EXCEPT ![p] = 0]
      /\ disturbed' = [disturbed EXCEPT ![p] = FALSE]
  BY DEF Open, Goto
<1>2. disturbed' \in [Processes -> BOOLEAN]
  <2>1. disturbed \in [Processes -> BOOLEAN]
    BY DEF Places
  <2> QED BY <1>1, <2>1
<1>3. Tree(tree')
  <2>1. path[p] \in FileNames /\ Tree(tree)
    BY <1>1 DEF Places
  <2>2. CASE Opened(p)
    BY <2>1, <2>2, OpenedTree DEF Opened
  <2>3. CASE NotOpened
    BY <2>1, <2>3 DEF NotOpened
  <2> QED BY <2>2, <2>3 DEF Open
<1> QED BY <1>1, <1>2, <1>3, OutsideSound

\* Whatever changes the tree but nobody's call.
LEMMA TreeStepPlaces ==
  ASSUME Places, UNCHANGED <<pc, path, level>>, Tree(tree'), disturbed' \in [Processes -> BOOLEAN]
  PROVE  Places'
  BY DEF Places

LEMMA ClearPlaces ==
  ASSUME IInv, Places, NEW p \in Processes, ClearFile(p)
  PROVE  Places'
<1>1. UNCHANGED <<pc, path, level, disturbed>>
  BY DEF ClearFile
<1>2. CASE /\ filename[p] # NoFile /\ MayOpen(tree, filename[p])
           /\ tree' = With(tree, NodeOf(filename[p]), "file")
  <2>1. filename[p] \in FileNames /\ Tree(tree)
    BY <1>2 DEF IInv, Members, Places
  <2>2. Tree(tree')
    BY <1>2, <2>1, OpenedTree
  <2> QED BY <1>1, <2>2, TreeStepPlaces DEF Places
<1>3. CASE UNCHANGED tree
  BY <1>1, <1>3, TreeStepPlaces DEF Places
<1> QED BY <1>2, <1>3 DEF ClearFile

LEMMA RemovePlaces ==
  ASSUME Places, UNCHANGED <<pc, path, level>>, NEW these, Disturb(these),
         tree' = tree \/ \E node : MayRemove(tree, node) /\ tree' = Without(tree, node)
  PROVE  Places'
<1>1. disturbed' \in [Processes -> BOOLEAN]
  <2>1. disturbed \in [Processes -> BOOLEAN]
    BY DEF Places
  <2> QED BY <2>1, DisturbSound
<1>2. Tree(tree')
  BY TreeWithout DEF Places
<1> QED BY <1>1, <1>2, TreeStepPlaces

\* What a walker's step can do to the tree.
LEMMA WalkTree ==
  ASSUME NEW p \in Walkers, WalkStep(p)
  PROVE  /\ tree' = tree \/ \E node : MayRemove(tree, node) /\ tree' = Without(tree, node)
         /\ UNCHANGED <<filename, stream, pc, path, level>>
         /\ Disturb(UNION {Passing(node) : node \in GoneNodes})
<1>1. ASSUME NEW refused, InWalk(p, refused)
      PROVE  tree' = tree \/ \E node : MayRemove(tree, node) /\ tree' = Without(tree, node)
  <2>1. CASE \/ OpenDirectory(p, refused) \/ DeleteNext(p, refused)
             \/ ListNext(p, refused) \/ ReadNext(p, refused) \/ ListEnds(p)
    <3>1. UNCHANGED tree
      BY <2>1, Zenon DEF OpenDirectory, DeleteNext, ListNext, ReadNext, ListEnds
    <3> QED BY <3>1
  <2>2. CASE RemoveEntry(p) \/ RemoveDirectory(p)
    BY <2>2 DEF RemoveEntry, RemoveDirectory, Removes, Throw
  <2> QED BY <1>1, <2>1, <2>2 DEF InWalk
<1>2. CASE \E node \in DOMAIN tree, task \in {"delete", "list", "read"} : BeginWalk(p, node, task)
  BY <1>2 DEF BeginWalk, WalkStep
<1> QED BY <1>1, <1>2 DEF WalkStep

LEMMA PlacesBegin == InitFiles => Places
<1> SUFFICES ASSUME InitFiles PROVE Places
  OBVIOUS
<1>1. tree = [n \in {} |-> "dir"]
  BY DEF InitFiles, Init
<1>2. Tree(tree)
  <2>1. DOMAIN tree = {}
    BY <1>1
  <2> QED BY <2>1 DEF Tree
<1> QED BY <1>2 DEF InitFiles, Init, Places

LEMMA PlacesKept == FilesInv /\ Places /\ [NextOf(Processes \cup Walkers)]_filesVars => Places'
<1> SUFFICES ASSUME FilesInv, Places, [NextOf(Processes \cup Walkers)]_filesVars PROVE Places'
  OBVIOUS
<1>1. IInv
  BY DEF FilesInv
<1>2. ASSUME NEW p \in Processes, FileStep(p) PROVE Places'
  <2>1. (\E f \in FileNames : UpdateFilename(p, f)) \/ InCall(p)
    BY <1>2 DEF FileStep
  <2> QED
    BY <1>1, <2>1, UpdatePlaces, FirstAttemptPlaces, IsDirExistPlaces, SecondAttemptPlaces, OpenPlaces
       DEF InCall
<1>3. ASSUME NEW p \in Processes, CloseFile(p) PROVE Places'
  <2>1. UNCHANGED <<tree, pc, path, level, disturbed>>
    BY <1>3 DEF CloseFile
  <2> QED BY <2>1 DEF Places
<1>4. ASSUME NEW p \in Processes, ClearFile(p) PROVE Places'
  BY <1>1, <1>4, ClearPlaces
<1>5. ASSUME UNCHANGED vars PROVE Places'
  BY <1>5 DEF vars, Places
<1>6. ASSUME NEW p \in Walkers, WalkStep(p) PROVE Places'
  BY <1>6, WalkTree, RemovePlaces
<1>7. ASSUME NEW node \in DOMAIN tree, Remove(node) PROVE Places'
  <2>1. /\ MayRemove(tree, node) /\ tree' = Without(tree, node)
        /\ Disturb(Passing(node)) /\ UNCHANGED <<pc, path, level>>
    BY <1>7 DEF Remove
  <2> QED BY <2>1, RemovePlaces
<1>8. Appending \subseteq Processes /\ Uffs \subseteq Processes
  BY OutputFileAssumption, Zenon DEF Uffs
<1>9. ASSUME NEW p \in Processes, PlainStep(p) PROVE Places'
  BY <1>3, <1>4, <1>9 DEF PlainStep
<1>10. ASSUME NEW p \in Processes, UffStep(p) PROVE Places'
  BY <1>4, <1>5, <1>10 DEF UffStep, ClearUff, WriteUff
<1>11. CASE UNCHANGED filesVars
  BY <1>5, <1>11 DEF filesVars
<1>12. ASSUME NEW node \in DOMAIN tree, RemovedByOthers(node) PROVE Places'
  BY <1>7, <1>12 DEF RemovedByOthers
<1> QED BY <1>2, <1>6, <1>8, <1>9, <1>10, <1>11, <1>12 DEF NextOf

(* For any processes, writers and walkers in one tree: the tree stays one, *)
(* whoever makes and removes what in it, and a call of makePath is always  *)
(* for a level that its path has.                                          *)
THEOREM TypeCorrectness == SpecFiles => []TypeOK
  <1>1. FilesInv /\ Places => TypeOK
    BY PlacesTyped DEF FilesInv
  <1> QED
    BY <1>1, FilesBegin, FilesKeep, PlacesBegin, PlacesKept, PTL DEF SpecFiles

-----------------------------------------------------------------------------
(* What a call of makePath knows of its path unless it is disturbed: why   *)
(* openFile() fails.                                                       *)

Kind(p, k) == KindOf(tree, FirstNames(path[p], k))

\* A reason to fail that FailsForAReason names, found before the file is opened.
Excused(p) == disturbed[p] \/ NodeOf(path[p]) # path[p] \/ "file" \in Above(tree, path[p])

\* On the way down, the levels below are missing, but for the last one, which
\* another process may have made; on the way up, the one above is there.
KnowsPath(p) ==
  /\ pc[p] \in {"mkdir", "stat"} =>
       \A k \in level[p] + 1 .. Len(path[p]) - 2 : Kind(p, k) = "missing"
  /\ pc[p] = "stat" => Kind(p, level[p]) # "missing"
  /\ pc[p] = "again" =>
       /\ Kind(p, level[p] - 1) = "dir"
       /\ \A k \in level[p] .. Len(path[p]) - 2 : Kind(p, k) = "missing"
  /\ pc[p] = "open" => \A k \in 1 .. Len(path[p]) - 1 : Kind(p, k) # "missing"

WayInv == \A p \in Processes : pc[p] # "idle" => Excused(p) \/ KnowsPath(p)

LEMMA ClosedTree ==
  ASSUME NEW t, Tree(t), NEW s \in Seq(STRING), NEW k \in 1 .. Len(s),
         KindOf(t, FirstNames(s, k)) # "missing", NEW j \in 1 .. k - 1
  PROVE  KindOf(t, FirstNames(s, j)) = "dir"
<1> DEFINE n == FirstNames(s, k)
<1>1. Len(s) \in Nat /\ k \in 0 .. Len(s) /\ j \in 0 .. k
  OBVIOUS
<1>2. /\ n \in Seq(STRING) /\ Len(n) = k /\ n # <<>>
      /\ FirstNames(n, j) = FirstNames(s, j)
  BY <1>1, FirstNamesOf
<1> HIDE DEF n
<1>3. n \in DOMAIN t
  BY <1>2 DEF KindOf, n
<1>4. KindOf(t, FirstNames(n, j)) \in Above(t, n)
  BY <1>1, <1>2 DEF Above
<1> QED BY <1>2, <1>3, <1>4 DEF Tree

LEMMA PlainPath ==
  ASSUME NEW f \in FileNames, NodeOf(f) = f
  PROVE  /\ \A k \in 0 .. Len(f) - 1 : NodeOf(FirstNames(f, k)) = FirstNames(f, k)
         /\ NodeOf(Folder(f)) = Folder(f)
<1>1. f \in Seq(STRING) /\ Len(f) \in Nat /\ Len(f) >= 1
  BY FileName
<1>2. \A i \in 1 .. Len(f) : f[i] # NoName
  BY <1>1, NodeIsSequence
<1>3. ASSUME NEW k \in 0 .. Len(f) - 1 PROVE NodeOf(FirstNames(f, k)) = FirstNames(f, k)
  <2>1. k \in 0 .. Len(f)
    BY <1>1
  <2>2. /\ FirstNames(f, k) \in Seq(STRING) /\ Len(FirstNames(f, k)) = k
        /\ \A i \in 1 .. k : FirstNames(f, k)[i] = f[i]
    BY <1>1, <2>1, FirstNamesOf
  <2>3. \A i \in 1 .. Len(FirstNames(f, k)) : FirstNames(f, k)[i] # NoName
    BY <1>1, <1>2, <2>2
  <2> QED BY <2>2, <2>3, NodeIsSequence
<1> QED BY <1>1, <1>3 DEF Folder

\* Whose call is disturbed when a node of its path comes or goes.
LEMMA PassingPath ==
  ASSUME NEW p \in Processes, pc[p] # "idle", path[p] \in FileNames, NodeOf(path[p]) = path[p],
         NEW k \in 1 .. Len(path[p]) - 1
  PROVE  /\ p \in Passing(FirstNames(path[p], k))
         /\ k # Len(path[p]) - 1 => p \in Within(FirstNames(path[p], k))
         /\ FirstNames(path[p], k) # <<>>
<1> DEFINE f == path[p]
<1>1. /\ f \in Seq(STRING) /\ Len(f) \in Nat /\ k \in 0 .. Len(f) /\ k \in 0 .. Len(f) - 1
      /\ Len(Folder(f)) = Len(f) - 1 /\ FirstNames(Folder(f), k) = FirstNames(f, k)
  BY FileName
<1>2. Len(FirstNames(f, k)) = k /\ FirstNames(f, k) # <<>>
  BY <1>1, FirstNamesOf
<1>3. NodeOf(Folder(f)) = Folder(f)
  BY PlainPath
<1>4. Leads(FirstNames(f, k), NodeOf(Folder(f)))
  BY <1>1, <1>2, <1>3 DEF Leads
<1>5. k # Len(f) - 1 => FirstNames(f, k) # NodeOf(Folder(f))
  BY <1>1, <1>2, <1>3
<1> QED BY <1>2, <1>4, <1>5 DEF Passing, Within

\* What others may do to a path without disturbing a call: put a file where it
\* needs a directory, which is a reason to fail, or make the last directory.
LEMMA WayKept ==
  ASSUME Places, NEW p \in Processes, pc[p] # "idle", Excused(p) \/ KnowsPath(p),
         pc'[p] = pc[p], path'[p] = path[p], level'[p] = level[p],
         disturbed[p] => disturbed'[p],
         NodeOf(path[p]) = path[p] =>
           \/ disturbed'[p]
           \/ \A k \in 1 .. Len(path[p]) - 1 :
                \/ Kind(p, k)' = Kind(p, k)
                \/ Kind(p, k)' = "file"
                \/ k = Len(path[p]) - 1 /\ Kind(p, k) = "missing" /\ Kind(p, k)' = "dir"
  PROVE  (Excused(p) \/ KnowsPath(p))'
<1> SUFFICES ASSUME ~Excused(p)' PROVE KnowsPath(p)'
  OBVIOUS
<1> DEFINE n == Len(path[p])
<1>1. ~disturbed'[p] /\ NodeOf(path[p]) = path[p] /\ "file" \notin Above(tree', path[p])
  BY DEF Excused
<1>2. ~disturbed[p]
  BY <1>1
<1>3. \A k \in 1 .. n - 1 : Kind(p, k)' # "file"
  BY <1>1 DEF Above, Kind
<1>4. \A k \in 1 .. n - 1 :
        \/ Kind(p, k)' = Kind(p, k)
        \/ k = n - 1 /\ Kind(p, k) = "missing" /\ Kind(p, k)' = "dir"
  BY <1>1, <1>3
<1>5. \A k \in 1 .. n - 1 : Kind(p, k) # "file"
  BY <1>3, <1>4
<1>6. "file" \notin Above(tree, path[p])
  BY <1>5 DEF Above, Kind
<1>7. KnowsPath(p)
  BY <1>1, <1>2, <1>6 DEF Excused
<1>8. /\ path[p] \in FileNames /\ n \in Nat /\ n >= 1
      /\ pc[p] \in {"mkdir", "stat", "again"} => level[p] \in 1 .. n - 1
  <2>1. path[p] \in FileNames
    BY DEF Places
  <2> QED BY <2>1, FileName DEF Places
<1>9. Kind(p, 0) = "dir" /\ Kind(p, 0)' = "dir"
  <2>1. FirstNames(path[p], 0) = <<>>
    <3>1. path[p] \in Seq(STRING) /\ 0 \in 0 .. Len(path[p])
      BY <1>8, FileName
    <3> QED BY <3>1, FirstNamesOf
  <2> QED BY <2>1 DEF Kind, KindOf
<1> HIDE DEF n
<1>10. n = Len(path[p]) /\ n = Len(path'[p])
  BY DEF n
<1>11. ASSUME NEW k \in 1 .. n - 2, Kind(p, k) = "missing" PROVE Kind(p, k)' = "missing"
  BY <1>4, <1>8, <1>11
<1>12. ASSUME NEW k \in 0 .. n - 1, Kind(p, k) # "missing" PROVE Kind(p, k)' # "missing"
  <2>1. CASE k = 0
    BY <1>9, <2>1
  <2>2. CASE k # 0
    BY <1>4, <1>8, <1>12, <2>2
  <2> QED BY <2>1, <2>2
<1>13. ASSUME NEW k \in 0 .. n - 1, Kind(p, k) = "dir" PROVE Kind(p, k)' = "dir"
  <2>1. CASE k = 0
    BY <1>9, <2>1
  <2>2. CASE k # 0
    BY <1>4, <1>8, <1>13, <2>2
  <2> QED BY <2>1, <2>2
<1>14. CASE pc[p] \in {"mkdir", "stat"}
  <2>1. level[p] \in 1 .. n - 1
    BY <1>8, <1>14
  <2>2. \A k \in level[p] + 1 .. n - 2 : Kind(p, k)' = "missing"
    <3>1. ASSUME NEW k \in level[p] + 1 .. n - 2 PROVE Kind(p, k)' = "missing"
      <4>1. k \in 1 .. n - 2 /\ Kind(p, k) = "missing"
        BY <1>7, <1>8, <1>10, <1>14, <2>1 DEF KnowsPath
      <4> QED BY <1>11, <4>1
    <3> QED BY <3>1
  <2>3. pc[p] = "stat" => Kind(p, level[p])' # "missing"
    <3>1. level[p] \in 0 .. n - 1
      BY <1>8, <2>1
    <3> QED BY <1>7, <1>12, <3>1 DEF KnowsPath, Kind
  <2> QED BY <1>10, <1>14, <2>2, <2>3 DEF KnowsPath, Kind
<1>15. CASE pc[p] = "again"
  <2>1. level[p] \in 1 .. n - 1 /\ level[p] - 1 \in 0 .. n - 1
    BY <1>8, <1>15
  <2>2. \A k \in level[p] .. n - 2 : Kind(p, k)' = "missing"
    <3>1. ASSUME NEW k \in level[p] .. n - 2 PROVE Kind(p, k)' = "missing"
      <4>1. k \in 1 .. n - 2 /\ Kind(p, k) = "missing"
        BY <1>7, <1>8, <1>10, <1>15, <2>1 DEF KnowsPath
      <4> QED BY <1>11, <4>1
    <3> QED BY <3>1
  <2>3. KindOf(tree', FirstNames(path[p], level[p] - 1)) = "dir"
    <3>1. Kind(p, level[p] - 1) = "dir"
      BY <1>7, <1>15 DEF KnowsPath
    <3> QED BY <1>13, <2>1, <3>1 DEF Kind
  <2> QED BY <1>10, <1>15, <2>2, <2>3 DEF KnowsPath, Kind
<1>16. CASE pc[p] = "open"
  <2>1. ASSUME NEW k \in 1 .. n - 1 PROVE Kind(p, k)' # "missing"
    <3>1. Kind(p, k) # "missing" /\ k \in 0 .. n - 1
      BY <1>7, <1>8, <1>10, <1>16 DEF KnowsPath
    <3> QED BY <1>12, <3>1
  <2> QED BY <1>10, <1>16, <2>1 DEF KnowsPath, Kind
<1>17. CASE pc[p] \notin {"mkdir", "stat", "again", "open"}
  BY <1>17 DEF KnowsPath
<1> QED BY <1>14, <1>15, <1>16, <1>17

\* The same, for each way in which others change the tree.
LEMMA QuietBeside ==
  ASSUME Places, NEW q \in Processes, pc[q] # "idle", Excused(q) \/ KnowsPath(q),
         pc'[q] = pc[q], path'[q] = path[q], level'[q] = level[q],
         disturbed[q] => disturbed'[q], tree' = tree
  PROVE  (Excused(q) \/ KnowsPath(q))'
<1>1. \A k \in 1 .. Len(path[q]) - 1 : Kind(q, k)' = Kind(q, k)
  BY DEF Kind
<1> QED BY <1>1, WayKept

LEMMA MadeBeside ==
  ASSUME Places, NEW q \in Processes, pc[q] # "idle", Excused(q) \/ KnowsPath(q),
         pc'[q] = pc[q], path'[q] = path[q], level'[q] = level[q],
         NEW node, node # <<>>, KindOf(tree, node) = "missing", tree' = With(tree, node, "dir"),
         disturbed[q] \/ q \in Within(node) => disturbed'[q]
  PROVE  (Excused(q) \/ KnowsPath(q))'
<1>1. ASSUME NodeOf(path[q]) = path[q], ~disturbed'[q], NEW k \in 1 .. Len(path[q]) - 1
      PROVE  \/ Kind(q, k)' = Kind(q, k)
             \/ k = Len(path[q]) - 1 /\ Kind(q, k) = "missing" /\ Kind(q, k)' = "dir"
  <2>1. Kind(q, k)' = KindOf(tree', FirstNames(path[q], k))
    BY DEF Kind
  <2>2. CASE FirstNames(path[q], k) = node
    <3>1. path[q] \in FileNames
      BY DEF Places
    <3>2. k = Len(path[q]) - 1
      BY <1>1, <2>2, <3>1, PassingPath
    <3> QED BY <2>1, <2>2, <3>2, KindOfWith DEF Kind
  <2>3. CASE FirstNames(path[q], k) # node
    BY <2>1, <2>3, KindOfWith DEF Kind
  <2> QED BY <2>2, <2>3
<1> QED BY <1>1, WayKept

LEMMA FileBeside ==
  ASSUME Places, NEW q \in Processes, pc[q] # "idle", Excused(q) \/ KnowsPath(q),
         pc'[q] = pc[q], path'[q] = path[q], level'[q] = level[q],
         NEW node, node # <<>>, tree' = With(tree, node, "file"),
         disturbed[q] => disturbed'[q]
  PROVE  (Excused(q) \/ KnowsPath(q))'
<1>1. ASSUME NEW k \in 1 .. Len(path[q]) - 1
      PROVE  Kind(q, k)' = Kind(q, k) \/ Kind(q, k)' = "file"
  <2>1. Kind(q, k)' = KindOf(tree', FirstNames(path[q], k))
    BY DEF Kind
  <2> QED BY <2>1, KindOfWith DEF Kind
<1> QED BY <1>1, WayKept

LEMMA RemovedBeside ==
  ASSUME Places, NEW q \in Processes, pc[q] # "idle", Excused(q) \/ KnowsPath(q),
         pc'[q] = pc[q], path'[q] = path[q], level'[q] = level[q],
         NEW node, node # <<>>, tree' = Without(tree, node),
         disturbed[q] \/ q \in Passing(node) => disturbed'[q]
  PROVE  (Excused(q) \/ KnowsPath(q))'
<1>1. ASSUME NodeOf(path[q]) = path[q], ~disturbed'[q], NEW k \in 1 .. Len(path[q]) - 1
      PROVE  Kind(q, k)' = Kind(q, k)
  <2>1. Kind(q, k)' = KindOf(tree', FirstNames(path[q], k))
    BY DEF Kind
  <2>2. FirstNames(path[q], k) # node
    <3>1. path[q] \in FileNames
      BY DEF Places
    <3> QED BY <1>1, <3>1, PassingPath
  <2> QED BY <2>1, <2>2, KindOfWithout DEF Kind
<1> QED BY <1>1, WayKept

\* What an attempt at a level says about the levels above it.
LEMMA AttemptKinds ==
  ASSUME Places, NEW p \in Processes, pc[p] \in {"mkdir", "stat", "again"}, NodeOf(path[p]) = path[p]
  PROVE  /\ Here(p) = FirstNames(path[p], level[p]) /\ Kind(p, level[p]) = KindOf(tree, Here(p))
         /\ Attempt(p) \in {"ENOTDIR", "ENOENT", "EEXIST", "made"}
         /\ Attempt(p) = "ENOTDIR" => \E k \in 1 .. level[p] - 1 : Kind(p, k) = "file"
         /\ Attempt(p) = "ENOENT" => \E k \in 1 .. level[p] - 1 : Kind(p, k) = "missing"
         /\ Attempt(p) = "EEXIST" => Kind(p, level[p]) # "missing"
         /\ Attempt(p) = "made" => /\ Kind(p, level[p]) = "missing"
                                   /\ \A k \in 1 .. level[p] - 1 : Kind(p, k) = "dir"
<1> DEFINE f == path[p]
           l == level[p]
<1>1. /\ f \in FileNames /\ l \in 1 .. Len(f) - 1
      /\ FirstNames(Folder(f), l) = FirstNames(f, l) /\ Here(p) = NodeOf(FirstNames(f, l))
  BY HereIsNode
<1>2. f \in Seq(STRING) /\ Len(f) \in Nat /\ l \in 0 .. Len(f) - 1 /\ l \in 0 .. Len(f)
  BY <1>1, FileName
<1>3. Here(p) = FirstNames(f, l)
  BY <1>1, <1>2, PlainPath
<1>4. /\ Len(FirstNames(f, l)) = l
      /\ \A k \in 0 .. l : FirstNames(FirstNames(f, l), k) = FirstNames(f, k)
  BY <1>2, FirstNamesOf
<1>5. ASSUME NEW kind
      PROVE  kind \in Above(tree, Here(p)) <=> \E k \in 1 .. l - 1 : Kind(p, k) = kind
  BY <1>2, <1>3, <1>4 DEF Above, Kind
<1>6. Attempt(p) = IF "file" \in Above(tree, Here(p)) THEN "ENOTDIR"
                   ELSE IF "missing" \in Above(tree, Here(p)) THEN "ENOENT"
                   ELSE IF KindOf(tree, Here(p)) # "missing" THEN "EEXIST"
                   ELSE "made"
  BY DEF Attempt, Mkdir, Here
<1>7. \A k : Kind(p, k) \in {"dir", "file", "missing"}
  BY KindsOf DEF Kind, Places
<1>8. Kind(p, l) = KindOf(tree, Here(p))
  BY <1>3 DEF Kind
<1> HIDE DEF f, l
<1>9. /\ Attempt(p) \in {"ENOTDIR", "ENOENT", "EEXIST", "made"}
      /\ Attempt(p) = "ENOTDIR" => "file" \in Above(tree, Here(p))
      /\ Attempt(p) = "ENOENT" => "missing" \in Above(tree, Here(p))
      /\ Attempt(p) = "EEXIST" => KindOf(tree, Here(p)) # "missing"
      /\ Attempt(p) = "made" => /\ KindOf(tree, Here(p)) = "missing"
                                /\ "file" \notin Above(tree, Here(p))
                                /\ "missing" \notin Above(tree, Here(p))
  BY <1>6
<1>10. Attempt(p) = "made" => \A k \in 1 .. l - 1 : Kind(p, k) = "dir"
  BY <1>5, <1>7, <1>9
<1> QED BY <1>3, <1>5, <1>8, <1>9, <1>10 DEF f, l

\* The steps of the call itself.
LEMMA OwnMade ==
  ASSUME IInv, Places, NEW p \in Processes, pc[p] \in {"mkdir", "again"}, Made(p), UNCHANGED path,
         Excused(p) \/ KnowsPath(p)
  PROVE  (Excused(p) \/ KnowsPath(p))'
<1> SUFFICES ASSUME ~Excused(p)' PROVE KnowsPath(p)'
  OBVIOUS
<1> DEFINE f == path[p]
           l == level[p]
<1>1. /\ f \in FileNames /\ l \in 1 .. Len(f) - 1 /\ Len(f) \in Nat /\ f \in Seq(STRING)
      /\ pc \in [Processes -> States] /\ level \in [Processes -> Nat]
  <2>1. f \in FileNames /\ l \in 1 .. Len(f) - 1
    BY HereIsNode
  <2> QED BY <2>1, FileName DEF IInv, Members, Places
<1>2. NodeOf(f) = f /\ ~disturbed'[p] /\ "file" \notin Above(tree', f)
  BY DEF Excused
<1>3. /\ Attempt(p) = "made" /\ tree' = With(tree, Here(p), "dir") /\ Disturb(Within(Here(p)) \ {p})
      /\ Return(p)
  BY DEF Made
<1>4. /\ Here(p) = FirstNames(f, l) /\ Kind(p, l) = "missing" /\ Here(p) # <<>>
      /\ \A k \in 1 .. l - 1 : Kind(p, k) = "dir"
  BY <1>2, <1>3, AttemptKinds, MadeTree
<1>5. ASSUME NEW k \in 0 .. Len(f) - 1
      PROVE  Kind(p, k)' = IF k = l THEN "dir" ELSE Kind(p, k)
  <2>1. k \in 0 .. Len(f) /\ l \in 0 .. Len(f)
    BY <1>1
  <2>2. FirstNames(f, k) = FirstNames(f, l) => k = l
    <3>1. Len(FirstNames(f, k)) = k
      BY <1>1, <2>1, FirstNamesOf
    <3>2. Len(FirstNames(f, l)) = l
      BY <1>1, <2>1, FirstNamesOf
    <3> QED BY <3>1, <3>2
  <2>3. Kind(p, k)' = KindOf(tree', FirstNames(f, k))
    BY DEF Kind
  <2> QED BY <1>3, <1>4, <2>2, <2>3, KindOfWith DEF Kind
<1>6. ~disturbed[p]
  <2>1. disturbed \in [Processes -> BOOLEAN]
    BY DEF Places
  <2> QED BY <1>2, <1>3, <2>1, DisturbSound
<1>7. "file" \notin Above(tree, f)
  <2>1. ASSUME NEW k \in 1 .. Len(f) - 1 PROVE Kind(p, k) # "file"
    <3>1. Kind(p, k)' # "file" /\ k \in 0 .. Len(f) - 1
      BY <1>1, <1>2 DEF Above, Kind
    <3> QED BY <1>4, <1>5, <3>1
  <2> QED BY <2>1 DEF Above, Kind
<1>8. KnowsPath(p)
  BY <1>2, <1>6, <1>7 DEF Excused
<1>9. \A k \in l + 1 .. Len(f) - 2 : Kind(p, k) = "missing"
  <2>1. CASE pc[p] = "mkdir"
    BY <1>8, <2>1 DEF KnowsPath
  <2>2. CASE pc[p] = "again"
    <3>1. \A k \in l .. Len(f) - 2 : Kind(p, k) = "missing"
      BY <1>8, <2>2 DEF KnowsPath
    <3> QED BY <1>1, <3>1
  <2> QED BY <2>1, <2>2
<1>10. Len(Folder(f)) = Len(f) - 1
  BY <1>1, FileName
<1>11. path'[p] = f
  OBVIOUS
<1> HIDE DEF f, l
<1>12. CASE l = Len(Folder(f))
  <2>1. pc'[p] = "open"
    BY <1>1, <1>3, <1>12 DEF Return, Goto, f, l
  <2>2. ASSUME NEW k \in 1 .. Len(f) - 1 PROVE Kind(p, k)' # "missing"
    <3>1. k \in 0 .. Len(f) - 1 /\ (k = l \/ k \in 1 .. l - 1)
      BY <1>1, <1>10, <1>12
    <3> QED BY <1>4, <1>5, <3>1
  <2> QED BY <1>11, <2>1, <2>2 DEF KnowsPath
<1>13. CASE l # Len(Folder(f))
  <2>1. pc'[p] = "again" /\ level'[p] = l + 1
    BY <1>1, <1>3, <1>13 DEF Return, Goto, f, l
  <2>2. KindOf(tree', FirstNames(f, l)) = "dir"
    BY <1>3, <1>4, KindOfWith DEF f, l
  <2>3. ASSUME NEW k \in l + 1 .. Len(f) - 2 PROVE Kind(p, k)' = "missing"
    <3>1. k \in 0 .. Len(f) - 1 /\ k # l
      BY <1>1
    <3> QED BY <1>5, <1>9, <3>1
  <2>4. Kind(p, level[p] - 1)' = "dir"
    <3>1. level'[p] - 1 = l
      BY <1>1, <2>1
    <3> QED BY <1>11, <2>2, <3>1 DEF Kind
  <2> QED BY <1>11, <2>1, <2>3, <2>4 DEF KnowsPath
<1> QED BY <1>12, <1>13

\* What a call that changes nothing but its place knows when it does.
LEMMA QuietKnows ==
  ASSUME IInv, Places, NEW p \in Processes, pc[p] \in {"mkdir", "stat", "again"},
         Excused(p) \/ KnowsPath(p), UNCHANGED <<tree, path, disturbed>>, ~Excused(p)'
  PROVE  /\ KnowsPath(p) /\ NodeOf(path[p]) = path[p]
         /\ \A k \in 1 .. Len(path[p]) - 1 : Kind(p, k) # "file" /\ Kind(p, k)' = Kind(p, k)
         /\ \A k \in 1 .. Len(path[p]) - 1 : Kind(p, k) # "missing" =>
              \A j \in 1 .. k - 1 : Kind(p, j) = "dir"
         /\ path[p] \in FileNames /\ Len(path[p]) \in Nat /\ level[p] \in 1 .. Len(path[p]) - 1
         /\ Len(Folder(path[p])) = Len(path[p]) - 1
<1>1. ~Excused(p)
  BY DEF Excused
<1>2. path[p] \in FileNames /\ level[p] \in 1 .. Len(path[p]) - 1
  BY DEF Places
<1>3. path[p] \in Seq(STRING) /\ Len(path[p]) \in Nat /\ Len(Folder(path[p])) = Len(path[p]) - 1
  BY <1>2, FileName
<1>4. \A k \in 1 .. Len(path[p]) - 1 : Kind(p, k) # "file" /\ Kind(p, k)' = Kind(p, k)
  BY <1>1 DEF Excused, Above, Kind
<1>5. ASSUME NEW k \in 1 .. Len(path[p]) - 1, Kind(p, k) # "missing", NEW j \in 1 .. k - 1
      PROVE  Kind(p, j) = "dir"
  <2>1. k \in 1 .. Len(path[p]) /\ Tree(tree)
    BY <1>3 DEF Places
  <2> QED BY <1>3, <1>5, <2>1, ClosedTree DEF Kind
<1> QED BY <1>1, <1>2, <1>3, <1>4, <1>5 DEF Excused

LEMMA OwnFirst ==
  ASSUME IInv, Places, NEW p \in Processes, FirstAttempt(p), Excused(p) \/ KnowsPath(p)
  PROVE  (Excused(p) \/ KnowsPath(p))'
<1> SUFFICES ASSUME ~Excused(p)' PROVE KnowsPath(p)'
  OBVIOUS
<1> DEFINE n == Len(path[p])
           l == level[p]
<1>1. /\ pc[p] = "mkdir" /\ path' = path
      /\ pc \in [Processes -> States] /\ level \in [Processes -> Nat]
  BY DEF FirstAttempt, IInv, Members, Places
<1>2. CASE Made(p)
  BY <1>1, <1>2, OwnMade
<1>3. CASE Descend(p)
  <2>1. /\ UNCHANGED <<tree, path, disturbed>> /\ Attempt(p) = "ENOENT"
        /\ pc'[p] = "mkdir" /\ level'[p] = l - 1 /\ l > 1
    BY <1>1, <1>3 DEF Descend, Goto
  <2>2. /\ KnowsPath(p) /\ NodeOf(path[p]) = path[p] /\ n \in Nat /\ l \in 1 .. n - 1
        /\ \A k \in 1 .. n - 1 : Kind(p, k)' = Kind(p, k)
        /\ \A k \in 1 .. n - 1 : Kind(p, k) # "missing" => \A j \in 1 .. k - 1 : Kind(p, j) = "dir"
    BY <1>1, <2>1, QuietKnows
  <2>3. \E j \in 1 .. l - 1 : Kind(p, j) = "missing"
    BY <1>1, <2>1, <2>2, AttemptKinds
  <2>4. Kind(p, l) = "missing"
    BY <2>2, <2>3
  <2>5. \A k \in l + 1 .. n - 2 : Kind(p, k) = "missing"
    BY <1>1, <2>2 DEF KnowsPath
  <2>6. n = Len(path'[p]) /\ level'[p] + 1 = l
    BY <2>1, <2>2
  <2> HIDE DEF n, l
  <2>7. ASSUME NEW k \in l .. n - 2 PROVE Kind(p, k)' = "missing"
    <3>1. k \in 1 .. n - 1 /\ (k = l \/ k \in l + 1 .. n - 2)
      BY <2>2
    <3> QED BY <2>2, <2>4, <2>5, <3>1
  <2> QED BY <2>1, <2>6, <2>7 DEF KnowsPath
<1>4. CASE Attempt(p) = "EEXIST" /\ Goto(p, "stat") /\ UNCHANGED <<tree, level, disturbed>>
  <2>1. UNCHANGED <<tree, path, disturbed, level>> /\ pc'[p] = "stat" /\ Attempt(p) = "EEXIST"
    BY <1>1, <1>4 DEF Goto
  <2>2. /\ KnowsPath(p) /\ NodeOf(path[p]) = path[p]
    BY <1>1, <2>1, QuietKnows
  <2>3. Kind(p, level[p]) # "missing"
    BY <1>1, <2>1, <2>2, AttemptKinds
  <2> QED BY <1>1, <2>1, <2>2, <2>3 DEF KnowsPath, Kind
<1>5. CASE Attempt(p) = "ENOTDIR" /\ GiveUp(p) /\ UNCHANGED <<tree, disturbed>>
  <2>1. UNCHANGED <<tree, path, disturbed>> /\ Attempt(p) = "ENOTDIR"
    BY <1>1, <1>5
  <2>2. /\ NodeOf(path[p]) = path[p] /\ n \in Nat /\ l \in 1 .. n - 1
        /\ \A k \in 1 .. n - 1 : Kind(p, k) # "file"
    BY <1>1, <2>1, QuietKnows
  <2>3. \E j \in 1 .. l - 1 : Kind(p, j) = "file"
    BY <1>1, <2>1, <2>2, AttemptKinds
  <2> QED BY <2>2, <2>3
<1>6. CASE Refused(p)
  <2>1. disturbed'[p]
    <3>1. disturbed \in [Processes -> BOOLEAN] /\ Disturb({p})
      BY <1>6 DEF Places, Refused
    <3> QED BY <3>1, DisturbSound
  <2> QED BY <2>1 DEF Excused
<1> QED BY <1>2, <1>3, <1>4, <1>5, <1>6 DEF FirstAttempt

LEMMA OwnStat ==
  ASSUME IInv, Places, NEW p \in Processes, IsDirExist(p), Excused(p) \/ KnowsPath(p)
  PROVE  (Excused(p) \/ KnowsPath(p))'
<1> SUFFICES ASSUME ~Excused(p)' PROVE KnowsPath(p)'
  OBVIOUS
<1> DEFINE n == Len(path[p])
           l == level[p]
<1>1. /\ pc[p] = "stat" /\ UNCHANGED <<tree, path, disturbed>>
      /\ pc \in [Processes -> States] /\ level \in [Processes -> Nat]
  BY DEF IsDirExist, IInv, Members, Places
<1>2. /\ KnowsPath(p) /\ NodeOf(path[p]) = path[p] /\ n \in Nat /\ l \in 1 .. n - 1
      /\ \A k \in 1 .. n - 1 : Kind(p, k) # "file" /\ Kind(p, k)' = Kind(p, k)
      /\ \A k \in 1 .. n - 1 : Kind(p, k) # "missing" => \A j \in 1 .. k - 1 : Kind(p, j) = "dir"
      /\ Len(Folder(path[p])) = n - 1
  BY <1>1, QuietKnows
<1>3. /\ Kind(p, l) # "missing" /\ \A k \in l + 1 .. n - 2 : Kind(p, k) = "missing"
      /\ Kind(p, l) = KindOf(tree, Here(p))
  <2>1. Kind(p, l) = KindOf(tree, Here(p))
    BY <1>1, <1>2, AttemptKinds
  <2> QED BY <1>1, <1>2, <2>1 DEF KnowsPath
<1>4. Kind(p, l) = "dir"
  <2>1. Kind(p, l) \in {"dir", "file", "missing"}
    BY KindsOf DEF Kind, Places
  <2> QED BY <1>2, <1>3, <2>1
<1>5. Return(p)
  BY <1>3, <1>4 DEF IsDirExist
<1>6. n = Len(path'[p]) /\ path'[p] = path[p] /\ tree' = tree
  BY <1>1
<1>7. CASE l = Len(Folder(path[p]))
  <2>1. pc'[p] = "open"
    BY <1>1, <1>5, <1>7 DEF Return, Goto
  <2> HIDE DEF n, l
  <2>2. ASSUME NEW k \in 1 .. n - 1 PROVE Kind(p, k)' # "missing"
    <3>1. k = l \/ k \in 1 .. l - 1
      BY <1>2, <1>7 DEF l
    <3>2. Kind(p, k) # "missing"
      BY <1>2, <1>4, <3>1
    <3> QED BY <1>2, <3>2
  <2> QED BY <1>6, <2>1, <2>2 DEF KnowsPath
<1>8. CASE l # Len(Folder(path[p]))
  <2>1. pc'[p] = "again" /\ level'[p] = l + 1
    BY <1>1, <1>5, <1>8 DEF Return, Goto
  <2> HIDE DEF n, l
  <2>2. level'[p] - 1 = l
    BY <1>2, <2>1
  <2>3. Kind(p, level[p] - 1)' = "dir"
    BY <1>4, <1>6, <2>2 DEF Kind
  <2>4. ASSUME NEW k \in l + 1 .. n - 2 PROVE Kind(p, k)' = "missing"
    <3>1. k \in 1 .. n - 1
      BY <1>2
    <3> QED BY <1>2, <1>3, <3>1
  <2> QED BY <1>6, <2>1, <2>3, <2>4 DEF KnowsPath
<1> QED BY <1>7, <1>8

LEMMA OwnSecond ==
  ASSUME IInv, Places, NEW p \in Processes, SecondAttempt(p), Excused(p) \/ KnowsPath(p)
  PROVE  (Excused(p) \/ KnowsPath(p))'
<1> SUFFICES ASSUME ~Excused(p)' PROVE KnowsPath(p)'
  OBVIOUS
<1> DEFINE n == Len(path[p])
           l == level[p]
<1>1. /\ pc[p] = "again" /\ path' = path
      /\ pc \in [Processes -> States] /\ level \in [Processes -> Nat]
  BY DEF SecondAttempt, IInv, Members, Places
<1>2. CASE Made(p)
  BY <1>1, <1>2, OwnMade
<1>3. CASE Attempt(p) # "made" /\ GiveUp(p) /\ UNCHANGED <<tree, disturbed>>
  <2>1. UNCHANGED <<tree, path, disturbed>> /\ pc'[p] = "open"
    BY <1>1, <1>3 DEF GiveUp, Goto
  <2>2. /\ KnowsPath(p) /\ NodeOf(path[p]) = path[p] /\ n \in Nat /\ l \in 1 .. n - 1
        /\ \A k \in 1 .. n - 1 : Kind(p, k) # "file" /\ Kind(p, k)' = Kind(p, k)
        /\ \A k \in 1 .. n - 1 : Kind(p, k) # "missing" => \A j \in 1 .. k - 1 : Kind(p, j) = "dir"
    BY <1>1, <2>1, QuietKnows
  <2>3. Kind(p, l - 1) = "dir" /\ \A k \in l .. n - 2 : Kind(p, k) = "missing"
    BY <1>1, <2>2 DEF KnowsPath
  <2>4. /\ Attempt(p) \in {"ENOTDIR", "ENOENT", "EEXIST", "made"}
        /\ Attempt(p) = "ENOTDIR" => \E k \in 1 .. l - 1 : Kind(p, k) = "file"
        /\ Attempt(p) = "ENOENT" => \E k \in 1 .. l - 1 : Kind(p, k) = "missing"
        /\ Attempt(p) = "EEXIST" => Kind(p, l) # "missing"
    BY <1>1, <2>2, AttemptKinds
  <2>5. n = Len(path'[p])
    BY <2>1
  <2> HIDE DEF n, l
  <2>6. ASSUME NEW k \in 1 .. l - 1 PROVE Kind(p, k) = "dir"
    <3>1. CASE k = l - 1
      BY <2>3, <3>1
    <3>2. CASE k # l - 1
      <4>1. l - 1 \in 1 .. n - 1 /\ k \in 1 .. (l - 1) - 1
        BY <2>2, <3>2
      <4> QED BY <2>2, <2>3, <4>1
    <3> QED BY <3>1, <3>2
  <2>7. Kind(p, l) # "missing"
    BY <1>3, <2>4, <2>6
  <2>8. l = n - 1
    BY <2>2, <2>3, <2>7
  <2>9. ASSUME NEW k \in 1 .. n - 1 PROVE Kind(p, k)' # "missing"
    <3>1. k = l \/ k \in 1 .. l - 1
      BY <2>2, <2>8
    <3>2. Kind(p, k) # "missing"
      BY <2>6, <2>7, <3>1
    <3> QED BY <2>2, <3>2
  <2> QED BY <2>1, <2>5, <2>9 DEF KnowsPath
<1>4. CASE Refused(p)
  <2>1. disturbed'[p]
    <3>1. disturbed \in [Processes -> BOOLEAN] /\ Disturb({p})
      BY <1>4 DEF Places, Refused
    <3> QED BY <3>1, DisturbSound
  <2> QED BY <2>1 DEF Excused
<1> QED BY <1>2, <1>3, <1>4 DEF SecondAttempt

LEMMA OwnUpdate ==
  ASSUME IInv, Places, NEW p \in Processes, NEW f \in FileNames, UpdateFilename(p, f)
  PROVE  KnowsPath(p)'
<1>1. /\ pc \in [Processes -> States] /\ level \in [Processes -> Nat]
      /\ path \in [Processes -> FileNames \cup {NoFile}]
  BY DEF IInv, Members, Places
<1>2. /\ path'[p] = f /\ level'[p] = Len(f) - 1
      /\ pc'[p] = IF Folder(f) = <<>> THEN "open" ELSE "mkdir"
  BY <1>1 DEF UpdateFilename, OpenFile, Goto
<1>3. Len(f) \in Nat /\ Folder(f) \in Seq(STRING) /\ Len(Folder(f)) = Len(f) - 1
  BY FileName
<1>4. CASE Folder(f) = <<>>
  <2>1. Len(f) = 1 /\ pc'[p] = "open"
    BY <1>2, <1>3, <1>4
  <2>2. Len(path'[p]) = 1
    BY <1>2, <2>1
  <2>3. \A k : k \notin 1 .. Len(path'[p]) - 1
    BY <2>2
  <2> QED BY <2>1, <2>3 DEF KnowsPath
<1>5. CASE Folder(f) # <<>>
  <2>1. pc'[p] = "mkdir" /\ level'[p] + 1 .. Len(path'[p]) - 2 = {}
    BY <1>2, <1>3, <1>5
  <2> QED BY <2>1 DEF KnowsPath
<1> QED BY <1>4, <1>5

\* A step of one process in openFile() does not move the others.
LEMMA OthersStay ==
  ASSUME IInv, Places, NEW p \in Processes,
         (\E f \in FileNames : UpdateFilename(p, f)) \/ InCall(p),
         NEW q \in Processes \ {p}
  PROVE  pc'[q] = pc[q] /\ path'[q] = path[q] /\ level'[q] = level[q]
<1>1. /\ pc \in [Processes -> States] /\ level \in [Processes -> Nat]
      /\ path \in [Processes -> FileNames \cup {NoFile}]
  BY DEF IInv, Members, Places
<1>2. /\ pc' = pc \/ \E s : pc' = [pc EXCEPT ![p] = s]
      /\ path' = path \/ \E s : path' = [path EXCEPT ![p] = s]
  BY DEF UpdateFilename, OpenFile, InCall, FirstAttempt, IsDirExist, SecondAttempt, Open,
         Made, Descend, Refused, Return, GiveUp, Goto
<1>3. level' = level \/ \E s : level' = [level EXCEPT ![p] = s]
  BY DEF UpdateFilename, OpenFile, InCall, FirstAttempt, IsDirExist, SecondAttempt, Open,
         Made, Descend, Refused, Return, GiveUp
<1> QED BY <1>1, <1>2, <1>3

\* Who is on the way sees a step of another's openFile().
LEMMA WayBeside ==
  ASSUME IInv, Places, NEW p \in Processes,
         (\E f \in FileNames : UpdateFilename(p, f)) \/ InCall(p),
         NEW q \in Processes \ {p}, pc[q] # "idle", Excused(q) \/ KnowsPath(q)
  PROVE  (Excused(q) \/ KnowsPath(q))'
<1>1. pc'[q] = pc[q] /\ path'[q] = path[q] /\ level'[q] = level[q]
  BY OthersStay
<1>2. disturbed \in [Processes -> BOOLEAN]
  BY DEF Places
<1>3. CASE pc[p] \in {"mkdir", "again"} /\ Made(p)
  <2>1. /\ tree' = With(tree, Here(p), "dir") /\ Disturb(Within(Here(p)) \ {p})
        /\ Here(p) # <<>> /\ KindOf(tree, Here(p)) = "missing"
    BY <1>3, MadeTree DEF Made
  <2>2. disturbed[q] \/ q \in Within(Here(p)) => disturbed'[q]
    BY <1>2, <2>1, DisturbSound
  <2> QED BY <1>1, <2>1, <2>2, MadeBeside
<1>4. CASE Refused(p)
  <2>1. tree' = tree /\ Disturb({p})
    BY <1>4 DEF Refused
  <2>2. disturbed[q] => disturbed'[q]
    BY <1>2, <2>1, DisturbSound
  <2> QED BY <1>1, <2>1, <2>2, QuietBeside
<1>5. CASE Open(p)
  <2>1. pc[p] = "open" /\ disturbed' = [disturbed EXCEPT ![p] = FALSE]
    BY <1>5 DEF Open
  <2>2. disturbed[q] => disturbed'[q]
    BY <1>2, <2>1
  <2>3. CASE Opened(p)
    <3>1. path[p] \in FileNames /\ Tree(tree)
      BY <2>1 DEF Places
    <3>2. tree' = With(tree, NodeOf(path[p]), "file") /\ NodeOf(path[p]) # <<>>
      BY <2>3, <3>1, OpenedTree DEF Opened
    <3> QED BY <1>1, <2>2, <3>2, FileBeside
  <2>4. CASE NotOpened
    BY <1>1, <2>2, <2>4, QuietBeside DEF NotOpened
  <2> QED BY <1>5, <2>3, <2>4 DEF Open
<1>6. CASE UNCHANGED <<tree, disturbed>>
  BY <1>1, <1>6, QuietBeside
<1> QED BY <1>3, <1>4, <1>5, <1>6
        DEF UpdateFilename, OpenFile, InCall, FirstAttempt, IsDirExist, SecondAttempt, Descend

\* What a process in openFile() does keeps the invariant.
LEMMA WayInCall ==
  ASSUME IInv, Places, WayInv, NEW p \in Processes,
         (\E f \in FileNames : UpdateFilename(p, f)) \/ InCall(p)
  PROVE  WayInv'
<1>1. ASSUME NEW q \in Processes \ {p}, pc'[q] # "idle" PROVE (Excused(q) \/ KnowsPath(q))'
  <2>1. pc[q] # "idle" /\ (Excused(q) \/ KnowsPath(q))
    BY <1>1, OthersStay DEF WayInv
  <2> QED BY <2>1, WayBeside
<1>2. ASSUME pc'[p] # "idle" PROVE (Excused(p) \/ KnowsPath(p))'
  <2>1. CASE \E f \in FileNames : UpdateFilename(p, f)
    BY <2>1, OwnUpdate
  <2>2. CASE FirstAttempt(p)
    <3>1. Excused(p) \/ KnowsPath(p)
      BY <2>2 DEF WayInv, FirstAttempt
    <3> QED BY <2>2, <3>1, OwnFirst
  <2>3. CASE IsDirExist(p)
    <3>1. Excused(p) \/ KnowsPath(p)
      BY <2>3 DEF WayInv, IsDirExist
    <3> QED BY <2>3, <3>1, OwnStat
  <2>4. CASE SecondAttempt(p)
    <3>1. Excused(p) \/ KnowsPath(p)
      BY <2>4 DEF WayInv, SecondAttempt
    <3> QED BY <2>4, <3>1, OwnSecond
  <2>5. ~Open(p)
    BY <1>2 DEF Open, Goto, IInv, Members
  <2> QED BY <2>1, <2>2, <2>3, <2>4, <2>5 DEF InCall
<1>3. ASSUME NEW q \in Processes, pc'[q] # "idle" PROVE (Excused(q) \/ KnowsPath(q))'
  <2>1. CASE q = p
    BY <1>2, <1>3, <2>1
  <2>2. CASE q # p
    BY <1>1, <1>3, <2>2
  <2> QED BY <2>1, <2>2
<1> QED BY <1>3 DEF WayInv

LEMMA WayBegins == InitFiles => WayInv
  BY DEF InitFiles, Init, WayInv

LEMMA WayNext ==
  FilesInv /\ Places /\ WayInv /\ [NextOf(Processes \cup Walkers)]_filesVars => WayInv'
<1> SUFFICES ASSUME FilesInv, Places, WayInv, [NextOf(Processes \cup Walkers)]_filesVars PROVE WayInv'
  OBVIOUS
<1>1. IInv
  BY DEF FilesInv
<1>2. ASSUME NEW p \in Processes, FileStep(p) PROVE WayInv'
  <2>1. (\E f \in FileNames : UpdateFilename(p, f)) \/ InCall(p)
    BY <1>2 DEF FileStep
  <2> QED BY <1>1, <2>1, WayInCall
<1>3. ASSUME UNCHANGED <<tree, pc, path, level, disturbed>> PROVE WayInv'
  BY <1>3, Zenon DEF WayInv, Excused, KnowsPath, Kind
<1>4. ASSUME NEW p \in Processes, ClearFile(p) PROVE WayInv'
  <2>1. UNCHANGED <<pc, path, level, disturbed>>
    BY <1>4 DEF ClearFile
  <2>2. CASE /\ filename[p] # NoFile /\ MayOpen(tree, filename[p])
             /\ tree' = With(tree, NodeOf(filename[p]), "file")
    <3>1. filename[p] \in FileNames /\ Tree(tree)
      BY <1>1, <2>2 DEF IInv, Members, Places
    <3>2. NodeOf(filename[p]) # <<>>
      BY <2>2, <3>1, OpenedTree
    <3>3. ASSUME NEW q \in Processes, pc'[q] # "idle" PROVE (Excused(q) \/ KnowsPath(q))'
      <4>1. Excused(q) \/ KnowsPath(q)
        BY <2>1, <3>3 DEF WayInv
      <4> QED BY <2>1, <2>2, <3>2, <3>3, <4>1, FileBeside
    <3> QED BY <3>3 DEF WayInv
  <2>3. CASE UNCHANGED tree
    BY <1>3, <2>1, <2>3
  <2> QED BY <1>4, <2>2, <2>3 DEF ClearFile
<1>5. ASSUME NEW node, MayRemove(tree, node), tree' = Without(tree, node),
             UNCHANGED <<pc, path, level>>,
             \A q \in Processes : disturbed[q] \/ q \in Passing(node) => disturbed'[q]
      PROVE  WayInv'
  <2>1. node # <<>>
    BY <1>5 DEF MayRemove, Places, Tree
  <2>2. ASSUME NEW q \in Processes, pc'[q] # "idle" PROVE (Excused(q) \/ KnowsPath(q))'
    <3>1. Excused(q) \/ KnowsPath(q)
      BY <1>5, <2>2 DEF WayInv
    <3> QED BY <1>5, <2>1, <2>2, <3>1, RemovedBeside
  <2> QED BY <2>2 DEF WayInv
<1>6. disturbed \in [Processes -> BOOLEAN]
  BY DEF Places
<1>7. ASSUME NEW p \in Walkers, WalkStep(p) PROVE WayInv'
  <2>1. /\ UNCHANGED <<pc, path, level>>
        /\ Disturb(UNION {Passing(node) : node \in GoneNodes})
        /\ tree' = tree \/ \E node : MayRemove(tree, node) /\ tree' = Without(tree, node)
    BY <1>7, WalkTree
  <2>2. \A q \in Processes :
          disturbed'[q] <=> (disturbed[q] \/ q \in UNION {Passing(node) : node \in GoneNodes})
    BY <1>6, <2>1, DisturbSound
  <2>3. CASE tree' = tree
    <3>1. ASSUME NEW q \in Processes, pc'[q] # "idle" PROVE (Excused(q) \/ KnowsPath(q))'
      <4>1. Excused(q) \/ KnowsPath(q)
        BY <2>1, <3>1 DEF WayInv
      <4> QED BY <2>1, <2>2, <2>3, <3>1, <4>1, QuietBeside
    <3> QED BY <3>1 DEF WayInv
  <2>4. ASSUME NEW node, MayRemove(tree, node), tree' = Without(tree, node) PROVE WayInv'
    <3>1. node \in GoneNodes
      BY <2>4 DEF MayRemove, Without, GoneNodes
    <3>2. \A q \in Processes : disturbed[q] \/ q \in Passing(node) => disturbed'[q]
      BY <2>2, <3>1
    <3> QED BY <1>5, <2>1, <2>4, <3>2
  <2> QED BY <2>1, <2>3, <2>4
<1>8. ASSUME NEW node \in DOMAIN tree, RemovedByOthers(node) PROVE WayInv'
  <2>1. /\ MayRemove(tree, node) /\ tree' = Without(tree, node)
        /\ Disturb(Passing(node)) /\ UNCHANGED <<pc, path, level>>
    BY <1>8 DEF RemovedByOthers, Remove
  <2>2. \A q \in Processes : disturbed[q] \/ q \in Passing(node) => disturbed'[q]
    BY <1>6, <2>1, DisturbSound
  <2> QED BY <1>5, <2>1, <2>2
<1>9. Appending \subseteq Processes /\ Uffs \subseteq Processes
  BY OutputFileAssumption, Zenon DEF Uffs
<1>10. ASSUME NEW p \in Processes, PlainStep(p) PROVE WayInv'
  BY <1>3, <1>4, <1>10 DEF PlainStep, CloseFile
<1>11. ASSUME NEW p \in Processes, UffStep(p) PROVE WayInv'
  BY <1>3, <1>4, <1>11 DEF UffStep, ClearUff, WriteUff, vars
<1>12. CASE UNCHANGED filesVars
  BY <1>3, <1>12 DEF filesVars, vars
<1> QED BY <1>2, <1>7, <1>8, <1>9, <1>10, <1>11, <1>12 DEF NextOf

\* At the end of a call that knows its path, the file is kept from being opened
\* only by what is at its own place.
LEMMA EndOfWay ==
  ASSUME Places, NEW p \in Processes, pc[p] = "open", Excused(p) \/ KnowsPath(p)
  PROVE  \/ disturbed[p] \/ MayOpen(tree, path[p])
         \/ InTheWay(path[p]) \/ NodeOf(path[p]) # path[p]
<1> SUFFICES ASSUME ~disturbed[p], NodeOf(path[p]) = path[p], ~InTheWay(path[p])
             PROVE  MayOpen(tree, path[p])
  OBVIOUS
<1>1. "file" \notin Above(tree, path[p]) /\ KindOf(tree, NodeOf(path[p])) # "dir"
  BY DEF InTheWay
<1>2. KnowsPath(p)
  BY <1>1 DEF Excused
<1>3. \A k \in 1 .. Len(path[p]) - 1 : Kind(p, k) # "missing"
  BY <1>2 DEF KnowsPath
<1>4. Above(tree, path[p]) \subseteq {"dir"}
  <2>1. ASSUME NEW k \in 1 .. Len(path[p]) - 1 PROVE KindOf(tree, FirstNames(path[p], k)) = "dir"
    <3>1. KindOf(tree, FirstNames(path[p], k)) \in {"dir", "file", "missing"}
      BY KindsOf DEF Places
    <3> QED BY <1>1, <1>3, <3>1 DEF Above, Kind
  <2> QED BY <2>1 DEF Above
<1> QED BY <1>1, <1>4 DEF MayOpen

(* For any processes, writers and walkers in one tree, and paths of any    *)
(* length: openFile() fails only when the system refuses, something of the *)
(* path is removed or made above its last directory meanwhile, something   *)
(* else is in its place, or the path has two slashes in a row.             *)
THEOREM FailuresHaveReasons == SpecFiles => FailsForAReason
  <1>1. Places /\ WayInv /\ [NextOf(Processes \cup Walkers)]_filesVars =>
          [\A p \in Processes :
             (pc[p] = "open" /\ pc'[p] = "idle" /\ stream'[p] = NoFile)
               => \/ disturbed[p] \/ MayOpen(tree, path[p])
                  \/ InTheWay(path[p]) \/ NodeOf(path[p]) # path[p]]_vars
    BY EndOfWay DEF WayInv
  <1> QED
    BY <1>1, FilesBegin, FilesKeep, PlacesBegin, PlacesKept, WayBegins, WayNext, PTL
       DEF SpecFiles, FailsForAReason

-----------------------------------------------------------------------------
(* How many system calls openFile() still makes.                           *)

\* Down to the first level and up again from where makePath is, then open().
StepsLeft(p) ==
  IF pc[p] = "idle" THEN 0
  ELSE IF pc[p] = "open" THEN 1
  ELSE IF pc[p] = "mkdir" THEN Len(path[p]) + 1 + level[p] ELSE Len(path[p]) + 1 - level[p]

(* An openFile() has no more than two system calls left for each name of   *)
(* its path.                                                               *)
StepsBounded == \A p \in Processes : pc[p] # "idle" => StepsLeft(p) \in 1 .. 2 * Len(path[p])

(* Each step of an openFile() brings it nearer to its end, and nobody      *)
(* else's takes it back: makePath does not begin again, whatever others    *)
(* make and remove meanwhile, and whatever the system refuses.             *)
OpenShrinks ==
  [][\A p \in Processes : pc[p] # "idle" =>
       IF InCall(p) THEN StepsLeft(p)' < StepsLeft(p) ELSE UNCHANGED StepsLeft(p)]_filesVars

\* Of a path of n names, at its level l.
LEMMA LevelsLeft ==
  ASSUME NEW n \in Nat, NEW l \in 1 .. n - 1
  PROVE  /\ n + 1 - l \in 1 .. 2 * n /\ n + 1 + l \in 1 .. 2 * n
         /\ 1 < n + 1 - l /\ 1 < n + 1 + l
         /\ n + 1 - (l + 1) < n + 1 - l /\ n + 1 - (l + 1) < n + 1 + l
         /\ n + 1 + (l - 1) < n + 1 + l /\ n + 1 - l < n + 1 + l
  OBVIOUS

LEMMA StepsOf ==
  ASSUME Places, NEW p \in Processes, pc[p] \in States \ {"idle"}
  PROVE  StepsLeft(p) \in 1 .. 2 * Len(path[p])
<1>1. Len(path[p]) \in Nat /\ Len(path[p]) >= 1
  BY FileName DEF Places
<1>2. CASE pc[p] = "open"
  <2>1. StepsLeft(p) = 1
    BY ONLY <1>2 DEF StepsLeft
  <2> QED BY ONLY <1>1, <2>1
<1>3. CASE pc[p] \in {"mkdir", "stat", "again"}
  <2>1. level[p] \in 1 .. Len(path[p]) - 1
    BY <1>3 DEF Places
  <2>2. StepsLeft(p) = Len(path[p]) + 1 + level[p] \/ StepsLeft(p) = Len(path[p]) + 1 - level[p]
    BY ONLY <1>3 DEF StepsLeft
  <2> QED BY ONLY <1>1, <2>1, <2>2, LevelsLeft
<1> QED BY <1>2, <1>3 DEF States

\* makePath goes to the file itself from any of its levels.
LEMMA ToOpen ==
  ASSUME IInv, Places, NEW p \in Processes, pc[p] \in {"mkdir", "stat", "again"},
         Goto(p, "open"), UNCHANGED path
  PROVE  StepsLeft(p)' < StepsLeft(p)
<1>1. Len(path[p]) \in Nat /\ level[p] \in 1 .. Len(path[p]) - 1
  BY FileName DEF Places
<1>2. StepsLeft(p) = Len(path[p]) + 1 + level[p] \/ StepsLeft(p) = Len(path[p]) + 1 - level[p]
  BY DEF StepsLeft
<1>3. pc'[p] = "open"
  BY DEF Goto, IInv, Members
<1>4. StepsLeft(p)' = 1
  BY ONLY <1>3 DEF StepsLeft
<1> QED BY ONLY <1>1, <1>2, <1>4, LevelsLeft

LEMMA ReturnShrinks ==
  ASSUME IInv, Places, NEW p \in Processes, pc[p] \in {"mkdir", "stat", "again"},
         Return(p), UNCHANGED path
  PROVE  StepsLeft(p)' < StepsLeft(p)
<1>1. Len(path[p]) \in Nat /\ level[p] \in 1 .. Len(path[p]) - 1
  BY FileName DEF Places
<1>2. StepsLeft(p) = Len(path[p]) + 1 + level[p] \/ StepsLeft(p) = Len(path[p]) + 1 - level[p]
  BY DEF StepsLeft
<1>3. CASE Goto(p, "again") /\ level' = [level EXCEPT ![p] = level[p] + 1]
  <2>1. pc'[p] = "again" /\ level'[p] = level[p] + 1 /\ path' = path
    BY <1>3 DEF Goto, IInv, Members, Places
  <2>2. StepsLeft(p)' = Len(path[p]) + 1 - (level[p] + 1)
    BY ONLY <2>1 DEF StepsLeft
  <2> QED BY ONLY <1>1, <1>2, <2>2, LevelsLeft
<1> QED BY <1>3, ToOpen DEF Return

LEMMA OwnShrinks ==
  ASSUME IInv, Places, NEW p \in Processes, InCall(p)
  PROVE  StepsLeft(p)' < StepsLeft(p)
<1>1. CASE FirstAttempt(p)
  <2>1. /\ pc[p] = "mkdir" /\ UNCHANGED path /\ path[p] \in FileNames
        /\ Len(path[p]) \in Nat /\ level[p] \in 1 .. Len(path[p]) - 1
    BY <1>1, FileName DEF FirstAttempt, Places
  <2>2. StepsLeft(p) = Len(path[p]) + 1 + level[p]
    BY <2>1 DEF StepsLeft
  <2>3. CASE Made(p)
    BY <2>1, <2>3, ReturnShrinks DEF Made
  <2>4. CASE Descend(p)
    <3>1. pc'[p] = "mkdir" /\ level'[p] = level[p] - 1 /\ path' = path
      BY <2>1, <2>4 DEF Descend, Goto, IInv, Members, Places
    <3>2. StepsLeft(p)' = Len(path[p]) + 1 + (level[p] - 1)
      BY ONLY <3>1 DEF StepsLeft
    <3> QED BY ONLY <2>1, <2>2, <3>2, LevelsLeft
  <2>5. CASE Goto(p, "stat") /\ UNCHANGED level
    <3>1. pc'[p] = "stat" /\ level' = level /\ path' = path
      BY <2>1, <2>5 DEF Goto, IInv, Members
    <3>2. StepsLeft(p)' = Len(path[p]) + 1 - level[p]
      BY ONLY <3>1 DEF StepsLeft
    <3> QED BY ONLY <2>1, <2>2, <3>2, LevelsLeft
  <2>6. CASE GiveUp(p)
    BY <2>1, <2>6, ToOpen DEF GiveUp
  <2> QED BY <1>1, <2>3, <2>4, <2>5, <2>6 DEF FirstAttempt, Refused
<1>2. CASE IsDirExist(p)
  BY <1>2, ReturnShrinks, ToOpen DEF IsDirExist, GiveUp
<1>3. CASE SecondAttempt(p)
  BY <1>3, ReturnShrinks, ToOpen DEF SecondAttempt, Made, Refused, GiveUp
<1>4. CASE Open(p)
  <2>1. pc[p] = "open" /\ pc'[p] = "idle"
    BY <1>4 DEF Open, Goto, IInv, Members
  <2> QED BY <2>1 DEF StepsLeft
<1> QED BY <1>1, <1>2, <1>3, <1>4 DEF InCall

LEMMA OthersKeepPlace ==
  ASSUME IInv, Places, NextOf(Processes \cup Walkers),
         NEW p \in Processes, pc[p] # "idle", ~InCall(p)
  PROVE  pc'[p] = pc[p] /\ path'[p] = path[p] /\ level'[p] = level[p]
<1>1. ASSUME NEW q \in Processes, FileStep(q)
      PROVE  pc'[p] = pc[p] /\ path'[p] = path[p] /\ level'[p] = level[p]
  <2>1. (\E f \in FileNames : UpdateFilename(q, f)) \/ InCall(q)
    BY <1>1 DEF FileStep
  <2>2. q # p
    BY <2>1 DEF UpdateFilename
  <2> QED BY <2>1, <2>2, OthersStay
<1>2. ASSUME NEW q \in Processes, PlainStep(q) \/ UffStep(q) PROVE UNCHANGED <<pc, path, level>>
  BY <1>2 DEF PlainStep, UffStep, CloseFile, ClearFile, ClearUff, WriteUff, vars
<1>3. ASSUME NEW q \in Walkers, WalkStep(q) PROVE UNCHANGED <<pc, path, level>>
  BY <1>3, WalkTree
<1>4. ASSUME NEW node \in DOMAIN tree, RemovedByOthers(node) PROVE UNCHANGED <<pc, path, level>>
  BY <1>4 DEF RemovedByOthers, Remove
<1>5. Appending \subseteq Processes /\ Uffs \subseteq Processes
  BY OutputFileAssumption, Zenon DEF Uffs
<1>6. CASE UNCHANGED <<pc, path, level>>
  BY <1>6
<1> QED BY <1>1, <1>2, <1>3, <1>4, <1>5, <1>6 DEF NextOf

(* For any paths, processes, writers and walkers: openFile() makes at most *)
(* two system calls for each name of its path, and comes nearer to its end *)
(* with each of them.                                                      *)
THEOREM OpeningIsBounded == SpecFiles => []StepsBounded /\ OpenShrinks
<1>1. FilesInv /\ Places => StepsBounded
  BY StepsOf DEF FilesInv, IInv, Members, StepsBounded
<1>2. ASSUME FilesInv, Places, [NextOf(Processes \cup Walkers)]_filesVars
      PROVE  [\A p \in Processes : pc[p] # "idle" =>
                IF InCall(p) THEN StepsLeft(p)' < StepsLeft(p) ELSE UNCHANGED StepsLeft(p)]_filesVars
  <2>1. ASSUME NextOf(Processes \cup Walkers), NEW p \in Processes, pc[p] # "idle"
        PROVE  IF InCall(p) THEN StepsLeft(p)' < StepsLeft(p) ELSE UNCHANGED StepsLeft(p)
    <3>1. IInv
      BY <1>2 DEF FilesInv
    <3>2. CASE InCall(p)
      BY <1>2, <3>1, <3>2, OwnShrinks
    <3>3. CASE ~InCall(p)
      <4>1. pc'[p] = pc[p] /\ path'[p] = path[p] /\ level'[p] = level[p]
        BY <1>2, <2>1, <3>1, <3>3, OthersKeepPlace
      <4> QED BY <3>3, <4>1 DEF StepsLeft
    <3> QED BY <3>2, <3>3
  <2> QED BY <1>2, <2>1
<1> QED
  BY <1>1, <1>2, FilesBegin, FilesKeep, PlacesBegin, PlacesKept, PTL DEF SpecFiles, OpenShrinks

-----------------------------------------------------------------------------
(* The calls of the walkers.                                               *)

\* What an entry that is not passed over can be called.
Names == STRING \ Dots

Frames ==
  [node : Seq(STRING), at : {"open", "next", "remove"}, left : SUBSET Names,
   entry : Names \cup {NoName}]

Calls ==
  [task : {"delete", "list", "read"}, target : Seq(STRING), stack : Seq(Frames),
   before : SUBSET Seq(STRING), found : SUBSET Seq(STRING)]

\* Every directory a call is in is its own or below it.
InPlace(c, frame) ==
  /\ Leads(c.target, frame.node)
  /\ frame.at = "remove" => c.task = "delete" /\ frame.entry \in Names

IsCall(c) ==
  /\ c \in Calls /\ c.stack # <<>>
  /\ c.task = "read" => Len(c.stack) = 1
  /\ \A i \in 1 .. Len(c.stack) : InPlace(c, c.stack[i])

WalkInv ==
  /\ call \in [Walkers -> Calls \cup {NoCall}]
  /\ \A p \in Walkers : call[p] # NoCall => IsCall(call[p])

LEMMA DirectoryFrame ==
  ASSUME NEW node \in Seq(STRING)
  PROVE  Directory(node) \in Frames /\ Directory(node).node = node /\ Directory(node).at = "open"
  BY DEF Directory, Frames

LEMMA NoCallIsNone == NoCall \notin Calls /\ NoCall.task = "none"
  BY DEF NoCall, Calls

LEMMA StackOf ==
  ASSUME WalkInv, NEW p \in Walkers, call[p] # NoCall
  PROVE  /\ IsCall(call[p]) /\ call[p] \in Calls
         /\ Stack(p) = call[p].stack /\ Stack(p) \in Seq(Frames) /\ Stack(p) # <<>>
         /\ Len(Stack(p)) \in Nat \ {0}
         /\ Top(p) = Stack(p)[Len(Stack(p))] /\ Top(p) \in Frames
         /\ InPlace(call[p], Top(p))
<1>1. IsCall(call[p]) /\ call[p] \in Calls
  BY DEF WalkInv, IsCall
<1>2. Stack(p) = call[p].stack /\ Stack(p) \in Seq(Frames) /\ Stack(p) # <<>>
  BY <1>1 DEF IsCall, Calls, Stack
<1>3. Len(Stack(p)) \in Nat \ {0} /\ Len(Stack(p)) \in 1 .. Len(Stack(p))
  BY <1>2
<1>4. Top(p) = Stack(p)[Len(Stack(p))] /\ Top(p) \in Frames
  BY <1>2, <1>3 DEF Top
<1>5. InPlace(call[p], Top(p))
  BY <1>1, <1>2, <1>3, <1>4 DEF IsCall
<1> QED BY <1>1, <1>2, <1>3, <1>4, <1>5

LEMMA WithTopIs ==
  ASSUME WalkInv, NEW p \in Walkers, call[p] # NoCall, NEW top \in Frames
  PROVE  /\ WithTop(p, top) \in Seq(Frames) /\ Len(WithTop(p, top)) = Len(Stack(p))
         /\ WithTop(p, top)[Len(Stack(p))] = top
         /\ \A i \in 1 .. Len(Stack(p)) - 1 : WithTop(p, top)[i] = Stack(p)[i]
<1>1. Stack(p) \in Seq(Frames) /\ Len(Stack(p)) \in Nat \ {0}
  BY StackOf
<1> QED BY <1>1 DEF WithTop

LEMMA BelowIs ==
  ASSUME WalkInv, NEW p \in Walkers, call[p] # NoCall, NEW top \in Frames, NEW node \in Seq(STRING)
  PROVE  /\ Below(p, top, node) \in Seq(Frames) /\ Len(Below(p, top, node)) = Len(Stack(p)) + 1
         /\ Below(p, top, node)[Len(Stack(p)) + 1] = Directory(node)
         /\ Below(p, top, node)[Len(Stack(p))] = top
         /\ \A i \in 1 .. Len(Stack(p)) - 1 : Below(p, top, node)[i] = Stack(p)[i]
<1> DEFINE t == WithTop(p, top)
           s == Append(t, Directory(node))
           n == Len(Stack(p))
<1>1. /\ t \in Seq(Frames) /\ Len(t) = n /\ t[n] = top /\ n \in Nat \ {0}
      /\ \A i \in 1 .. n - 1 : t[i] = Stack(p)[i]
  BY WithTopIs, StackOf
<1>2. Directory(node) \in Frames
  BY DirectoryFrame
<1> HIDE DEF t, n
<1>3. /\ s \in Seq(Frames) /\ Len(s) = n + 1 /\ s[n + 1] = Directory(node)
      /\ \A i \in 1 .. n : s[i] = t[i]
  BY <1>1, <1>2
<1>4. Below(p, top, node) = s
  BY DEF Below, t
<1> HIDE DEF s
<1>5. s[n] = top /\ \A i \in 1 .. n - 1 : s[i] = Stack(p)[i]
  BY <1>1, <1>3
<1> QED BY <1>3, <1>4, <1>5 DEF n

LEMMA UpperIs ==
  ASSUME WalkInv, NEW p \in Walkers, call[p] # NoCall, Len(Stack(p)) # 1
  PROVE  /\ Upper(p) \in Seq(Frames) /\ Len(Upper(p)) = Len(Stack(p)) - 1 /\ Upper(p) # <<>>
         /\ Len(Stack(p)) - 1 \in Nat \ {0}
         /\ \A i \in 1 .. Len(Stack(p)) - 1 : Upper(p)[i] = Stack(p)[i]
<1> DEFINE s == Stack(p)
           n == Len(s) - 1
<1>1. s \in Seq(Frames) /\ Len(s) \in Nat \ {0}
  BY StackOf
<1>2. n \in Nat \ {0} /\ n \in 0 .. Len(s)
  BY <1>1
<1>3. Upper(p) = FirstNames(s, n)
  BY DEF Upper, FirstNames
<1> HIDE DEF s, n
<1>4. /\ FirstNames(s, n) \in Seq(Frames) /\ Len(FirstNames(s, n)) = n
      /\ \A i \in 1 .. n : FirstNames(s, n)[i] = s[i]
      /\ FirstNames(s, n) = <<>> <=> n = 0
  BY <1>1, <1>2, FirstNamesOf
<1>5. n # 0
  BY <1>2
<1> QED BY <1>2, <1>3, <1>4, <1>5 DEF s, n

LEMMA LastReplaced ==
  ASSUME NEW A, NEW s \in Seq(A), NEW n \in Nat \ {0}, n = Len(s), NEW x \in A
  PROVE  /\ [s EXCEPT ![n] = x] \in Seq(A) /\ Len([s EXCEPT ![n] = x]) = n
         /\ [s EXCEPT ![n] = x][n] = x /\ \A i \in 1 .. n - 1 : [s EXCEPT ![n] = x][i] = s[i]
  OBVIOUS

\* With nothing left in the directory it goes back to.
LEMMA EmptiedIs ==
  ASSUME WalkInv, NEW p \in Walkers, call[p] # NoCall, Len(Stack(p)) # 1,
         NEW s, s = UpperEnded(p)
  PROVE  /\ s \in Seq(Frames) /\ Len(s) = Len(Stack(p)) - 1 /\ s # <<>>
         /\ \A i \in 1 .. Len(Stack(p)) - 1 :
              /\ s[i].node = Stack(p)[i].node /\ s[i].at = Stack(p)[i].at
              /\ s[i].entry = Stack(p)[i].entry
<1> DEFINE u == Upper(p)
           n == Len(Stack(p)) - 1
           last == [u[n] EXCEPT !.left = {}]
<1>1. /\ u \in Seq(Frames) /\ Len(u) = n /\ n \in Nat \ {0}
      /\ \A i \in 1 .. n : u[i] = Stack(p)[i]
      /\ u # <<>>
  BY UpperIs
<1>2. s = [u EXCEPT ![n] = last]
  BY DEF UpperEnded
<1>3. u[n] \in Frames
  BY <1>1
<1>4. last \in Frames /\ last.node = u[n].node /\ last.at = u[n].at /\ last.entry = u[n].entry
  BY <1>3 DEF Frames
<1> HIDE DEF u, n, last
<1>5. s \in Seq(Frames) /\ Len(s) = n /\ s[n] = last /\ \A i \in 1 .. n - 1 : s[i] = u[i]
  <2> DEFINE r == [u EXCEPT ![n] = last]
  <2>1. r \in Seq(Frames) /\ Len(r) = n /\ r[n] = last /\ \A i \in 1 .. n - 1 : r[i] = u[i]
    BY <1>1, <1>4, LastReplaced
  <2> HIDE DEF r
  <2>2. s = r
    BY <1>2, Zenon DEF r
  <2> QED BY <2>1, <2>2, Zenon
<1>6. s # <<>>
  BY <1>1, <1>5
<1>7. ASSUME NEW i \in 1 .. n
      PROVE  s[i].node = u[i].node /\ s[i].at = u[i].at /\ s[i].entry = u[i].entry
  <2>1. i = n \/ i \in 1 .. n - 1
    BY <1>1
  <2> QED BY <1>4, <1>5, <2>1
<1> QED BY <1>1, <1>5, <1>6, <1>7 DEF n

LEMMA GoesOn ==
  ASSUME WalkInv, NEW p \in Walkers, call[p] # NoCall, NEW s \in Seq(Frames), GoOn(p, s)
  PROVE  /\ call' = [call EXCEPT ![p] = call'[p]] /\ call'[p] \in Calls /\ call'[p] # NoCall
         /\ call'[p].stack = s /\ call'[p].task = call[p].task /\ call'[p].target = call[p].target
         /\ call'[p].before = call[p].before /\ call'[p].found = call[p].found
<1>1. call[p] \in Calls /\ p \in DOMAIN call
  BY StackOf DEF WalkInv
<1>2. call' = [call EXCEPT ![p] = [call[p] EXCEPT !.stack = s]]
  BY DEF GoOn
<1>3. call'[p] = [call[p] EXCEPT !.stack = s]
  BY <1>1, <1>2
<1> QED BY <1>1, <1>2, <1>3, NoCallIsNone DEF Calls

LEMMA FindsMore ==
  ASSUME WalkInv, NEW p \in Walkers, call[p] # NoCall, NEW s \in Seq(Frames), NEW node \in Seq(STRING),
         Find(p, node, s)
  PROVE  /\ call' = [call EXCEPT ![p] = call'[p]] /\ call'[p] \in Calls /\ call'[p] # NoCall
         /\ call'[p].stack = s /\ call'[p].task = call[p].task /\ call'[p].target = call[p].target
         /\ call'[p].before = call[p].before /\ call'[p].found = call[p].found \cup {node}
<1> DEFINE more == [call[p] EXCEPT !.found = call[p].found \cup {node}]
<1>1. call[p] \in Calls /\ p \in DOMAIN call
  BY StackOf DEF WalkInv
<1>2. call' = [[call EXCEPT ![p] = more] EXCEPT ![p] = [[call EXCEPT ![p] = more][p] EXCEPT !.stack = s]]
  BY DEF Find
<1> HIDE DEF more
<1>3. [call EXCEPT ![p] = more][p] = more
  BY <1>1
<1>4. call' = [call EXCEPT ![p] = [more EXCEPT !.stack = s]]
  BY <1>1, <1>2, <1>3
<1>5. call'[p] = [more EXCEPT !.stack = s]
  BY <1>1, <1>4
<1>6. call' = [call EXCEPT ![p] = call'[p]]
  BY <1>4, <1>5
<1>7. /\ more \in Calls /\ more.task = call[p].task /\ more.target = call[p].target
      /\ more.before = call[p].before /\ more.found = call[p].found \cup {node}
  BY <1>1 DEF Calls, more
<1>8. /\ call'[p] \in Calls /\ call'[p].stack = s
      /\ call'[p].task = more.task /\ call'[p].target = more.target
      /\ call'[p].before = more.before /\ call'[p].found = more.found
  BY <1>5, <1>7 DEF Calls
<1> QED BY <1>6, <1>7, <1>8, NoCallIsNone

-----------------------------------------------------------------------------
LEMMA LeadsOn ==
  ASSUME NEW a \in Seq(STRING), NEW b \in Seq(STRING), NEW c \in Seq(STRING), Leads(a, b), Leads(b, c)
  PROVE  Leads(a, c)
<1>1. /\ Len(a) \in Nat /\ Len(b) \in Nat /\ Len(c) \in Nat
      /\ Len(a) <= Len(b) /\ Len(b) <= Len(c) /\ FirstNames(b, Len(a)) = a /\ FirstNames(c, Len(b)) = b
  BY DEF Leads
<1>2. Len(a) \in 0 .. Len(b) /\ Len(b) \in 0 .. Len(c) /\ Len(a) <= Len(c)
  BY <1>1
<1>3. FirstNames(FirstNames(c, Len(b)), Len(a)) = FirstNames(c, Len(a))
  BY <1>2, FirstNamesOf
<1>4. FirstNames(c, Len(a)) = a
  BY <1>1, <1>3, Zenon
<1> QED BY <1>2, <1>4 DEF Leads

LEMMA LeadsItself ==
  ASSUME NEW a \in Seq(STRING)
  PROVE  Leads(a, a)
  BY DEF Leads, FirstNames

\* An entry is right below its directory.
LEMMA EntryOf ==
  ASSUME NEW node \in Seq(STRING), NEW name \in Names
  PROVE  /\ Entry(node, name) \in Seq(STRING) /\ Entry(node, name) # <<>>
         /\ Len(Entry(node, name)) = Len(node) + 1
         /\ Entry(node, name)[Len(node) + 1] = name
         /\ FirstNames(Entry(node, name), Len(node)) = node
         /\ Leads(node, Entry(node, name)) /\ Entry(node, name) # node
<1> DEFINE e == Append(node, name)
<1>1. name \in STRING /\ name # "." /\ name # ".."
  BY DEF Names, Dots
<1>2. Entry(node, name) = e
  BY <1>1 DEF Entry
<1>3. /\ e \in Seq(STRING) /\ Len(e) = Len(node) + 1 /\ e[Len(node) + 1] = name
      /\ \A i \in 1 .. Len(node) : e[i] = node[i]
  BY <1>1
<1>4. Len(node) \in Nat /\ Len(node) <= Len(e)
  BY <1>3
<1> HIDE DEF e
<1>5. FirstNames(e, Len(node)) = node
  <2>1. Len(node) \in 0 .. Len(e)
    BY <1>3, <1>4
  <2>2. /\ FirstNames(e, Len(node)) \in Seq(STRING) /\ Len(FirstNames(e, Len(node))) = Len(node)
        /\ \A i \in 1 .. Len(node) : FirstNames(e, Len(node))[i] = e[i]
    BY <1>3, <2>1, FirstNamesOf
  <2> QED BY <1>3, <2>2
<1>6. e # node /\ e # <<>>
  <2>1. Len(e) # Len(node) /\ Len(e) # 0
    BY <1>3, <1>4
  <2> QED BY <2>1
<1> QED BY <1>2, <1>3, <1>4, <1>5, <1>6 DEF Leads

LEMMA EntriesAreNames ==
  ASSUME Tree(tree), NEW node
  PROVE  Entries(node) \ Dots \subseteq Names
<1> SUFFICES ASSUME NEW n \in Inside(node) PROVE n[Len(n)] \in STRING
  BY DEF Entries, Names, Dots
<1>1. n \in Seq(STRING) /\ n # <<>>
  BY DEF Inside, Tree
<1> QED BY <1>1

-----------------------------------------------------------------------------
\* A frame that takes the place of another.
Follows(c, old, new) ==
  /\ new \in Frames /\ new.node = old.node
  /\ new.at = "remove" => c.task = "delete" /\ new.entry \in Names

\* The call stays a call, and the calls of the others are theirs.
LEMMA CallKept ==
  ASSUME WalkInv, NEW p \in Walkers, call[p] # NoCall,
         NEW s \in Seq(Frames), s # <<>>, call[p].task = "read" => Len(s) = 1,
         \A i \in 1 .. Len(s) :
           \/ i \in 1 .. Len(Stack(p)) /\ Follows(call[p], Stack(p)[i], s[i])
           \/ InPlace(call[p], s[i]),
         call' = [call EXCEPT ![p] = call'[p]], call'[p] \in Calls, call'[p].stack = s,
         call'[p].task = call[p].task, call'[p].target = call[p].target
  PROVE  WalkInv'
<1>1. IsCall(call[p]) /\ Stack(p) = call[p].stack
  BY StackOf
<1>2. ASSUME NEW i \in 1 .. Len(s) PROVE InPlace(call'[p], s[i])
  <2>1. InPlace(call[p], s[i])
    BY <1>1 DEF IsCall, InPlace, Follows
  <2> QED BY <2>1 DEF InPlace
<1>3. IsCall(call'[p])
  BY <1>2 DEF IsCall
<1> QED BY <1>3 DEF WalkInv

LEMMA CallEnds ==
  ASSUME WalkInv, NEW p \in Walkers, call' = [call EXCEPT ![p] = NoCall]
  PROVE  WalkInv'
  BY DEF WalkInv

LEMMA TopKeeps ==
  ASSUME WalkInv, NEW p \in Walkers, call[p] # NoCall, NEW top, Follows(call[p], Top(p), top),
         call' = [call EXCEPT ![p] = call'[p]], call'[p] \in Calls,
         call'[p].stack = WithTop(p, top),
         call'[p].task = call[p].task, call'[p].target = call[p].target
  PROVE  WalkInv'
<1> DEFINE s == WithTop(p, top)
           n == Len(Stack(p))
<1>1. /\ IsCall(call[p]) /\ Stack(p) = call[p].stack /\ n \in Nat \ {0}
      /\ Top(p) = Stack(p)[n] /\ top \in Frames
  BY StackOf DEF Follows
<1>2. /\ s \in Seq(Frames) /\ Len(s) = n /\ s[n] = top
      /\ \A i \in 1 .. n - 1 : s[i] = Stack(p)[i]
  BY <1>1, WithTopIs
<1> HIDE DEF s
<1>3. ASSUME NEW i \in 1 .. Len(s)
      PROVE  \/ i \in 1 .. n /\ Follows(call[p], Stack(p)[i], s[i])
             \/ InPlace(call[p], s[i])
  <2>1. CASE i = n
    BY <1>1, <1>2, <1>3, <2>1
  <2>2. CASE i # n
    <3>1. i \in 1 .. n - 1 /\ i \in 1 .. n
      BY <1>1, <1>2, <2>2
    <3>2. InPlace(call[p], Stack(p)[i])
      BY <1>1, <3>1 DEF IsCall
    <3> QED BY <1>2, <3>1, <3>2
  <2> QED BY <2>1, <2>2
<1>4. s # <<>> /\ (call[p].task = "read" => Len(s) = 1)
  BY <1>1, <1>2 DEF IsCall
<1>5. call'[p].stack = s
  BY DEF s
<1> QED BY <1>2, <1>3, <1>4, <1>5, CallKept

LEMMA NowKeeps ==
  ASSUME WalkInv, NEW p \in Walkers, call[p] # NoCall, NEW top, Follows(call[p], Top(p), top),
         Now(p, top)
  PROVE  WalkInv'
<1>1. WithTop(p, top) \in Seq(Frames)
  BY WithTopIs DEF Follows
<1>2. GoOn(p, WithTop(p, top))
  BY DEF Now
<1> QED BY <1>1, <1>2, GoesOn, TopKeeps

LEMMA BelowKeeps ==
  ASSUME WalkInv, NEW p \in Walkers, call[p] # NoCall, call[p].task # "read",
         NEW top, Follows(call[p], Top(p), top),
         NEW node \in Seq(STRING), Leads(Top(p).node, node),
         call' = [call EXCEPT ![p] = call'[p]], call'[p] \in Calls,
         call'[p].stack = Below(p, top, node),
         call'[p].task = call[p].task, call'[p].target = call[p].target
  PROVE  WalkInv'
<1> DEFINE s == Below(p, top, node)
           n == Len(Stack(p))
<1>1. /\ IsCall(call[p]) /\ Stack(p) = call[p].stack /\ n \in Nat \ {0}
      /\ Top(p) = Stack(p)[n] /\ Top(p) \in Frames /\ InPlace(call[p], Top(p)) /\ top \in Frames
  BY StackOf DEF Follows
<1>2. Directory(node) \in Frames /\ Directory(node).node = node /\ Directory(node).at = "open"
  BY DirectoryFrame
<1> HIDE DEF s
<1>3. /\ s \in Seq(Frames) /\ Len(s) = n + 1 /\ s[n + 1] = Directory(node) /\ s[n] = top
      /\ \A i \in 1 .. n - 1 : s[i] = Stack(p)[i]
  BY <1>1, BelowIs DEF s
<1>4. InPlace(call[p], Directory(node))
  <2>1. call[p].target \in Seq(STRING) /\ Top(p).node \in Seq(STRING)
    BY <1>1 DEF IsCall, Calls, Frames
  <2>2. Leads(call[p].target, node)
    BY <1>1, <2>1, LeadsOn DEF InPlace
  <2> QED BY <1>2, <2>2 DEF InPlace
<1>5. ASSUME NEW i \in 1 .. Len(s)
      PROVE  \/ i \in 1 .. n /\ Follows(call[p], Stack(p)[i], s[i])
             \/ InPlace(call[p], s[i])
  <2>1. CASE i = n + 1
    BY <1>3, <1>4, <2>1
  <2>2. CASE i = n
    <3>1. n \in 1 .. n
      BY <1>1
    <3> QED BY <1>1, <1>3, <2>2, <3>1
  <2>3. CASE i # n /\ i # n + 1
    <3>1. i \in 1 .. n - 1 /\ i \in 1 .. n
      BY <1>1, <1>3, <2>3
    <3>2. InPlace(call[p], Stack(p)[i])
      BY <1>1, <3>1 DEF IsCall
    <3> QED BY <1>3, <3>1, <3>2
  <2> QED BY <2>1, <2>2, <2>3
<1>6. s # <<>>
  BY <1>1, <1>3
<1>7. call'[p].stack = s
  BY DEF s
<1> QED BY <1>3, <1>5, <1>6, <1>7, CallKept

LEMMA EnterKeeps ==
  ASSUME WalkInv, NEW p \in Walkers, call[p] # NoCall, call[p].task # "read",
         NEW top, Follows(call[p], Top(p), top),
         NEW node \in Seq(STRING), Leads(Top(p).node, node), Enter(p, top, node)
  PROVE  WalkInv'
<1>1. Below(p, top, node) \in Seq(Frames)
  BY BelowIs, DirectoryFrame DEF Follows
<1>2. GoOn(p, Below(p, top, node))
  BY DEF Enter
<1>3. /\ call' = [call EXCEPT ![p] = call'[p]] /\ call'[p] \in Calls
      /\ call'[p].stack = Below(p, top, node)
      /\ call'[p].task = call[p].task /\ call'[p].target = call[p].target
  BY <1>1, <1>2, GoesOn
<1> QED BY <1>3, BelowKeeps

LEMMA ReturnKeeps ==
  ASSUME WalkInv, NEW p \in Walkers, call[p] # NoCall, Leave(p) \/ Swallow(p)
  PROVE  WalkInv'
<1>1. CASE Len(Stack(p)) = 1
  BY <1>1, CallEnds DEF Leave, Swallow, ReturnTo
<1>2. CASE Len(Stack(p)) # 1
  <2>1. PICK s : /\ GoOn(p, s)
                 /\ s = Upper(p) \/ s = UpperEnded(p)
    BY <1>2 DEF Leave, Swallow, ReturnTo
  <2> DEFINE n == Len(Stack(p)) - 1
  <2>2. /\ s \in Seq(Frames) /\ Len(s) = n /\ s # <<>>
        /\ \A i \in 1 .. n : s[i].node = Stack(p)[i].node /\ s[i].at = Stack(p)[i].at
                             /\ s[i].entry = Stack(p)[i].entry
    <3>1. CASE s = Upper(p)
      BY <1>2, <3>1, UpperIs
    <3>2. CASE s = UpperEnded(p)
      BY <1>2, <3>2, EmptiedIs
    <3> QED BY <2>1, <3>1, <3>2
  <2>3. /\ IsCall(call[p]) /\ Stack(p) = call[p].stack /\ Len(Stack(p)) \in Nat \ {0}
    BY StackOf
  <2>4. /\ call' = [call EXCEPT ![p] = call'[p]] /\ call'[p] \in Calls /\ call'[p].stack = s
        /\ call'[p].task = call[p].task /\ call'[p].target = call[p].target
    BY <2>1, <2>2, GoesOn
  <2>5. ASSUME NEW i \in 1 .. Len(s) PROVE InPlace(call[p], s[i])
    <3>1. i \in 1 .. n /\ i \in 1 .. Len(Stack(p))
      BY <2>2, <2>3
    <3>2. InPlace(call[p], Stack(p)[i])
      BY <2>3, <3>1 DEF IsCall
    <3> QED BY <2>2, <3>1, <3>2 DEF InPlace
  <2>6. call[p].task # "read"
    BY <1>2, <2>3 DEF IsCall
  <2> QED BY <2>2, <2>4, <2>5, <2>6, CallKept
<1> QED BY <1>1, <1>2

LEMMA WalkStepKeeps ==
  ASSUME WalkInv, Places, NEW p \in Walkers, WalkStep(p)
  PROVE  WalkInv'
<1> DEFINE c == call[p]
           node(name) == Entry(Top(p).node, name)
<1>1. ASSUME NEW target \in DOMAIN tree, NEW task \in {"delete", "list", "read"},
             BeginWalk(p, target, task)
      PROVE  WalkInv'
  <2> DEFINE new == [task |-> task, target |-> target, stack |-> <<Directory(target)>>,
                     before |-> Sought(task, target), found |-> {}]
  <2>1. target \in Seq(STRING) /\ Directory(target) \in Frames
        /\ Directory(target).node = target /\ Directory(target).at = "open"
    BY DirectoryFrame DEF Places, Tree
  <2>2. Sought(task, target) \subseteq Seq(STRING)
    BY DEF Sought, Files, Inside, Directories, Places, Tree
  <2>3. <<Directory(target)>> \in Seq(Frames) /\ Len(<<Directory(target)>>) = 1
    BY <2>1
  <2>4. /\ new.task = task /\ new.target = target /\ new.stack = <<Directory(target)>>
        /\ new \in Calls
    BY <2>1, <2>2, <2>3 DEF Calls
  <2>5. call' = [call EXCEPT ![p] = new]
    BY <1>1 DEF BeginWalk
  <2> HIDE DEF new
  <2>6. InPlace(new, Directory(target))
    BY <2>1, <2>4, LeadsItself DEF InPlace
  <2>7. IsCall(new)
    BY <2>3, <2>4, <2>6 DEF IsCall
  <2> QED BY <2>4, <2>5, <2>7 DEF WalkInv
<1>2. ASSUME NEW refused, InWalk(p, refused) PROVE WalkInv'
  <2>1. call[p] # NoCall
    BY <1>2 DEF InWalk
  <2>2. Top(p) \in Frames /\ InPlace(c, Top(p)) /\ c \in Calls
    BY <2>1, StackOf
  <2>3. Top(p).node \in Seq(STRING) /\ Top(p).left \subseteq Names
    BY <2>2 DEF Frames
  <2>4. CASE OpenDirectory(p, refused)
    <3>1. CASE Now(p, [Top(p) EXCEPT !.at = "next", !.left = Entries(Top(p).node) \ Dots])
      <4>1. Entries(Top(p).node) \ Dots \subseteq Names
        BY EntriesAreNames DEF Places
      <4>2. Follows(c, Top(p), [Top(p) EXCEPT !.at = "next", !.left = Entries(Top(p).node) \ Dots])
        BY <2>2, <4>1 DEF Follows, Frames
      <4> QED BY <2>1, <3>1, <4>2, NowKeeps
    <3>2. CASE Throw(p)
      BY <3>2, CallEnds DEF Throw
    <3>3. CASE Swallow(p)
      BY <2>1, <3>3, ReturnKeeps
    <3> QED BY <2>4, <3>1, <3>2, <3>3 DEF OpenDirectory
  <2>5. CASE DeleteNext(p, refused)
    <3>1. c.task = "delete"
      BY <2>5 DEF DeleteNext
    <3>2. PICK name \in Top(p).left :
            LET top == [Top(p) EXCEPT !.at = "remove", !.left = @ \ {name}, !.entry = name]
            IN Enter(p, top, node(name)) \/ Now(p, top) \/ Throw(p)
      BY <2>5, Zenon DEF DeleteNext
    <3> DEFINE top == [Top(p) EXCEPT !.at = "remove", !.left = @ \ {name}, !.entry = name]
    <3>3. Follows(c, Top(p), top)
      BY <2>2, <2>3, <3>1 DEF Follows, Frames
    <3>4. node(name) \in Seq(STRING) /\ Leads(Top(p).node, node(name))
      BY <2>3, EntryOf
    <3>5. Enter(p, top, node(name)) \/ Now(p, top) \/ Throw(p)
      BY <3>2
    <3> HIDE DEF top, node
    <3>6. CASE Enter(p, top, node(name))
      BY <2>1, <3>1, <3>3, <3>4, <3>6, EnterKeeps
    <3>7. CASE Now(p, top)
      BY <2>1, <3>3, <3>7, NowKeeps
    <3>8. CASE Throw(p)
      BY <3>8, CallEnds DEF Throw
    <3> QED BY <3>5, <3>6, <3>7, <3>8
  <2>6. CASE RemoveEntry(p)
    <3>1. CASE Now(p, [Top(p) EXCEPT !.at = "next", !.entry = NoName])
      <4>1. Follows(c, Top(p), [Top(p) EXCEPT !.at = "next", !.entry = NoName])
        BY <2>2 DEF Follows, Frames
      <4> QED BY <2>1, <3>1, <4>1, NowKeeps
    <3>2. CASE Throw(p)
      BY <3>2, CallEnds DEF Throw
    <3> QED BY <2>6, <3>1, <3>2 DEF RemoveEntry
  <2>7. CASE RemoveDirectory(p)
    <3>1. CASE Leave(p)
      BY <2>1, <3>1, ReturnKeeps
    <3>2. CASE Throw(p)
      BY <3>2, CallEnds DEF Throw
    <3> QED BY <2>7, <3>1, <3>2 DEF RemoveDirectory
  <2>8. CASE ListNext(p, refused)
    <3>1. PICK name \in Top(p).left :
            LET top == [Top(p) EXCEPT !.left = @ \ {name}]
            IN \/ Find(p, node(name), Below(p, top, node(name)))
               \/ Now(p, top)
      BY <2>8 DEF ListNext
    <3> DEFINE top == [Top(p) EXCEPT !.left = @ \ {name}]
    <3>2. c.task # "read" /\ c.task # "delete" /\ Top(p).at = "next"
      BY <2>8 DEF ListNext
    <3>3. Follows(c, Top(p), top)
      BY <2>2, <2>3, <3>2 DEF Follows, Frames
    <3>4. node(name) \in Seq(STRING) /\ Leads(Top(p).node, node(name))
      BY <2>3, EntryOf
    <3>5. \/ Find(p, node(name), Below(p, top, node(name)))
          \/ Now(p, top)
      BY <3>1
    <3> HIDE DEF top, node
    <3>6. CASE Find(p, node(name), Below(p, top, node(name)))
      <4>1. Below(p, top, node(name)) \in Seq(Frames)
        BY <2>1, <3>3, <3>4, BelowIs, DirectoryFrame DEF Follows
      <4>2. /\ call' = [call EXCEPT ![p] = call'[p]] /\ call'[p] \in Calls
            /\ call'[p].stack = Below(p, top, node(name))
            /\ call'[p].task = c.task /\ call'[p].target = c.target
        BY <2>1, <3>4, <3>6, <4>1, FindsMore
      <4> QED BY <2>1, <3>2, <3>3, <3>4, <4>2, BelowKeeps
    <3>7. CASE Now(p, top)
      BY <2>1, <3>3, <3>7, NowKeeps
    <3> QED BY <3>5, <3>6, <3>7
  <2>9. CASE ReadNext(p, refused)
    <3>1. PICK name \in Top(p).left :
            LET top == [Top(p) EXCEPT !.left = @ \ {name}]
            IN \/ Find(p, node(name), <<top>>)
               \/ Now(p, top)
      BY <2>9 DEF ReadNext
    <3> DEFINE top == [Top(p) EXCEPT !.left = @ \ {name}]
    <3>2. c.task = "read" /\ Top(p).at = "next"
      BY <2>9 DEF ReadNext
    <3>3. Follows(c, Top(p), top) /\ top \in Frames
      BY <2>2, <2>3, <3>2 DEF Follows, Frames
    <3>4. node(name) \in Seq(STRING)
      BY <2>3, EntryOf
    <3>5. \/ Find(p, node(name), <<top>>)
          \/ Now(p, top)
      BY <3>1
    <3> HIDE DEF top, node
    <3>6. CASE Find(p, node(name), <<top>>)
      <4>1. <<top>> = WithTop(p, top) /\ <<top>> \in Seq(Frames)
        <5>1. Len(Stack(p)) = 1 /\ Stack(p) \in Seq(Frames)
          BY <2>1, <3>2, StackOf DEF IsCall
        <5>2. /\ WithTop(p, top) \in Seq(Frames) /\ Len(WithTop(p, top)) = 1
              /\ WithTop(p, top)[1] = top
          BY <2>1, <3>3, <5>1, WithTopIs
        <5> QED BY <3>3, <5>2
      <4>2. /\ call' = [call EXCEPT ![p] = call'[p]] /\ call'[p] \in Calls
            /\ call'[p].stack = <<top>>
            /\ call'[p].task = c.task /\ call'[p].target = c.target
        BY <2>1, <3>4, <3>6, <4>1, FindsMore
      <4> QED BY <2>1, <3>3, <4>1, <4>2, TopKeeps
    <3>7. CASE Now(p, top)
      BY <2>1, <3>3, <3>7, NowKeeps
    <3> QED BY <3>5, <3>6, <3>7
  <2>10. CASE ListEnds(p)
    BY <2>1, <2>10, ReturnKeeps DEF ListEnds
  <2> QED BY <1>2, <2>4, <2>5, <2>6, <2>7, <2>8, <2>9, <2>10 DEF InWalk
<1> QED BY <1>1, <1>2 DEF WalkStep

\* A walker's step is about its own call.
LEMMA OwnCall ==
  ASSUME WalkInv, NEW p \in Walkers, WalkStep(p), NEW q \in Walkers \ {p}
  PROVE  call'[q] = call[q]
<1>1. call \in [Walkers -> Calls \cup {NoCall}]
  BY DEF WalkInv
<1>2. ASSUME NEW s, GoOn(p, s) PROVE call'[q] = call[q]
  BY <1>1, <1>2 DEF GoOn
<1>3. ASSUME NEW node, NEW s, Find(p, node, s) PROVE call'[q] = call[q]
  BY <1>1, <1>3 DEF Find
<1>4. ASSUME NEW d, call' = [call EXCEPT ![p] = d] PROVE call'[q] = call[q]
  BY <1>1, <1>4
<1>5. ASSUME NEW top, Now(p, top) PROVE call'[q] = call[q]
  BY <1>2, <1>5 DEF Now
<1>6. ASSUME NEW top, NEW node, Enter(p, top, node) PROVE call'[q] = call[q]
  BY <1>2, <1>6 DEF Enter
<1>7. ASSUME Leave(p) \/ Swallow(p) PROVE call'[q] = call[q]
  BY <1>2, <1>4, <1>7 DEF Leave, Swallow, ReturnTo
<1>8. ASSUME Throw(p) PROVE call'[q] = call[q]
  BY <1>4, <1>8 DEF Throw
<1>9. ASSUME NEW node \in DOMAIN tree, NEW task \in {"delete", "list", "read"}, BeginWalk(p, node, task)
      PROVE  call'[q] = call[q]
  BY <1>4, <1>9 DEF BeginWalk
<1>10. ASSUME NEW refused, OpenDirectory(p, refused) PROVE call'[q] = call[q]
  BY <1>5, <1>7, <1>8, <1>10 DEF OpenDirectory
<1>11. ASSUME NEW refused, DeleteNext(p, refused) PROVE call'[q] = call[q]
  BY <1>5, <1>6, <1>8, <1>11, Zenon DEF DeleteNext
<1>12. ASSUME RemoveEntry(p) \/ RemoveDirectory(p) PROVE call'[q] = call[q]
  BY <1>5, <1>7, <1>8, <1>12, Zenon DEF RemoveEntry, RemoveDirectory
<1>13. ASSUME NEW refused, ListNext(p, refused) \/ ReadNext(p, refused) \/ ListEnds(p) PROVE call'[q] = call[q]
  BY <1>3, <1>5, <1>7, <1>13, Zenon DEF ListNext, ReadNext, ListEnds
<1> QED BY <1>9, <1>10, <1>11, <1>12, <1>13 DEF WalkStep, InWalk

\* What a call removes is in its directory.
LEMMA WalkRemoves ==
  ASSUME WalkInv, Places, NEW p \in Walkers, WalkStep(p), NEW n \in GoneNodes
  PROVE  call[p].task = "delete" /\ Leads(call[p].target, n)
<1>1. tree' # tree
  BY DEF GoneNodes
<1>2. call[p] # NoCall /\ (RemoveEntry(p) \/ RemoveDirectory(p))
  BY <1>1, Zenon DEF WalkStep, InWalk, BeginWalk, OpenDirectory, DeleteNext, ListNext, ReadNext, ListEnds
<1>3. /\ call[p] \in Calls /\ Top(p) \in Frames /\ InPlace(call[p], Top(p))
  BY <1>2, StackOf
<1>4. /\ call[p].target \in Seq(STRING) /\ Top(p).node \in Seq(STRING)
      /\ Leads(call[p].target, Top(p).node)
  BY <1>3 DEF Calls, Frames, InPlace
<1>5. ASSUME NEW node, Removes(p, node) PROVE n = node
  BY <1>5 DEF Removes, Without, GoneNodes
<1>6. CASE RemoveEntry(p)
  <2>1. Top(p).at = "remove" /\ Removes(p, Entry(Top(p).node, Top(p).entry))
    BY <1>1, <1>6 DEF RemoveEntry, Throw
  <2>2. call[p].task = "delete" /\ Top(p).entry \in Names
    BY <1>3, <2>1 DEF InPlace
  <2>3. /\ Entry(Top(p).node, Top(p).entry) \in Seq(STRING)
        /\ Leads(Top(p).node, Entry(Top(p).node, Top(p).entry))
    BY <1>4, <2>2, EntryOf
  <2>4. Leads(call[p].target, Entry(Top(p).node, Top(p).entry))
    BY <1>4, <2>3, LeadsOn
  <2> QED BY <1>5, <2>1, <2>2, <2>4
<1>7. CASE RemoveDirectory(p)
  <2>1. call[p].task = "delete" /\ Removes(p, Top(p).node)
    BY <1>1, <1>7 DEF RemoveDirectory, Throw
  <2> QED BY <1>4, <1>5, <2>1
<1> QED BY <1>2, <1>6, <1>7

LEMMA WalkBegins == InitFiles => WalkInv
<1> SUFFICES ASSUME InitFiles PROVE WalkInv
  OBVIOUS
<1>1. call = [p \in Walkers |-> NoCall]
  BY DEF InitFiles, InitWalk
<1> QED BY <1>1 DEF WalkInv

\* Whose step it is, and what the walkers see of it.
LEMMA WhoseStep ==
  ASSUME [NextOf(Processes \cup Walkers)]_filesVars
  PROVE  \/ UNCHANGED <<tree, call, meddled>>
         \/ UNCHANGED call /\ Meddle({}, {})
         \/ \E p \in Walkers : WalkStep(p)
<1>1. ASSUME NEW p, FileStep(p) PROVE UNCHANGED call /\ Meddle({}, {})
  BY <1>1 DEF FileStep
<1>2. ASSUME NEW p, PlainStep(p) PROVE UNCHANGED call /\ Meddle({}, {})
  BY <1>2 DEF PlainStep
<1>3. ASSUME NEW p, UffStep(p)
      PROVE  UNCHANGED <<tree, call, meddled>> \/ (UNCHANGED call /\ Meddle({}, {}))
  BY <1>3 DEF UffStep, WriteUff, vars, walkVars
<1>4. ASSUME NEW node, RemovedByOthers(node) PROVE UNCHANGED call /\ Meddle({}, {})
  BY <1>4 DEF RemovedByOthers
<1>5. CASE UNCHANGED filesVars
  BY <1>5 DEF filesVars, vars, walkVars
<1> QED BY <1>1, <1>2, <1>3, <1>4, <1>5, Zenon DEF NextOf

LEMMA WalkNext == WalkInv /\ Places /\ [NextOf(Processes \cup Walkers)]_filesVars => WalkInv'
<1> SUFFICES ASSUME WalkInv, Places, [NextOf(Processes \cup Walkers)]_filesVars PROVE WalkInv'
  OBVIOUS
<1>1. CASE UNCHANGED call
  BY <1>1 DEF WalkInv
<1>2. CASE \E p \in Walkers : WalkStep(p)
  BY <1>2, WalkStepKeeps
<1> QED BY <1>1, <1>2, WhoseStep

(* For any tree, with whatever others make and remove in it meanwhile: a   *)
(* call of deleteFilesRecursive removes nothing but its directory and what *)
(* is below it, and no other call removes anything.                        *)
THEOREM NothingOutsideIsDeleted == SpecFiles => DeletesInside
  <1>1. WalkInv /\ Places /\ [NextOf(Processes \cup Walkers)]_filesVars =>
          [\A p \in Walkers, n \in GoneNodes :
             call'[p] # call[p] => call[p].task = "delete" /\ Leads(call[p].target, n)]_<<vars, walkVars>>
    <2> SUFFICES ASSUME WalkInv, Places, [NextOf(Processes \cup Walkers)]_filesVars,
                        NEW p \in Walkers, NEW n \in GoneNodes, call'[p] # call[p]
                 PROVE  call[p].task = "delete" /\ Leads(call[p].target, n)
      OBVIOUS
    <2>1. PICK q \in Walkers : WalkStep(q)
      BY WhoseStep
    <2>2. q = p
      BY <2>1, OwnCall
    <2> QED BY <2>1, <2>2, WalkRemoves
  <1> QED
    BY <1>1, FilesBegin, FilesKeep, PlacesBegin, PlacesKept, WalkBegins, WalkNext, PTL
       DEF SpecFiles, DeletesInside

-----------------------------------------------------------------------------
(* What the others do to the tree around a call.                           *)

PlainTree == DOMAIN tree \subseteq Seq(Names)

LEMMA PlainName ==
  ASSUME NEW f \in FileNames
  PROVE  /\ f \in Seq(Names) /\ NodeOf(f) \in Seq(Names)
         /\ \A k \in 0 .. Len(f) : NodeOf(FirstNames(f, k)) \in Seq(Names)
<1>1. f \in Seq(STRING)
  BY FileName
<1>2. \A i \in 1 .. Len(f) : f[i] \in Names
  BY <1>1, DirectoryWalkAssumption DEF Names, Dots
<1>3. f \in Seq(Names)
  BY <1>1, <1>2
<1>4. NodeOf(f) \in Seq(Names)
  BY <1>3, NodeOfNames
<1>5. ASSUME NEW k \in 0 .. Len(f) PROVE NodeOf(FirstNames(f, k)) \in Seq(Names)
  <2>1. FirstNames(f, k) \in Seq(Names)
    BY <1>3, FirstNamesOf
  <2> QED BY <2>1, NodeOfNames
<1> QED BY <1>3, <1>4, <1>5

\* A node comes, or becomes what it is, or goes.
Comes(node) ==
  \E kind \in {"dir", "file"} :
     /\ node # <<>> /\ KindOf(tree, node) \in {"missing", kind}
     /\ tree' = With(tree, node, kind)
Goes(node) == MayRemove(tree, node) /\ tree' = Without(tree, node)

LEMMA FileComes ==
  ASSUME Places, NEW f \in FileNames, MayOpen(tree, f), tree' = With(tree, NodeOf(f), "file")
  PROVE  \E node \in Seq(Names) : Comes(node)
<1>1. NodeOf(f) # <<>> /\ NodeOf(f) \in Seq(Names)
  BY OpenedTree, PlainName DEF Places
<1>2. KindOf(tree, NodeOf(f)) \in {"missing", "file"}
  BY KindsOf DEF MayOpen, Places
<1> QED BY <1>1, <1>2 DEF Comes

LEMMA DirectoryComes ==
  ASSUME Places, NEW p \in Processes, pc[p] \in {"mkdir", "again"}, Made(p)
  PROVE  \E node \in Seq(Names) : Comes(node)
<1>1. /\ Here(p) # <<>> /\ KindOf(tree, Here(p)) = "missing" /\ tree' = With(tree, Here(p), "dir")
  BY MadeTree DEF Made
<1>2. /\ path[p] \in FileNames /\ level[p] \in 1 .. Len(path[p]) - 1
      /\ Here(p) = NodeOf(FirstNames(path[p], level[p]))
  BY HereIsNode
<1>3. level[p] \in 0 .. Len(path[p])
  BY <1>2, FileName
<1>4. Here(p) \in Seq(Names)
  BY <1>2, <1>3, PlainName
<1> QED BY <1>1, <1>4 DEF Comes

LEMMA TreeChange ==
  ASSUME IInv, Places, [NextOf(Processes \cup Walkers)]_filesVars
  PROVE  \/ tree' = tree
         \/ \E node \in Seq(Names) : Comes(node)
         \/ \E node : Goes(node)
<1> DEFINE Changes == \/ tree' = tree
                      \/ \E node \in Seq(Names) : Comes(node)
                      \/ \E node : Goes(node)
<1>1. ASSUME NEW p \in Processes, FileStep(p) PROVE Changes
  <2>1. CASE \E f \in FileNames : UpdateFilename(p, f)
    BY <2>1 DEF UpdateFilename, OpenFile
  <2>2. CASE FirstAttempt(p) \/ SecondAttempt(p)
    <3>1. (pc[p] \in {"mkdir", "again"} /\ Made(p)) \/ tree' = tree
      BY <2>2 DEF FirstAttempt, SecondAttempt, Descend, Refused
    <3> QED BY <3>1, DirectoryComes
  <2>3. CASE IsDirExist(p)
    BY <2>3 DEF IsDirExist
  <2>4. CASE Open(p)
    <3>1. path[p] \in FileNames
      BY <2>4 DEF Open, Places
    <3>2. tree' = tree \/ (MayOpen(tree, path[p]) /\ tree' = With(tree, NodeOf(path[p]), "file"))
      BY <2>4 DEF Open, Opened, NotOpened
    <3> QED BY <3>1, <3>2, FileComes
  <2> QED BY <1>1, <2>1, <2>2, <2>3, <2>4 DEF FileStep, InCall
<1>2. ASSUME NEW p \in Processes, ClearFile(p) PROVE Changes
  <2>1. CASE /\ filename[p] # NoFile /\ MayOpen(tree, filename[p])
             /\ tree' = With(tree, NodeOf(filename[p]), "file")
    <3>1. filename[p] \in FileNames
      BY <2>1 DEF IInv, Members
    <3> QED BY <2>1, <3>1, FileComes
  <2> QED BY <1>2, <2>1 DEF ClearFile
<1>3. ASSUME NEW p \in Processes, PlainStep(p) \/ UffStep(p) PROVE Changes
  BY <1>2, <1>3 DEF PlainStep, CloseFile, UffStep, ClearUff, WriteUff, vars
<1>4. ASSUME NEW p \in Walkers, WalkStep(p) PROVE Changes
  BY <1>4, WalkTree DEF Goes
<1>5. ASSUME NEW node, RemovedByOthers(node) PROVE Changes
  BY <1>5 DEF RemovedByOthers, Remove, Goes
<1>6. Appending \subseteq Processes /\ Uffs \subseteq Processes
  BY OutputFileAssumption, Zenon DEF Uffs
<1>7. ASSUME UNCHANGED filesVars PROVE Changes
  BY <1>7 DEF filesVars, vars
<1> HIDE DEF Changes
<1>8. Changes
  BY <1>1, <1>3, <1>4, <1>5, <1>6, <1>7 DEF NextOf
<1> QED BY <1>8 DEF Changes

\* What is there stays what it is, and new names are plain.
LEMMA TreeKeeps ==
  ASSUME IInv, Places, PlainTree, [NextOf(Processes \cup Walkers)]_filesVars
  PROVE  /\ PlainTree'
         /\ \A n \in DOMAIN tree : n \in DOMAIN tree' => tree'[n] = tree[n]
<1>1. CASE tree' = tree
  BY <1>1 DEF PlainTree
<1>2. ASSUME NEW node \in Seq(Names), Comes(node)
      PROVE  PlainTree' /\ \A n \in DOMAIN tree : n \in DOMAIN tree' => tree'[n] = tree[n]
  <2>1. PICK kind \in {"dir", "file"} : /\ node # <<>> /\ KindOf(tree, node) \in {"missing", kind}
                                        /\ tree' = With(tree, node, kind)
    BY <1>2 DEF Comes
  <2>2. DOMAIN tree' = DOMAIN tree \cup {node}
        /\ \A n \in DOMAIN tree' : tree'[n] = IF n = node THEN kind ELSE tree[n]
    BY <2>1 DEF With
  <2>3. node \in DOMAIN tree => tree[node] = kind
    BY <2>1 DEF KindOf, Places, Tree
  <2> QED BY <2>2, <2>3 DEF PlainTree
<1>3. ASSUME NEW node, Goes(node)
      PROVE  PlainTree' /\ \A n \in DOMAIN tree : n \in DOMAIN tree' => tree'[n] = tree[n]
  <2>1. DOMAIN tree' = DOMAIN tree \ {node} /\ \A n \in DOMAIN tree' : tree'[n] = tree[n]
    BY <1>3 DEF Goes, Without
  <2> QED BY <2>1 DEF PlainTree
<1> QED BY <1>1, <1>2, <1>3, TreeChange

LEMMA PlainBegins == InitFiles => PlainTree
<1> SUFFICES ASSUME InitFiles PROVE PlainTree
  OBVIOUS
<1>1. tree = [n \in {} |-> "dir"]
  BY DEF InitFiles, Init
<1> QED BY <1>1 DEF PlainTree

\* While a call has not seen anything removed, nothing is below its directory
\* that was there before, and likewise for what is made.
LEMMA OthersSeen ==
  ASSUME WalkInv, NEW p \in Walkers, call[p] # NoCall, ~WalkStep(p),
         [NextOf(Processes \cup Walkers)]_filesVars
  PROVE  /\ call'[p] = call[p] /\ meddled[p] \subseteq meddled'[p]
         /\ "removed" \in meddled'[p]
            \/ \A n \in DOMAIN tree : Leads(call[p].target, n) => n \in DOMAIN tree'
         /\ "made" \in meddled'[p]
            \/ \A n \in DOMAIN tree' : Leads(call[p].target, n) => n \in DOMAIN tree
<1>1. CASE UNCHANGED <<tree, call, meddled>>
  BY <1>1
<1>2. ASSUME NEW others, NEW marks, p \notin others, Meddle(others, marks), call'[p] = call[p]
      PROVE  /\ meddled[p] \subseteq meddled'[p]
             /\ "removed" \in meddled'[p]
                \/ \A n \in DOMAIN tree : Leads(call[p].target, n) => n \in DOMAIN tree'
             /\ "made" \in meddled'[p]
                \/ \A n \in DOMAIN tree' : Leads(call[p].target, n) => n \in DOMAIN tree
  <2> DEFINE near(nodes) == \E n \in nodes : Leads(n, call[p].target) \/ Leads(call[p].target, n)
  <2>1. meddled'[p] = meddled[p] \cup {w \in {"made"} : near(NewNodes)}
                                 \cup {w \in {"removed"} : near(GoneNodes)}
    BY <1>2 DEF Meddle
  <2>2. near(GoneNodes) \/ \A n \in DOMAIN tree : Leads(call[p].target, n) => n \in DOMAIN tree'
    BY DEF GoneNodes
  <2>3. near(NewNodes) \/ \A n \in DOMAIN tree' : Leads(call[p].target, n) => n \in DOMAIN tree
    BY DEF NewNodes
  <2> HIDE DEF near
  <2> QED BY <2>1, <2>2, <2>3
<1>3. CASE UNCHANGED call /\ Meddle({}, {})
  BY <1>2, <1>3
<1>4. ASSUME NEW q \in Walkers, WalkStep(q)
      PROVE  call'[p] = call[p] /\ p \notin {q} /\ \E marks : Meddle({q}, marks)
  <2>1. \E marks : Meddle({q}, marks)
    BY <1>4, Zenon DEF WalkStep
  <2> QED BY <1>4, <2>1, OwnCall
<1>5. CASE \E q \in Walkers : WalkStep(q)
  BY <1>2, <1>4, <1>5
<1> QED BY <1>1, <1>3, <1>5, WhoseStep

-----------------------------------------------------------------------------
(* The nodes below a directory.                                            *)

LEMMA InsideIsEntry ==
  ASSUME Tree(tree), PlainTree, NEW node \in Seq(STRING), NEW n \in Inside(node)
  PROVE  n[Len(n)] \in Names /\ n = Entry(node, n[Len(n)])
<1>1. /\ n \in DOMAIN tree /\ Leads(node, n) /\ Len(n) = Len(node) + 1
      /\ n \in Seq(Names) /\ n \in Seq(STRING) /\ Len(node) \in Nat
  BY DEF Inside, Tree, PlainTree
<1>2. n[Len(n)] \in Names
  BY <1>1
<1> DEFINE e == Entry(node, n[Len(n)])
<1>3. /\ e \in Seq(STRING) /\ Len(e) = Len(node) + 1 /\ e[Len(node) + 1] = n[Len(n)]
      /\ FirstNames(e, Len(node)) = node
  BY <1>2, EntryOf
<1> HIDE DEF e
<1>4. FirstNames(n, Len(node)) = node
  BY <1>1 DEF Leads
<1>5. ASSUME NEW i \in 1 .. Len(n) PROVE n[i] = e[i]
  <2>1. CASE i = Len(n)
    BY <1>1, <1>3, <2>1
  <2>2. CASE i # Len(n)
    <3>1. i \in 1 .. Len(node) /\ Len(node) \in 0 .. Len(n) /\ Len(node) \in 0 .. Len(e)
      BY <1>1, <1>3, <2>2
    <3>2. FirstNames(n, Len(node))[i] = n[i]
      <4>1. n \in Seq(STRING)
        BY <1>1
      <4> QED BY ONLY <3>1, <4>1, FirstNamesOf, SMTT(30)
    <3>3. FirstNames(e, Len(node))[i] = e[i]
      BY <1>3, <3>1, FirstNamesOf
    <3> QED BY <1>3, <1>4, <3>2, <3>3
  <2> QED BY <2>1, <2>2
<1>6. n = e
  BY <1>1, <1>3, <1>5
<1> QED BY <1>2, <1>6 DEF e

LEMMA AllNames ==
  ASSUME NEW s \in Seq(STRING)
  PROVE  FirstNames(s, Len(s)) = s
<1>1. Len(s) \in 0 .. Len(s)
  OBVIOUS
<1>2. /\ FirstNames(s, Len(s)) \in Seq(STRING) /\ Len(FirstNames(s, Len(s))) = Len(s)
      /\ \A i \in 1 .. Len(s) : FirstNames(s, Len(s))[i] = s[i]
  BY <1>1, FirstNamesOf
<1> QED BY <1>2

\* Who is below a directory is in it, or below a directory in it.
LEMMA StepDown ==
  ASSUME Tree(tree), NEW node \in Seq(STRING), NEW n \in DOMAIN tree, Leads(node, n), n # node
  PROVE  \E m \in Inside(node) : Leads(m, n) /\ (m # n => tree[m] = "dir")
<1>1. n \in Seq(STRING) /\ Len(n) \in Nat /\ Len(node) \in Nat /\ Above(tree, n) \subseteq {"dir"}
  BY DEF Tree
<1>2. Len(node) <= Len(n) /\ FirstNames(n, Len(node)) = node
  BY DEF Leads
<1>3. Len(node) # Len(n)
  BY <1>1, <1>2, AllNames
<1> DEFINE k == Len(node) + 1
           m == FirstNames(n, k)
<1>4. k \in 1 .. Len(n) /\ k \in 0 .. Len(n) /\ Len(node) \in 0 .. k
  BY <1>1, <1>2, <1>3
<1> HIDE DEF k
<1>5. /\ m \in Seq(STRING) /\ Len(m) = k /\ m # <<>>
      /\ FirstNames(m, Len(node)) = FirstNames(n, Len(node))
  BY <1>1, <1>4, FirstNamesOf
<1> HIDE DEF m
<1>6. Leads(node, m) /\ Leads(m, n)
  BY <1>1, <1>2, <1>4, <1>5 DEF Leads, m
<1>7. m # n => m \in DOMAIN tree /\ tree[m] = "dir"
  <2>1. ASSUME m # n PROVE k \in 1 .. Len(n) - 1
    <3>1. k # Len(n)
      <4>1. ASSUME k = Len(n) PROVE m = n
        <5>1. \A i \in 1 .. Len(n) : m[i] = n[i]
          BY <1>1, <1>4, <4>1, FirstNamesOf DEF m
        <5> QED BY <1>1, <1>5, <4>1, <5>1, SMTT(30)
      <4> QED BY <2>1, <4>1
    <3> QED BY <1>1, <1>4, <3>1
  <2>2. m # n => KindOf(tree, m) = "dir"
    BY <1>1, <2>1 DEF Above, m
  <2> QED BY <1>5, <2>2 DEF KindOf
<1>8. m \in Inside(node)
  BY <1>5, <1>6, <1>7 DEF Inside, k
<1> QED BY <1>6, <1>7, <1>8

\* Nothing is below a file.
LEMMA NothingBelow ==
  ASSUME Tree(tree), NEW node \in DOMAIN tree, NEW n \in DOMAIN tree, Leads(node, n), n # node
  PROVE  tree[node] = "dir"
<1>1. /\ n \in Seq(STRING) /\ node \in Seq(STRING) /\ node # <<>>
      /\ Len(n) \in Nat /\ Len(node) \in Nat \ {0} /\ Above(tree, n) \subseteq {"dir"}
  BY DEF Tree
<1>2. Len(node) <= Len(n) /\ FirstNames(n, Len(node)) = node
  BY DEF Leads
<1>3. Len(node) # Len(n)
  BY <1>1, <1>2, AllNames
<1>4. KindOf(tree, node) \in Above(tree, n)
  BY <1>1, <1>2, <1>3 DEF Above
<1> QED BY <1>1, <1>4 DEF KindOf

-----------------------------------------------------------------------------
(* deleteFilesRecursive in a directory of files that nobody meddles with.  *)

\* The names that are still to be removed.
Known(frame) == frame.left \cup {name \in {frame.entry} : frame.at = "remove"}

NamesIn(node) == {n[Len(n)] : n \in Inside(node)}

GoodDelete(p) ==
  /\ Len(Stack(p)) = 1 /\ Top(p).node = call[p].target
  /\ call[p].target \in DOMAIN tree /\ tree[call[p].target] = "dir"
  /\ \A n \in DOMAIN tree : Leads(call[p].target, n) /\ n # call[p].target => tree[n] = "file"
  /\ Top(p).at # "open" => Known(Top(p)) = NamesIn(call[p].target)
  /\ Top(p).at = "remove" => Top(p).entry \notin Top(p).left

DeleteInv ==
  \A p \in Walkers :
    call[p].task = "delete" /\ call[p].before = {} /\ meddled[p] = {} => GoodDelete(p)

\* What is below a directory stays, and nothing else comes.
LEMMA DeleteBeside ==
  ASSUME Tree(tree), Tree(tree'), NEW p \in Walkers, GoodDelete(p), call'[p] = call[p],
         call[p].target \in Seq(STRING),
         \A n \in DOMAIN tree : n \in DOMAIN tree' => tree'[n] = tree[n],
         \A n \in DOMAIN tree : Leads(call[p].target, n) => n \in DOMAIN tree',
         \A n \in DOMAIN tree' : Leads(call[p].target, n) => n \in DOMAIN tree
  PROVE  GoodDelete(p)'
<1> DEFINE target == call[p].target
<1>1. Leads(target, target)
  BY LeadsItself
<1>2. NamesIn(target)' = NamesIn(target)
  BY DEF NamesIn, Inside
<1>3. Stack(p)' = Stack(p) /\ Top(p)' = Top(p)
  BY DEF Stack, Top
<1> QED BY <1>1, <1>2, <1>3 DEF GoodDelete

LEMMA NowTop ==
  ASSUME WalkInv, NEW p \in Walkers, call[p] # NoCall, NEW top \in Frames, Now(p, top)
  PROVE  /\ call'[p] # NoCall /\ Top(p)' = top /\ Len(Stack(p))' = Len(Stack(p))
         /\ call'[p].task = call[p].task /\ call'[p].target = call[p].target
         /\ call'[p].before = call[p].before /\ call'[p].found = call[p].found
<1>1. /\ WithTop(p, top) \in Seq(Frames) /\ Len(WithTop(p, top)) = Len(Stack(p))
      /\ WithTop(p, top)[Len(Stack(p))] = top
  BY WithTopIs
<1>2. /\ call'[p] # NoCall /\ call'[p].stack = WithTop(p, top)
      /\ call'[p].task = call[p].task /\ call'[p].target = call[p].target
      /\ call'[p].before = call[p].before /\ call'[p].found = call[p].found
  BY <1>1, GoesOn DEF Now
<1>3. Stack(p)' = WithTop(p, top)
  BY <1>2 DEF Stack
<1>4. Top(p)' = Stack(p)'[Len(Stack(p)')]
  BY DEF Top
<1> QED BY <1>1, <1>2, <1>3, <1>4

\* A step that only moves on, or finds something, is of the same call.
LEMMA MovesOn ==
  ASSUME WalkInv, NEW p \in Walkers, call[p] # NoCall,
         NEW s, NEW node, GoOn(p, s) \/ Find(p, node, s)
  PROVE  /\ call'[p].task = call[p].task /\ call'[p].target = call[p].target
         /\ call'[p].before = call[p].before
         /\ call'[p] # NoCall
<1>1. call[p] \in Calls /\ p \in DOMAIN call
  BY StackOf DEF WalkInv
<1>2. call[p].task # "none"
  BY <1>1 DEF Calls
<1>3. CASE GoOn(p, s)
  <2>1. /\ call'[p].task = call[p].task /\ call'[p].target = call[p].target
        /\ call'[p].before = call[p].before
    BY <1>1, <1>3 DEF GoOn, Calls
  <2> QED BY <1>2, <2>1, NoCallIsNone
<1>4. CASE Find(p, node, s)
  <2> DEFINE more == [call[p] EXCEPT !.found = call[p].found \cup {node}]
  <2>1. call' = [[call EXCEPT ![p] = more] EXCEPT ![p] = [[call EXCEPT ![p] = more][p] EXCEPT !.stack = s]]
    BY <1>4 DEF Find
  <2>2. more.task = call[p].task /\ more.target = call[p].target /\ more.before = call[p].before
        /\ DOMAIN more = DOMAIN call[p]
    BY <1>1 DEF Calls
  <2> HIDE DEF more
  <2>3. call'[p] = [more EXCEPT !.stack = s]
    BY <1>1, <2>1
  <2>4. {"task", "target", "before"} \subseteq DOMAIN call[p]
    BY <1>1 DEF Calls
  <2>5. /\ call'[p].task = call[p].task /\ call'[p].target = call[p].target
        /\ call'[p].before = call[p].before
    BY <2>2, <2>3, <2>4
  <2> QED BY <1>2, <2>5, NoCallIsNone
<1> QED BY <1>3, <1>4

\* In a step of a call that goes on.
LEMMA SameCall ==
  ASSUME WalkInv, NEW p \in Walkers, NEW refused, InWalk(p, refused), call'[p] # NoCall
  PROVE  /\ call'[p].task = call[p].task /\ call'[p].target = call[p].target
         /\ call'[p].before = call[p].before
<1> DEFINE Same == /\ call'[p].task = call[p].task /\ call'[p].target = call[p].target
                   /\ call'[p].before = call[p].before
<1>1. call[p] # NoCall /\ p \in DOMAIN call
  BY DEF WalkInv, InWalk
<1>2. ASSUME NEW s, GoOn(p, s) PROVE Same
  BY <1>1, <1>2, MovesOn
<1>3. ASSUME NEW node, NEW s, Find(p, node, s) PROVE Same
  BY <1>1, <1>3, MovesOn
<1>4. call' # [call EXCEPT ![p] = NoCall]
  BY <1>1
<1> HIDE DEF Same
<1>5. ASSUME NEW top, Now(p, top) PROVE Same
  BY <1>2, <1>5 DEF Now
<1>6. ASSUME NEW top, NEW node, Enter(p, top, node) PROVE Same
  BY <1>2, <1>6 DEF Enter
<1>7. ASSUME Leave(p) \/ Swallow(p) PROVE Same
  BY <1>2, <1>4, <1>7 DEF Leave, Swallow, ReturnTo
<1>8. ~Throw(p)
  BY <1>4 DEF Throw
<1>9. ASSUME OpenDirectory(p, refused) PROVE Same
  BY <1>5, <1>7, <1>8, <1>9 DEF OpenDirectory
<1>10. ASSUME DeleteNext(p, refused) PROVE Same
  BY <1>5, <1>6, <1>8, <1>10, Zenon DEF DeleteNext
<1>11. ASSUME RemoveEntry(p) \/ RemoveDirectory(p) PROVE Same
  BY <1>5, <1>7, <1>8, <1>11, Zenon DEF RemoveEntry, RemoveDirectory
<1>12. ASSUME ListNext(p, refused) \/ ReadNext(p, refused) \/ ListEnds(p) PROVE Same
  BY <1>3, <1>5, <1>7, <1>12, Zenon DEF ListNext, ReadNext, ListEnds
<1>13. Same
  BY <1>9, <1>10, <1>11, <1>12 DEF InWalk
<1> QED BY <1>13 DEF Same

\* When nothing has been refused, nothing was in this step.
LEMMA Unrefused ==
  ASSUME NEW p \in Walkers, WalkStep(p), call'[p] # NoCall, "refused" \notin meddled'[p]
  PROVE  /\ \/ \E node \in DOMAIN tree, task \in {"delete", "list", "read"} : BeginWalk(p, node, task)
            \/ InWalk(p, FALSE)
         /\ meddled'[p] = meddled[p]
<1>1. ASSUME NEW marks, Meddle({p}, marks) PROVE meddled'[p] = meddled[p] \cup marks
  BY <1>1 DEF Meddle
<1>2. ASSUME Meddle({p}, {}) PROVE meddled'[p] = meddled[p]
  BY <1>1, <1>2
<1>3. ~Meddle({p}, {"refused"})
  BY <1>1
<1> QED BY <1>2, <1>3, Zenon DEF WalkStep

\* Then an entry that is there is taken for what it is.
LEMMA TakenAsIs ==
  ASSUME NEW node, KindOf(tree, node) # "missing"
  PROVE  Taken(node, FALSE) = {KindOf(tree, node)}
  BY DEF Taken

\* What a good delete knows of an entry.
LEMMA KnownEntry ==
  ASSUME Tree(tree), PlainTree, WalkInv, NEW p \in Walkers, call[p] # NoCall, GoodDelete(p),
         Top(p).at # "open", NEW name \in Known(Top(p))
  PROVE  LET node == Entry(Top(p).node, name)
         IN /\ node \in Inside(call[p].target) /\ KindOf(tree, node) = "file"
            /\ MayRemove(tree, node) /\ name \in Names
<1>1. /\ Top(p).node = call[p].target /\ Known(Top(p)) = NamesIn(call[p].target)
      /\ call[p].target \in Seq(STRING)
      /\ \A n \in DOMAIN tree : Leads(call[p].target, n) /\ n # call[p].target => tree[n] = "file"
  BY StackOf DEF GoodDelete, Calls
<1>2. PICK n \in Inside(call[p].target) : name = n[Len(n)]
  BY <1>1 DEF NamesIn
<1>3. n = Entry(Top(p).node, name) /\ name \in Names
  BY <1>1, <1>2, InsideIsEntry
<1>4. n \in DOMAIN tree /\ Leads(call[p].target, n) /\ n # call[p].target /\ n # <<>>
  BY <1>1 DEF Inside, Tree
<1>5. tree[n] = "file" /\ KindOf(tree, n) = "file"
  BY <1>1, <1>4 DEF KindOf
<1>6. MayRemove(tree, n)
  BY <1>4, <1>5, NothingBelow DEF MayRemove
<1> QED BY <1>2, <1>3, <1>5, <1>6

LEMMA DeleteBegins ==
  ASSUME Places, WalkInv, NEW p \in Walkers, NEW node \in DOMAIN tree,
         NEW task \in {"delete", "list", "read"}, BeginWalk(p, node, task),
         call'[p].task = "delete", call'[p].before = {}
  PROVE  GoodDelete(p)'
<1> DEFINE new == [task |-> task, target |-> node, stack |-> <<Directory(node)>>,
                   before |-> Sought(task, node), found |-> {}]
<1>1. call' = [call EXCEPT ![p] = new] /\ KindOf(tree, node) = "dir" /\ tree' = tree
  BY DEF BeginWalk
<1>2. call'[p] = new
  BY <1>1 DEF WalkInv
<1>3. task = "delete" /\ Directories(node) = {}
  BY <1>2 DEF Sought
<1>4. Stack(p)' = <<Directory(node)>> /\ call'[p].target = node
  BY <1>2 DEF Stack
<1>5. Top(p)' = Directory(node) /\ Len(Stack(p))' = 1
  BY <1>4 DEF Top
<1>6. Directory(node).node = node /\ Directory(node).at = "open"
  BY DEF Directory
<1>7. tree[node] = "dir"
  BY <1>1 DEF KindOf, Places, Tree
<1>8. \A n \in DOMAIN tree : Leads(node, n) /\ n # node => tree[n] = "file"
  BY <1>3 DEF Directories, Places, Tree
<1> QED BY <1>1, <1>4, <1>5, <1>6, <1>7, <1>8 DEF GoodDelete

LEMMA DeleteGoesOn ==
  ASSUME Places, PlainTree, WalkInv, NEW p \in Walkers, InWalk(p, FALSE), call'[p] # NoCall,
         call[p].task = "delete", GoodDelete(p)
  PROVE  GoodDelete(p)'
<1> DEFINE target == call[p].target
<1>1. /\ call[p] # NoCall /\ call'[p].target = target /\ target \in Seq(STRING) /\ Tree(tree)
      /\ Top(p) \in Frames /\ Len(Stack(p)) = 1 /\ Top(p).node = target
      /\ target \in DOMAIN tree /\ tree[target] = "dir" /\ target # <<>>
  <2>1. call[p] # NoCall
    BY DEF InWalk
  <2>2. call'[p].target = target
    BY SameCall
  <2> QED BY <2>1, <2>2, StackOf DEF GoodDelete, Calls, Places, Tree
<1>2. KindOf(tree, target) = "dir"
  BY <1>1 DEF KindOf
<1>3. call' # [call EXCEPT ![p] = NoCall]
  BY DEF WalkInv
<1>4. CASE OpenDirectory(p, FALSE)
  <2> DEFINE top == [Top(p) EXCEPT !.at = "next", !.left = Entries(target) \ Dots]
  <2>1. Now(p, top)
    BY <1>1, <1>2, <1>4 DEF OpenDirectory
  <2>2. top \in Frames /\ top.at = "next" /\ top.node = target /\ top.left = Entries(target) \ Dots
    BY <1>1, EntriesAreNames DEF Frames
  <2>3. Known(top) = Entries(target) \ Dots
    BY <2>2 DEF Known
  <2>4. Entries(target) \ Dots = NamesIn(target)
    <3>1. NamesIn(target) \subseteq Names
      BY <1>1, InsideIsEntry DEF NamesIn
    <3>2. Entries(target) = Dots \cup NamesIn(target)
      BY DEF Entries, NamesIn, Dots
    <3> QED BY <3>1, <3>2 DEF Names
  <2>5. UNCHANGED tree
    BY <1>4 DEF OpenDirectory
  <2> HIDE DEF top
  <2>6. Top(p)' = top /\ Len(Stack(p))' = 1
    BY <1>1, <2>1, <2>2, NowTop
  <2>7. NamesIn(target)' = NamesIn(target)
    BY <1>1, <2>5 DEF NamesIn, Inside
  <2> QED BY <1>1, <2>2, <2>3, <2>4, <2>5, <2>6, <2>7 DEF GoodDelete
<1>5. CASE DeleteNext(p, FALSE)
  <2>1. PICK name \in Top(p).left :
          LET node == Entry(Top(p).node, name)
              kinds == Taken(node, FALSE)
              top == [Top(p) EXCEPT !.at = "remove", !.left = @ \ {name}, !.entry = name]
          IN \/ "dir" \in kinds /\ Enter(p, top, node)
             \/ "file" \in kinds /\ Now(p, top)
             \/ "neither" \in kinds /\ Throw(p)
    BY <1>5, Zenon DEF DeleteNext
  <2>2. Top(p).at = "next" /\ UNCHANGED tree
    BY <1>5 DEF DeleteNext
  <2>3. name \in Known(Top(p)) /\ Known(Top(p)) = Top(p).left
    BY <2>2 DEF Known
  <2>4. KindOf(tree, Entry(Top(p).node, name)) = "file" /\ name \in Names
    BY <1>1, <2>2, <2>3, KnownEntry
  <2> DEFINE top == [Top(p) EXCEPT !.at = "remove", !.left = @ \ {name}, !.entry = name]
  <2>5. Now(p, top)
    <3>1. Taken(Entry(Top(p).node, name), FALSE) = {"file"}
      BY <2>4, TakenAsIs
    <3> QED BY <2>1, <3>1
  <2>6. /\ top \in Frames /\ top.at = "remove" /\ top.left = Top(p).left \ {name}
        /\ top.entry = name /\ top.node = Top(p).node
    BY <1>1, <2>4 DEF Frames
  <2> HIDE DEF top
  <2>7. Known(top) = Known(Top(p))
    BY <2>3, <2>6 DEF Known
  <2>8. Top(p)' = top /\ Len(Stack(p))' = 1
    BY <1>1, <2>5, <2>6, NowTop
  <2>9. NamesIn(target)' = NamesIn(target)
    BY <1>1, <2>2 DEF NamesIn, Inside
  <2> QED BY <1>1, <2>2, <2>6, <2>7, <2>8, <2>9 DEF GoodDelete
<1>6. CASE RemoveEntry(p)
  <2> DEFINE name == Top(p).entry
             node == Entry(Top(p).node, name)
             top == [Top(p) EXCEPT !.at = "next", !.entry = NoName]
  <2>1. Top(p).at = "remove" /\ Removes(p, node) /\ Now(p, top)
    BY <1>3, <1>6 DEF RemoveEntry, Throw
  <2>2. name \in Known(Top(p))
    BY <2>1 DEF Known
  <2>3. node \in Inside(target) /\ name \in Names
    BY <1>1, <2>1, <2>2, KnownEntry
  <2>4. tree' = Without(tree, node)
    BY <2>1 DEF Removes
  <2>5. node # target /\ node[Len(node)] = name
    BY <1>1, <2>3, EntryOf
  <2>6. DOMAIN tree' = DOMAIN tree \ {node} /\ \A n \in DOMAIN tree' : tree'[n] = tree[n]
    BY <2>4 DEF Without
  <2>7. top \in Frames /\ top.at = "next" /\ top.left = Top(p).left /\ top.node = target
    BY <1>1 DEF Frames
  <2> HIDE DEF node, top
  <2>8. Known(top) = NamesIn(target) \ {name}
    <3>1. Known(Top(p)) = NamesIn(target) /\ name \notin Top(p).left
      BY <2>1 DEF GoodDelete
    <3>2. Known(Top(p)) = Top(p).left \cup {name} /\ Known(top) = Top(p).left
      BY <2>1, <2>7 DEF Known
    <3> QED BY <3>1, <3>2
  <2>9. \A n \in Inside(target) : n[Len(n)] = name => n = node
    BY <1>1, InsideIsEntry DEF node
  <2>10. NamesIn(target)' = NamesIn(target) \ {name}
    <3>1. \A n : n \in Inside(target)' <=> n \in Inside(target) /\ n # node
      BY <1>1, <2>6 DEF Inside
    <3>2. NamesIn(target)' = {n[Len(n)] : n \in Inside(target)'}
      BY <1>1 DEF NamesIn
    <3> QED BY <2>3, <2>5, <2>9, <3>1, <3>2 DEF NamesIn
  <2>11. Top(p)' = top /\ Len(Stack(p))' = 1
    BY <1>1, <2>1, <2>7, NowTop
  <2>12. target \in DOMAIN tree' /\ tree'[target] = "dir"
    BY <1>1, <2>5, <2>6
  <2>13. \A n \in DOMAIN tree' : Leads(target, n) /\ n # target => tree'[n] = "file"
    BY <2>6 DEF GoodDelete
  <2> QED BY <1>1, <2>7, <2>8, <2>10, <2>11, <2>12, <2>13 DEF GoodDelete
<1>7. ~RemoveDirectory(p)
  BY <1>1, <1>3 DEF RemoveDirectory, Throw, Leave, ReturnTo
<1>8. ~ListNext(p, FALSE) /\ ~ReadNext(p, FALSE) /\ ~ListEnds(p)
  BY Zenon DEF ListNext, ReadNext, ListEnds
<1> QED BY <1>4, <1>5, <1>6, <1>7, <1>8 DEF InWalk

LEMMA DeleteNextInv ==
  FilesInv /\ Places /\ PlainTree /\ WalkInv /\ DeleteInv /\ [NextOf(Processes \cup Walkers)]_filesVars
    => DeleteInv'
<1> SUFFICES ASSUME FilesInv, Places, PlainTree, WalkInv, DeleteInv,
                    [NextOf(Processes \cup Walkers)]_filesVars,
                    NEW p \in Walkers,
                    call'[p].task = "delete", call'[p].before = {}, meddled'[p] = {}
             PROVE  GoodDelete(p)'
  BY DEF DeleteInv
<1>1. call'[p] # NoCall
  BY NoCallIsNone
<1>2. CASE WalkStep(p)
  <2>1. ASSUME NEW node \in DOMAIN tree, NEW task \in {"delete", "list", "read"}, BeginWalk(p, node, task)
        PROVE  GoodDelete(p)'
    BY <2>1, DeleteBegins
  <2>2. ASSUME InWalk(p, FALSE) PROVE GoodDelete(p)'
    <3>1. call[p].task = "delete" /\ call[p].before = {}
      BY <1>1, <2>2, SameCall
    <3>2. meddled[p] = {}
      BY <1>1, <1>2, Unrefused
    <3>3. GoodDelete(p)
      BY <3>1, <3>2 DEF DeleteInv
    <3> QED BY <1>1, <2>2, <3>1, <3>3, DeleteGoesOn
  <2> QED BY <1>1, <1>2, <2>1, <2>2, Unrefused
<1>3. CASE ~WalkStep(p)
  <2>1. call'[p] = call[p]
    <3>1. CASE UNCHANGED call
      BY <3>1
    <3>2. CASE \E q \in Walkers : WalkStep(q)
      BY <1>3, <3>2, OwnCall
    <3> QED BY <3>1, <3>2, WhoseStep
  <2>2. call[p] # NoCall
    BY <1>1, <2>1
  <2>3. /\ meddled[p] = {}
        /\ \A n \in DOMAIN tree : Leads(call[p].target, n) => n \in DOMAIN tree'
        /\ \A n \in DOMAIN tree' : Leads(call[p].target, n) => n \in DOMAIN tree
    BY <1>3, <2>2, OthersSeen
  <2>4. GoodDelete(p)
    BY <2>1, <2>3 DEF DeleteInv
  <2>5. Tree(tree) /\ Tree(tree')
    BY PlacesKept DEF Places
  <2>6. \A n \in DOMAIN tree : n \in DOMAIN tree' => tree'[n] = tree[n]
    BY TreeKeeps DEF FilesInv
  <2>7. call[p].target \in Seq(STRING)
    BY <2>2, StackOf DEF Calls
  <2> QED BY <2>1, <2>3, <2>4, <2>5, <2>6, <2>7, DeleteBeside
<1> QED BY <1>2, <1>3

LEMMA DeleteInvBegins == InitFiles => DeleteInv
<1> SUFFICES ASSUME InitFiles, NEW p \in Walkers PROVE call[p].task # "delete"
  BY DEF DeleteInv
<1>1. call[p] = NoCall
  BY DEF InitFiles, InitWalk
<1> QED BY <1>1, NoCallIsNone

\* A delete that nobody meddles with can go on.
LEMMA GoodPossible ==
  ASSUME Places, PlainTree, WalkInv, NEW p \in Walkers, call[p] # NoCall,
         call[p].task = "delete", GoodDelete(p)
  PROVE  Possible(p)
<1> DEFINE target == call[p].target
<1>1. /\ target \in Seq(STRING) /\ Tree(tree)
      /\ Top(p) \in Frames /\ Top(p).node = target
      /\ target \in DOMAIN tree /\ tree[target] = "dir" /\ target # <<>>
  BY StackOf DEF GoodDelete, Calls, Places, Tree
<1>2. CASE Top(p).at = "open"
  BY <1>1, <1>2 DEF KindOf, Possible
<1>3. CASE Top(p).at = "remove"
  <2>1. Top(p).entry \in Known(Top(p))
    BY <1>3 DEF Known
  <2>2. MayRemove(tree, Entry(Top(p).node, Top(p).entry))
    BY <1>1, <1>3, <2>1, KnownEntry
  <2> QED BY <1>3, <2>2 DEF Possible
<1>4. CASE Top(p).at = "next" /\ Top(p).left = {}
  <2>1. Known(Top(p)) = {} /\ Known(Top(p)) = NamesIn(target)
    BY <1>4 DEF Known, GoodDelete
  <2>2. Inside(target) = {}
    BY <2>1 DEF NamesIn
  <2>3. \A n \in DOMAIN tree : Leads(target, n) => n = target
    BY <1>1, <2>2, StepDown
  <2>4. MayRemove(tree, Top(p).node)
    BY <1>1, <2>3 DEF MayRemove
  <2> QED BY <1>4, <2>4 DEF Possible
<1>5. CASE Top(p).at = "next" /\ Top(p).left # {}
  <2>1. \A name \in Top(p).left : name \in Known(Top(p))
    BY DEF Known
  <2>2. \A name \in Top(p).left : KindOf(tree, Entry(Top(p).node, name)) # "missing"
    BY <1>1, <1>5, <2>1, KnownEntry
  <2> QED BY <1>5, <2>2 DEF Possible
<1> QED BY <1>1, <1>2, <1>3, <1>4, <1>5 DEF Frames

LEMMA DeleteReasons ==
  ASSUME WalkInv, Places, PlainTree, DeleteInv,
         NEW p \in Walkers, Ends(p), call[p].task = "delete", meddled[p] = {}, call[p].before = {}
  PROVE  Possible(p)
<1>1. GoodDelete(p)
  BY DEF DeleteInv
<1> QED BY <1>1, GoodPossible DEF Ends

(* For any tree: deleteFilesRecursive throws only because another thread   *)
(* has made or removed something in the directory or above it, because     *)
(* there was a directory inside, or because the system has refused a step: *)
(* an earlier one, or the one it throws in, which could be done.           *)
THEOREM DeletionFailsForAReason == SpecFiles => DeleteFailsForAReason
  <1>1. WalkInv /\ Places /\ PlainTree /\ DeleteInv /\ [NextOf(Processes \cup Walkers)]_filesVars =>
          [\A p \in Walkers :
             Ends(p) /\ call[p].task = "delete" /\ KindOf(tree', call[p].target) # "missing"
               => meddled[p] # {} \/ Possible(p) \/ call[p].before # {}]_<<vars, walkVars>>
    BY DeleteReasons
  <1>2. FilesInv /\ Places /\ PlainTree /\ [NextOf(Processes \cup Walkers)]_filesVars => PlainTree'
    BY TreeKeeps DEF FilesInv
  <1> QED
    BY <1>1, <1>2, FilesBegin, FilesKeep, PlacesBegin, PlacesKept, WalkBegins, WalkNext,
       PlainBegins, DeleteInvBegins, DeleteNextInv, PTL DEF SpecFiles, DeleteFailsForAReason

-----------------------------------------------------------------------------
(* getDirectories and readDirectory while nothing is removed.              *)

GoodFrame(frame) ==
  /\ frame.node \in DOMAIN tree /\ tree[frame.node] = "dir"
  /\ \A name \in frame.left : Entry(frame.node, name) \in DOMAIN tree

\* A node that the call will come upon below this directory.
Pending(frame, d) ==
  IF frame.at = "open" THEN Leads(frame.node, d) /\ d # frame.node
  ELSE \E name \in frame.left : Leads(Entry(frame.node, name), d)

GoodList(p) ==
  /\ Stack(p)[1].node = call[p].target
  /\ call[p].before \cup call[p].found \subseteq Sought(call[p].task, call[p].target)
  /\ \A i \in 1 .. Len(Stack(p)) : GoodFrame(Stack(p)[i])
  /\ \A d \in call[p].before :
       d \in call[p].found \/ \E i \in 1 .. Len(Stack(p)) : Pending(Stack(p)[i], d)

ListInv ==
  \A p \in Walkers :
    call[p].task \in {"list", "read"} /\ {"removed", "refused"} \cap meddled[p] = {} => GoodList(p)

\* When only the deepest directory is replaced, by none, one or two.
LEMMA ListKept ==
  ASSUME WalkInv, NEW p \in Walkers, call[p] # NoCall, GoodList(p), tree' = tree,
         NEW s \in Seq(Frames), s # <<>>, s[1].node = call[p].target,
         call'[p].stack = s, call'[p].task = call[p].task, call'[p].target = call[p].target,
         call'[p].before = call[p].before, call[p].found \subseteq call'[p].found,
         call'[p].found \subseteq Sought(call[p].task, call[p].target),
         \A i \in 1 .. Len(s) : GoodFrame(s[i]),
         Len(s) >= Len(Stack(p)) - 1,
         \A i \in 1 .. Len(Stack(p)) - 1, d \in call[p].before :
           Pending(Stack(p)[i], d) => Pending(s[i], d),
         \A d \in call[p].before :
           Pending(Top(p), d)
             => d \in call'[p].found \/ \E i \in 1 .. Len(s) : Pending(s[i], d)
  PROVE  GoodList(p)'
<1>1. Len(Stack(p)) \in Nat \ {0} /\ Top(p) = Stack(p)[Len(Stack(p))] /\ Len(s) \in Nat
  BY StackOf
<1>2. Stack(p)' = s
  BY DEF Stack
<1>3. Sought(call[p].task, call[p].target)' = Sought(call'[p].task, call'[p].target)
  BY DEF Sought, Files, Directories, Inside
<1>4. \A frame : GoodFrame(frame)' = GoodFrame(frame)
  BY DEF GoodFrame
<1>5. ASSUME NEW d \in call[p].before
      PROVE  d \in call'[p].found \/ \E i \in 1 .. Len(s) : Pending(s[i], d)
  <2>1. CASE d \in call[p].found
    BY <2>1
  <2>2. CASE \E i \in 1 .. Len(Stack(p)) : Pending(Stack(p)[i], d)
    <3>1. PICK i \in 1 .. Len(Stack(p)) : Pending(Stack(p)[i], d)
      BY <2>2
    <3>2. CASE i = Len(Stack(p))
      BY <1>1, <3>1, <3>2
    <3>3. CASE i # Len(Stack(p))
      <4>1. i \in 1 .. Len(Stack(p)) - 1 /\ i \in 1 .. Len(s)
        BY <1>1, <3>3
      <4> QED BY <3>1, <4>1
    <3> QED BY <3>2, <3>3
  <2> QED BY <2>1, <2>2 DEF GoodList
<1>6. call[p].before \subseteq Sought(call[p].task, call[p].target)
  BY DEF GoodList
<1>7. \A frame, d : Pending(frame, d)' = Pending(frame, d)
  BY DEF Pending
<1> QED BY <1>2, <1>3, <1>4, <1>5, <1>6, <1>7 DEF GoodList

\* The directory a call is in is replaced.
LEMMA TopListed ==
  ASSUME WalkInv, NEW p \in Walkers, call[p] # NoCall, GoodList(p), tree' = tree,
         NEW top \in Frames, top.node = Top(p).node, GoodFrame(top),
         call'[p].stack = WithTop(p, top), call'[p].task = call[p].task,
         call'[p].target = call[p].target,
         call'[p].before = call[p].before, call[p].found \subseteq call'[p].found,
         call'[p].found \subseteq Sought(call[p].task, call[p].target),
         \A d \in call[p].before : Pending(Top(p), d) => d \in call'[p].found \/ Pending(top, d)
  PROVE  GoodList(p)'
<1> DEFINE s == WithTop(p, top)
           n == Len(Stack(p))
<1>1. n \in Nat \ {0} /\ Top(p) = Stack(p)[n] /\ n = Len(Stack(p))
  BY StackOf
<1>2. /\ s \in Seq(Frames) /\ Len(s) = n /\ s[n] = top
      /\ \A i \in 1 .. n - 1 : s[i] = Stack(p)[i]
  BY WithTopIs
<1> HIDE DEF s, n
<1>3. s # <<>> /\ n \in 1 .. Len(s) /\ Len(s) >= n - 1
  BY <1>1, <1>2
<1>4. s[1].node = call[p].target
  <2>1. CASE n = 1
    BY <1>1, <1>2, <2>1 DEF GoodList
  <2>2. CASE n # 1
    <3>1. 1 \in 1 .. n - 1
      BY <1>1, <2>2
    <3> QED BY <1>2, <3>1 DEF GoodList
  <2> QED BY <2>1, <2>2
<1>5. ASSUME NEW i \in 1 .. Len(s) PROVE GoodFrame(s[i])
  <2>1. CASE i = n
    BY <1>2, <2>1
  <2>2. CASE i # n
    <3>1. i \in 1 .. n - 1 /\ i \in 1 .. n
      BY <1>1, <1>2, <2>2
    <3> QED BY <1>1, <1>2, <3>1 DEF GoodList
  <2> QED BY <2>1, <2>2
<1>6. \A d \in call[p].before :
        Pending(Top(p), d) => d \in call'[p].found \/ \E i \in 1 .. Len(s) : Pending(s[i], d)
  BY <1>2, <1>3
<1>7. \A i \in 1 .. n - 1, d \in call[p].before : Pending(Stack(p)[i], d) => Pending(s[i], d)
  BY <1>2
<1>8. call'[p].stack = s
  BY DEF s
<1> QED BY <1>1, <1>2, <1>3, <1>4, <1>5, <1>6, <1>7, <1>8, ListKept

\* A directory in it is descended into.
LEMMA BelowListed ==
  ASSUME WalkInv, NEW p \in Walkers, call[p] # NoCall, GoodList(p), tree' = tree,
         NEW top \in Frames, top.node = Top(p).node, GoodFrame(top),
         NEW node \in DOMAIN tree, node \in Seq(STRING), tree[node] = "dir",
         call'[p].stack = Below(p, top, node), call'[p].task = call[p].task,
         call'[p].target = call[p].target,
         call'[p].before = call[p].before, call[p].found \subseteq call'[p].found,
         call'[p].found \subseteq Sought(call[p].task, call[p].target),
         \A d \in call[p].before :
           Pending(Top(p), d) => \/ d \in call'[p].found \/ Pending(top, d)
                                 \/ Pending(Directory(node), d)
  PROVE  GoodList(p)'
<1> DEFINE s == Below(p, top, node)
           n == Len(Stack(p))
<1>1. n \in Nat \ {0} /\ Top(p) = Stack(p)[n] /\ n = Len(Stack(p))
  BY StackOf
<1>2. /\ s \in Seq(Frames) /\ Len(s) = n + 1 /\ s[n] = top /\ s[n + 1] = Directory(node)
      /\ \A i \in 1 .. n - 1 : s[i] = Stack(p)[i]
  BY BelowIs
<1> HIDE DEF s, n
<1>3. s # <<>> /\ n \in 1 .. Len(s) /\ n + 1 \in 1 .. Len(s) /\ Len(s) >= n - 1
  BY <1>1, <1>2
<1>4. s[1].node = call[p].target
  <2>1. CASE n = 1
    BY <1>1, <1>2, <2>1 DEF GoodList
  <2>2. CASE n # 1
    <3>1. 1 \in 1 .. n - 1
      BY <1>1, <2>2
    <3> QED BY <1>2, <3>1 DEF GoodList
  <2> QED BY <2>1, <2>2
<1>5. GoodFrame(Directory(node))
  BY DEF GoodFrame, Directory
<1>6. ASSUME NEW i \in 1 .. Len(s) PROVE GoodFrame(s[i])
  <2>1. CASE i = n
    BY <1>2, <2>1
  <2>2. CASE i = n + 1
    BY <1>2, <1>5, <2>2
  <2>3. CASE i # n /\ i # n + 1
    <3>1. i \in 1 .. n - 1 /\ i \in 1 .. n
      BY <1>1, <1>2, <2>3
    <3> QED BY <1>1, <1>2, <3>1 DEF GoodList
  <2> QED BY <2>1, <2>2, <2>3
<1>7. \A d \in call[p].before :
        Pending(Top(p), d) => d \in call'[p].found \/ \E i \in 1 .. Len(s) : Pending(s[i], d)
  BY <1>2, <1>3
<1>8. \A i \in 1 .. n - 1, d \in call[p].before : Pending(Stack(p)[i], d) => Pending(s[i], d)
  BY <1>2
<1>9. call'[p].stack = s
  BY DEF s
<1> QED BY <1>1, <1>2, <1>3, <1>4, <1>6, <1>7, <1>8, <1>9, ListKept

\* A directory that is done with is left.
LEMMA ReturnListed ==
  ASSUME WalkInv, NEW p \in Walkers, call[p] # NoCall, GoodList(p), tree' = tree,
         Leave(p), call'[p] # NoCall, \A d \in call[p].before : ~Pending(Top(p), d)
  PROVE  GoodList(p)'
<1> DEFINE s == Upper(p)
           n == Len(Stack(p))
<1>1. n \in Nat \ {0} /\ Top(p) = Stack(p)[n] /\ n = Len(Stack(p))
  BY StackOf
<1>2. n # 1 /\ GoOn(p, s)
  BY DEF Leave, ReturnTo, WalkInv
<1>3. /\ s \in Seq(Frames) /\ Len(s) = n - 1 /\ s # <<>>
      /\ \A i \in 1 .. n - 1 : s[i] = Stack(p)[i]
  BY <1>2, UpperIs
<1> HIDE DEF s, n
<1>4. 1 \in 1 .. n - 1 /\ Len(s) >= n - 1
  BY <1>1, <1>2, <1>3
<1>5. s[1].node = call[p].target
  BY <1>3, <1>4 DEF GoodList
<1>6. ASSUME NEW i \in 1 .. Len(s) PROVE GoodFrame(s[i])
  <2>1. i \in 1 .. n - 1 /\ i \in 1 .. n
    BY <1>1, <1>3
  <2> QED BY <1>1, <1>3, <2>1 DEF GoodList
<1>7. \A i \in 1 .. n - 1, d \in call[p].before : Pending(Stack(p)[i], d) => Pending(s[i], d)
  BY <1>3
<1>8. /\ call'[p].stack = s
      /\ call'[p].task = call[p].task /\ call'[p].target = call[p].target
      /\ call'[p].before = call[p].before /\ call'[p].found = call[p].found
  BY <1>2, <1>3, GoesOn
<1>9. call[p].found \subseteq Sought(call[p].task, call[p].target)
  BY DEF GoodList
<1> QED BY <1>1, <1>3, <1>4, <1>5, <1>6, <1>7, <1>8, <1>9, ListKept

LEMMA ListBegins ==
  ASSUME Places, WalkInv, NEW p \in Walkers, NEW node \in DOMAIN tree,
         NEW task \in {"delete", "list", "read"}, BeginWalk(p, node, task),
         call'[p].task \in {"list", "read"}
  PROVE  GoodList(p)'
<1> DEFINE new == [task |-> task, target |-> node, stack |-> <<Directory(node)>>,
                   before |-> Sought(task, node), found |-> {}]
<1>1. call' = [call EXCEPT ![p] = new] /\ KindOf(tree, node) = "dir" /\ tree' = tree
  BY DEF BeginWalk
<1>2. /\ call'[p].task = task /\ call'[p].target = node /\ call'[p].stack = <<Directory(node)>>
      /\ call'[p].before = Sought(task, node) /\ call'[p].found = {}
  BY <1>1 DEF WalkInv
<1>3. Stack(p)' = <<Directory(node)>>
  BY <1>2 DEF Stack
<1>4. tree[node] = "dir" /\ node \in Seq(STRING)
  BY <1>1 DEF KindOf, Places, Tree
<1>5. GoodFrame(Directory(node))' /\ Directory(node).node = node
  BY <1>1, <1>4 DEF GoodFrame, Directory
<1>6. Sought(task, node)' = Sought(task, node)
  BY <1>1 DEF Sought, Files, Directories, Inside
<1>7. ASSUME NEW d \in Sought(task, node) PROVE Pending(Directory(node), d)
  <2>1. Leads(node, d) /\ d # node
    BY <1>4 DEF Sought, Files, Directories, Inside
  <2> QED BY <2>1 DEF Pending, Directory
<1> HIDE DEF new
<1>8. Len(Stack(p)') = 1 /\ Stack(p)'[1] = Directory(node)
  BY <1>3
<1>9. \A d : Pending(Directory(node), d)' = Pending(Directory(node), d)
  BY DEF Pending, Directory
<1> QED BY <1>2, <1>5, <1>6, <1>7, <1>8, <1>9 DEF GoodList

\* A step that finds nothing.
LEMMA NowListed ==
  ASSUME WalkInv, NEW p \in Walkers, call[p] # NoCall, GoodList(p), tree' = tree,
         NEW top \in Frames, top.node = Top(p).node, GoodFrame(top), Now(p, top),
         \A d \in call[p].before : Pending(Top(p), d) => d \in call[p].found \/ Pending(top, d)
  PROVE  GoodList(p)'
<1>1. WithTop(p, top) \in Seq(Frames)
  BY WithTopIs
<1>2. /\ call'[p].stack = WithTop(p, top)
      /\ call'[p].task = call[p].task /\ call'[p].target = call[p].target
      /\ call'[p].before = call[p].before /\ call'[p].found = call[p].found
  BY <1>1, GoesOn DEF Now
<1>3. call[p].found \subseteq Sought(call[p].task, call[p].target)
  BY DEF GoodList
<1> QED BY <1>2, <1>3, TopListed

\* The names that are read are those of what is inside.
LEMMA NamesRead ==
  ASSUME Tree(tree), PlainTree, NEW node \in Seq(STRING)
  PROVE  Entries(node) \ Dots = NamesIn(node)
<1>1. NamesIn(node) \subseteq Names
  BY InsideIsEntry DEF NamesIn
<1>2. Entries(node) = Dots \cup NamesIn(node)
  BY DEF Entries, NamesIn, Dots
<1> QED BY <1>1, <1>2 DEF Names

\* What a listing call knows of the directory it is in.
LEMMA ListTop ==
  ASSUME Tree(tree), WalkInv, NEW p \in Walkers, call[p] # NoCall, GoodList(p),
         call[p].task \in {"list", "read"}
  PROVE  /\ Top(p) \in Frames /\ GoodFrame(Top(p)) /\ Top(p).at \in {"open", "next"}
         /\ Top(p).node \in DOMAIN tree /\ Top(p).node \in Seq(STRING) /\ Top(p).node # <<>>
         /\ KindOf(tree, Top(p).node) = "dir"
         /\ call[p].target \in Seq(STRING) /\ call[p].target \in DOMAIN tree
         /\ Leads(call[p].target, Top(p).node)
         /\ call[p].task = "read" => Top(p).node = call[p].target /\ Len(Stack(p)) = 1
<1>1. /\ Top(p) \in Frames /\ InPlace(call[p], Top(p)) /\ Len(Stack(p)) \in Nat \ {0}
      /\ Top(p) = Stack(p)[Len(Stack(p))] /\ call[p] \in Calls /\ IsCall(call[p])
      /\ Stack(p) = call[p].stack
  BY StackOf
<1>2. Len(Stack(p)) \in 1 .. Len(Stack(p)) /\ 1 \in 1 .. Len(Stack(p))
  BY <1>1
<1>3. GoodFrame(Top(p)) /\ GoodFrame(Stack(p)[1]) /\ Stack(p)[1].node = call[p].target
  BY <1>1, <1>2 DEF GoodList
<1>4. Top(p).at \in {"open", "next"}
  BY <1>1 DEF InPlace, Frames
<1>5. Top(p).node \in DOMAIN tree /\ tree[Top(p).node] = "dir" /\ call[p].target \in DOMAIN tree
  BY <1>3 DEF GoodFrame
<1>6. \A n \in DOMAIN tree : n \in Seq(STRING) /\ n # <<>>
  BY DEF Tree
<1>7. KindOf(tree, Top(p).node) = "dir"
  BY <1>5, <1>6 DEF KindOf
<1>8. call[p].task = "read" => Len(Stack(p)) = 1 /\ Top(p).node = call[p].target
  BY <1>1, <1>3 DEF IsCall
<1> QED BY <1>1, <1>3, <1>4, <1>5, <1>6, <1>7, <1>8 DEF InPlace

\* When it looks at an entry.
LEMMA Passed ==
  ASSUME Tree(tree), WalkInv, NEW p \in Walkers, call[p] # NoCall, GoodList(p),
         call[p].task \in {"list", "read"}, Top(p).at = "next", NEW name \in Top(p).left,
         NEW top, top = [Top(p) EXCEPT !.left = Top(p).left \ {name}],
         NEW node, node = Entry(Top(p).node, name)
  PROVE  /\ top \in Frames /\ top.node = Top(p).node /\ GoodFrame(top)
         /\ \A d : Pending(Top(p), d) => Pending(top, d) \/ Leads(node, d)
         /\ node \in DOMAIN tree /\ node \in Seq(STRING) /\ node # <<>>
         /\ KindOf(tree, node) = tree[node] /\ tree[node] \in {"dir", "file"}
         /\ node \in Inside(Top(p).node) /\ node[Len(node)] = name
         /\ Leads(call[p].target, node) /\ node # call[p].target
<1>1. /\ Top(p) \in Frames /\ GoodFrame(Top(p)) /\ Top(p).node \in Seq(STRING)
      /\ call[p].target \in Seq(STRING) /\ Leads(call[p].target, Top(p).node)
  BY ListTop
<1>2. /\ top \in Frames /\ top.node = Top(p).node /\ top.at = "next"
      /\ top.left = Top(p).left \ {name}
  BY <1>1 DEF Frames
<1>3. GoodFrame(top)
  BY <1>1, <1>2 DEF GoodFrame
<1>4. ASSUME NEW d, Pending(Top(p), d) PROVE Pending(top, d) \/ Leads(node, d)
  BY <1>2, <1>4 DEF Pending
<1>5. node \in DOMAIN tree
  BY <1>1 DEF GoodFrame
<1>6. node \in Seq(STRING) /\ node # <<>> /\ tree[node] \in {"dir", "file"}
  BY <1>5 DEF Tree
<1>7. KindOf(tree, node) = tree[node]
  BY <1>5, <1>6 DEF KindOf
<1>8. name \in Names
  BY <1>1 DEF Frames
<1>9. Len(node) = Len(Top(p).node) + 1 /\ Leads(Top(p).node, node) /\ node[Len(node)] = name
  BY <1>1, <1>8, EntryOf
<1>10. node \in Inside(Top(p).node)
  BY <1>5, <1>9 DEF Inside
<1>11. Leads(call[p].target, node)
  BY <1>1, <1>6, <1>9, LeadsOn
<1>12. node # call[p].target
  <2>1. Len(call[p].target) <= Len(Top(p).node) /\ Len(call[p].target) \in Nat /\ Len(Top(p).node) \in Nat
    BY <1>1 DEF Leads
  <2> QED BY <1>9, <2>1
<1> QED BY <1>2, <1>3, <1>4, <1>5, <1>6, <1>7, <1>9, <1>10, <1>11, <1>12

LEMMA OpenListed ==
  ASSUME Tree(tree), PlainTree, WalkInv, NEW p \in Walkers, call[p] # NoCall, GoodList(p),
         call[p].task \in {"list", "read"}, OpenDirectory(p, FALSE)
  PROVE  GoodList(p)' /\ call'[p] # NoCall
<1> DEFINE node == Top(p).node
           top == [Top(p) EXCEPT !.at = "next", !.left = Entries(node) \ Dots]
<1>1. /\ Top(p) \in Frames /\ GoodFrame(Top(p)) /\ node \in Seq(STRING)
      /\ KindOf(tree, node) = "dir" /\ node \in DOMAIN tree
  BY ListTop
<1>2. Now(p, top) /\ tree' = tree /\ Top(p).at = "open"
  BY <1>1 DEF OpenDirectory
<1>3. Entries(node) \ Dots = NamesIn(node) /\ Entries(node) \ Dots \subseteq Names
  BY <1>1, NamesRead, EntriesAreNames
<1>4. top \in Frames /\ top.node = node /\ top.at = "next" /\ top.left = NamesIn(node)
  BY <1>1, <1>3 DEF Frames
<1> HIDE DEF top
<1>5. ASSUME NEW name \in NamesIn(node) PROVE Entry(node, name) \in Inside(node)
  BY <1>1, <1>5, InsideIsEntry DEF NamesIn
<1>6. GoodFrame(top)
  BY <1>1, <1>4, <1>5 DEF GoodFrame, Inside
<1>7. ASSUME NEW d \in call[p].before, Pending(Top(p), d) PROVE Pending(top, d)
  <2>1. Leads(node, d) /\ d # node
    BY <1>2, <1>7 DEF Pending
  <2>2. d \in DOMAIN tree
    BY DEF GoodList, Sought, Files, Directories, Inside
  <2>3. PICK m \in Inside(node) : Leads(m, d)
    BY <1>1, <2>1, <2>2, StepDown
  <2>4. m[Len(m)] \in NamesIn(node) /\ m = Entry(node, m[Len(m)])
    BY <1>1, <2>3, InsideIsEntry DEF NamesIn
  <2> QED BY <1>4, <2>3, <2>4 DEF Pending
<1> QED BY <1>2, <1>4, <1>6, <1>7, NowListed, NowTop

LEMMA NextListed ==
  ASSUME Tree(tree), WalkInv, NEW p \in Walkers, call[p] # NoCall, GoodList(p),
         call[p].task = "list", ListNext(p, FALSE)
  PROVE  GoodList(p)' /\ call'[p] # NoCall
<1>1. Top(p).at = "next" /\ tree' = tree
  BY DEF ListNext
<1>2. PICK name \in Top(p).left :
        LET node == Entry(Top(p).node, name)
            kinds == Taken(node, FALSE)
            top == [Top(p) EXCEPT !.left = @ \ {name}]
        IN \/ "dir" \in kinds /\ Find(p, node, Below(p, top, node))
           \/ kinds # {"dir"} /\ Now(p, top)
  BY Zenon DEF ListNext
<1> DEFINE node == Entry(Top(p).node, name)
           top == [Top(p) EXCEPT !.left = Top(p).left \ {name}]
<1>3. /\ top \in Frames /\ top.node = Top(p).node /\ GoodFrame(top)
      /\ \A d : Pending(Top(p), d) => Pending(top, d) \/ Leads(node, d)
      /\ node \in DOMAIN tree /\ node \in Seq(STRING) /\ node # <<>>
      /\ KindOf(tree, node) = tree[node] /\ tree[node] \in {"dir", "file"}
      /\ Leads(call[p].target, node) /\ node # call[p].target
  BY <1>1, Passed
<1>4. \/ KindOf(tree, node) = "dir" /\ Find(p, node, Below(p, top, node))
      \/ KindOf(tree, node) # "dir" /\ Now(p, top)
  <2>1. Taken(node, FALSE) = {KindOf(tree, node)}
    BY <1>3, TakenAsIs
  <2> QED BY <1>2, <2>1
<1> HIDE DEF node, top
<1>5. \A d \in call[p].before : d \in DOMAIN tree /\ tree[d] = "dir"
  BY DEF GoodList, Sought, Directories
<1>6. CASE tree[node] = "dir" /\ Find(p, node, Below(p, top, node))
  <2>1. Below(p, top, node) \in Seq(Frames)
    BY <1>3, BelowIs
  <2>2. /\ call'[p] # NoCall /\ call'[p].stack = Below(p, top, node)
        /\ call'[p].task = call[p].task /\ call'[p].target = call[p].target
        /\ call'[p].before = call[p].before /\ call'[p].found = call[p].found \cup {node}
    BY <1>3, <1>6, <2>1, FindsMore
  <2>3. node \in Sought(call[p].task, call[p].target)
    BY <1>3, <1>6 DEF Sought, Directories
  <2>4. call'[p].found \subseteq Sought(call[p].task, call[p].target)
    BY <2>2, <2>3 DEF GoodList
  <2>5. ASSUME NEW d \in call[p].before, Leads(node, d)
        PROVE  d \in call'[p].found \/ Pending(Directory(node), d)
    BY <2>2, <2>5 DEF Pending, Directory
  <2> QED BY <1>1, <1>3, <1>6, <2>2, <2>4, <2>5, BelowListed
<1>7. CASE tree[node] = "file" /\ Now(p, top)
  <2>1. ASSUME NEW d \in call[p].before PROVE ~Leads(node, d)
    BY <1>3, <1>5, <1>7, NothingBelow
  <2> QED BY <1>1, <1>3, <1>7, <2>1, NowListed, NowTop
<1> QED BY <1>3, <1>4, <1>6, <1>7

LEMMA ReadListed ==
  ASSUME Tree(tree), WalkInv, NEW p \in Walkers, call[p] # NoCall, GoodList(p),
         call[p].task = "read", ReadNext(p, FALSE)
  PROVE  GoodList(p)' /\ call'[p] # NoCall
<1>1. Top(p).at = "next" /\ tree' = tree
  BY DEF ReadNext
<1>2. PICK name \in Top(p).left :
        LET node == Entry(Top(p).node, name)
            kinds == Taken(node, FALSE)
            top == [Top(p) EXCEPT !.left = @ \ {name}]
        IN \/ kinds # {"dir"} /\ name \in Matching /\ Find(p, node, <<top>>)
           \/ ("dir" \in kinds \/ name \notin Matching) /\ Now(p, top)
  BY Zenon DEF ReadNext
<1> DEFINE node == Entry(Top(p).node, name)
           top == [Top(p) EXCEPT !.left = Top(p).left \ {name}]
<1>3. /\ top \in Frames /\ top.node = Top(p).node /\ GoodFrame(top)
      /\ \A d : Pending(Top(p), d) => Pending(top, d) \/ Leads(node, d)
      /\ node \in DOMAIN tree /\ node \in Seq(STRING) /\ node # <<>>
      /\ KindOf(tree, node) = tree[node] /\ tree[node] \in {"dir", "file"}
      /\ node \in Inside(Top(p).node) /\ node[Len(node)] = name
  BY <1>1, Passed
<1>4. Top(p).node = call[p].target /\ Len(Stack(p)) = 1 /\ call[p].target \in Seq(STRING)
  BY ListTop
<1>5. \/ KindOf(tree, node) # "dir" /\ name \in Matching /\ Find(p, node, <<top>>)
      \/ (KindOf(tree, node) = "dir" \/ name \notin Matching) /\ Now(p, top)
  <2>1. Taken(node, FALSE) = {KindOf(tree, node)}
    BY <1>3, TakenAsIs
  <2> QED BY <1>2, <2>1
<1> HIDE DEF node, top
<1>6. \A d \in call[p].before :
        /\ d \in DOMAIN tree /\ tree[d] = "file" /\ d[Len(d)] \in Matching
        /\ d \in Seq(STRING) /\ Len(d) = Len(call[p].target) + 1
  BY DEF GoodList, Sought, Files, Inside, Tree
<1>7. ASSUME NEW d \in call[p].before, Leads(node, d) PROVE d = node
  <2>1. Len(d) = Len(node) /\ FirstNames(d, Len(node)) = node
    BY <1>3, <1>4, <1>6, <1>7 DEF Inside, Leads
  <2> QED BY <1>6, <2>1, AllNames
<1>8. CASE tree[node] = "file" /\ name \in Matching /\ Find(p, node, <<top>>)
  <2>1. /\ WithTop(p, top) \in Seq(Frames) /\ Len(WithTop(p, top)) = 1
        /\ WithTop(p, top)[1] = top
    BY <1>3, <1>4, WithTopIs
  <2>2. <<top>> = WithTop(p, top) /\ <<top>> \in Seq(Frames)
    BY <1>3, <2>1
  <2>3. /\ call'[p] # NoCall /\ call'[p].stack = <<top>>
        /\ call'[p].task = call[p].task /\ call'[p].target = call[p].target
        /\ call'[p].before = call[p].before /\ call'[p].found = call[p].found \cup {node}
    BY <1>3, <1>8, <2>2, FindsMore
  <2>4. node \in Sought(call[p].task, call[p].target)
    BY <1>3, <1>4, <1>8 DEF Sought, Files
  <2>5. call'[p].found \subseteq Sought(call[p].task, call[p].target)
    BY <2>3, <2>4 DEF GoodList
  <2>6. call'[p].stack = WithTop(p, top)
    BY <2>2, <2>3
  <2> QED BY <1>1, <1>3, <1>7, <2>3, <2>5, <2>6, TopListed
<1>9. CASE (tree[node] = "dir" \/ name \notin Matching) /\ Now(p, top)
  <2>1. ASSUME NEW d \in call[p].before PROVE ~Leads(node, d)
    BY <1>3, <1>6, <1>7, <1>9
  <2> QED BY <1>1, <1>3, <1>9, <2>1, NowListed, NowTop
<1> QED BY <1>3, <1>5, <1>8, <1>9

LEMMA ListStep ==
  ASSUME Places, PlainTree, WalkInv, NEW p \in Walkers, InWalk(p, FALSE), GoodList(p),
         call[p].task \in {"list", "read"}
  PROVE  /\ call'[p] # NoCall => GoodList(p)'
         /\ call'[p] = NoCall => call[p].before \subseteq call[p].found
<1>1. call[p] # NoCall /\ Tree(tree)
  BY DEF InWalk, Places
<1>2. Top(p).at \in {"open", "next"}
  BY <1>1, ListTop
<1>3. CASE OpenDirectory(p, FALSE)
  BY <1>1, <1>3, OpenListed
<1>4. CASE ListNext(p, FALSE)
  <2>1. call[p].task = "list"
    BY <1>4 DEF ListNext
  <2> QED BY <1>1, <1>4, <2>1, NextListed
<1>5. CASE ReadNext(p, FALSE)
  <2>1. call[p].task = "read"
    BY <1>5 DEF ReadNext
  <2> QED BY <1>1, <1>5, <2>1, ReadListed
<1>6. CASE ListEnds(p)
  <2>1. Leave(p) /\ tree' = tree /\ Top(p).at = "next" /\ Top(p).left = {}
    BY <1>6 DEF ListEnds
  <2>2. \A d : ~Pending(Top(p), d)
    BY <2>1 DEF Pending
  <2>3. ASSUME call'[p] = NoCall PROVE call[p].before \subseteq call[p].found
    <3>1. Len(Stack(p)) = 1
      <4>1. ASSUME Len(Stack(p)) # 1 PROVE FALSE
        BY <1>1, <2>1, <2>3, <4>1, UpperIs, GoesOn DEF Leave, ReturnTo
      <4> QED BY <4>1
    <3>2. \A i \in 1 .. Len(Stack(p)) : Stack(p)[i] = Top(p)
      BY <1>1, <3>1, StackOf
    <3> QED BY <2>2, <3>2 DEF GoodList
  <2> QED BY <1>1, <2>1, <2>2, <2>3, ReturnListed
<1>7. ~DeleteNext(p, FALSE) /\ ~RemoveEntry(p) /\ ~RemoveDirectory(p)
  <2>1. call[p].task # "delete" /\ Top(p).at # "remove"
    BY <1>2
  <2> QED BY <2>1, Zenon DEF DeleteNext, RemoveEntry, RemoveDirectory
<1> QED BY <1>3, <1>4, <1>5, <1>6, <1>7 DEF InWalk

\* Nothing below its directory goes.
LEMMA ListBeside ==
  ASSUME Tree(tree), WalkInv, NEW p \in Walkers, call[p] # NoCall, GoodList(p), call'[p] = call[p],
         \A n \in DOMAIN tree : n \in DOMAIN tree' => tree'[n] = tree[n],
         \A n \in DOMAIN tree : Leads(call[p].target, n) => n \in DOMAIN tree'
  PROVE  GoodList(p)'
<1> DEFINE target == call[p].target
<1>1. IsCall(call[p]) /\ call[p] \in Calls /\ Stack(p) = call[p].stack /\ Stack(p) \in Seq(Frames)
  BY StackOf
<1>2. target \in Seq(STRING)
  BY <1>1 DEF Calls
<1>3. ASSUME NEW n \in DOMAIN tree, Leads(target, n)
      PROVE  n \in DOMAIN tree' /\ tree'[n] = tree[n]
  BY <1>3
<1>4. Sought(call[p].task, target) \subseteq Sought(call[p].task, target)'
  <2>1. Directories(target) \subseteq Directories(target)'
    BY <1>3 DEF Directories
  <2>2. Inside(target) \subseteq Inside(target)'
    BY <1>3 DEF Inside
  <2>3. Files(target) \subseteq Files(target)'
    BY <1>3, <2>2 DEF Files, Inside
  <2> QED BY <2>1, <2>3 DEF Sought
<1>5. ASSUME NEW i \in 1 .. Len(Stack(p)) PROVE GoodFrame(Stack(p)[i])'
  <2> DEFINE frame == Stack(p)[i]
  <2>1. Stack(p)' = Stack(p)
    BY DEF Stack
  <2>2. GoodFrame(frame) /\ frame \in Frames /\ InPlace(call[p], frame)
    BY <1>1 DEF GoodList, IsCall
  <2> HIDE DEF frame
  <2>3. Leads(target, frame.node) /\ frame.node \in Seq(STRING) /\ frame.left \subseteq Names
    BY <2>2 DEF InPlace, Frames
  <2>4. frame.node \in DOMAIN tree' /\ tree'[frame.node] = "dir"
    BY <1>3, <2>2, <2>3 DEF GoodFrame
  <2>5. ASSUME NEW name \in frame.left PROVE Entry(frame.node, name) \in DOMAIN tree'
    <3>1. /\ Entry(frame.node, name) \in Seq(STRING)
          /\ Leads(frame.node, Entry(frame.node, name))
      BY <2>3, EntryOf
    <3>2. Leads(target, Entry(frame.node, name))
      BY <1>2, <2>3, <3>1, LeadsOn
    <3> QED BY <1>3, <2>2, <3>2 DEF GoodFrame
  <2>6. Stack(p)'[i] = frame
    BY <2>1 DEF frame
  <2> QED BY <2>4, <2>5, <2>6 DEF GoodFrame
<1>6. Stack(p)' = Stack(p)
  BY DEF Stack
<1>7. \A frame, d : Pending(frame, d)' = Pending(frame, d)
  BY DEF Pending
<1> QED BY <1>4, <1>5, <1>6, <1>7 DEF GoodList

LEMMA ListNextInv ==
  FilesInv /\ Places /\ PlainTree /\ WalkInv /\ ListInv /\ [NextOf(Processes \cup Walkers)]_filesVars
    => ListInv'
<1> SUFFICES ASSUME FilesInv, Places, PlainTree, WalkInv, ListInv,
                    [NextOf(Processes \cup Walkers)]_filesVars,
                    NEW p \in Walkers,
                    call'[p].task \in {"list", "read"}, {"removed", "refused"} \cap meddled'[p] = {}
             PROVE  GoodList(p)'
  BY DEF ListInv
<1>1. call'[p] # NoCall
  BY NoCallIsNone
<1>2. CASE WalkStep(p)
  <2>1. ASSUME NEW node \in DOMAIN tree, NEW task \in {"delete", "list", "read"}, BeginWalk(p, node, task)
        PROVE  GoodList(p)'
    BY <2>1, ListBegins
  <2>2. ASSUME InWalk(p, FALSE) PROVE GoodList(p)'
    <3>1. call[p].task \in {"list", "read"}
      BY <1>1, <2>2, SameCall
    <3>2. meddled'[p] = meddled[p]
      BY <1>1, <1>2, Unrefused
    <3>3. GoodList(p)
      BY <3>1, <3>2 DEF ListInv
    <3> QED BY <1>1, <2>2, <3>1, <3>3, ListStep
  <2> QED BY <1>1, <1>2, <2>1, <2>2, Unrefused
<1>3. CASE ~WalkStep(p)
  <2>1. call'[p] = call[p]
    <3>1. CASE UNCHANGED call
      BY <3>1
    <3>2. CASE \E q \in Walkers : WalkStep(q)
      BY <1>3, <3>2, OwnCall
    <3> QED BY <3>1, <3>2, WhoseStep
  <2>2. call[p] # NoCall
    BY <1>1, <2>1
  <2>3. /\ {"removed", "refused"} \cap meddled[p] = {}
        /\ \A n \in DOMAIN tree : Leads(call[p].target, n) => n \in DOMAIN tree'
    BY <1>3, <2>2, OthersSeen
  <2>4. GoodList(p)
    BY <2>1, <2>3 DEF ListInv
  <2>5. Tree(tree)
    BY DEF Places
  <2>6. \A n \in DOMAIN tree : n \in DOMAIN tree' => tree'[n] = tree[n]
    BY TreeKeeps DEF FilesInv
  <2> QED BY <2>1, <2>2, <2>3, <2>4, <2>5, <2>6, ListBeside
<1> QED BY <1>2, <1>3

LEMMA ListInvBegins == InitFiles => ListInv
<1> SUFFICES ASSUME InitFiles, NEW p \in Walkers PROVE call[p].task \notin {"list", "read"}
  BY DEF ListInv
<1>1. call[p] = NoCall
  BY DEF InitFiles, InitWalk
<1> QED BY <1>1, NoCallIsNone

\* Nothing that is refused ends a call but the opening of its first directory.
LEMMA RefusedGoesOn ==
  ASSUME WalkInv, NEW p \in Walkers, InWalk(p, TRUE), call[p].task # "delete", Top(p).at # "open"
  PROVE  call'[p] # NoCall
<1>1. call[p] # NoCall /\ (ListNext(p, TRUE) \/ ReadNext(p, TRUE))
  <2>1. ~OpenDirectory(p, TRUE) /\ ~DeleteNext(p, TRUE)
    BY Zenon DEF OpenDirectory, DeleteNext
  <2> QED BY <2>1 DEF InWalk
<1>2. (\E s : GoOn(p, s)) \/ (\E node, s : Find(p, node, s))
  BY <1>1, Zenon DEF ListNext, ReadNext, Now
<1> QED BY <1>1, <1>2, MovesOn

LEMMA ListReturns ==
  ASSUME WalkInv, Places, PlainTree, ListInv, [NextOf(Processes \cup Walkers)]_filesVars,
         NEW p \in Walkers, Ends(p), call[p].task # "delete", Top(p).at # "open",
         {"removed", "refused"} \cap meddled[p] = {}
  PROVE  /\ call[p].before \subseteq call[p].found
         /\ call[p].found \subseteq Sought(call[p].task, call[p].target)
<1>1. call[p] # NoCall /\ call'[p] = NoCall
  BY DEF Ends
<1>2. WalkStep(p)
  BY <1>1, OthersSeen
<1>3. InWalk(p, FALSE)
  <2>1. InWalk(p, FALSE) \/ InWalk(p, TRUE)
    BY <1>1, <1>2 DEF WalkStep, BeginWalk
  <2> QED BY <1>1, <2>1, RefusedGoesOn
<1>4. call[p].task \in {"list", "read"}
  BY <1>1, StackOf DEF Calls
<1>5. GoodList(p)
  BY <1>4 DEF ListInv
<1>6. call[p].found \subseteq Sought(call[p].task, call[p].target)
  BY <1>5 DEF GoodList
<1> QED BY <1>1, <1>3, <1>4, <1>5, <1>6, ListStep

(* For any tree: a call of getDirectories or of readDirectory that returns *)
(* and neither was disturbed by a removal nor refused a directory or an    *)
(* entry by the system, returns everything that was there when it was      *)
(* called, and nothing that is not there when it returns - although it     *)
(* swallows every exception below its first directory.                     *)
THEOREM ListingsAreComplete == SpecFiles => ListingComplete
  <1>1. WalkInv /\ Places /\ PlainTree /\ ListInv /\ [NextOf(Processes \cup Walkers)]_filesVars =>
          [\A p \in Walkers :
             /\ Ends(p) /\ call[p].task # "delete" /\ Top(p).at # "open"
             /\ {"removed", "refused"} \cap meddled[p] = {}
             => /\ call[p].before \subseteq call[p].found
                /\ call[p].found \subseteq Sought(call[p].task, call[p].target)]_<<vars, walkVars>>
    BY ListReturns
  <1>2. FilesInv /\ Places /\ PlainTree /\ [NextOf(Processes \cup Walkers)]_filesVars => PlainTree'
    BY TreeKeeps DEF FilesInv
  <1> QED
    BY <1>1, <1>2, FilesBegin, FilesKeep, PlacesBegin, PlacesKept, WalkBegins, WalkNext,
       PlainBegins, ListInvBegins, ListNextInv, PTL DEF SpecFiles, ListingComplete

-----------------------------------------------------------------------------
LEMMA OrderOfNames == StrictWeakOrder
<1> DEFINE greater == [a \in SortedNames |-> {b \in SortedNames : CompareNat(a, b)}]
           equal == [a \in SortedNames |->
                       {b \in SortedNames : ~CompareNat(a, b) /\ ~CompareNat(b, a)}]
<1>1. SortedNames \subseteq Strings
  BY SortedNamesAssumption
<1>2. ASSUME NEW a \in SortedNames
      PROVE  /\ a \notin greater[a]
             /\ \A b \in greater[a] : greater[b] \subseteq greater[a]
             /\ \A b \in equal[a] : equal[b] = equal[a]
  <2>1. a \notin greater[a]
    BY <1>1, Comparisons
  <2>2. ASSUME NEW b \in greater[a], NEW c \in greater[b] PROVE c \in greater[a]
    BY <1>1, <2>2, Comparisons
  <2>3. ASSUME NEW b \in equal[a], NEW c \in SortedNames
        PROVE  c \in equal[b] <=> c \in equal[a]
    BY <1>1, <2>3, Comparisons
  <2>4. \A b \in equal[a] : equal[b] = equal[a]
    <3>1. \A b \in SortedNames : equal[b] \subseteq SortedNames
      OBVIOUS
    <3>2. equal[a] \subseteq SortedNames
      OBVIOUS
    <3> HIDE DEF equal
    <3> QED BY <2>3, <3>1, <3>2
  <2>5. \A b \in greater[a] : greater[b] \subseteq greater[a]
    <3> HIDE DEF greater
    <3> QED BY <2>2
  <2> QED BY <2>1, <2>4, <2>5
<1> QED BY <1>2 DEF StrictWeakOrder

(* For names of any length and of any characters: compareNat, which the    *)
(* listings give std::sort, is a strict weak order, although it compares   *)
(* numbers in one of two ways.                                             *)
THEOREM ListingsSortSafely == SpecFiles => []SortsSafely
  <1>1. SortsSafely
    BY OrderOfNames DEF SortsSafely
  <1> QED
    BY <1>1, PTL
=============================================================================
