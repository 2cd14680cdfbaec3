------------------------- MODULE NaturalOrder_proofs -------------------------
(***************************************************************************)
(* The functions of NaturalOrder on strings of any length: they exist, and *)
(* each order they compute is total.  StrNatCaseCmp compares, from left to *)
(* right, the runs of digits and then the characters with which what is    *)
(* left of the strings begins; both comparisons are total orders, and so   *)
(* is what they make together.                                             *)
(***************************************************************************)
EXTENDS NaturalOrder, WellFoundedInduction, TLAPS

LEMMA Smallest ==
  ASSUME NEW T, T \subseteq Nat, T # {}
  PROVE  \E m \in T : \A k \in T : ~(k < m)
<1>1. IsWellFoundedOn(OpToRel(<, Nat), Nat)
  BY NatLessThanWellFounded DEF OpToRel
<1>2. \E x \in T : \A y \in T : <<y, x>> \notin OpToRel(<, Nat)
  BY <1>1, WFMin DEF OpToRel
<1> QED
  BY <1>2 DEF OpToRel

LEMMA Induction ==
  ASSUME NEW S, 0 \in S, \A n \in Nat : n \in S => n + 1 \in S
  PROVE  Nat \subseteq S
<1> SUFFICES ASSUME Nat \ S # {} PROVE FALSE
  OBVIOUS
<1>1. PICK m \in Nat \ S : \A k \in Nat \ S : ~(k < m)
  BY Smallest
<1>2. m # 0 /\ m - 1 \in Nat
  BY <1>1
<1>3. m - 1 \in S
  BY <1>1, <1>2
<1> QED
  BY <1>1, <1>2, <1>3
-----------------------------------------------------------------------------
(* Recursive functions on strings: H maps a function to what one step      *)
(* makes of it, and asks for shorter strings only.                         *)
Recursive(H, V) ==
  /\ V # {}
  /\ \A f \in [Strings -> V] : H[f] \in [Strings -> V]
  /\ \A f, g \in [Strings -> V], s \in Strings :
       (\A r \in Strings : Len(r) < Len(s) => f[r] = g[r]) => H[f][s] = H[g][s]

LEMMA StringLengths == \A s \in Strings : Len(s) \in Nat
BY DEF Strings

LEMMA EmptyString == <<>> \in Strings
BY DEF Strings

(* What holds of a string when it holds of all shorter ones.               *)
LEMMA StringInduction ==
  ASSUME NEW G, \A s \in Strings : (\A r \in Strings : Len(r) < Len(s) => r \in G) => s \in G
  PROVE  Strings \subseteq G
<1> DEFINE T == {Len(s) : s \in Strings \ G}
<1> SUFFICES ASSUME Strings \ G # {} PROVE FALSE
  OBVIOUS
<1>1. T \subseteq Nat /\ T # {}
  <2>1. PICK s \in Strings : s \notin G
    OBVIOUS
  <2>2. Len(s) \in T
    BY <2>1
  <2>3. \A k \in T : k \in Nat
    BY StringLengths
  <2> HIDE DEF T
  <2> QED BY <2>2, <2>3
<1>2. PICK m \in T : \A k \in T : ~(k < m)
  <2> HIDE DEF T
  <2> QED BY <1>1, Smallest
<1>3. PICK s \in Strings \ G : Len(s) = m
  BY <1>2
<1>4. \A r \in Strings : Len(r) < Len(s) => r \in G
  BY <1>2, <1>3
<1> QED BY <1>3, <1>4

\* f is what is wanted for strings shorter than n.
Solves(f, H, n) == \A s \in Strings : Len(s) < n => f[s] = H[f][s]

LEMMA SolutionsAgree ==
  ASSUME NEW H, NEW V, Recursive(H, V), NEW f \in [Strings -> V], NEW g \in [Strings -> V],
         NEW n \in Nat, Solves(f, H, n), Solves(g, H, n)
  PROVE  \A s \in Strings : Len(s) < n => f[s] = g[s]
<1> DEFINE G == {s \in Strings : Len(s) < n => f[s] = g[s]}
<1>1. ASSUME NEW s \in Strings, \A r \in Strings : Len(r) < Len(s) => r \in G
      PROVE  s \in G
  <2> SUFFICES ASSUME Len(s) < n PROVE f[s] = g[s]
    OBVIOUS
  <2>1. ASSUME NEW r \in Strings, Len(r) < Len(s) PROVE f[r] = g[r]
    <3>1. Len(r) \in Nat /\ Len(s) \in Nat
      BY DEF Strings
    <3>2. Len(r) < n
      BY <2>1, <3>1
    <3> QED BY <1>1, <2>1, <3>2
  <2>2. H[f][s] = H[g][s]
    BY <2>1, Zenon DEF Recursive
  <2>3. f[s] = H[f][s] /\ g[s] = H[g][s]
    BY DEF Solves
  <2> QED BY <2>2, <2>3
<1>2. Strings \subseteq G
  <2> HIDE DEF G
  <2> QED BY <1>1, StringInduction
<1> QED BY <1>2

LEMMA SolutionStep ==
  ASSUME NEW H, NEW V, Recursive(H, V), NEW n \in Nat, NEW f \in [Strings -> V], Solves(f, H, n)
  PROVE  H[f] \in [Strings -> V] /\ Solves(H[f], H, n + 1)
<1> DEFINE g == H[f]
<1>1. g \in [Strings -> V]
  BY Zenon DEF Recursive
<1>2. \A r \in Strings : Len(r) < n => g[r] = f[r]
  BY DEF Solves
<1> HIDE DEF g
<1>3. ASSUME NEW s \in Strings, Len(s) < n + 1 PROVE g[s] = H[g][s]
  <2>1. ASSUME NEW r \in Strings, Len(r) < Len(s) PROVE f[r] = g[r]
    <3>1. Len(r) \in Nat /\ Len(s) \in Nat
      BY DEF Strings
    <3>2. Len(r) < n
      BY <1>3, <2>1, <3>1
    <3> QED BY <1>2, <3>2
  <2>2. H[f][s] = H[g][s]
    BY <1>1, <2>1, Zenon DEF Recursive
  <2> QED BY <2>2 DEF g
<1> QED BY <1>1, <1>3 DEF Solves, g

LEMMA SolutionsExist ==
  ASSUME NEW H, NEW V, Recursive(H, V), NEW n \in Nat
  PROVE  \E f \in [Strings -> V] : Solves(f, H, n)
<1> DEFINE Z == {k \in Nat : \E f \in [Strings -> V] : Solves(f, H, k)}
<1>1. 0 \in Z
  <2>1. PICK v \in V : TRUE
    BY DEF Recursive
  <2>2. [s \in Strings |-> v] \in [Strings -> V]
    OBVIOUS
  <2>3. \A s \in Strings : ~(Len(s) < 0)
    BY DEF Strings
  <2>4. Solves([s \in Strings |-> v], H, 0)
    BY <2>3 DEF Solves
  <2> QED BY <2>2, <2>4
<1>2. ASSUME NEW k \in Nat, k \in Z PROVE k + 1 \in Z
  <2>1. PICK f \in [Strings -> V] : Solves(f, H, k)
    BY <1>2
  <2>2. H[f] \in [Strings -> V] /\ Solves(H[f], H, k + 1)
    BY <2>1, SolutionStep
  <2> QED BY <2>2
<1>3. Nat \subseteq Z
  <2> HIDE DEF Z
  <2> QED BY <1>1, <1>2, Induction
<1> QED BY <1>3

(* There is a function that each step leaves as it is.                     *)
LEMMA Recursion ==
  ASSUME NEW H, NEW V, Recursive(H, V)
  PROVE  \E f \in [Strings -> V] : f = H[f]
<1> DEFINE At(s) == CHOOSE f \in [Strings -> V] : Solves(f, H, Len(s) + 1)
           f == [s \in Strings |-> At(s)[s]]
<1>0. \A s \in Strings : Len(s) \in Nat
  BY DEF Strings
<1>1. ASSUME NEW s \in Strings PROVE At(s) \in [Strings -> V] /\ Solves(At(s), H, Len(s) + 1)
  <2>1. Len(s) + 1 \in Nat
    BY <1>0
  <2>2. \E h \in [Strings -> V] : Solves(h, H, Len(s) + 1)
    BY <2>1, SolutionsExist
  <2> QED BY <2>2, Zenon
<1> HIDE DEF At
<1>2. f \in [Strings -> V]
  BY <1>1
<1>3. ASSUME NEW s \in Strings PROVE f[s] = H[f][s]
  <2>1. ASSUME NEW r \in Strings, Len(r) < Len(s) PROVE f[r] = At(s)[r]
    <3>1. Len(r) + 1 \in Nat /\ Len(r) < Len(r) + 1 /\ Len(r) \in Nat /\ Len(s) \in Nat
      BY <1>0
    <3>2. Solves(At(s), H, Len(r) + 1)
      <4>1. \A q \in Strings : Len(q) < Len(r) + 1 => Len(q) < Len(s) + 1
        BY <1>0, <2>1, <3>1
      <4> QED BY <1>1, <4>1 DEF Solves
    <3>3. \A q \in Strings : Len(q) < Len(r) + 1 => At(r)[q] = At(s)[q]
      BY <1>1, <3>1, <3>2, SolutionsAgree
    <3> QED BY <3>1, <3>3
  <2>2. H[f][s] = H[At(s)][s]
    <3> HIDE DEF f
    <3> QED BY <1>1, <1>2, <2>1, Zenon DEF Recursive
  <2>3. At(s)[s] = H[At(s)][s]
    <3>1. Len(s) < Len(s) + 1
      BY <1>0
    <3> QED BY <1>1, <3>1 DEF Solves
  <2>4. f[s] = At(s)[s]
    OBVIOUS
  <2> HIDE DEF f
  <2> QED BY <2>2, <2>3, <2>4
<1>4. f = H[f]
  <2> HIDE DEF f
  <2>1. H[f] \in [Strings -> V]
    BY <1>2, Zenon DEF Recursive
  <2> QED BY <1>2, <1>3, <2>1
<1> HIDE DEF f
<1> QED BY <1>2, <1>4

-----------------------------------------------------------------------------
(* The functions of NaturalOrder are what they say.                        *)

LEMMA Tails ==
  ASSUME NEW s \in Strings, s # <<>>
  PROVE  Tail(s) \in Strings /\ Len(Tail(s)) < Len(s) /\ Len(s) \in Nat
BY DEF Strings

LEMMA FirstOfEmpty ==
  First(<<>>) = 0 /\ First(<<>>) \notin Spaces /\ ~IsDigit(<<>>)
BY DEF First, NUL, Spaces, IsDigit, Digits

\* One step of SkipSpaces.
Skip == [f \in [Strings -> Strings] |->
  [s \in Strings |-> IF First(s) \in Spaces THEN f[Tail(s)] ELSE s]]

LEMMA SkipRecursive == Recursive(Skip, Strings)
<1>1. Strings # {}
  BY EmptyString
<1>2. ASSUME NEW f \in [Strings -> Strings], NEW s \in Strings
      PROVE  Skip[f][s] = IF First(s) \in Spaces THEN f[Tail(s)] ELSE s
  BY DEF Skip
<1>3. ASSUME NEW s \in Strings, First(s) \in Spaces
      PROVE  Tail(s) \in Strings /\ Len(Tail(s)) < Len(s)
  BY <1>3, Tails, FirstOfEmpty
<1>4. ASSUME NEW f \in [Strings -> Strings] PROVE Skip[f] \in [Strings -> Strings]
  <2>1. \A s \in Strings : First(s) \in Spaces => f[Tail(s)] \in Strings
    BY <1>3
  <2> QED BY <2>1 DEF Skip
<1> QED BY <1>1, <1>2, <1>3, <1>4, ZenonT(40) DEF Recursive

LEMMA SkipValue ==
  /\ SkipSpaces \in [Strings -> Strings]
  /\ \A s \in Strings :
       SkipSpaces[s] = IF First(s) \in Spaces THEN SkipSpaces[Tail(s)] ELSE s
<1>1. PICK f \in [Strings -> Strings] : f = Skip[f]
  BY SkipRecursive, Recursion
<1>2. f = [s \in Strings |-> IF First(s) \in Spaces THEN f[Tail(s)] ELSE s]
  BY <1>1 DEF Skip
<1>3. SkipSpaces = [s \in Strings |-> IF First(s) \in Spaces THEN SkipSpaces[Tail(s)] ELSE s]
  BY <1>2, Zenon DEF SkipSpaces
<1>4. ASSUME NEW s \in Strings, \A r \in Strings : Len(r) < Len(s) => SkipSpaces[r] \in Strings
      PROVE  SkipSpaces[s] \in Strings
  <2>1. CASE First(s) \in Spaces
    <3>1. Tail(s) \in Strings /\ Len(Tail(s)) < Len(s)
      BY <2>1, Tails, FirstOfEmpty
    <3> QED BY <1>3, <1>4, <2>1, <3>1
  <2>2. CASE First(s) \notin Spaces
    BY <1>3, <2>2
  <2> QED BY <2>1, <2>2
<1> DEFINE G == {s \in Strings : SkipSpaces[s] \in Strings}
<1>5. Strings \subseteq G
  <2>1. ASSUME NEW s \in Strings, \A r \in Strings : Len(r) < Len(s) => r \in G PROVE s \in G
    BY <1>4, <2>1
  <2> HIDE DEF G
  <2> QED BY <2>1, StringInduction
<1> QED BY <1>3, <1>5

LEMMA SkipShortens ==
  ASSUME NEW s \in Strings
  PROVE  SkipSpaces[s] \in Strings /\ Len(SkipSpaces[s]) <= Len(s)
<1> DEFINE G == {r \in Strings : Len(SkipSpaces[r]) <= Len(r)}
<1>1. ASSUME NEW a \in Strings, \A r \in Strings : Len(r) < Len(a) => r \in G PROVE a \in G
  <2>1. CASE First(a) \in Spaces
    <3>1. Tail(a) \in Strings /\ Len(Tail(a)) < Len(a)
      BY <2>1, Tails, FirstOfEmpty
    <3>2. Len(SkipSpaces[Tail(a)]) <= Len(Tail(a))
      BY <1>1, <3>1
    <3>3. SkipSpaces[a] = SkipSpaces[Tail(a)]
      BY <2>1, SkipValue
    <3>4. Len(a) \in Nat /\ Len(Tail(a)) \in Nat /\ Len(SkipSpaces[a]) \in Nat
      <4>1. SkipSpaces[a] \in Strings
        BY SkipValue
      <4> QED BY <3>1, <4>1 DEF Strings
    <3> QED BY <3>1, <3>2, <3>3, <3>4
  <2>2. CASE First(a) \notin Spaces
    <3>1. SkipSpaces[a] = a
      BY <2>2, SkipValue
    <3>2. Len(a) \in Nat
      BY DEF Strings
    <3> QED BY <3>1, <3>2
  <2> QED BY <2>1, <2>2
<1>2. Strings \subseteq G
  <2> HIDE DEF G
  <2> QED BY <1>1, StringInduction
<1> QED BY <1>2, SkipValue

-----------------------------------------------------------------------------
\* What a step makes of what the last step has made of the tails.
LeftOf(a, b, rest) ==
  CASE ~IsDigit(a) /\ ~IsDigit(b) -> 0
    [] ~IsDigit(a) /\ IsDigit(b) -> -1
    [] IsDigit(a) /\ ~IsDigit(b) -> 1
    [] IsDigit(a) /\ IsDigit(b) /\ Head(a) # Head(b) -> Sign(Head(a) - Head(b))
    [] OTHER -> rest

\* One step of CompareLeft.
Left == [f \in [Strings -> [Strings -> Signs]] |->
  [a \in Strings |-> [b \in Strings |-> LeftOf(a, b, f[Tail(a)][Tail(b)])]]]

LEMMA DigitTails ==
  ASSUME NEW a \in Strings, IsDigit(a)
  PROVE  Tail(a) \in Strings /\ Len(Tail(a)) < Len(a) /\ Head(a) \in Digits /\ First(a) = Head(a)
         /\ a # <<>>
<1>1. a # <<>>
  BY FirstOfEmpty
<1> QED BY <1>1, Tails DEF IsDigit, First

LEMMA DigitHead ==
  ASSUME NEW a \in Strings, IsDigit(a)
  PROVE  Head(a) \in Int
<1>1. Head(a) \in Digits
  BY DigitTails
<1> QED BY <1>1 DEF Digits

LEMMA SignOf == ASSUME NEW n \in Int PROVE Sign(n) \in Signs
BY DEF Sign, Signs

LEMMA LeftTyped ==
  ASSUME NEW a \in Strings, NEW b \in Strings, NEW rest,
         (IsDigit(a) /\ IsDigit(b)) => rest \in Signs
  PROVE  LeftOf(a, b, rest) \in Signs
<1>1. CASE IsDigit(a) /\ IsDigit(b)
  <2>1. Head(a) - Head(b) \in Int
    BY <1>1, DigitHead
  <2>2. Sign(Head(a) - Head(b)) \in Signs
    BY <2>1, SignOf
  <2> QED BY <1>1, <2>2 DEF LeftOf
<1>2. CASE ~(IsDigit(a) /\ IsDigit(b))
  BY <1>2 DEF LeftOf, Signs
<1> QED BY <1>1, <1>2

LEMMA LeftRecursive == Recursive(Left, [Strings -> Signs])
<1> DEFINE V == [Strings -> Signs]
<1>1. V # {}
  <2>1. [s \in Strings |-> 0] \in V
    BY DEF Signs
  <2> QED BY <2>1
<1>2. ASSUME NEW f \in [Strings -> V], NEW a \in Strings
      PROVE  Left[f][a] = [b \in Strings |-> LeftOf(a, b, f[Tail(a)][Tail(b)])]
  BY DEF Left
<1>3. ASSUME NEW f \in [Strings -> V], NEW a \in Strings, NEW b \in Strings,
             IsDigit(a), IsDigit(b)
      PROVE  f[Tail(a)][Tail(b)] \in Signs
  <2>1. Tail(a) \in Strings /\ Tail(b) \in Strings
    BY <1>3, DigitTails
  <2> QED BY <2>1
<1>4. ASSUME NEW f \in [Strings -> V] PROVE Left[f] \in [Strings -> V]
  <2>1. ASSUME NEW a \in Strings PROVE Left[f][a] \in V
    <3>1. \A b \in Strings : LeftOf(a, b, f[Tail(a)][Tail(b)]) \in Signs
      BY <1>3, LeftTyped
    <3> QED BY <1>2, <3>1
  <2>2. Left[f] = [a \in Strings |-> Left[f][a]]
    BY DEF Left
  <2> QED BY <2>1, <2>2
<1>5. ASSUME NEW f \in [Strings -> V], NEW g \in [Strings -> V], NEW a \in Strings,
             \A r \in Strings : Len(r) < Len(a) => f[r] = g[r]
      PROVE  Left[f][a] = Left[g][a]
  <2>1. CASE IsDigit(a)
    <3>1. f[Tail(a)] = g[Tail(a)]
      BY <1>5, <2>1, DigitTails
    <3>2. /\ Left[f][a] = [b \in Strings |-> LeftOf(a, b, f[Tail(a)][Tail(b)])]
          /\ Left[g][a] = [b \in Strings |-> LeftOf(a, b, g[Tail(a)][Tail(b)])]
      BY <1>2
    <3> QED BY <3>1, <3>2, Zenon
  <2>2. CASE ~IsDigit(a)
    <3>1. ASSUME NEW b, NEW x, NEW y PROVE LeftOf(a, b, x) = LeftOf(a, b, y)
      BY <2>2 DEF LeftOf
    <3>2. \A b \in Strings : LeftOf(a, b, f[Tail(a)][Tail(b)]) = LeftOf(a, b, g[Tail(a)][Tail(b)])
      BY <3>1
    <3>3. /\ Left[f][a] = [b \in Strings |-> LeftOf(a, b, f[Tail(a)][Tail(b)])]
          /\ Left[g][a] = [b \in Strings |-> LeftOf(a, b, g[Tail(a)][Tail(b)])]
      BY <1>2
    <3> QED BY <3>2, <3>3
  <2> QED BY <2>1, <2>2
<1> HIDE DEF V
<1>6. Recursive(Left, V)
  BY <1>1, <1>4, <1>5 DEF Recursive
<1> QED BY <1>6 DEF V

LEMMA LeftValue ==
  /\ CompareLeft \in [Strings -> [Strings -> Signs]]
  /\ \A a, b \in Strings :
       CompareLeft[a][b] = LeftOf(a, b, CompareLeft[Tail(a)][Tail(b)])
<1>1. PICK f \in [Strings -> [Strings -> Signs]] : f = Left[f]
  BY LeftRecursive, Recursion
<1>2. f = [a \in Strings |-> [b \in Strings |-> LeftOf(a, b, f[Tail(a)][Tail(b)])]]
  BY <1>1 DEF Left
<1>3. CompareLeft = [a \in Strings |-> [b \in Strings |->
                       LeftOf(a, b, CompareLeft[Tail(a)][Tail(b)])]]
  BY <1>2, Zenon DEF CompareLeft, LeftOf
<1>4. ASSUME NEW a \in Strings,
             \A r \in Strings : Len(r) < Len(a) => CompareLeft[r] \in [Strings -> Signs]
      PROVE  CompareLeft[a] \in [Strings -> Signs]
  <2>1. CompareLeft[a] = [b \in Strings |-> LeftOf(a, b, CompareLeft[Tail(a)][Tail(b)])]
    BY <1>3
  <2>2. ASSUME NEW b \in Strings PROVE LeftOf(a, b, CompareLeft[Tail(a)][Tail(b)]) \in Signs
    <3>1. ASSUME IsDigit(a), IsDigit(b) PROVE CompareLeft[Tail(a)][Tail(b)] \in Signs
      <4>1. CompareLeft[Tail(a)] \in [Strings -> Signs] /\ Tail(b) \in Strings
        BY <1>4, <3>1, DigitTails
      <4> QED BY <4>1
    <3> QED BY <3>1, LeftTyped
  <2> QED BY <2>1, <2>2
<1> DEFINE G == {a \in Strings : CompareLeft[a] \in [Strings -> Signs]}
<1>5. Strings \subseteq G
  <2>1. ASSUME NEW a \in Strings, \A r \in Strings : Len(r) < Len(a) => r \in G PROVE a \in G
    BY <1>4, <2>1
  <2> HIDE DEF G
  <2> QED BY <2>1, StringInduction
<1>6. \A a \in Strings : CompareLeft[a] \in [Strings -> Signs]
  BY <1>5
<1>7. \A a, b \in Strings : CompareLeft[a][b] = LeftOf(a, b, CompareLeft[Tail(a)][Tail(b)])
  <2>1. ASSUME NEW a \in Strings
        PROVE  CompareLeft[a] = [b \in Strings |-> LeftOf(a, b, CompareLeft[Tail(a)][Tail(b)])]
    BY <1>3
  <2>2. ASSUME NEW a \in Strings, NEW b \in Strings
        PROVE  CompareLeft[a][b] = LeftOf(a, b, CompareLeft[Tail(a)][Tail(b)])
    BY <2>1
  <2> QED BY <2>2
<1>8. CompareLeft = [a \in Strings |-> CompareLeft[a]]
  BY <1>3
<1> QED BY <1>6, <1>7, <1>8

\* Of a and b, b and c, a and c.
Ordered(x, y, z) == (x <= 0 /\ y <= 0) => z <= 0 /\ (z = 0 => x = 0 /\ y = 0)

LEMMA LeftOfOrdered ==
  ASSUME NEW a \in Strings, NEW b \in Strings, NEW c \in Strings, NEW x, NEW y, NEW z,
         (IsDigit(a) /\ IsDigit(b)) => x \in Signs,
         (IsDigit(b) /\ IsDigit(c)) => y \in Signs,
         (IsDigit(a) /\ IsDigit(b) /\ IsDigit(c)) => Ordered(x, y, z) /\ z \in Signs
  PROVE  Ordered(LeftOf(a, b, x), LeftOf(b, c, y), LeftOf(a, c, z))
<1>1. CASE IsDigit(a) /\ IsDigit(b) /\ IsDigit(c)
  <2> DEFINE i == Head(a)
             j == Head(b)
             k == Head(c)
  <2>1. i \in Int /\ j \in Int /\ k \in Int
    BY <1>1, DigitHead
  <2>2. /\ LeftOf(a, b, x) = IF i # j THEN Sign(i - j) ELSE x
        /\ LeftOf(b, c, y) = IF j # k THEN Sign(j - k) ELSE y
        /\ LeftOf(a, c, z) = IF i # k THEN Sign(i - k) ELSE z
    BY <1>1 DEF LeftOf
  <2> HIDE DEF i, j, k
  <2> QED BY <1>1, <2>1, <2>2 DEF Sign, Ordered, Signs
<1>2. CASE ~(IsDigit(a) /\ IsDigit(b) /\ IsDigit(c))
  <2>1. CASE ~IsDigit(a) /\ ~IsDigit(b)
    BY <2>1, LeftTyped DEF LeftOf, Ordered
  <2>2. CASE ~IsDigit(a) /\ IsDigit(b)
    BY <2>2, LeftTyped DEF LeftOf, Ordered
  <2>3. CASE IsDigit(a) /\ ~IsDigit(b)
    BY <2>3, LeftTyped DEF LeftOf, Ordered
  <2>4. CASE IsDigit(a) /\ IsDigit(b) /\ ~IsDigit(c)
    <3>1. LeftOf(b, c, y) = 1
      BY <2>4 DEF LeftOf
    <3> QED BY <3>1 DEF Ordered
  <2> QED BY <1>2, <2>1, <2>2, <2>3, <2>4
<1> QED BY <1>1, <1>2

LEMMA LeftOrder ==
  \A a, b, c \in Strings :
    /\ CompareLeft[a][b] = -CompareLeft[b][a]
    /\ Ordered(CompareLeft[a][b], CompareLeft[b][c], CompareLeft[a][c])
<1> DEFINE Good(a) == \A b, c \in Strings :
             /\ CompareLeft[a][b] = -CompareLeft[b][a]
             /\ Ordered(CompareLeft[a][b], CompareLeft[b][c], CompareLeft[a][c])
           G == {a \in Strings : Good(a)}
<1>0. \A r, s \in Strings : CompareLeft[r][s] \in Signs
  BY LeftValue
<1>1. ASSUME NEW a \in Strings, \A r \in Strings : Len(r) < Len(a) => Good(r) PROVE Good(a)
  <2> SUFFICES ASSUME NEW b \in Strings, NEW c \in Strings
               PROVE  /\ CompareLeft[a][b] = -CompareLeft[b][a]
                      /\ Ordered(CompareLeft[a][b], CompareLeft[b][c], CompareLeft[a][c])
    OBVIOUS
  <2> DEFINE ab == CompareLeft[Tail(a)][Tail(b)]
             ba == CompareLeft[Tail(b)][Tail(a)]
             bc == CompareLeft[Tail(b)][Tail(c)]
             ac == CompareLeft[Tail(a)][Tail(c)]
  <2>1. /\ CompareLeft[a][b] = LeftOf(a, b, ab) /\ CompareLeft[b][a] = LeftOf(b, a, ba)
        /\ CompareLeft[b][c] = LeftOf(b, c, bc) /\ CompareLeft[a][c] = LeftOf(a, c, ac)
    BY LeftValue
  <2>2. /\ (IsDigit(a) /\ IsDigit(b)) => (ab = -ba /\ ab \in Signs /\ ba \in Signs)
        /\ (IsDigit(b) /\ IsDigit(c)) => bc \in Signs
        /\ (IsDigit(a) /\ IsDigit(b) /\ IsDigit(c)) => Ordered(ab, bc, ac) /\ ac \in Signs
    <3>1. ASSUME NEW s \in {a, b, c}, IsDigit(s) PROVE Tail(s) \in Strings /\ Len(Tail(s)) < Len(s)
      BY <3>1, DigitTails
    <3>2. IsDigit(a) => Good(Tail(a))
      BY <1>1, <3>1
    <3> QED BY <1>0, <3>1, <3>2
  <2> HIDE DEF ab, ba, bc, ac
  <2>3. Ordered(LeftOf(a, b, ab), LeftOf(b, c, bc), LeftOf(a, c, ac))
    BY <2>2, LeftOfOrdered
  <2>4. LeftOf(a, b, ab) = -LeftOf(b, a, ba)
    <3>1. CASE IsDigit(a) /\ IsDigit(b)
      <4> DEFINE i == Head(a)
                 j == Head(b)
      <4>1. i \in Int /\ j \in Int
        BY <3>1, DigitHead
      <4>2. /\ LeftOf(a, b, ab) = IF i # j THEN Sign(i - j) ELSE ab
            /\ LeftOf(b, a, ba) = IF j # i THEN Sign(j - i) ELSE ba
        BY <3>1 DEF LeftOf
      <4> HIDE DEF i, j
      <4> QED BY <2>2, <3>1, <4>1, <4>2 DEF Sign, Signs
    <3>2. CASE ~(IsDigit(a) /\ IsDigit(b))
      BY <3>2 DEF LeftOf
    <3> QED BY <3>1, <3>2
  <2> QED BY <2>1, <2>3, <2>4
<1>2. Strings \subseteq G
  <2>1. ASSUME NEW a \in Strings, \A r \in Strings : Len(r) < Len(a) => r \in G PROVE a \in G
    <3>1. \A r \in Strings : Len(r) < Len(a) => Good(r)
      BY <2>1
    <3> HIDE DEF Good
    <3> QED BY <1>1, <3>1
  <2> HIDE DEF G
  <2> QED BY <2>1, StringInduction
<1> QED BY <1>2

-----------------------------------------------------------------------------
(* The same for CompareRight, which has the first difference with it.      *)

Biases == [Signs -> Signs]

Bias(a, b, bias) == IF bias = 0 THEN Sign(Head(a) - Head(b)) ELSE bias

RightOf(a, b, bias, rest) ==
  CASE ~IsDigit(a) /\ ~IsDigit(b) -> bias
    [] ~IsDigit(a) /\ IsDigit(b) -> -1
    [] IsDigit(a) /\ ~IsDigit(b) -> 1
    [] OTHER -> rest[Bias(a, b, bias)]

\* One step of CompareRight.
Right == [f \in [Strings -> [Strings -> Biases]] |->
  [a \in Strings |-> [b \in Strings |-> [bias \in Signs |->
     RightOf(a, b, bias, f[Tail(a)][Tail(b)])]]]]

LEMMA BiasTyped ==
  ASSUME NEW a \in Strings, NEW b \in Strings, NEW bias \in Signs, IsDigit(a), IsDigit(b)
  PROVE  Bias(a, b, bias) \in Signs
<1>1. Head(a) - Head(b) \in Int
  BY DigitHead
<1> QED BY <1>1, SignOf DEF Bias

LEMMA RightTyped ==
  ASSUME NEW a \in Strings, NEW b \in Strings, NEW rest, NEW bias \in Signs,
         (IsDigit(a) /\ IsDigit(b)) => rest \in Biases
  PROVE  RightOf(a, b, bias, rest) \in Signs
<1>1. CASE IsDigit(a) /\ IsDigit(b)
  BY <1>1, BiasTyped DEF RightOf, Biases
<1>2. CASE ~(IsDigit(a) /\ IsDigit(b))
  BY <1>2 DEF RightOf, Signs
<1> QED BY <1>1, <1>2

LEMMA RightRecursive == Recursive(Right, [Strings -> Biases])
<1> DEFINE V == [Strings -> Biases]
           Row(a, b, f) == [bias \in Signs |-> RightOf(a, b, bias, f[Tail(a)][Tail(b)])]
<1>1. V # {}
  <2> DEFINE some == [s \in Strings |-> [bias \in Signs |-> bias]]
  <2>1. some \in V
    BY DEF Biases
  <2> HIDE DEF some, V
  <2> QED BY <2>1
<1>2. ASSUME NEW f \in [Strings -> V], NEW a \in Strings
      PROVE  Right[f][a] = [b \in Strings |-> Row(a, b, f)]
  BY DEF Right
<1>3. ASSUME NEW f \in [Strings -> V], NEW a \in Strings, NEW b \in Strings,
             IsDigit(a), IsDigit(b)
      PROVE  f[Tail(a)][Tail(b)] \in Biases
  <2>1. Tail(a) \in Strings /\ Tail(b) \in Strings
    BY <1>3, DigitTails
  <2> QED BY <2>1
<1>4. ASSUME NEW f \in [Strings -> V] PROVE Right[f] \in [Strings -> V]
  <2>1. ASSUME NEW a \in Strings PROVE Right[f][a] \in V
    <3>1. ASSUME NEW b \in Strings PROVE Row(a, b, f) \in Biases
      <4>1. \A bias \in Signs : RightOf(a, b, bias, f[Tail(a)][Tail(b)]) \in Signs
        BY <1>3, RightTyped
      <4> QED BY <4>1 DEF Biases
    <3> HIDE DEF Row
    <3> QED BY <1>2, <3>1
  <2>2. Right[f] = [a \in Strings |-> Right[f][a]]
    BY DEF Right
  <2> QED BY <2>1, <2>2
<1>5. ASSUME NEW f \in [Strings -> V], NEW g \in [Strings -> V], NEW a \in Strings,
             \A r \in Strings : Len(r) < Len(a) => f[r] = g[r]
      PROVE  Right[f][a] = Right[g][a]
  <2>1. ASSUME NEW b \in Strings PROVE Row(a, b, f) = Row(a, b, g)
    <3>1. CASE IsDigit(a)
      <4>1. f[Tail(a)] = g[Tail(a)]
        BY <1>5, <3>1, DigitTails
      <4> QED BY <4>1
    <3>2. CASE ~IsDigit(a)
      <4>1. ASSUME NEW x, NEW y, NEW bias PROVE RightOf(a, b, bias, x) = RightOf(a, b, bias, y)
        BY <3>2 DEF RightOf
      <4>2. \A bias \in Signs : RightOf(a, b, bias, f[Tail(a)][Tail(b)])
                                 = RightOf(a, b, bias, g[Tail(a)][Tail(b)])
        BY <4>1
      <4> QED BY <4>2
    <3> QED BY <3>1, <3>2
  <2>2. /\ Right[f][a] = [b \in Strings |-> Row(a, b, f)]
        /\ Right[g][a] = [b \in Strings |-> Row(a, b, g)]
    BY <1>2
  <2> HIDE DEF Row
  <2> QED BY <2>1, <2>2
<1> HIDE DEF V
<1>6. Recursive(Right, V)
  BY <1>1, <1>4, <1>5 DEF Recursive
<1> QED BY <1>6 DEF V

LEMMA RightValue ==
  /\ CompareRight \in [Strings -> [Strings -> Biases]]
  /\ \A a, b \in Strings : \A bias \in Signs :
       CompareRight[a][b][bias] = RightOf(a, b, bias, CompareRight[Tail(a)][Tail(b)])
<1> DEFINE Row(a, b, f) == [bias \in Signs |-> RightOf(a, b, bias, f[Tail(a)][Tail(b)])]
<1>1. PICK f \in [Strings -> [Strings -> Biases]] : f = Right[f]
  BY RightRecursive, Recursion
<1>2. f = [a \in Strings |-> [b \in Strings |-> Row(a, b, f)]]
  BY <1>1 DEF Right
<1>3. CompareRight = [a \in Strings |-> [b \in Strings |-> Row(a, b, CompareRight)]]
  BY <1>2, Zenon DEF CompareRight, RightOf, Bias
<1>4. ASSUME NEW a \in Strings
      PROVE  CompareRight[a] = [b \in Strings |-> Row(a, b, CompareRight)]
  <2> HIDE DEF Row
  <2> QED BY <1>3
<1>5. ASSUME NEW a \in Strings,
             \A r \in Strings : Len(r) < Len(a) => CompareRight[r] \in [Strings -> Biases]
      PROVE  CompareRight[a] \in [Strings -> Biases]
  <2>1. ASSUME NEW b \in Strings PROVE Row(a, b, CompareRight) \in Biases
    <3>1. ASSUME IsDigit(a), IsDigit(b) PROVE CompareRight[Tail(a)][Tail(b)] \in Biases
      <4>1. CompareRight[Tail(a)] \in [Strings -> Biases] /\ Tail(b) \in Strings
        BY <1>5, <3>1, DigitTails
      <4> QED BY <4>1
    <3>2. \A bias \in Signs : RightOf(a, b, bias, CompareRight[Tail(a)][Tail(b)]) \in Signs
      BY <3>1, RightTyped
    <3> QED BY <3>2 DEF Biases
  <2> HIDE DEF Row
  <2> QED BY <1>4, <2>1
<1> DEFINE G == {a \in Strings : CompareRight[a] \in [Strings -> Biases]}
<1>6. Strings \subseteq G
  <2>1. ASSUME NEW a \in Strings, \A r \in Strings : Len(r) < Len(a) => r \in G PROVE a \in G
    BY <1>5, <2>1
  <2> HIDE DEF G
  <2> QED BY <2>1, StringInduction
<1>7. \A a \in Strings : CompareRight[a] \in [Strings -> Biases]
  BY <1>6
<1>8. ASSUME NEW a \in Strings, NEW b \in Strings, NEW bias \in Signs
      PROVE  CompareRight[a][b][bias] = RightOf(a, b, bias, CompareRight[Tail(a)][Tail(b)])
  <2>1. CompareRight[a][b] = Row(a, b, CompareRight)
    <3> HIDE DEF Row
    <3> QED BY <1>4
  <2> QED BY <2>1
<1>9. CompareRight = [a \in Strings |-> CompareRight[a]]
  <2> HIDE DEF Row
  <2> QED BY <1>3
<1> QED BY <1>7, <1>8, <1>9

LEMMA BiasOrdered ==
  ASSUME NEW a \in Strings, NEW b \in Strings, NEW c \in Strings,
         IsDigit(a), IsDigit(b), IsDigit(c),
         NEW x \in Signs, NEW y \in Signs, NEW z \in Signs, Ordered(x, y, z)
  PROVE  Ordered(Bias(a, b, x), Bias(b, c, y), Bias(a, c, z))
<1> DEFINE i == Head(a)
           j == Head(b)
           k == Head(c)
<1>1. i \in Int /\ j \in Int /\ k \in Int
  BY DigitHead
<1>2. /\ Bias(a, b, x) = IF x = 0 THEN Sign(i - j) ELSE x
      /\ Bias(b, c, y) = IF y = 0 THEN Sign(j - k) ELSE y
      /\ Bias(a, c, z) = IF z = 0 THEN Sign(i - k) ELSE z
  BY DEF Bias
<1> HIDE DEF i, j, k
<1> QED BY <1>1, <1>2 DEF Sign, Ordered, Signs

LEMMA BiasReversed ==
  ASSUME NEW a \in Strings, NEW b \in Strings, IsDigit(a), IsDigit(b), NEW x \in Signs
  PROVE  Bias(b, a, -x) = -Bias(a, b, x)
<1>1. Head(a) \in Int /\ Head(b) \in Int
  BY DigitHead
<1> QED BY <1>1 DEF Bias, Sign, Signs

LEMMA SignsReversed == \A x \in Signs : -x \in Signs
BY DEF Signs

LEMMA RightOrder ==
  \A a, b, c \in Strings : \A x, y, z \in Signs :
    /\ CompareRight[b][a][-x] = -CompareRight[a][b][x]
    /\ Ordered(x, y, z)
        => Ordered(CompareRight[a][b][x], CompareRight[b][c][y], CompareRight[a][c][z])
<1> DEFINE Good(a) == \A b, c \in Strings : \A x, y, z \in Signs :
             /\ CompareRight[b][a][-x] = -CompareRight[a][b][x]
             /\ Ordered(x, y, z)
                 => Ordered(CompareRight[a][b][x], CompareRight[b][c][y], CompareRight[a][c][z])
           G == {a \in Strings : Good(a)}
<1>1. ASSUME NEW a \in Strings, \A r \in Strings : Len(r) < Len(a) => Good(r) PROVE Good(a)
  <2> SUFFICES ASSUME NEW b \in Strings, NEW c \in Strings,
                      NEW x \in Signs, NEW y \in Signs, NEW z \in Signs
               PROVE  /\ CompareRight[b][a][-x] = -CompareRight[a][b][x]
                      /\ Ordered(x, y, z)
                          => Ordered(CompareRight[a][b][x], CompareRight[b][c][y],
                                     CompareRight[a][c][z])
    OBVIOUS
  <2> DEFINE ab == CompareRight[Tail(a)][Tail(b)]
             ba == CompareRight[Tail(b)][Tail(a)]
             bc == CompareRight[Tail(b)][Tail(c)]
             ac == CompareRight[Tail(a)][Tail(c)]
  <2>1. /\ CompareRight[a][b][x] = RightOf(a, b, x, ab)
        /\ CompareRight[b][a][-x] = RightOf(b, a, -x, ba)
        /\ CompareRight[b][c][y] = RightOf(b, c, y, bc)
        /\ CompareRight[a][c][z] = RightOf(a, c, z, ac)
    BY RightValue, SignsReversed
  <2>2. IsDigit(a) => Tail(a) \in Strings /\ Good(Tail(a))
    BY <1>1, DigitTails
  <2>3. (IsDigit(b) => Tail(b) \in Strings) /\ (IsDigit(c) => Tail(c) \in Strings)
    BY DigitTails
  <2>4. CompareRight[b][a][-x] = -CompareRight[a][b][x]
    <3>1. CASE IsDigit(a) /\ IsDigit(b)
      <4>1. /\ CompareRight[a][b][x] = ab[Bias(a, b, x)]
            /\ CompareRight[b][a][-x] = ba[Bias(b, a, -x)]
        BY <2>1, <3>1 DEF RightOf
      <4>2. Bias(a, b, x) \in Signs /\ Bias(b, a, -x) = -Bias(a, b, x)
        BY <3>1, BiasTyped, BiasReversed
      <4>3. \A w \in Signs : ba[-w] = -ab[w]
        BY <2>2, <2>3, <3>1
      <4> QED BY <4>1, <4>2, <4>3
    <3>2. CASE ~(IsDigit(a) /\ IsDigit(b))
      BY <2>1, <3>2 DEF RightOf
    <3> QED BY <3>1, <3>2
  <2>5. ASSUME Ordered(x, y, z)
        PROVE  Ordered(RightOf(a, b, x, ab), RightOf(b, c, y, bc), RightOf(a, c, z, ac))
    <3>1. CASE IsDigit(a) /\ IsDigit(b) /\ IsDigit(c)
      <4>1. /\ RightOf(a, b, x, ab) = ab[Bias(a, b, x)]
            /\ RightOf(b, c, y, bc) = bc[Bias(b, c, y)]
            /\ RightOf(a, c, z, ac) = ac[Bias(a, c, z)]
        BY <3>1 DEF RightOf
      <4>2. /\ Bias(a, b, x) \in Signs /\ Bias(b, c, y) \in Signs /\ Bias(a, c, z) \in Signs
            /\ Ordered(Bias(a, b, x), Bias(b, c, y), Bias(a, c, z))
        BY <2>5, <3>1, BiasTyped, BiasOrdered
      <4>3. \A u, v, w \in Signs : Ordered(u, v, w) => Ordered(ab[u], bc[v], ac[w])
        BY <2>2, <2>3, <3>1
      <4> HIDE DEF ab, bc, ac
      <4> QED BY <4>1, <4>2, <4>3
    <3> HIDE DEF ab, bc, ac
    <3>2. CASE IsDigit(a) /\ ~IsDigit(b)
      <4>1. RightOf(a, b, x, ab) = 1
        BY <3>2 DEF RightOf
      <4> QED BY <4>1 DEF Ordered
    <3>3. CASE IsDigit(b) /\ ~IsDigit(c)
      <4>1. RightOf(b, c, y, bc) = 1
        BY <3>3 DEF RightOf
      <4> QED BY <4>1 DEF Ordered
    <3>4. CASE ~IsDigit(a) /\ IsDigit(c)
      <4>1. RightOf(a, c, z, ac) = -1
        BY <3>4 DEF RightOf
      <4> QED BY <4>1 DEF Ordered
    <3>5. CASE ~IsDigit(a) /\ ~IsDigit(b) /\ ~IsDigit(c)
      BY <2>5, <3>5 DEF RightOf
    <3> QED BY <3>1, <3>2, <3>3, <3>4, <3>5
  <2> QED BY <2>1, <2>4, <2>5
<1>2. Strings \subseteq G
  <2>1. ASSUME NEW a \in Strings, \A r \in Strings : Len(r) < Len(a) => r \in G PROVE a \in G
    <3>1. \A r \in Strings : Len(r) < Len(a) => Good(r)
      BY <2>1
    <3> HIDE DEF Good
    <3> QED BY <1>1, <3>1
  <2> HIDE DEF G
  <2> QED BY <2>1, StringInduction
<1> QED BY <1>2

LEMMA RightOrder0 ==
  \A a, b, c \in Strings :
    /\ CompareRight[a][b][0] \in Signs
    /\ CompareRight[b][a][0] = -CompareRight[a][b][0]
    /\ Ordered(CompareRight[a][b][0], CompareRight[b][c][0], CompareRight[a][c][0])
<1>1. 0 \in Signs /\ Ordered(0, 0, 0)
  BY DEF Signs, Ordered
<1>2. \A a, b \in Strings : CompareRight[a][b][0] \in Signs
  BY <1>1, RightValue DEF Biases
<1>3. \A a, b, c \in Strings :
        Ordered(CompareRight[a][b][0], CompareRight[b][c][0], CompareRight[a][c][0])
  BY <1>1, RightOrder
<1>4. ASSUME NEW a \in Strings, NEW b \in Strings, NEW x \in Signs, x = 0
      PROVE  CompareRight[b][a][x] = -CompareRight[a][b][x]
  <2>1. CompareRight[b][a][-x] = -CompareRight[a][b][x]
    BY RightOrder
  <2>2. \A n \in Int : (n <= 0 /\ 0 <= n) => -n = n
    OBVIOUS
  <2>3. x \in Int /\ x <= 0 /\ 0 <= x
    BY <1>4
  <2>4. -x = x
    BY <2>2, <2>3
  <2> QED BY <2>1, <2>4
<1> QED BY <1>1, <1>2, <1>3, <1>4

\* A run that begins with a zero is less than any that does not.
LEMMA ZeroFirst ==
  ASSUME NEW a \in Strings, NEW b \in Strings, IsDigit(a), IsDigit(b),
         First(a) = 48, First(b) # 48
  PROVE  CompareRuns(a, b) = -1 /\ CompareRuns(b, a) = 1
<1>1. /\ Head(a) = 48 /\ Head(b) # 48 /\ Head(b) \in Digits
  BY DigitTails
<1>2. Sign(Head(a) - Head(b)) = -1 /\ Sign(Head(b) - Head(a)) = 1
  BY <1>1 DEF Sign, Digits
<1>3. CompareLeft[a][b] = -1 /\ CompareLeft[b][a] = 1
  BY <1>1, <1>2, LeftValue DEF LeftOf
<1> QED BY <1>3 DEF CompareRuns

LEMMA RunsOrder ==
  ASSUME NEW a \in Strings, NEW b \in Strings, NEW c \in Strings,
         IsDigit(a), IsDigit(b), IsDigit(c)
  PROVE  /\ CompareRuns(a, b) \in Signs
         /\ CompareRuns(b, a) = -CompareRuns(a, b)
         /\ Ordered(CompareRuns(a, b), CompareRuns(b, c), CompareRuns(a, c))
<1>1. /\ CompareRuns(a, b) \in Signs /\ CompareRuns(b, c) \in Signs /\ CompareRuns(a, c) \in Signs
  BY LeftValue, RightOrder0 DEF CompareRuns
<1>2. CompareRuns(b, a) = -CompareRuns(a, b)
  <2>1. CompareLeft[b][a] = -CompareLeft[a][b]
    BY LeftOrder
  <2>2. CompareRight[b][a][0] = -CompareRight[a][b][0]
    BY RightOrder0
  <2> QED BY <2>1, <2>2 DEF CompareRuns
<1>3. Ordered(CompareRuns(a, b), CompareRuns(b, c), CompareRuns(a, c))
  <2>1. CASE First(a) = 48 /\ First(b) = 48 /\ First(c) = 48
    <3>1. Ordered(CompareLeft[a][b], CompareLeft[b][c], CompareLeft[a][c])
      BY LeftOrder
    <3> QED BY <2>1, <3>1 DEF CompareRuns
  <2>2. CASE First(a) # 48 /\ First(b) # 48 /\ First(c) # 48
    <3>1. Ordered(CompareRight[a][b][0], CompareRight[b][c][0], CompareRight[a][c][0])
      BY RightOrder0
    <3> QED BY <2>2, <3>1 DEF CompareRuns
  <2>3. CASE First(a) # 48 /\ First(b) = 48
    <3>1. CompareRuns(a, b) = 1
      BY <2>3, ZeroFirst
    <3> QED BY <3>1 DEF Ordered
  <2>4. CASE First(b) # 48 /\ First(c) = 48
    <3>1. CompareRuns(b, c) = 1
      BY <2>4, ZeroFirst
    <3> QED BY <3>1 DEF Ordered
  <2>5. CASE First(a) = 48 /\ First(c) # 48
    <3>1. CompareRuns(a, c) = -1
      BY <2>5, ZeroFirst
    <3> QED BY <3>1 DEF Ordered
  <2> QED BY <2>1, <2>2, <2>3, <2>4, <2>5
<1> QED BY <1>1, <1>2, <1>3

-----------------------------------------------------------------------------
(* One step of StrNatCaseCmp.                                              *)
Code(a) == ToUpper(First(a))

LEMMA UpperCase ==
  ASSUME NEW c \in Int
  PROVE  /\ ToUpper(c) \in Int
         /\ ToUpper(c) \in 48 .. 57 <=> c \in 48 .. 57
         /\ ToUpper(c) = 0 <=> c = 0
BY DEF ToUpper

LEMMA Codes ==
  ASSUME NEW a \in Strings
  PROVE  /\ Code(a) \in Int
         /\ IsDigit(a) <=> Code(a) \in 48 .. 57
         /\ Code(a) = 0 <=> a = <<>>
<1>1. CASE a = <<>>
  BY <1>1 DEF Code, First, NUL, ToUpper, IsDigit, Digits
<1>2. CASE a # <<>>
  <2>1. First(a) = Head(a) /\ Head(a) \in Int /\ Head(a) # 0
    <3> DEFINE Chars == (-128 .. 255) \ {NUL}
    <3>1. a \in Seq(Chars)
      BY DEF Strings
    <3>2. Head(a) \in Chars
      <4> HIDE DEF Chars
      <4> QED BY <1>2, <3>1
    <3>3. Head(a) \in Int /\ Head(a) # 0
      BY <3>2 DEF NUL
    <3> QED BY <1>2, <3>3 DEF First
  <2>2. First(a) \in Int /\ First(a) # 0
    BY <2>1
  <2> QED BY <1>2, <2>2, UpperCase DEF Code, IsDigit, Digits
<1> QED BY <1>1, <1>2

\* What the runs and the characters at their beginning say.
HeadsOf(a, b) ==
  LET runs == IF IsDigit(a) /\ IsDigit(b) THEN CompareRuns(a, b) ELSE 0
  IN IF runs # 0 THEN runs ELSE Sign(Code(a) - Code(b))

LEMMA HeadsOrder ==
  ASSUME NEW a \in Strings, NEW b \in Strings, NEW c \in Strings
  PROVE  /\ HeadsOf(a, b) \in Signs
         /\ HeadsOf(b, a) + HeadsOf(a, b) = 0
         /\ HeadsOf(a, b) = 0 => Code(a) = Code(b)
         /\ Ordered(HeadsOf(a, b), HeadsOf(b, c), HeadsOf(a, c))
<1> DEFINE i == Code(a)
           j == Code(b)
           k == Code(c)
           ab == CompareRuns(a, b)
           ba == CompareRuns(b, a)
           bc == CompareRuns(b, c)
           ac == CompareRuns(a, c)
           A == i \in 48 .. 57
           B == j \in 48 .. 57
           C == k \in 48 .. 57
<1>1. i \in Int /\ j \in Int /\ k \in Int
  BY Codes
<1>2. /\ HeadsOf(a, b) = IF A /\ B /\ ab # 0 THEN ab ELSE Sign(i - j)
      /\ HeadsOf(b, a) = IF A /\ B /\ ba # 0 THEN ba ELSE Sign(j - i)
      /\ HeadsOf(b, c) = IF B /\ C /\ bc # 0 THEN bc ELSE Sign(j - k)
      /\ HeadsOf(a, c) = IF A /\ C /\ ac # 0 THEN ac ELSE Sign(i - k)
  BY Codes DEF HeadsOf
<1>3. A /\ B => ab \in Signs /\ ba = -ab
  BY Codes, RunsOrder
<1>4. B /\ C => bc \in Signs
  BY Codes, RunsOrder
<1>5. A /\ C => ac \in Signs
  BY Codes, RunsOrder
<1>6. A /\ B /\ C => Ordered(ab, bc, ac)
  BY Codes, RunsOrder
<1> HIDE DEF i, j, k, ab, ba, bc, ac
<1>7. HeadsOf(a, b) \in Signs /\ HeadsOf(b, a) + HeadsOf(a, b) = 0 /\ (HeadsOf(a, b) = 0 => i = j)
  BY <1>1, <1>2, <1>3 DEF Sign, Signs
<1>8. Ordered(HeadsOf(a, b), HeadsOf(b, c), HeadsOf(a, c))
  <2>1. CASE A /\ B /\ C
    BY <1>1, <1>2, <1>3, <1>4, <1>5, <1>6, <2>1 DEF Sign, Signs, Ordered
  <2>2. CASE ~(A /\ B /\ C)
    BY <1>1, <1>2, <1>3, <1>4, <1>5, <2>2 DEF Sign, Signs, Ordered
  <2> QED BY <2>1, <2>2
<1> QED BY <1>7, <1>8 DEF i, j

\* What a step makes of what the last step has made of the tails.
NatOf(a, b, rest) ==
  LET runs == IF IsDigit(a) /\ IsDigit(b) THEN CompareRuns(a, b) ELSE 0
      ca == ToUpper(First(a))
      cb == ToUpper(First(b))
  IN CASE runs # 0 -> runs
       [] runs = 0 /\ ca # cb -> Sign(ca - cb)
       [] runs = 0 /\ ca = cb /\ ca = NUL -> 0
       [] OTHER -> rest

LEMMA NatOfHeads ==
  ASSUME NEW a \in Strings, NEW b \in Strings, NEW rest
  PROVE  NatOf(a, b, rest) = IF HeadsOf(a, b) # 0 THEN HeadsOf(a, b)
                             ELSE IF a = <<>> THEN 0 ELSE rest
<1> DEFINE runs == IF IsDigit(a) /\ IsDigit(b) THEN CompareRuns(a, b) ELSE 0
<1>1. Code(a) \in Int /\ Code(b) \in Int /\ (Code(a) = 0 <=> a = <<>>)
  BY Codes
<1>2. /\ HeadsOf(a, b) = IF runs # 0 THEN runs ELSE Sign(Code(a) - Code(b))
      /\ NatOf(a, b, rest) =
           CASE runs # 0 -> runs
             [] runs = 0 /\ Code(a) # Code(b) -> Sign(Code(a) - Code(b))
             [] runs = 0 /\ Code(a) = Code(b) /\ Code(a) = NUL -> 0
             [] OTHER -> rest
  BY DEF HeadsOf, NatOf, Code
<1> HIDE DEF runs
<1> QED BY <1>1, <1>2 DEF Sign, NUL

LEMMA EqualHeads ==
  ASSUME NEW a \in Strings, NEW b \in Strings, HeadsOf(a, b) = 0
  PROVE  /\ a = <<>> <=> b = <<>>
         /\ a # <<>> => /\ Tail(a) \in Strings /\ Len(Tail(a)) < Len(a)
                        /\ Tail(b) \in Strings /\ Len(Tail(b)) < Len(b)
<1>1. Code(a) = Code(b)
  BY HeadsOrder
<1> QED BY <1>1, Codes, Tails

-----------------------------------------------------------------------------
LEMMA SkippedTails ==
  ASSUME NEW s \in Strings, SkipSpaces[s] # <<>>
  PROVE  Tail(SkipSpaces[s]) \in Strings /\ Len(Tail(SkipSpaces[s])) < Len(s)
<1>1. /\ SkipSpaces[s] \in Strings /\ Len(SkipSpaces[s]) <= Len(s)
  BY SkipShortens
<1>2. /\ Tail(SkipSpaces[s]) \in Strings /\ Len(Tail(SkipSpaces[s])) < Len(SkipSpaces[s])
  BY <1>1, Tails
<1>3. Len(Tail(SkipSpaces[s])) \in Nat /\ Len(SkipSpaces[s]) \in Nat /\ Len(s) \in Nat
  BY <1>1, <1>2, StringLengths
<1> QED BY <1>1, <1>2, <1>3

LEMMA NatTyped ==
  ASSUME NEW a \in Strings, NEW b \in Strings, NEW rest,
         (HeadsOf(a, b) = 0 /\ a # <<>>) => rest \in Signs
  PROVE  NatOf(a, b, rest) \in Signs
<1>1. HeadsOf(a, b) \in Signs
  BY HeadsOrder
<1> QED BY <1>1, NatOfHeads DEF Signs

\* One step of StrNatCaseCmp.
Both(f, s, t) == f[Tail(SkipSpaces[s])][Tail(SkipSpaces[t])]

Natural == [f \in [Strings -> [Strings -> Signs]] |->
  [s \in Strings |-> [t \in Strings |->
     NatOf(SkipSpaces[s], SkipSpaces[t], Both(f, s, t))]]]

LEMMA NaturalRecursive == Recursive(Natural, [Strings -> Signs])
<1> DEFINE V == [Strings -> Signs]
<1>1. V # {}
  <2>1. [s \in Strings |-> 0] \in V
    BY DEF Signs
  <2> QED BY <2>1
<1>2. ASSUME NEW f \in [Strings -> V], NEW s \in Strings
      PROVE  Natural[f][s] =
               [t \in Strings |-> NatOf(SkipSpaces[s], SkipSpaces[t], Both(f, s, t))]
  BY DEF Natural
<1>3. ASSUME NEW f \in [Strings -> V], NEW s \in Strings, NEW t \in Strings
      PROVE  NatOf(SkipSpaces[s], SkipSpaces[t], Both(f, s, t)) \in Signs
  <2>1. SkipSpaces[s] \in Strings /\ SkipSpaces[t] \in Strings
    BY SkipShortens
  <2>2. ASSUME HeadsOf(SkipSpaces[s], SkipSpaces[t]) = 0, SkipSpaces[s] # <<>>
        PROVE  Both(f, s, t) \in Signs
    <3>1. Tail(SkipSpaces[s]) \in Strings /\ Tail(SkipSpaces[t]) \in Strings
      BY <2>1, <2>2, EqualHeads
    <3> QED BY <3>1 DEF Both
  <2> QED BY <2>1, <2>2, NatTyped
<1>4. ASSUME NEW f \in [Strings -> V] PROVE Natural[f] \in [Strings -> V]
  <2>1. ASSUME NEW s \in Strings PROVE Natural[f][s] \in V
    <3>1. \A t \in Strings : NatOf(SkipSpaces[s], SkipSpaces[t], Both(f, s, t)) \in Signs
      BY <1>3
    <3>2. Natural[f][s] =
            [t \in Strings |-> NatOf(SkipSpaces[s], SkipSpaces[t], Both(f, s, t))]
      BY <1>2
    <3> QED BY <3>1, <3>2
  <2>2. Natural[f] = [s \in Strings |-> Natural[f][s]]
    BY DEF Natural
  <2> QED BY <2>1, <2>2
<1>5. ASSUME NEW f \in [Strings -> V], NEW g \in [Strings -> V], NEW s \in Strings,
             \A r \in Strings : Len(r) < Len(s) => f[r] = g[r]
      PROVE  Natural[f][s] = Natural[g][s]
  <2>1. ASSUME NEW t \in Strings
        PROVE  NatOf(SkipSpaces[s], SkipSpaces[t], Both(f, s, t))
                = NatOf(SkipSpaces[s], SkipSpaces[t], Both(g, s, t))
    <3>1. SkipSpaces[s] \in Strings /\ SkipSpaces[t] \in Strings
      BY SkipShortens
    <3>2. CASE SkipSpaces[s] # <<>>
      <4>1. f[Tail(SkipSpaces[s])] = g[Tail(SkipSpaces[s])]
        BY <1>5, <3>2, SkippedTails
      <4> QED BY <4>1 DEF Both
    <3>3. CASE SkipSpaces[s] = <<>>
      <4>1. ASSUME NEW x, NEW y
            PROVE  NatOf(SkipSpaces[s], SkipSpaces[t], x) = NatOf(SkipSpaces[s], SkipSpaces[t], y)
        BY <3>1, <3>3, NatOfHeads
      <4> QED BY <4>1
    <3> QED BY <3>2, <3>3
  <2>2. /\ Natural[f][s] = [t \in Strings |-> NatOf(SkipSpaces[s], SkipSpaces[t], Both(f, s, t))]
        /\ Natural[g][s] = [t \in Strings |-> NatOf(SkipSpaces[s], SkipSpaces[t], Both(g, s, t))]
    BY <1>2
  <2> QED BY <2>1, <2>2
<1> HIDE DEF V
<1>6. Recursive(Natural, V)
  BY <1>1, <1>4, <1>5 DEF Recursive
<1> QED BY <1>6 DEF V

LEMMA NaturalValue ==
  /\ StrNatCaseCmp \in [Strings -> [Strings -> Signs]]
  /\ \A s, t \in Strings :
       StrNatCaseCmp[s][t] = NatOf(SkipSpaces[s], SkipSpaces[t], Both(StrNatCaseCmp, s, t))
<1>1. PICK f \in [Strings -> [Strings -> Signs]] : f = Natural[f]
  BY NaturalRecursive, Recursion
<1>2. f = [s \in Strings |-> [t \in Strings |->
             NatOf(SkipSpaces[s], SkipSpaces[t], Both(f, s, t))]]
  BY <1>1 DEF Natural
<1>3. StrNatCaseCmp = [s \in Strings |-> [t \in Strings |->
        NatOf(SkipSpaces[s], SkipSpaces[t], Both(StrNatCaseCmp, s, t))]]
  BY <1>2, Zenon DEF StrNatCaseCmp, NatOf, Both
<1>4. ASSUME NEW s \in Strings
      PROVE  StrNatCaseCmp[s] = [t \in Strings |->
               NatOf(SkipSpaces[s], SkipSpaces[t], Both(StrNatCaseCmp, s, t))]
  BY <1>3
<1>5. ASSUME NEW s \in Strings,
             \A r \in Strings : Len(r) < Len(s) => StrNatCaseCmp[r] \in [Strings -> Signs]
      PROVE  StrNatCaseCmp[s] \in [Strings -> Signs]
  <2>1. ASSUME NEW t \in Strings
        PROVE  NatOf(SkipSpaces[s], SkipSpaces[t], Both(StrNatCaseCmp, s, t)) \in Signs
    <3>1. SkipSpaces[s] \in Strings /\ SkipSpaces[t] \in Strings
      BY SkipShortens
    <3>2. ASSUME HeadsOf(SkipSpaces[s], SkipSpaces[t]) = 0, SkipSpaces[s] # <<>>
          PROVE  Both(StrNatCaseCmp, s, t) \in Signs
      <4>1. Tail(SkipSpaces[t]) \in Strings
        BY <3>1, <3>2, EqualHeads
      <4>2. StrNatCaseCmp[Tail(SkipSpaces[s])] \in [Strings -> Signs]
        BY <1>5, <3>2, SkippedTails
      <4> QED BY <4>1, <4>2 DEF Both
    <3> QED BY <3>1, <3>2, NatTyped
  <2> QED BY <1>4, <2>1
<1> DEFINE G == {s \in Strings : StrNatCaseCmp[s] \in [Strings -> Signs]}
<1>6. Strings \subseteq G
  <2>1. ASSUME NEW s \in Strings, \A r \in Strings : Len(r) < Len(s) => r \in G PROVE s \in G
    BY <1>5, <2>1
  <2> HIDE DEF G
  <2> QED BY <2>1, StringInduction
<1>7. \A s \in Strings : StrNatCaseCmp[s] \in [Strings -> Signs]
  BY <1>6
<1>8. ASSUME NEW s \in Strings, NEW t \in Strings
      PROVE  StrNatCaseCmp[s][t] = NatOf(SkipSpaces[s], SkipSpaces[t], Both(StrNatCaseCmp, s, t))
  BY <1>4
<1>9. StrNatCaseCmp = [s \in Strings |-> StrNatCaseCmp[s]]
  BY <1>3
<1> QED BY <1>7, <1>8, <1>9

-----------------------------------------------------------------------------
LEMMA NatOrdered ==
  ASSUME NEW a \in Strings, NEW b \in Strings, NEW c \in Strings, NEW x, NEW y, NEW z,
         (HeadsOf(a, b) = 0 /\ a # <<>>) => x \in Signs,
         (HeadsOf(b, c) = 0 /\ b # <<>>) => y \in Signs,
         (HeadsOf(a, b) = 0 /\ HeadsOf(b, c) = 0 /\ a # <<>>) => Ordered(x, y, z)
  PROVE  Ordered(NatOf(a, b, x), NatOf(b, c, y), NatOf(a, c, z))
<1> DEFINE ab == HeadsOf(a, b)
           bc == HeadsOf(b, c)
           ac == HeadsOf(a, c)
<1>1. ab \in Signs /\ bc \in Signs /\ ac \in Signs /\ Ordered(ab, bc, ac)
  BY HeadsOrder
<1>2. ab = 0 => (a = <<>> <=> b = <<>>)
  BY EqualHeads
<1>3. /\ NatOf(a, b, x) = IF ab # 0 THEN ab ELSE IF a = <<>> THEN 0 ELSE x
      /\ NatOf(b, c, y) = IF bc # 0 THEN bc ELSE IF b = <<>> THEN 0 ELSE y
      /\ NatOf(a, c, z) = IF ac # 0 THEN ac ELSE IF a = <<>> THEN 0 ELSE z
  BY NatOfHeads
<1>4. (ab = 0 /\ bc = 0) => ac = 0
  <2>1. ASSUME ab = 0, bc = 0 PROVE HeadsOf(c, b) = 0 /\ HeadsOf(b, a) = 0
    <3>1. /\ HeadsOf(c, b) + bc = 0 /\ HeadsOf(b, a) + ab = 0
          /\ HeadsOf(c, b) \in Signs /\ HeadsOf(b, a) \in Signs
      BY HeadsOrder
    <3> HIDE DEF ab, bc
    <3> QED BY <2>1, <3>1 DEF Signs
  <2>2. HeadsOf(c, a) + ac = 0 /\ HeadsOf(c, a) \in Signs /\ Ordered(HeadsOf(c, b), HeadsOf(b, a), HeadsOf(c, a))
    BY HeadsOrder
  <2> HIDE DEF ab, bc, ac
  <2> QED BY <1>1, <2>1, <2>2 DEF Ordered, Signs
<1> HIDE DEF ab, bc, ac
<1>5. CASE ab = 0 /\ bc = 0 /\ a # <<>>
  <2>1. Ordered(x, y, z)
    BY <1>5 DEF ab, bc
  <2>2. NatOf(a, b, x) = x /\ NatOf(b, c, y) = y /\ NatOf(a, c, z) = z
    BY <1>2, <1>3, <1>4, <1>5
  <2> QED BY <2>1, <2>2
<1>6. CASE ab = 0 /\ bc = 0 /\ a = <<>>
  <2>1. NatOf(a, b, x) = 0 /\ NatOf(b, c, y) = 0 /\ NatOf(a, c, z) = 0
    BY <1>2, <1>3, <1>4, <1>6
  <2> QED BY <2>1 DEF Ordered
<1>7. CASE ab # 0 \/ bc # 0
  <2>1. ab = 1 \/ bc = 1 \/ ac = -1
    BY <1>1, <1>7 DEF Ordered, Signs
  <2>2. CASE ab = 1
    BY <1>3, <2>2 DEF Ordered
  <2>3. CASE bc = 1
    BY <1>3, <2>3 DEF Ordered
  <2>4. CASE ac = -1
    BY <1>3, <2>4 DEF Ordered
  <2> QED BY <2>1, <2>2, <2>3, <2>4
<1> QED BY <1>5, <1>6, <1>7

LEMMA NatReversed ==
  ASSUME NEW a \in Strings, NEW b \in Strings, NEW x, NEW y,
         (HeadsOf(a, b) = 0 /\ a # <<>>) => x \in Signs /\ y \in Signs /\ y + x = 0
  PROVE  NatOf(b, a, y) + NatOf(a, b, x) = 0
<1> DEFINE ab == HeadsOf(a, b)
           ba == HeadsOf(b, a)
<1>1. ab \in Signs /\ ba \in Signs /\ ba + ab = 0
  BY HeadsOrder
<1>2. ab = 0 => (a = <<>> <=> b = <<>>)
  BY EqualHeads
<1>3. /\ NatOf(a, b, x) = IF ab # 0 THEN ab ELSE IF a = <<>> THEN 0 ELSE x
      /\ NatOf(b, a, y) = IF ba # 0 THEN ba ELSE IF b = <<>> THEN 0 ELSE y
  BY NatOfHeads
<1>4. ab = 0 /\ a # <<>> => x \in Signs /\ y \in Signs /\ y + x = 0
  OBVIOUS
<1> HIDE DEF ab, ba
<1>5. CASE ab # 0
  BY <1>1, <1>3, <1>5 DEF Signs
<1>6. CASE ab = 0 /\ a = <<>>
  <2>1. ba = 0
    BY <1>1, <1>6 DEF Signs
  <2>2. NatOf(b, a, y) = 0 /\ NatOf(a, b, x) = 0
    BY <1>2, <1>3, <1>6, <2>1
  <2> QED BY <2>2
<1>7. CASE ab = 0 /\ a # <<>>
  <2>1. ba = 0
    BY <1>1, <1>7 DEF Signs
  <2>2. NatOf(b, a, y) = y /\ NatOf(a, b, x) = x
    BY <1>2, <1>3, <1>7, <2>1
  <2> QED BY <1>4, <1>7, <2>2
<1> QED BY <1>5, <1>6, <1>7

LEMMA NaturalOrdered ==
  \A a, b, c \in Strings :
    /\ StrNatCaseCmp[b][a] + StrNatCaseCmp[a][b] = 0
    /\ Ordered(StrNatCaseCmp[a][b], StrNatCaseCmp[b][c], StrNatCaseCmp[a][c])
<1> DEFINE Good(a) == \A b, c \in Strings :
             /\ StrNatCaseCmp[b][a] + StrNatCaseCmp[a][b] = 0
             /\ Ordered(StrNatCaseCmp[a][b], StrNatCaseCmp[b][c], StrNatCaseCmp[a][c])
           G == {a \in Strings : Good(a)}
<1>0. \A r, s \in Strings : StrNatCaseCmp[r][s] \in Signs
  BY NaturalValue
<1>1. ASSUME NEW a \in Strings, \A r \in Strings : Len(r) < Len(a) => Good(r) PROVE Good(a)
  <2> SUFFICES ASSUME NEW b \in Strings, NEW c \in Strings
               PROVE  /\ StrNatCaseCmp[b][a] + StrNatCaseCmp[a][b] = 0
                      /\ Ordered(StrNatCaseCmp[a][b], StrNatCaseCmp[b][c], StrNatCaseCmp[a][c])
    OBVIOUS
  <2> DEFINE i == SkipSpaces[a]
             j == SkipSpaces[b]
             k == SkipSpaces[c]
             ab == Both(StrNatCaseCmp, a, b)
             ba == Both(StrNatCaseCmp, b, a)
             bc == Both(StrNatCaseCmp, b, c)
             ac == Both(StrNatCaseCmp, a, c)
  <2>0. i \in Strings /\ j \in Strings /\ k \in Strings
    BY SkipShortens
  <2>1. /\ StrNatCaseCmp[a][b] = NatOf(i, j, ab) /\ StrNatCaseCmp[b][a] = NatOf(j, i, ba)
        /\ StrNatCaseCmp[b][c] = NatOf(j, k, bc) /\ StrNatCaseCmp[a][c] = NatOf(i, k, ac)
    BY NaturalValue
  <2>2. i # <<>> => Good(Tail(i))
    BY <1>1, SkippedTails
  <2>3. ASSUME HeadsOf(i, j) = 0, i # <<>> PROVE ab \in Signs /\ ba \in Signs /\ ba + ab = 0
    <3>1. Tail(i) \in Strings /\ Tail(j) \in Strings
      BY <2>0, <2>3, EqualHeads
    <3> QED BY <1>0, <2>2, <2>3, <3>1 DEF Both
  <2>4. ASSUME HeadsOf(j, k) = 0, j # <<>> PROVE bc \in Signs
    <3>1. Tail(j) \in Strings /\ Tail(k) \in Strings
      BY <2>0, <2>4, EqualHeads
    <3> QED BY <1>0, <3>1 DEF Both
  <2>5. ASSUME HeadsOf(i, j) = 0, HeadsOf(j, k) = 0, i # <<>> PROVE Ordered(ab, bc, ac)
    <3>1. Tail(i) \in Strings /\ Tail(j) \in Strings /\ j # <<>>
      BY <2>0, <2>5, EqualHeads
    <3>2. Tail(k) \in Strings
      BY <2>0, <2>5, <3>1, EqualHeads
    <3> QED BY <2>2, <2>5, <3>1, <3>2 DEF Both
  <2> HIDE DEF i, j, k, ab, ba, bc, ac, Good
  <2>6. NatOf(j, i, ba) + NatOf(i, j, ab) = 0
    BY <2>0, <2>3, NatReversed
  <2>7. Ordered(NatOf(i, j, ab), NatOf(j, k, bc), NatOf(i, k, ac))
    BY <2>0, <2>3, <2>4, <2>5, NatOrdered
  <2> QED BY <2>1, <2>6, <2>7
<1>2. Strings \subseteq G
  <2>1. ASSUME NEW a \in Strings, \A r \in Strings : Len(r) < Len(a) => r \in G PROVE a \in G
    <3>1. \A r \in Strings : Len(r) < Len(a) => Good(r)
      BY <2>1
    <3> HIDE DEF Good
    <3> QED BY <1>1, <3>1
  <2> HIDE DEF G
  <2> QED BY <2>1, StringInduction
<1> QED BY <1>2

-----------------------------------------------------------------------------
(* What compareNat says of two and of three strings.                       *)
LEMMA Comparisons ==
  ASSUME NEW a \in Strings, NEW b \in Strings, NEW c \in Strings
  PROVE  /\ ~CompareNat(a, a)
         /\ CompareNat(a, b) /\ CompareNat(b, c) => CompareNat(a, c)
         /\ ~CompareNat(a, b) /\ ~CompareNat(b, a)
              => /\ CompareNat(a, c) <=> CompareNat(b, c)
                 /\ CompareNat(c, a) <=> CompareNat(c, b)
<1> DEFINE aa == StrNatCaseCmp[a][a]
           ab == StrNatCaseCmp[a][b]
           ba == StrNatCaseCmp[b][a]
           bc == StrNatCaseCmp[b][c]
           cb == StrNatCaseCmp[c][b]
           ac == StrNatCaseCmp[a][c]
           ca == StrNatCaseCmp[c][a]
<1>1. /\ aa \in Signs /\ ab \in Signs /\ ba \in Signs /\ bc \in Signs
      /\ cb \in Signs /\ ac \in Signs /\ ca \in Signs
  BY NaturalValue
<1>2. aa + aa = 0 /\ ba + ab = 0 /\ cb + bc = 0 /\ ca + ac = 0
  BY NaturalOrdered
<1>3. Ordered(ab, bc, ac) /\ Ordered(ba, ac, bc) /\ Ordered(cb, ba, ca) /\ Ordered(ca, ab, cb)
  BY NaturalOrdered
<1>4. /\ CompareNat(a, a) <=> aa = -1
      /\ CompareNat(a, b) <=> ab = -1
      /\ CompareNat(b, a) <=> ba = -1
      /\ CompareNat(b, c) <=> bc = -1
      /\ CompareNat(a, c) <=> ac = -1
      /\ CompareNat(c, a) <=> ca = -1
      /\ CompareNat(c, b) <=> cb = -1
  BY DEF CompareNat
<1> HIDE DEF aa, ab, ba, bc, cb, ac, ca
<1>5. ~CompareNat(a, a)
  BY <1>1, <1>2, <1>4 DEF Signs
<1>6. CompareNat(a, b) /\ CompareNat(b, c) => CompareNat(a, c)
  BY <1>1, <1>3, <1>4 DEF Signs, Ordered
<1>7. ASSUME ~CompareNat(a, b), ~CompareNat(b, a)
      PROVE  /\ CompareNat(a, c) <=> CompareNat(b, c)
             /\ CompareNat(c, a) <=> CompareNat(c, b)
  <2>1. ab = 0 /\ ba = 0
    BY <1>1, <1>2, <1>4, <1>7 DEF Signs
  <2> QED
    BY <1>1, <1>2, <1>3, <1>4, <2>1 DEF Signs, Ordered
<1> QED BY <1>5, <1>6, <1>7
=============================================================================
