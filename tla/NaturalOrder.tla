---------------------------- MODULE NaturalOrder ----------------------------
(***************************************************************************)
(* compareNat (src/strnatcmp.cpp), the order in which getDirectories and   *)
(* readDirectoryNatural sort what they have found.  A string is the        *)
(* sequence of its character codes, with a NUL behind the last one.        *)
(***************************************************************************)
EXTENDS Integers, Sequences

NUL == 0

Digits == 48 .. 57
Spaces == {32} \cup 9 .. 13

First(s) == IF s = <<>> THEN NUL ELSE Head(s)
IsDigit(s) == First(s) \in Digits

ToUpper(c) == IF c \in 97 .. 122 THEN c - 32 ELSE c
Sign(n) == IF n < 0 THEN -1 ELSE IF n > 0 THEN 1 ELSE 0

\* C strings of chars, signed or not, and the sign of a comparison.
Strings == Seq((-128 .. 255) \ {NUL})
Signs == {-1, 0, 1}

SkipSpaces[s \in Strings] ==
  IF First(s) \in Spaces THEN SkipSpaces[Tail(s)] ELSE s

\* The longest run of digits wins; of two as long, the first different digit.
CompareRight[a \in Strings] == [b \in Strings |-> [bias \in Signs |->
  CASE ~IsDigit(a) /\ ~IsDigit(b) -> bias
    [] ~IsDigit(a) /\ IsDigit(b) -> -1
    [] IsDigit(a) /\ ~IsDigit(b) -> 1
    [] OTHER -> CompareRight[Tail(a)][Tail(b)][IF bias = 0 THEN Sign(Head(a) - Head(b)) ELSE bias]]]

\* The first different digit wins, as behind a decimal point.
CompareLeft[a \in Strings] == [b \in Strings |->
  CASE ~IsDigit(a) /\ ~IsDigit(b) -> 0
    [] ~IsDigit(a) /\ IsDigit(b) -> -1
    [] IsDigit(a) /\ ~IsDigit(b) -> 1
    [] IsDigit(a) /\ IsDigit(b) /\ Head(a) # Head(b) -> Sign(Head(a) - Head(b))
    [] OTHER -> CompareLeft[Tail(a)][Tail(b)]]

\* Mutant: a number is a fraction only when both begin with a zero.
CompareRunsBoth(a, b) ==
  IF First(a) = 48 /\ First(b) = 48 THEN CompareLeft[a][b] ELSE CompareRight[a][b][0]

\* Two runs of digits: the one is taken for a fraction as soon as either
\* begins with a zero.
CompareRuns(a, b) ==
  IF First(a) = 48 \/ First(b) = 48 THEN CompareLeft[a][b] ELSE CompareRight[a][b][0]

\* strnatcmp0 without regard to case, from these suffixes on.
StrNatCaseCmp[s \in Strings] == [t \in Strings |->
  LET a == SkipSpaces[s]
      b == SkipSpaces[t]
      runs == IF IsDigit(a) /\ IsDigit(b) THEN CompareRuns(a, b) ELSE 0
      ca == ToUpper(First(a))
      cb == ToUpper(First(b))
  IN CASE runs # 0 -> runs
       [] runs = 0 /\ ca # cb -> Sign(ca - cb)
       [] runs = 0 /\ ca = cb /\ ca = NUL -> 0
       [] OTHER -> StrNatCaseCmp[Tail(a)][Tail(b)]]

CompareNat(a, b) == StrNatCaseCmp[a][b] = -1
=============================================================================
