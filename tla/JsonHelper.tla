----------------------------- MODULE JsonHelper -----------------------------
(***************************************************************************)
(* The helpers of include/bone_helper/jsonHelper.hpp, on documents that    *)
(* nlohmann::json (external) has parsed.  A document is the function that  *)
(* json::flatten() makes of it, from JSON pointers (the keys and indices   *)
(* that lead to a place, as strings) to what is there; but objects and     *)
(* arrays are there themselves, so that their types can be compared.  What *)
(* a double or a string holds is left out; an integer is kept at the width *)
(* of long, which wraps in the builds there are.                           *)
(***************************************************************************)
EXTENDS Integers, Sequences

CONSTANTS
  LongHalf,  \* a long holds -LongHalf .. LongHalf - 1
  IntHalf    \* an int holds -IntHalf .. IntHalf - 1

ASSUME JsonHelperAssumption == IntHalf \in Nat /\ IntHalf > 1 /\ LongHalf \in Nat /\ LongHalf >= IntHalf

Longs == -LongHalf .. LongHalf - 1
Ints == -IntHalf .. IntHalf - 1

\* What is at a place.
Null == [type |-> "null"]
Float == [type |-> "float"]
String == [type |-> "string"]
Object == [type |-> "object"]
Array == [type |-> "array"]
Boolean(b) == [type |-> "boolean", is |-> b]
Integer(n) == [type |-> "integer", n |-> n]

Structured == {Object, Array}
Values ==
  {Null, Float, String} \cup Structured
    \cup {Boolean(b) : b \in BOOLEAN} \cup {Integer(n) : n \in Longs}

IsNumber(v) == v.type \in {"integer", "float"}

\* Where the object or array is that a pointer points into.
Parent(p) == SubSeq(p, 1, Len(p) - 1)

IsDocument(j) ==
  /\ <<>> \in DOMAIN j
  /\ \A p \in DOMAIN j :
       /\ p \in Seq(STRING) /\ j[p] \in Values
       /\ p # <<>> => Parent(p) \in DOMAIN j /\ j[Parent(p)] \in Structured

\* The document at a key.
At(j, key) ==
  [p \in {Tail(q) : q \in {q \in DOMAIN j : q # <<>> /\ Head(q) = key}} |-> j[<<key>> \o p]]

\* is_json_number(), is_json_string() and their like.
Has(j, key, types) ==
  j[<<>>] = Object /\ <<key>> \in DOMAIN j /\ j[<<key>>].type \in types

Wrapped(n, half) == ((n + half) % (2 * half)) - half

-----------------------------------------------------------------------------
(* checkedUpdateFromJSON                                                   *)

\* get<int>() of a double is some int: the fraction is lost, and beyond the
\* range of an int the conversion is undefined.
IntOf(v) == IF v.type = "integer" THEN {Wrapped(v.n, IntHalf)} ELSE Ints

\* The values of which one is stored: without the default, value stays.
CheckedInt(j, key, value) ==
  IF Has(j, key, {"integer", "float"}) THEN IntOf(j[<<key>>]) ELSE {value}

CheckedBool(j, key, value) ==
  IF Has(j, key, {"boolean"}) THEN j[<<key>>].is ELSE value

\* value_ig_type with an int: json::value() takes a boolean as well.
IntOrDefault(j, key, default) ==
  CASE Has(j, key, {"integer", "float"}) -> IntOf(j[<<key>>])
    [] Has(j, key, {"boolean"}) -> {IF j[<<key>>].is THEN 1 ELSE 0}
    [] OTHER -> {default}

-----------------------------------------------------------------------------
(* arithmetic_merge_json                                                   *)

Operations == {"add", "sub", "mul", "div"}

\* Of two integers; a division is one of doubles, by zero as well.
Operate(op, a, b) ==
  CASE op = "add" -> Integer(Wrapped(a + b, LongHalf))
    [] op = "sub" -> Integer(Wrapped(a - b, LongHalf))
    [] op = "mul" -> Integer(Wrapped(a * b, LongHalf))
    [] op = "div" -> Float

\* Mutant: what is no number is replaced by the number that comes.
CombineReplacing(v, w, op) ==
  CASE v.type = "integer" /\ w.type = "integer" -> Operate(op, v.n, w.n)
    [] IsNumber(v) /\ ~(v.type = "integer" /\ w.type = "integer") -> Float
    [] OTHER -> w

\* Of what is at the same place of both, unless it is an object or an array.
Combine(v, w, op) ==
  CASE v.type = "integer" /\ w.type = "integer" -> Operate(op, v.n, w.n)
    [] IsNumber(v) /\ IsNumber(w) /\ ~(v.type = "integer" /\ w.type = "integer") -> Float
    [] OTHER -> w

\* The recursion comes to a place when both have an object, or both an array,
\* everywhere above it.
Reached(from, to, p) ==
  \A n \in 0 .. Len(p) - 1 :
    LET q == SubSeq(p, 1, n)
    IN q \in DOMAIN to /\ from[q] \in Structured /\ from[q] = to[q]

\* to.at() throws when a key of an object is not there, at any depth; behind
\* the end of an array nothing is merged.
MergeThrows(from, to) ==
  \E p \in DOMAIN from \ DOMAIN to :
    p # <<>> /\ Reached(from, to, p) /\ from[Parent(p)] = Object /\ from[p] # Null

\* What it returns otherwise.
ArithmeticMerge(from, to, op) ==
  [p \in DOMAIN to |->
     IF p \in DOMAIN from /\ Reached(from, to, p) THEN Combine(from[p], to[p], op) ELSE to[p]]

-----------------------------------------------------------------------------
\* items() of an array has its indices as keys, and of a value an empty key,
\* which no filter names.
FilteredValues(j, filter) ==
  IF filter = {} THEN j
  ELSE LET kept == {p \in DOMAIN j : p # <<>> /\ Head(p) \in filter}
       IN IF kept = {} THEN [p \in {<<>>} |-> Null]
          ELSE [p \in {<<>>} \cup kept |-> IF p = <<>> THEN Object ELSE j[p]]
=============================================================================
