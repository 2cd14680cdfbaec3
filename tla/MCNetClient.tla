---------------------------- MODULE MCNetClient ----------------------------
(* Documents for the model-checked instance of NetClient.                  *)
EXTENDS NetClient

\* A document of a value, and an object or array of documents.
Just(v) == [p \in {<<>>} |-> v]
Structure(container, parts) ==
  [p \in {<<>>} \cup UNION {{<<key>> \o q : q \in DOMAIN parts[key]} : key \in DOMAIN parts} |->
     IF p = <<>> THEN container ELSE parts[Head(p)][Tail(p)]]
ObjectOf(members) == Structure(Object, members)
Indices == <<"0", "1", "2">>
ArrayOf(values) ==
  Structure(Array, [i \in {Indices[k] : k \in DOMAIN values} |->
                      Just(values[CHOOSE k \in DOMAIN values : Indices[k] = i])])

\* Totals with an array in an object, and something that is no number in it.
MixedTotals ==
  ObjectOf([a |-> Just(Integer(1)), b |-> ObjectOf([c |-> ArrayOf(<<Integer(0), String>>)])])

\* Sums and products out of range, values of the wrong kind and in the wrong
\* place, missing and unknown keys, arrays too long and too short, an error.
Payloads == {
  ObjectOf([a |-> Just(Integer(2)), b |-> ObjectOf([a |-> Just(Null)])]),
  ObjectOf([a |-> Just(Boolean(TRUE)),
            b |-> ObjectOf([c |-> ArrayOf(<<Integer(1), Integer(1), Null>>)])]),
  ObjectOf([a |-> Just(String), b |-> ObjectOf([c |-> ArrayOf(<<>>)]), d |-> Just(Null)]),
  ObjectOf([a |-> ArrayOf(<<Float>>), b |-> Just(Integer(1))]),
  ObjectOf([b |-> ObjectOf([c |-> ArrayOf(<<Float, Float>>)]), d |-> Just(Integer(1))]),
  ObjectOf([a |-> Just(Integer(1)), b |-> ObjectOf([d |-> Just(Float)])]),
  ObjectOf([error |-> Just(String)])}

ServerAnswers ==
  {ObjectOf([payload |-> p]) : p \in Payloads}
    \cup {ObjectOf([payload |-> Just(Float)]), ArrayOf(<<>>), ObjectOf([a |-> Just(Null)])}

KnownKeys == {"a", "b"}
AllOrKnown == {{}, KnownKeys}
=============================================================================
