-------------------------- MODULE NetClient_proofs --------------------------
(***************************************************************************)
(* Proofs about TimedOperation for every number of steps, and about the    *)
(* client whose calls are made of timed operations, for every answer of    *)
(* the server.                                                             *)
(***************************************************************************)
EXTENDS NetClient, TLAPS

(* Each of the two operations has either a result or something left to     *)
(* happen; only a result cancels the timer, and only the deadline the      *)
(* socket.                                                                 *)
Bookkeeping ==
  /\ (result # "none") <=> (step = "none")
  /\ (timer_result # "none") <=> (timer = "over")
  /\ timer = "cancelled" => result # "none"
  /\ timer_result = "aborted" => result # "none"
  /\ step = "aborted" => timer_result = "expired"

IInv == TypeOK /\ Bookkeeping /\ LoopComplete /\ AbortedOnlyLate

LEMMA InitSound == Init => IInv
  BY TimedOperationAssumption
     DEF Init, IInv, TypeOK, Bookkeeping, LoopComplete, AbortedOnlyLate, Kinds, Outcomes

(* A step that is not the last leaves at least one.                        *)
LEMMA LeftInRange ==
  ASSUME TypeOK
  PROVE  /\ left \in Nat
         /\ ~Last => left - 1 \in 1 .. MaxSteps
  BY TimedOperationAssumption DEF TypeOK, Last

LEMMA NextSound == IInv /\ [Next]_vars => IInv'
  <1> SUFFICES ASSUME IInv, [Next]_vars PROVE IInv'
    OBVIOUS
  <1> USE DEF IInv, TypeOK, Bookkeeping, LoopComplete, AbortedOnlyLate, Outcomes
  <1>1. ASSUME NEW k \in Kinds, NEW steps \in 1 .. MaxSteps, Start(k, steps) PROVE IInv'
    BY <1>1 DEF Start
  <1>2. CASE StepEnds
    BY <1>2 DEF StepEnds
  <1>3. CASE TimerExpires
    BY <1>3 DEF TimerExpires
  <1>4. CASE RunStep
    <2>1. CASE Finished
      BY <1>4, <2>1 DEF RunStep
    <2>2. CASE ~Finished
      <3>1. left - 1 \in 1 .. MaxSteps
        BY <2>2, LeftInRange DEF Finished
      <3> QED
        BY <1>4, <2>2, <3>1 DEF RunStep
    <2> QED
      BY <2>1, <2>2
  <1>5. CASE RunTimer
    BY <1>5 DEF RunTimer
  <1>6. CASE RunNothing
    BY <1>6 DEF RunNothing
  <1>7. CASE Check
    BY <1>7 DEF Check, CancelTimer, CancelSocket
  <1>8. CASE UNCHANGED vars
    BY <1>8 DEF vars
  <1> QED
    BY <1>1, <1>2, <1>3, <1>4, <1>5, <1>6, <1>7, <1>8 DEF Next

(* Every variable keeps its type; in particular the steps never run out    *)
(* while the operation goes on.                                            *)
THEOREM TypeCorrectness == Spec => []TypeOK
  <1>1. IInv => TypeOK
    BY DEF IInv
  <1> QED
    BY <1>1, InitSound, NextSound, PTL DEF Spec

(* For operations of any number of steps, the loop ends with a result and  *)
(* with nothing left to be handled.                                        *)
THEOREM LoopEndsComplete == Spec => []LoopComplete
  <1>1. IInv => LoopComplete
    BY DEF IInv
  <1> QED
    BY <1>1, InitSound, NextSound, PTL DEF Spec

(* For operations of any number of steps, only the deadline aborts one.    *)
THEOREM OnlyDeadlineAborts == Spec => []AbortedOnlyLate
  <1>1. IInv => AbortedOnlyLate
    BY DEF IInv
  <1> QED
    BY <1>1, InitSound, NextSound, PTL DEF Spec

-----------------------------------------------------------------------------
(* The client.                                                             *)

(* A step of the client is one of the operation under way, or leaves it.   *)
LEMMA ClientStep == [NextClient]_<<vars, clientVars>> => [Next]_vars
  <1> SUFFICES ASSUME [NextClient]_<<vars, clientVars>> PROVE [Next]_vars
    OBVIOUS
  <1>1. ASSUME NEW name, StartOperation(name) PROVE Next
    <2>1. PICK steps \in 1 .. MaxSteps :
            Start(IF name = "connect" THEN "connect" ELSE "transfer", steps)
      BY <1>1 DEF StartOperation
    <2> QED
      BY <2>1 DEF Next, Kinds
  <1>2. CASE Operating
    BY <1>2 DEF Operating, Next
  <1>3. CASE Connect \/ Command \/ Transfer
    BY <1>1, <1>3 DEF Connect, Command, Transfer, Begin
  <1>4. CASE NextOperation
    BY <1>1, <1>4 DEF NextOperation
  <1>5. CASE Disconnect \/ Throw \/ Return \/ AnswerUseless \/ AnswerUsed
    BY <1>5 DEF Disconnect, Throw, Return, AnswerUseless, AnswerUsed, operation, vars
  <1>6. CASE UNCHANGED <<vars, clientVars>>
    BY <1>6
  <1> QED
    BY <1>2, <1>3, <1>4, <1>5, <1>6 DEF NextClient

(* Whatever calls a client makes one after the other, every loop in them   *)
(* ends with a result and nothing outstanding, and no operation is aborted *)
(* before its own deadline, however late those before it ended.            *)
THEOREM ClientLoopsComplete == SpecClient => [](TypeOK /\ LoopComplete /\ AbortedOnlyLate)
  <1>1. IInv => TypeOK /\ LoopComplete /\ AbortedOnlyLate
    BY DEF IInv
  <1>2. InitClient => Init
    BY DEF InitClient
  <1> QED
    BY <1>1, <1>2, InitSound, NextSound, ClientStep, PTL DEF SpecClient

-----------------------------------------------------------------------------
(* Why a call ends: what is left of it shrinks, and it waits for nothing   *)
(* that need not come.                                                     *)

\* What is left to be done in a loop: results, handlers and checks.
Remaining ==
  (IF step = "waiting" THEN 4 * left ELSE IF step = "none" THEN 0 ELSE 4 * left - 2)
    + (IF timer = "running" THEN 4 ELSE IF timer = "over" THEN 0 ELSE 2)
    + (IF pc = "check" THEN 2 ELSE IF pc = "run" THEN 1 ELSE 0)

(* Every step during a call ends it, ends one of its operations, or brings *)
(* the one under way nearer to its end: no handler is run again and again, *)
(* whoever completes, expires or is cancelled first.                       *)
CallShrinks ==
  [][call # "none" =>
       \/ call' = "none"
       \/ Len(ahead') < Len(ahead)
       \/ ahead' = ahead /\ Remaining' < Remaining]_<<vars, clientVars>>

(* run_one() is never left to wait for the peer alone: as long as a step   *)
(* waits, the deadline has still to come or to be handled, also when the   *)
(* deadline was handled before the part of a transfer that went before.    *)
WaitsWithDeadline == pc = "run" /\ step = "waiting" => timer \in {"running", "expired"}

LEMMA LoopShrinks ==
  ASSUME TypeOK,
         StepEnds \/ TimerExpires \/ RunStep \/ RunTimer \/ RunNothing \/ Check
  PROVE  Remaining' < Remaining
  <1>1. left \in Nat /\ left >= 1
    BY TimedOperationAssumption DEF TypeOK
  <1>2. CASE StepEnds
    BY <1>1, <1>2 DEF StepEnds, Remaining
  <1>3. CASE TimerExpires
    BY <1>1, <1>3 DEF TimerExpires, Remaining
  <1>4. CASE RunStep
    <2>1. CASE Finished
      BY <1>1, <1>4, <2>1 DEF RunStep, Remaining, Outcomes
    <2>2. CASE ~Finished
      <3>1. left' = left - 1 /\ step' = "waiting" /\ step \in Outcomes
            /\ pc = "run" /\ pc' = "check" /\ UNCHANGED timer
        BY <1>4, <2>2 DEF RunStep
      <3> QED
        BY <1>1, <3>1 DEF Remaining, Outcomes
    <2> QED
      BY <2>1, <2>2
  <1>5. CASE RunTimer
    BY <1>1, <1>5 DEF RunTimer, Remaining
  <1>6. CASE RunNothing
    BY <1>1, <1>6 DEF RunNothing, Remaining
  <1>7. CASE Check
    <2>1. pc = "check" /\ pc' = "run" /\ UNCHANGED left
      BY <1>7 DEF Check
    <2>2. CASE CancelTimer
      BY <1>1, <2>1, <2>2 DEF CancelTimer, Remaining
    <2>3. CASE CancelSocket
      BY <1>1, <2>1, <2>3 DEF CancelSocket, Remaining
    <2>4. CASE UNCHANGED <<step, timer>>
      BY <1>1, <2>1, <2>4 DEF Remaining
    <2> QED
      BY <1>7, <2>2, <2>3, <2>4 DEF Check
  <1> QED
    BY <1>2, <1>3, <1>4, <1>5, <1>6, <1>7

\* The operations that have not begun are a sequence of names.
OperationNames == {"connect", "handshake", "send", "length", "data", "transfer"}
AheadTyped == ahead \in Seq(OperationNames)

LEMMA TailTyped ==
  ASSUME NEW T, NEW s \in Seq(T), s # <<>>
  PROVE  Tail(s) \in Seq(T) /\ Len(Tail(s)) < Len(s)
  OBVIOUS

LEMMA Tuples ==
  ASSUME NEW T, NEW a \in T, NEW b \in T, NEW c \in T
  PROVE  /\ <<a>> \in Seq(T) /\ <<a>> # <<>>
         /\ <<a, b>> \in Seq(T) /\ <<a, b>> # <<>>
         /\ <<a, b, c>> \in Seq(T) /\ <<a, b, c>> # <<>>
  OBVIOUS

LEMMA Sequels ==
  /\ <<"connect", "handshake">> \in Seq(OperationNames) \ {<<>>}
  /\ <<"connect">> \in Seq(OperationNames) \ {<<>>}
  /\ <<"send", "length", "data">> \in Seq(OperationNames) \ {<<>>}
  /\ <<"transfer">> \in Seq(OperationNames) \ {<<>>}
  <1>1. /\ "connect" \in OperationNames /\ "handshake" \in OperationNames
        /\ "send" \in OperationNames /\ "length" \in OperationNames
        /\ "data" \in OperationNames /\ "transfer" \in OperationNames
    BY DEF OperationNames
  <1> QED
    BY <1>1, Tuples, Zenon

LEMMA AheadKept == AheadTyped /\ [NextClient]_<<vars, clientVars>> => AheadTyped'
  <1> SUFFICES ASSUME ahead \in Seq(OperationNames), [NextClient]_<<vars, clientVars>>
               PROVE  ahead' \in Seq(OperationNames)
    BY DEF AheadTyped
  <1>1. <<>> \in Seq(OperationNames)
    OBVIOUS
  <1>2. CASE Operating \/ Disconnect \/ UNCHANGED <<vars, clientVars>>
    <2>1. ahead' = ahead
      BY <1>2 DEF Operating, Disconnect, clientVars
    <2> QED
      BY <2>1
  <1>3. CASE Throw \/ Return \/ AnswerUseless \/ AnswerUsed
    <2>1. ahead' = <<>>
      BY <1>3 DEF Throw, Return, AnswerUseless, AnswerUsed, Ends
    <2> QED
      BY <1>1, <2>1
  <1>4. ASSUME NEW name, NEW operations \in Seq(OperationNames) \ {<<>>}, Begin(name, operations)
        PROVE  ahead' \in Seq(OperationNames)
    <2>1. ahead' = Tail(operations)
      BY <1>4 DEF Begin
    <2> QED
      BY <2>1, TailTyped
  <1>5. CASE Connect \/ Command \/ Transfer
    BY <1>4, <1>5, Sequels DEF Connect, Command, Transfer
  <1>6. CASE NextOperation
    <2>1. ahead' = Tail(ahead) /\ ahead # <<>>
      BY <1>6 DEF NextOperation
    <2> QED
      BY <2>1, TailTyped
  <1> QED
    BY <1>2, <1>3, <1>5, <1>6 DEF NextClient

LEMMA ShrinksInCall ==
  ASSUME TypeOK, AheadTyped, NextClient, call # "none"
  PROVE  \/ call' = "none"
         \/ Len(ahead') < Len(ahead)
         \/ ahead' = ahead /\ Remaining' < Remaining
  <1>1. CASE Operating
    BY <1>1, LoopShrinks DEF Operating, clientVars
  <1>2. CASE Connect \/ Command \/ Transfer \/ Disconnect
    BY <1>2 DEF Connect, Command, Transfer, Disconnect, Begin
  <1>3. CASE NextOperation
    <2>1. ahead' = Tail(ahead) /\ ahead # <<>> /\ ahead \in Seq(OperationNames)
      BY <1>3 DEF NextOperation, AheadTyped
    <2> QED
      BY <2>1
  <1>4. CASE Throw \/ Return \/ AnswerUseless \/ AnswerUsed
    BY <1>4 DEF Throw, Return, AnswerUseless, AnswerUsed, Ends
  <1> QED
    BY <1>1, <1>2, <1>3, <1>4 DEF NextClient

(* For operations of any number of steps: a call of the client is over     *)
(* after a number of steps that is bounded when it begins.                 *)
THEOREM CallsAreBounded == SpecClient => [](Remaining \in Nat) /\ CallShrinks
  <1>1. TypeOK /\ AheadTyped /\ [NextClient]_<<vars, clientVars>>
          => [call # "none" =>
                \/ call' = "none"
                \/ Len(ahead') < Len(ahead)
                \/ ahead' = ahead /\ Remaining' < Remaining]_<<vars, clientVars>>
    BY ShrinksInCall
  <1>2. InitClient => AheadTyped
    BY DEF InitClient, AheadTyped
  <1>3. TypeOK => Remaining \in Nat
    <2> SUFFICES ASSUME TypeOK PROVE Remaining \in Nat
      OBVIOUS
    <2>1. left \in Nat /\ left >= 1
      BY TimedOperationAssumption DEF TypeOK
    <2> QED
      BY ONLY <2>1 DEF Remaining
  <1> QED
    BY <1>1, <1>2, <1>3, AheadKept, ClientLoopsComplete, PTL DEF SpecClient, CallShrinks

LEMMA WaitsSound == IInv /\ WaitsWithDeadline /\ [Next]_vars => WaitsWithDeadline'
  <1> SUFFICES ASSUME IInv, WaitsWithDeadline, [Next]_vars PROVE WaitsWithDeadline'
    OBVIOUS
  <1> USE DEF IInv, TypeOK, Bookkeeping, WaitsWithDeadline
  <1>1. ASSUME NEW k \in Kinds, NEW steps \in 1 .. MaxSteps, Start(k, steps)
        PROVE  WaitsWithDeadline'
    BY <1>1 DEF Start
  <1>2. CASE StepEnds
    BY <1>2 DEF StepEnds
  <1>3. CASE TimerExpires
    BY <1>3 DEF TimerExpires
  <1>4. CASE RunStep \/ RunTimer \/ RunNothing
    BY <1>4 DEF RunStep, RunTimer, RunNothing
  <1>5. CASE Check
    BY <1>5 DEF Check, CancelTimer, CancelSocket
  <1>6. CASE UNCHANGED vars
    BY <1>6 DEF vars
  <1> QED
    BY <1>1, <1>2, <1>3, <1>4, <1>5, <1>6 DEF Next

(* For operations of any number of steps, alone and in the calls of a      *)
(* client: no loop waits without its deadline.                             *)
THEOREM NoneWaitsForPeerAlone == SpecClient => []WaitsWithDeadline
  <1>1. Init => WaitsWithDeadline
    BY DEF Init, WaitsWithDeadline
  <1>2. InitClient => Init
    BY DEF InitClient
  <1> QED
    BY <1>1, <1>2, InitSound, NextSound, WaitsSound, ClientStep, PTL DEF SpecClient

-----------------------------------------------------------------------------
(* What the client makes of the answers.                                   *)

LEMMA WrappedInRange ==
  ASSUME NEW half \in Nat \ {0}, NEW n \in Int
  PROVE  Wrapped(n, half) \in -half .. half - 1
  <1> DEFINE w == 2 * half
             m == n + half
  <1>1. w \in Nat \ {0} /\ m \in Int /\ w = half + half
    OBVIOUS
  <1>2. m % w \in 0 .. w - 1
    <2> HIDE DEF w, m
    <2> QED
      BY <1>1
  <1>3. Wrapped(n, half) = (m % w) - half
    BY DEF Wrapped
  <1> DEFINE r == m % w
  <1>4. r \in 0 .. w - 1
    BY <1>2
  <1> HIDE DEF w, m, r
  <1>5. r - half \in -half .. half - 1
    BY <1>1, <1>4
  <1> QED
    BY <1>3, <1>5 DEF r

(* An operation on two longs is a long or a double.                        *)
LEMMA OperateGives ==
  ASSUME NEW op \in Operations, NEW a \in Longs, NEW b \in Longs
  PROVE  Operate(op, a, b) \in Values /\ IsNumber(Operate(op, a, b))
  <1>1. LongHalf \in Nat \ {0} /\ a \in Int /\ b \in Int
    BY JsonHelperAssumption DEF Longs
  <1>2. a + b \in Int /\ a - b \in Int /\ a * b \in Int
    BY <1>1
  <1>3. \A n \in Int : Integer(Wrapped(n, LongHalf)) \in Values
    BY <1>1, WrappedInRange DEF Values, Longs
  <1>4. \A n : IsNumber(Integer(n))
    BY DEF IsNumber, Integer
  <1>5. Float \in Values /\ IsNumber(Float)
    BY DEF Values, IsNumber, Float
  <1> HIDE DEF Integer
  <1> QED
    BY <1>2, <1>3, <1>4, <1>5 DEF Operate, Operations

LEMMA ValueMembers ==
  ASSUME NEW v \in Values
  PROVE  /\ v.type = "integer" => v.n \in Longs
         /\ v.type = "boolean" => v.is \in BOOLEAN
         /\ v \in Structured => ~IsNumber(v)
  BY DEF Values, Structured, Null, Float, String, Object, Array, Boolean, Integer, IsNumber

(* A value is replaced by itself, or a number by a number.                 *)
LEMMA CombineKeeps ==
  ASSUME NEW v \in Values, NEW w \in Values, NEW op \in Operations
  PROVE  /\ Combine(v, w, op) \in Values
         /\ Combine(v, w, op) = w \/ (IsNumber(Combine(v, w, op)) /\ IsNumber(w))
  <1>1. CASE v.type = "integer" /\ w.type = "integer"
    <2>1. Combine(v, w, op) = Operate(op, v.n, w.n)
      BY <1>1 DEF Combine
    <2>2. v.n \in Longs /\ w.n \in Longs /\ IsNumber(w)
      BY <1>1, ValueMembers DEF IsNumber
    <2> QED
      BY <2>1, <2>2, OperateGives
  <1>2. CASE IsNumber(v) /\ IsNumber(w) /\ ~(v.type = "integer" /\ w.type = "integer")
    <2>1. Combine(v, w, op) = Float
      BY <1>2 DEF Combine
    <2>2. Float \in Values /\ IsNumber(Float)
      BY DEF Values, IsNumber, Float
    <2> QED
      BY <1>2, <2>1, <2>2
  <1>3. CASE ~(v.type = "integer" /\ w.type = "integer") /\ ~(IsNumber(v) /\ IsNumber(w))
    <2>1. Combine(v, w, op) = w
      BY <1>3 DEF Combine
    <2> QED
      BY <2>1
  <1> QED
    BY <1>1, <1>2, <1>3

\* Of an answer, only what its places hold matters to the totals.
Holds(j) == <<>> \in DOMAIN j /\ \A p \in DOMAIN j : j[p] \in Values

LEMMA DocumentHolds == ASSUME NEW j, IsDocument(j) PROVE Holds(j)
  BY DEF IsDocument, Holds

(* A merge keeps every place and the kind of what is there.                *)
LEMMA MergeKeeps ==
  ASSUME NEW from, Holds(from), NEW to, IsDocument(to), NEW op \in Operations
  PROVE  /\ IsDocument(ArithmeticMerge(from, to, op))
         /\ SameForm(ArithmeticMerge(from, to, op), to)
  <1> DEFINE m == ArithmeticMerge(from, to, op)
  <1>1. DOMAIN m = DOMAIN to
    BY DEF ArithmeticMerge
  <1>2. ASSUME NEW p \in DOMAIN to
        PROVE  m[p] \in Values /\ (m[p] = to[p] \/ (IsNumber(m[p]) /\ IsNumber(to[p])))
    <2>1. to[p] \in Values
      BY DEF IsDocument
    <2>2. m[p] = IF p \in DOMAIN from /\ Reached(from, to, p)
                 THEN Combine(from[p], to[p], op) ELSE to[p]
      BY DEF ArithmeticMerge
    <2>3. CASE p \in DOMAIN from /\ Reached(from, to, p)
      <3>1. from[p] \in Values
        BY <2>3 DEF Holds
      <3> QED
        BY <2>1, <2>2, <2>3, <3>1, CombineKeeps
    <2>4. CASE ~(p \in DOMAIN from /\ Reached(from, to, p))
      BY <2>1, <2>2, <2>4
    <2> QED
      BY <2>3, <2>4
  <1> HIDE DEF m
  <1>3. ASSUME NEW p \in DOMAIN to, to[p] \in Structured PROVE m[p] = to[p]
    BY <1>2, <1>3, ValueMembers DEF IsDocument
  <1>4. IsDocument(m)
    BY <1>1, <1>2, <1>3 DEF IsDocument
  <1>5. SameForm(m, to)
    BY <1>1, <1>2 DEF SameForm
  <1> QED
    BY <1>4, <1>5 DEF m

LEMMA FormTransitive ==
  ASSUME NEW a, NEW b, NEW c, SameForm(a, b), SameForm(b, c)
  PROVE  SameForm(a, c)
  BY DEF SameForm

(* What is left of an answer by its payload and a filter.                  *)
LEMMA AtHolds ==
  ASSUME NEW j, IsDocument(j), NEW key, Has(j, key, {"object"})
  PROVE  Holds(At(j, key))
  <1> DEFINE below == {q \in DOMAIN j : q # <<>> /\ Head(q) = key}
  <1>1. ASSUME NEW q \in below
        PROVE  <<key>> \o Tail(q) = q
    <2>1. q \in Seq(STRING) /\ q # <<>> /\ Head(q) = key
      BY DEF IsDocument
    <2> QED
      BY <2>1
  <1>2. <<key>> \in below /\ Tail(<<key>>) = <<>>
    BY DEF Has
  <1>3. At(j, key) = [p \in {Tail(q) : q \in below} |-> j[<<key>> \o p]]
    BY DEF At
  <1>4. \A p \in {Tail(q) : q \in below} : j[<<key>> \o p] \in Values
    BY <1>1 DEF IsDocument
  <1> HIDE DEF below
  <1> QED
    BY <1>2, <1>3, <1>4 DEF Holds

LEMMA FilterHolds ==
  ASSUME NEW j, Holds(j), NEW filter
  PROVE  Holds(FilteredValues(j, filter))
  BY DEF FilteredValues, Holds, Values, Structured

LEMMA PayloadHolds ==
  ASSUME NEW answer \in Answers, NEW j \in Payload(answer)
  PROVE  Holds(j)
  <1>1. CASE ~Has(answer, "payload", {"object"})
    BY <1>1 DEF Payload, Holds, Values
  <1>2. CASE Has(answer, "payload", {"object"})
    <2>1. IsDocument(answer)
      BY NetClientAssumption
    <2>2. j = At(answer, "payload")
      BY <1>2 DEF Payload
    <2> QED
      BY <1>2, <2>1, <2>2, AtHolds
  <1> QED
    BY <1>1, <1>2

(* What is taken from an answer is in the range of its type.               *)
LEMMA UpdatesInRange ==
  ASSUME NEW j, Holds(j), NEW key, NEW n \in Ints, NEW b \in BOOLEAN
  PROVE  /\ CheckedInt(j, key, n) \subseteq Ints /\ IntOrDefault(j, key, n) \subseteq Ints
         /\ CheckedBool(j, key, b) \in BOOLEAN
  <1>1. IntHalf \in Nat \ {0} /\ 0 \in Ints /\ 1 \in Ints
    BY JsonHelperAssumption DEF Ints
  <1>2. ASSUME NEW v \in Values PROVE IntOf(v) \subseteq Ints
    <2>1. CASE v.type = "integer"
      <3>1. v.n \in Int
        BY <2>1, ValueMembers, JsonHelperAssumption DEF Longs
      <3>2. Wrapped(v.n, IntHalf) \in Ints
        BY <1>1, <3>1, WrappedInRange DEF Ints
      <3> QED
        BY <2>1, <3>2 DEF IntOf
    <2>2. CASE v.type # "integer"
      BY <2>2 DEF IntOf
    <2> QED
      BY <2>1, <2>2
  <1>3. ASSUME NEW types, Has(j, key, types)
        PROVE  j[<<key>>] \in Values /\ j[<<key>>].type \in types
    BY <1>3 DEF Has, Holds
  <1>4. CheckedInt(j, key, n) \subseteq Ints
    BY <1>2, <1>3 DEF CheckedInt
  <1>5. IntOrDefault(j, key, n) \subseteq Ints
    <2>1. CASE Has(j, key, {"integer", "float"})
      BY <1>2, <1>3, <2>1 DEF IntOrDefault
    <2>2. CASE ~Has(j, key, {"integer", "float"})
      BY <1>1, <2>2 DEF IntOrDefault
    <2> QED
      BY <2>1, <2>2
  <1>6. CheckedBool(j, key, b) \in BOOLEAN
    <2>1. CASE Has(j, key, {"boolean"})
      <3>1. j[<<key>>] \in Values /\ j[<<key>>].type = "boolean"
        BY <1>3, <2>1
      <3>2. j[<<key>>].is \in BOOLEAN
        BY <3>1, ValueMembers
      <3> QED
        BY <2>1, <3>2 DEF CheckedBool
    <2>2. CASE ~Has(j, key, {"boolean"})
      BY <2>2 DEF CheckedBool
    <2> QED
      BY <2>1, <2>2
  <1> QED
    BY <1>4, <1>5, <1>6

LEMMA ValuesBegin == InitClient => ValuesKeepForm
  <1>1. 0 \in Ints /\ IsDocument(InitialTotals)
    BY JsonHelperAssumption, NetClientAssumption DEF Ints
  <1> QED
    BY <1>1 DEF InitClient, ValuesKeepForm, SameForm

LEMMA ValuesKept == ValuesKeepForm /\ [NextClient]_<<vars, clientVars>> => ValuesKeepForm'
  <1> SUFFICES ASSUME ValuesKeepForm, [NextClient]_<<vars, clientVars>> PROVE ValuesKeepForm'
    OBVIOUS
  <1>1. CASE UNCHANGED <<totals, setting>>
    BY <1>1 DEF ValuesKeepForm
  <1>2. ASSUME NEW answer \in Answers, NEW payload \in Payload(answer),
               Merge(payload), UNCHANGED setting
        PROVE  ValuesKeepForm'
    <2>1. PICK filter \in Filters, op \in Operations :
            totals' = IF MergeThrows(FilteredValues(payload, filter), totals) THEN totals
                      ELSE ArithmeticMerge(FilteredValues(payload, filter), totals, op)
      BY <1>2 DEF Merge
    <2> DEFINE from == FilteredValues(payload, filter)
    <2>2. Holds(from)
      BY PayloadHolds, FilterHolds
    <2> HIDE DEF from
    <2>3. totals' = totals \/ totals' = ArithmeticMerge(from, totals, op)
      BY <2>1 DEF from
    <2>4. CASE totals' = ArithmeticMerge(from, totals, op)
      <3>1. IsDocument(totals') /\ SameForm(totals', totals)
        BY <2>2, <2>4, MergeKeeps DEF ValuesKeepForm
      <3>2. SameForm(totals', InitialTotals)
        BY <3>1, FormTransitive DEF ValuesKeepForm
      <3> QED
        BY <1>2, <3>1, <3>2 DEF ValuesKeepForm
    <2> QED
      BY <1>2, <2>3, <2>4 DEF ValuesKeepForm
  <1>3. ASSUME NEW answer \in Answers, NEW payload \in Payload(answer), NEW key \in Keys,
               UpdateNumber(payload, key) \/ UpdateFlag(payload, key), UNCHANGED totals
        PROVE  ValuesKeepForm'
    <2>1. Holds(payload)
      BY PayloadHolds
    <2>2. setting \in [number : Ints, flag : BOOLEAN] /\ setting.number \in Ints
          /\ setting.flag \in BOOLEAN /\ 0 \in Ints
      BY JsonHelperAssumption DEF ValuesKeepForm, Ints
    <2>3. CASE UpdateNumber(payload, key)
      <3>1. PICK n : setting' = [setting EXCEPT !.number = n] /\ n \in Ints
        BY <2>1, <2>2, <2>3, UpdatesInRange DEF UpdateNumber
      <3> QED
        BY <1>3, <2>2, <3>1 DEF ValuesKeepForm
    <2>4. CASE UpdateFlag(payload, key)
      <3>1. PICK f : setting' = [setting EXCEPT !.flag = f] /\ f \in BOOLEAN
        BY <2>1, <2>2, <2>4, UpdatesInRange DEF UpdateFlag
      <3> QED
        BY <1>3, <2>2, <3>1 DEF ValuesKeepForm
    <2> QED
      BY <1>3, <2>3, <2>4
  <1>4. CASE AnswerUsed
    BY <1>2, <1>3, <1>4 DEF AnswerUsed
  <1>5. CASE Operating
    BY <1>1, <1>5 DEF Operating, clientVars
  <1>6. CASE Connect \/ Command \/ Transfer \/ Disconnect \/ NextOperation \/ Throw \/ Return
             \/ AnswerUseless
    BY <1>1, <1>6 DEF Connect, Command, Transfer, Begin, Disconnect, NextOperation, Throw, Return,
                      AnswerUseless
  <1>7. CASE UNCHANGED <<vars, clientVars>>
    BY <1>1, <1>7 DEF clientVars
  <1> QED
    BY <1>4, <1>5, <1>6, <1>7 DEF NextClient

(* For documents of any depth, and answers of any form in any order: the   *)
(* totals keep their places and the kind of what is there, numbers stay in *)
(* the range of a long, and settings in that of their type.                *)
THEOREM ValuesKeptInForm == SpecClient => []ValuesKeepForm
  <1> QED
    BY ValuesBegin, ValuesKept, PTL DEF SpecClient
=============================================================================
