----------------------------- MODULE NetClient -----------------------------
(***************************************************************************)
(* A client with one connection (src/netHelper.cpp).  Its calls are made   *)
(* of timed operations, each with a deadline of its own: connect() of one, *)
(* or with SSL of two; getCommandReturnPayload() sends, receives a length  *)
(* and receives the data.  From the payload the client updates totals and  *)
(* settings with the helpers of jsonHelper.hpp.  The client itself and     *)
(* what the server answers are external.                                   *)
(***************************************************************************)
EXTENDS TimedOperation, JsonHelper

CONSTANTS
  Answers,        \* documents the server sends
  InitialTotals,  \* a document
  Keys,           \* of payloads that the client knows
  Filters         \* that the client puts on payloads: sets of keys

ASSUME NetClientAssumption == \A j \in Answers \cup {InitialTotals} : IsDocument(j)

VARIABLES
  ssl,        \* of the object: netHelperSSL or netHelperTCP
  connected,
  call,       \* the call under way, or "none"
  ahead,      \* its operations that have not begun
  totals,
  setting     \* its number an int, its flag a bool

operation == <<kind, left, step, timer, result, timer_result, pc>>
clientVars == <<ssl, connected, call, ahead, totals, setting>>

InitClient ==
  /\ Init
  /\ ssl \in BOOLEAN
  /\ connected = FALSE /\ call = "none" /\ ahead = <<>>
  /\ totals = InitialTotals /\ setting = [number |-> 0, flag |-> FALSE]

\* The loop of an operation, and what it waits for.
Operating ==
  /\ StepEnds \/ TimerExpires \/ RunStep \/ RunTimer \/ RunNothing \/ Check
  /\ UNCHANGED clientVars

\* connect() may try several endpoints; a transfer may need several parts.
StartOperation(name) ==
  \E steps \in 1 .. MaxSteps : Start(IF name = "connect" THEN "connect" ELSE "transfer", steps)

-----------------------------------------------------------------------------
Begin(name, operations) ==
  /\ call = "none" /\ call' = name
  /\ StartOperation(Head(operations))
  /\ ahead' = Tail(operations)
  /\ UNCHANGED <<ssl, connected, totals, setting>>

\* A connected object returns 1 at once.
Connect ==
  /\ ~connected
  /\ Begin("connect", IF ssl THEN <<"connect", "handshake">> ELSE <<"connect">>)

\* Without a connection send() and recv() return -1 and the command throws.
Command == connected /\ Begin("command", <<"send", "length", "data">>)

\* send() or recv(), under get_mutex().
Transfer == connected /\ Begin("transfer", <<"transfer">>)

\* That shutting down may throw is in NetHelper.
Disconnect ==
  /\ call = "none" /\ connected
  /\ connected' = FALSE
  /\ UNCHANGED <<operation, ssl, call, ahead, totals, setting>>

-----------------------------------------------------------------------------
\* The operation under way has left its loop: with success, or an exception.
Done == call # "none" /\ pc = "over" /\ result = "success"

Ends == call' = "none" /\ ahead' = <<>>

NextOperation ==
  /\ Done /\ ahead # <<>>
  /\ StartOperation(Head(ahead))
  /\ ahead' = Tail(ahead)
  /\ UNCHANGED <<ssl, connected, call, totals, setting>>

\* An operation has failed, or the length received is none, or 0.
Throw ==
  /\ call # "none" /\ pc = "over"
  /\ result # "success" \/ ahead = <<"data">>
  /\ Ends
  /\ UNCHANGED <<operation, ssl, connected, totals, setting>>

Return ==
  /\ Done /\ ahead = <<>> /\ call # "command"
  /\ connected' = (connected \/ call = "connect")
  /\ Ends
  /\ UNCHANGED <<operation, ssl, totals, setting>>

\* What getCommandReturnPayload() makes of an answer; {} is an exception.
Payload(answer) ==
  IF ~Has(answer, "payload", {"object"}) THEN {[p \in {<<>>} |-> Null]}
  ELSE {j \in {At(answer, "payload")} : ~Has(j, "error", {"string"})}

\* The data is not JSON, or is empty, or reports an error.
AnswerUseless ==
  /\ Done /\ ahead = <<>> /\ call = "command"
  /\ Ends
  /\ UNCHANGED <<operation, ssl, connected, totals, setting>>

Merge(payload) ==
  \E filter \in Filters, op \in Operations :
    LET from == FilteredValues(payload, filter)
    IN totals' = IF MergeThrows(from, totals) THEN totals ELSE ArithmeticMerge(from, totals, op)

\* checkedUpdateFromJSON without a default and with one, and value_ig_type.
UpdateNumber(payload, key) ==
  \E n \in CheckedInt(payload, key, setting.number)
             \cup CheckedInt(payload, key, 0) \cup IntOrDefault(payload, key, 0) :
    setting' = [setting EXCEPT !.number = n]

UpdateFlag(payload, key) ==
  \E default \in {setting.flag, FALSE} :
    setting' = [setting EXCEPT !.flag = CheckedBool(payload, key, default)]

AnswerUsed ==
  /\ Done /\ ahead = <<>> /\ call = "command"
  /\ \E answer \in Answers : \E payload \in Payload(answer) :
       \/ Merge(payload) /\ UNCHANGED setting
       \/ /\ \E key \in Keys : UpdateNumber(payload, key) \/ UpdateFlag(payload, key)
          /\ UNCHANGED totals
  /\ Ends
  /\ UNCHANGED <<operation, ssl, connected>>

NextClient ==
  \/ Operating
  \/ Connect \/ Command \/ Transfer \/ Disconnect
  \/ NextOperation \/ Throw \/ Return \/ AnswerUseless \/ AnswerUsed

\* The thread runs, in an operation (Fairness) and between two, and time
\* passes; the peer may be silent for ever, and the client may do nothing.
FairnessClient ==
  /\ Fairness
  /\ WF_<<vars, clientVars>>(NextOperation \/ Throw \/ Return \/ AnswerUseless \/ AnswerUsed)

SpecClient == InitClient /\ [][NextClient]_<<vars, clientVars>> /\ FairnessClient

-----------------------------------------------------------------------------
(***************************************************************************)
(* Properties.                                                             *)
(***************************************************************************)

(* Every call ends, however silent the peer is: with a result, or at the   *)
(* deadline of one of its operations, whichever of them it waits in and    *)
(* however many endpoints or parts that one has left.  connect() looks up  *)
(* the name before its first operation, without a deadline: that this      *)
(* returns is taken for granted.                                           *)
CallEnds == (call # "none") ~> (call = "none")

\* The same keys and lengths, the same values but for those that are numbers.
SameForm(a, b) ==
  /\ DOMAIN a = DOMAIN b
  /\ \A p \in DOMAIN a : a[p] = b[p] \/ (IsNumber(a[p]) /\ IsNumber(b[p]))

(* Whatever the server sends, and however often it is merged into the      *)
(* totals, they keep their form: nothing is added, lost or replaced by a   *)
(* value of another kind, and an exception on the way leaves them as they  *)
(* are.  Every number, and a setting, stays what its type can hold.        *)
ValuesKeepForm ==
  /\ SameForm(totals, InitialTotals) /\ IsDocument(totals)
  /\ setting \in [number : Ints, flag : BOOLEAN]
=============================================================================
