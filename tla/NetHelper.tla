----------------------------- MODULE NetHelper -----------------------------
(***************************************************************************)
(* netHelper (src/netHelper.cpp): several threads share a connection to a  *)
(* server that answers one command after the other.  An answer is a length *)
(* of eight digits and as many bytes of data.  send_command() holds the    *)
(* mutex from the request to the answer; login() is two commands, and      *)
(* neither the time between them nor the write to user_level is under the  *)
(* mutex.  Every send and recv may end at its deadline with any part of    *)
(* the bytes moved.  The server, the network and the peer's resets are     *)
(* external.                                                               *)
(***************************************************************************)
EXTENDS Naturals, Sequences

CONSTANTS
  Threads,
  Levels,      \* that the server grants; 0 is: not logged in
  MaxRequests  \* bound on the requests altogether

ASSUME NetHelperAssumption == 0 \in Levels /\ Levels \subseteq Nat /\ MaxRequests \in Nat

VARIABLES
  connected, user_level,
  pc,          \* of a thread: see States
  request,     \* a thread's last request
  verdict,     \* the level in a thread's last answer to "auth"
  \* The connection and the server's end of it:
  requests,    \* under way to the server
  stream,      \* what recv will read: lengths, data and torn rests of them
  session,     \* the level the server has granted
  reset,       \* the peer has reset the connection
  sent,        \* the number of requests so far
  \* What the properties refer to:
  returned,    \* the request whose answer a thread was given last on this connection
  failed,      \* a command has thrown on this connection
  latest,      \* the thread whose "auth" was the last one on this connection, if any
  trusted,     \* user_level was written last by the latest of them, and none threw since
  thrown       \* disconnect() has thrown an exception

client == <<connected, user_level, pc, request, verdict>>
server == <<requests, stream, session, reset, sent>>
history == <<returned, failed, latest, trusted, thrown>>
vars == <<client, server, history>>

\* length, data: in send_command(), which holds the mutex.  token, verdict:
\* in login(), behind its first and second command.  shutdown: in
\* disconnect(), which has found connected set and waits for the mutex.
States == {"idle", "length", "data", "token", "verdict", "shutdown"}
Kinds == {"command", "request_token", "auth"}
Request == [serial : 1 .. MaxRequests, thread : Threads, kind : Kinds]
NoRequest == [serial |-> 0]
Part == [part : {"length", "data", "rest"}, to : Request, level : Levels]

InCommand(t) == pc[t] \in {"length", "data"}

InLogin(t) ==
  \/ pc[t] \in {"token", "verdict"}
  \/ InCommand(t) /\ request[t].kind # "command"

TypeOK ==
  /\ connected \in BOOLEAN /\ user_level \in Levels
  /\ pc \in [Threads -> States]
  /\ request \in [Threads -> Request \cup {NoRequest}]
  /\ verdict \in [Threads -> Levels]
  /\ requests \in Seq(Request) /\ stream \in Seq(Part)
  /\ session \in Levels /\ reset \in BOOLEAN /\ sent \in 0 .. MaxRequests
  /\ returned \in [Threads -> 0 .. MaxRequests]
  /\ failed \in BOOLEAN /\ trusted \in BOOLEAN
  /\ latest \subseteq Threads /\ thrown \in BOOLEAN
  \* Only one thread reads, and behind a length come its data.
  /\ \A t, u \in Threads : InCommand(t) /\ InCommand(u) => t = u
  /\ \A t \in Threads : pc[t] = "data" => stream = <<>> \/ Head(stream).part = "data"

Init ==
  /\ connected = FALSE /\ user_level = 0
  /\ pc = [t \in Threads |-> "idle"]
  /\ request = [t \in Threads |-> NoRequest]
  /\ verdict = [t \in Threads |-> 0]
  /\ requests = <<>> /\ stream = <<>> /\ session = 0 /\ reset = FALSE /\ sent = 0
  /\ returned = [t \in Threads |-> 0]
  /\ failed = FALSE /\ latest = {} /\ trusted = FALSE /\ thrown = FALSE

Goto(t, state) == pc' = [pc EXCEPT ![t] = state]

-----------------------------------------------------------------------------
(* connect() and disconnect().  No two threads connect at the same time.   *)

\* A new socket: nothing of the old connection is read any more.
ConnectSucceeds ==
  /\ connected' = TRUE
  /\ requests' = <<>> /\ stream' = <<>> /\ session' = 0 /\ reset' = FALSE
  /\ failed' = FALSE /\ returned' = [t \in Threads |-> 0] /\ latest' = {} /\ trusted' = FALSE
  /\ UNCHANGED <<user_level, pc, request, verdict, sent, thrown>>

\* Whatever goes wrong is an exception; connected stays false.
ConnectThrows == UNCHANGED vars

Connect(t) == pc[t] = "idle" /\ ~connected /\ (ConnectSucceeds \/ ConnectThrows)

Disconnect(t) ==
  /\ pc[t] = "idle" /\ connected
  /\ Goto(t, "shutdown")
  /\ UNCHANGED <<connected, user_level, request, verdict, server, history>>

LockFree == \A t \in Threads : ~InCommand(t)

\* shutdown() fails on a socket that the peer has reset or that was shut down.
Shutdown(t) ==
  /\ pc[t] = "shutdown" /\ LockFree
  /\ Goto(t, "idle")
  /\ \/ /\ connected' = FALSE
        /\ UNCHANGED thrown
     \/ /\ reset \/ ~connected
        /\ thrown' = TRUE
        /\ UNCHANGED connected
  /\ UNCHANGED <<user_level, request, verdict, server, returned, failed, latest, trusted>>

-----------------------------------------------------------------------------
(* send_command().  A command that throws leaves the connection as it is:  *)
(* connected, and with whatever was not read.                              *)

\* Mutant: the mutex is not taken.
MayLockAlways == TRUE

MayLock == LockFree

\* The request is sent, or the send ends early, or there is no connection:
\* then send() and recv() return -1, and "could not receive all data" is thrown.
Send(t, kind) ==
  LET this == [serial |-> sent + 1, thread |-> t, kind |-> kind]
  IN /\ MayLock /\ sent < MaxRequests
     /\ sent' = sent + 1
     /\ request' = [request EXCEPT ![t] = this]
     /\ returned' = [returned EXCEPT ![t] = 0]
     /\ \/ /\ connected /\ Goto(t, "length")
           /\ requests' = IF reset THEN requests ELSE Append(requests, this)
           /\ UNCHANGED failed
        \/ Goto(t, "idle") /\ failed' = TRUE /\ UNCHANGED requests
     /\ UNCHANGED <<connected, user_level, verdict, stream, session, reset, trusted, thrown>>

\* After a failed read, the part at the head of the stream is whole or torn.
Torn(s) == IF s = <<>> THEN {s} ELSE {s, <<[Head(s) EXCEPT !.part = "rest"]>> \o Tail(s)}

ReadFails(t) ==
  /\ stream' \in Torn(stream)
  /\ Goto(t, "idle")
  /\ failed' = TRUE
  /\ UNCHANGED <<verdict, returned, trusted>>

Reads(part) == stream # <<>> /\ Head(stream).part = part

\* Mutant: the digits are looked at and left in the stream.
TakeLengthPeeking(t) == Reads("length") /\ Goto(t, "data") /\ UNCHANGED <<stream, failed>>

TakeLength(t) == Reads("length") /\ stream' = Tail(stream) /\ Goto(t, "data") /\ UNCHANGED failed

\* Eight bytes that are no length: whatever number they make, something of
\* the rest is read, or nothing, and is not parsed.
TakeGarbage(t) ==
  /\ Reads("data") \/ Reads("rest")
  /\ stream' \in Torn(stream) \cup {Tail(stream)}
  /\ Goto(t, "idle")
  /\ UNCHANGED failed

ReadLength(t) ==
  /\ pc[t] = "length"
  /\ \/ (TakeLength(t) \/ TakeGarbage(t)) /\ UNCHANGED <<verdict, returned, trusted>>
     \/ ReadFails(t)
  /\ UNCHANGED <<connected, user_level, request, requests, session, reset, sent,
                 latest, thrown>>

\* What the caller of send_command() does with an answer.  login() goes on
\* with a token and with a level.  Without a token it returns 0; without a
\* level (a refusal may be an error and no more) at() or get() throws, and
\* user_level is what it was.
Continue(t, answer) ==
  LET kind == request[t].kind
  IN \/ /\ kind = "auth" /\ answer.to.kind = kind
        /\ \/ /\ Goto(t, "verdict")
              /\ verdict' = [verdict EXCEPT ![t] = answer.level]
              /\ UNCHANGED trusted
           \/ Goto(t, "idle") /\ trusted' = FALSE /\ UNCHANGED verdict
     \/ /\ \/ kind = "command" /\ Goto(t, "idle")
           \/ kind = "request_token" /\ answer.to.kind = kind /\ (Goto(t, "token") \/ Goto(t, "idle"))
           \/ kind # "command" /\ answer.to.kind # kind /\ Goto(t, "idle")
        /\ UNCHANGED <<verdict, trusted>>

ReadData(t) ==
  /\ pc[t] = "data"
  /\ \/ /\ Reads("data")
        /\ stream' = Tail(stream)
        /\ Continue(t, Head(stream))
        /\ returned' = [returned EXCEPT ![t] = Head(stream).to.serial]
        /\ UNCHANGED failed
     \/ ReadFails(t)
  /\ UNCHANGED <<connected, user_level, request, requests, session, reset, sent,
                 latest, thrown>>

Command(t) == pc[t] = "idle" /\ Send(t, "command") /\ UNCHANGED latest

-----------------------------------------------------------------------------
(* login()                                                                 *)

Login(t) == pc[t] = "idle" /\ Send(t, "request_token") /\ UNCHANGED latest

Authenticate(t) == pc[t] = "token" /\ Send(t, "auth") /\ latest' = {t}

\* Mutant: a refused login, which is told the level 0, leaves the old level in place.
SetLevelWhenGranted(t) ==
  /\ pc[t] = "verdict"
  /\ user_level' = IF verdict[t] > 0 THEN verdict[t] ELSE user_level
  /\ Goto(t, "idle")
  /\ trusted' = (t \in latest)
  /\ UNCHANGED <<connected, request, verdict, server, returned, failed, latest, thrown>>

SetLevel(t) ==
  /\ pc[t] = "verdict"
  /\ user_level' = verdict[t]
  /\ Goto(t, "idle")
  /\ trusted' = (t \in latest)
  /\ UNCHANGED <<connected, request, verdict, server, returned, failed, latest, thrown>>

-----------------------------------------------------------------------------
(* The other end.                                                          *)

Answer(this, level) ==
  <<[part |-> "length", to |-> this, level |-> level],
    [part |-> "data", to |-> this, level |-> level]>>

ServerAnswers ==
  /\ connected /\ requests # <<>>
  /\ requests' = Tail(requests)
  /\ IF Head(requests).kind = "auth"
     THEN \E level \in Levels : session' = level /\ stream' = stream \o Answer(Head(requests), level)
     ELSE UNCHANGED session /\ stream' = stream \o Answer(Head(requests), 0)
  /\ UNCHANGED <<client, reset, sent, history>>

\* A request behind one of which only a part was sent cannot be understood.
ServerIgnores ==
  /\ connected /\ failed /\ requests # <<>>
  /\ requests' = Tail(requests)
  /\ UNCHANGED <<client, stream, session, reset, sent, history>>

PeerResets ==
  /\ connected /\ ~reset
  /\ reset' = TRUE /\ requests' = <<>> /\ stream' = <<>>
  /\ UNCHANGED <<client, session, sent, history>>

Next ==
  \/ \E t \in Threads :
       \/ Connect(t) \/ Disconnect(t) \/ Shutdown(t)
       \/ Command(t) \/ ReadLength(t) \/ ReadData(t)
       \/ Login(t) \/ Authenticate(t) \/ SetLevel(t)
  \/ ServerAnswers \/ ServerIgnores \/ PeerResets

Spec == Init /\ [][Next]_vars

-----------------------------------------------------------------------------
(***************************************************************************)
(* Properties.                                                             *)
(***************************************************************************)

(* An answer belongs to the command it is returned for, whoever else uses  *)
(* the connection, as long as no command has thrown since connect(): then  *)
(* its answer may still come.  A new connection is clean again.            *)
AnswerBelongs == ~failed => \A t \in Threads : returned[t] \in {0, request[t].serial}

(* is_logged_in() tells what the server has granted, whatever else is sent *)
(* and by whom, also between the two commands of a login, and however many *)
(* threads log in: nobody is in a login any more, the last to write the    *)
(* level was the last to authenticate, and no login on this connection has *)
(* thrown since.                                                           *)
LevelAgrees ==
  (connected /\ trusted /\ ~failed /\ \A t \in Threads : ~InLogin(t)) => user_level = session

(* disconnect() throws nothing, as netHelper declares it.                  *)
DisconnectReturns == ~thrown
=============================================================================
