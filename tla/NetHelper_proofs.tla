-------------------------- MODULE NetHelper_proofs --------------------------
(* Theorems about NetHelper, for any threads, levels and number of requests: *)
(* whose answer a command gets, the types, and the level that is told.       *)
EXTENDS NetHelper, TLAPS

\* The part of TypeOK that the argument needs.
Types ==
  /\ pc \in [Threads -> States]
  /\ DOMAIN request = Threads /\ request = [t \in Threads |-> request[t]]
  /\ DOMAIN returned = Threads /\ returned = [t \in Threads |-> returned[t]]
  /\ failed \in BOOLEAN /\ connected \in BOOLEAN

\* One thread at a time uses the connection, and there is one.
OneUser ==
  /\ \A t, u \in Threads : InCommand(t) /\ InCommand(u) => t = u
  /\ \A t \in Threads : InCommand(t) => connected

DataFor(this) == \E level \in Levels : stream = <<[part |-> "data", to |-> this, level |-> level]>>
AnswerFor(this) == \E level \in Levels : stream = Answer(this, level)

\* As long as no command has thrown, the connection holds nothing but the
\* request, or what is left of the answer, of the thread that uses it.
NothingElse ==
  ~failed =>
    /\ LockFree => requests = <<>> /\ stream = <<>>
    /\ \A t \in Threads :
         pc[t] = "length" =>
           \/ requests = <<request[t]>> /\ stream = <<>>
           \/ requests = <<>> /\ (stream = <<>> \/ AnswerFor(request[t]))
    /\ \A t \in Threads :
         pc[t] = "data" => requests = <<>> /\ (stream = <<>> \/ DataFor(request[t]))

IInv == Types /\ OneUser /\ NothingElse /\ AnswerBelongs

USE NetHelperAssumption

-----------------------------------------------------------------------------
\* What a length, an answer's data and a sequence of one are made of.
LEMMA AnswerParts ==
  ASSUME NEW this, NEW level
  PROVE  /\ Answer(this, level) # <<>>
         /\ Head(Answer(this, level)).part = "length"
         /\ Tail(Answer(this, level)) = <<[part |-> "data", to |-> this, level |-> level]>>
         /\ <<>> \o Answer(this, level) = Answer(this, level)
<1> DEFINE a == [part |-> "length", to |-> this, level |-> level]
           b == [part |-> "data", to |-> this, level |-> level]
<1>1. a.part = "length"
  OBVIOUS
<1> HIDE DEF a, b
<1>2. Head(<<a, b>>) = a /\ Tail(<<a, b>>) = <<b>> /\ <<a, b>> # <<>>
  OBVIOUS
<1>3. <<>> \o <<a, b>> = <<a, b>>
  OBVIOUS
<1>4. Answer(this, level) = <<a, b>>
  BY DEF Answer, a, b
<1> QED
  BY <1>1, <1>2, <1>3, <1>4 DEF b

LEMMA InitSound == Init => IInv
  BY DEF Init, IInv, Types, OneUser, NothingElse, AnswerBelongs, InCommand, LockFree, States

\* A request is the only thing on its way when the mutex was free before it.
LEMMA SendSound ==
  ASSUME IInv, NEW t \in Threads, NEW kind, ~InCommand(t), Send(t, kind)
  PROVE  IInv'
<1> DEFINE this == [serial |-> sent + 1, thread |-> t, kind |-> kind]
<1>1. /\ LockFree /\ UNCHANGED <<connected, stream>>
      /\ request' = [request EXCEPT ![t] = this]
      /\ returned' = [returned EXCEPT ![t] = 0]
      /\ \/ /\ connected /\ pc' = [pc EXCEPT ![t] = "length"]
            /\ requests' = IF reset THEN requests ELSE Append(requests, this)
            /\ UNCHANGED failed
         \/ pc' = [pc EXCEPT ![t] = "idle"] /\ failed' = TRUE /\ UNCHANGED requests
  BY DEF Send, MayLock, Goto
<1> HIDE DEF this
<1>2. Types'
  BY <1>1 DEF IInv, Types, States
<1>3. OneUser'
  BY <1>1 DEF IInv, Types, OneUser, InCommand, LockFree, States
<1>4. ASSUME ~failed' PROVE ~failed /\ requests = <<>> /\ stream' = <<>> /\ requests' \in {<<>>, <<this>>}
  <2>1. ~failed /\ requests = <<>> /\ stream = <<>>
    BY <1>1, <1>4 DEF IInv, NothingElse
  <2>2. Append(<<>>, this) = <<this>>
    OBVIOUS
  <2> QED
    BY <1>1, <1>4, <2>1, <2>2
<1>5. NothingElse'
  <2> SUFFICES ASSUME ~failed' PROVE NothingElse'
    BY DEF NothingElse
  <2>1. pc' = [pc EXCEPT ![t] = "length"] /\ request'[t] = this
    BY <1>1 DEF IInv, Types
  <2>2. ~LockFree' /\ \A u \in Threads : pc'[u] # "data" /\ (pc'[u] = "length" => u = t)
    BY <1>1, <2>1 DEF IInv, Types, LockFree, InCommand
  <2> QED
    BY <1>4, <2>1, <2>2 DEF NothingElse
<1>6. AnswerBelongs'
  BY <1>1, <1>4 DEF IInv, Types, AnswerBelongs
<1> QED
  BY <1>2, <1>3, <1>5, <1>6 DEF IInv

\* Steps that leave the connection to whoever uses it: no thread begins or
\* ends a command, and nothing on the connection changes.
LEMMA BesidesSound ==
  ASSUME IInv, UNCHANGED <<connected, request, requests, stream, returned, failed>>,
         pc' \in [Threads -> States],
         \A u \in Threads : pc'[u] = pc[u] \/ (~InCommand(u) /\ ~InCommand(u)')
  PROVE  IInv'
<1>1. \A u \in Threads : /\ InCommand(u)' <=> InCommand(u)
                         /\ pc'[u] = "length" => pc[u] = "length"
                         /\ pc'[u] = "data" => pc[u] = "data"
  BY DEF InCommand
<1>2. LockFree' <=> LockFree
  BY <1>1 DEF LockFree
<1>3. Types'
  BY DEF IInv, Types
<1>4. OneUser'
  BY <1>1 DEF IInv, OneUser
<1>5. NothingElse'
  BY <1>1, <1>2 DEF IInv, NothingElse, AnswerFor, DataFor
<1>6. AnswerBelongs'
  BY DEF IInv, AnswerBelongs
<1> QED
  BY <1>3, <1>4, <1>5, <1>6 DEF IInv

LEMMA ConnectSound == ASSUME IInv, NEW t \in Threads, Connect(t) PROVE IInv'
<1>1. CASE ConnectThrows
  <2>1. UNCHANGED <<connected, request, requests, stream, returned, failed, pc>>
    BY <1>1 DEF ConnectThrows, vars, client, server, history
  <2>2. pc' \in [Threads -> States]
    BY <2>1 DEF IInv, Types
  <2>3. \A u \in Threads : pc'[u] = pc[u] \/ (~InCommand(u) /\ ~InCommand(u)')
    BY <2>1
  <2> QED
    BY <2>1, <2>2, <2>3, BesidesSound
<1>2. CASE ConnectSucceeds
  <2>1. \A u \in Threads : ~InCommand(u)
    BY DEF Connect, IInv, OneUser
  <2>2. \A u \in Threads : pc'[u] # "length" /\ pc'[u] # "data"
    BY <1>2, <2>1 DEF ConnectSucceeds, InCommand
  <2>3. /\ UNCHANGED <<pc, request>> /\ requests' = <<>> /\ stream' = <<>>
        /\ returned' = [u \in Threads |-> 0] /\ failed' = FALSE /\ connected' = TRUE
    BY <1>2 DEF ConnectSucceeds
  <2>4. Types'
    BY <2>3 DEF IInv, Types
  <2>5. OneUser'
    BY <2>2 DEF OneUser, InCommand
  <2>6. NothingElse'
    BY <2>2, <2>3 DEF NothingElse
  <2>7. AnswerBelongs'
    BY <2>3 DEF AnswerBelongs
  <2> QED
    BY <2>4, <2>5, <2>6, <2>7 DEF IInv
<1> QED
  BY <1>1, <1>2 DEF Connect

\* disconnect() waits for the mutex: nobody uses the connection it shuts down.
LEMMA ShutdownSound == ASSUME IInv, NEW t \in Threads, Shutdown(t) PROVE IInv'
<1>1. /\ LockFree /\ UNCHANGED <<request, requests, stream, returned, failed>>
      /\ pc' = [pc EXCEPT ![t] = "idle"] /\ connected' \in {FALSE, connected}
  BY DEF Shutdown, Goto, server
<1>2. \A u \in Threads : pc'[u] # "length" /\ pc'[u] # "data"
  BY <1>1 DEF IInv, Types, LockFree, InCommand
<1>3. Types'
  BY <1>1 DEF IInv, Types, States
<1>4. OneUser'
  BY <1>2 DEF OneUser, InCommand
<1>5. NothingElse'
  BY <1>1, <1>2 DEF IInv, NothingElse
<1>6. AnswerBelongs'
  BY <1>1 DEF IInv, AnswerBelongs
<1> QED
  BY <1>3, <1>4, <1>5, <1>6 DEF IInv

\* The thread that uses the connection leaves it: it has thrown, or it has
\* taken the last of its own answer.
LEMMA LeaveSound ==
  ASSUME IInv, NEW t \in Threads, InCommand(t),
         UNCHANGED <<connected, request, requests>>,
         pc' \in [Threads -> States], ~InCommand(t)',
         \A u \in Threads \ {t} : pc'[u] = pc[u] /\ returned'[u] = returned[u],
         DOMAIN returned' = Threads, returned' = [u \in Threads |-> returned'[u]],
         failed' \in BOOLEAN,
         ~failed' => /\ ~failed /\ requests = <<>> /\ stream' = <<>>
                     /\ returned'[t] \in {0, request[t].serial}
  PROVE  IInv'
<1>1. \A u \in Threads : pc'[u] # "length" /\ pc'[u] # "data"
  BY DEF IInv, OneUser, InCommand
<1>2. Types'
  BY DEF IInv, Types
<1>3. OneUser'
  BY <1>1 DEF OneUser, InCommand
<1>4. NothingElse'
  BY <1>1 DEF NothingElse
<1>5. AnswerBelongs'
  BY DEF IInv, AnswerBelongs
<1> QED
  BY <1>2, <1>3, <1>4, <1>5 DEF IInv


LEMMA ReadLengthSound == ASSUME IInv, NEW t \in Threads, ReadLength(t) PROVE IInv'
<1>1. pc[t] = "length" /\ InCommand(t) /\ UNCHANGED <<connected, request, requests>>
  BY DEF ReadLength, InCommand
<1>2. ASSUME ~failed, stream # <<>>
      PROVE  requests = <<>> /\ Head(stream).part = "length" /\ \E level \in Levels :
               Tail(stream) = <<[part |-> "data", to |-> request[t], level |-> level]>>
  BY <1>1, <1>2, AnswerParts DEF IInv, NothingElse, AnswerFor
<1>3. CASE TakeLength(t) /\ UNCHANGED <<verdict, returned>>
  <2>1. /\ stream # <<>> /\ stream' = Tail(stream) /\ UNCHANGED <<failed, returned>>
        /\ pc' = [pc EXCEPT ![t] = "data"]
    BY <1>3 DEF TakeLength, Reads, Goto
  <2>2. \A u \in Threads : InCommand(u)' <=> InCommand(u)
    BY <1>1, <2>1 DEF IInv, Types, InCommand
  <2>3. \A u \in Threads : pc'[u] # "length" /\ (pc'[u] = "data" => u = t)
    BY <1>1, <2>1, <2>2 DEF IInv, Types, OneUser, InCommand
  <2>4. Types'
    BY <1>1, <2>1 DEF IInv, Types, States
  <2>5. OneUser'
    BY <1>1, <2>2 DEF IInv, OneUser
  <2>6. ~LockFree'
    BY <1>1, <2>2 DEF LockFree
  <2>7. NothingElse'
    BY <1>1, <1>2, <2>1, <2>3, <2>6 DEF NothingElse, DataFor
  <2>8. AnswerBelongs'
    BY <1>1, <2>1 DEF IInv, AnswerBelongs
  <2> QED
    BY <2>4, <2>5, <2>7, <2>8 DEF IInv
<1>4. ASSUME pc' = [pc EXCEPT ![t] = "idle"], UNCHANGED returned, failed' \in {failed, TRUE}, failed'
      PROVE  IInv'
  <2>1. pc' \in [Threads -> States] /\ ~InCommand(t)' /\ \A u \in Threads \ {t} : pc'[u] = pc[u]
    BY <1>4 DEF IInv, Types, States, InCommand
  <2>2. DOMAIN returned' = Threads /\ returned' = [u \in Threads |-> returned'[u]] /\ failed' \in BOOLEAN
    BY <1>4 DEF IInv, Types
  <2> QED
    BY <1>1, <1>4, <2>1, <2>2, LeaveSound
<1>5. CASE TakeGarbage(t) /\ UNCHANGED <<verdict, returned>>
  BY <1>2, <1>4, <1>5 DEF TakeGarbage, Reads, Goto, IInv, Types
<1>6. CASE ReadFails(t)
  BY <1>4, <1>6 DEF ReadFails, Goto
<1> QED
  BY <1>3, <1>5, <1>6 DEF ReadLength

LEMMA ReadDataSound == ASSUME IInv, NEW t \in Threads, ReadData(t) PROVE IInv'
<1>1. pc[t] = "data" /\ InCommand(t) /\ UNCHANGED <<connected, request, requests>>
  BY DEF ReadData, InCommand
<1>2. CASE ReadFails(t)
  <2>1. pc' = [pc EXCEPT ![t] = "idle"] /\ failed' = TRUE /\ UNCHANGED returned
    BY <1>2 DEF ReadFails, Goto
  <2>2. pc' \in [Threads -> States] /\ ~InCommand(t)' /\ \A u \in Threads \ {t} : pc'[u] = pc[u]
    BY <2>1 DEF IInv, Types, States, InCommand
  <2>3. DOMAIN returned' = Threads /\ returned' = [u \in Threads |-> returned'[u]]
    BY <2>1 DEF IInv, Types
  <2> QED
    BY <1>1, <2>1, <2>2, <2>3, LeaveSound
<1>3. CASE /\ Reads("data")
           /\ stream' = Tail(stream)
           /\ Continue(t, Head(stream))
           /\ returned' = [returned EXCEPT ![t] = Head(stream).to.serial]
           /\ UNCHANGED failed
  <2>1. \E state \in {"idle", "token", "verdict"} : pc' = [pc EXCEPT ![t] = state]
    BY <1>3 DEF Continue, Goto
  <2>2. pc' \in [Threads -> States] /\ ~InCommand(t)' /\ \A u \in Threads \ {t} : pc'[u] = pc[u]
    BY <2>1 DEF IInv, Types, States, InCommand
  <2>3. /\ DOMAIN returned' = Threads /\ returned' = [u \in Threads |-> returned'[u]]
        /\ \A u \in Threads \ {t} : returned'[u] = returned[u]
        /\ returned'[t] = Head(stream).to.serial
    BY <1>3 DEF IInv, Types
  <2>4. ASSUME ~failed
        PROVE  requests = <<>> /\ Tail(stream) = <<>> /\ Head(stream).to = request[t]
    <3>1. requests = <<>> /\ DataFor(request[t])
      BY <1>1, <1>3, <2>4 DEF IInv, NothingElse, Reads
    <3> QED
      BY <3>1 DEF DataFor
  <2>5. failed' \in BOOLEAN
    BY <1>3 DEF IInv, Types
  <2> QED
    BY <1>1, <1>3, <2>2, <2>3, <2>4, <2>5, LeaveSound
<1> QED
  BY <1>2, <1>3 DEF ReadData

\* The one request there is becomes the one answer there is.
LEMMA ServerSound == ASSUME IInv, ServerAnswers \/ ServerIgnores \/ PeerResets PROVE IInv'
<1>1. UNCHANGED <<connected, pc, request, returned, failed>>
  BY DEF ServerAnswers, ServerIgnores, PeerResets, client, history
<1>2. Types' /\ OneUser' /\ AnswerBelongs'
  BY <1>1 DEF IInv, Types, OneUser, AnswerBelongs, InCommand
<1>3. CASE ServerAnswers
  <2> SUFFICES ASSUME ~failed PROVE NothingElse'
    BY <1>1, <1>2 DEF IInv, NothingElse
  <2>1. PICK t \in Threads : InCommand(t)
    BY <1>3 DEF ServerAnswers, IInv, NothingElse, LockFree
  <2>2. pc[t] = "length" /\ requests = <<request[t]>> /\ stream = <<>>
    BY <1>3, <2>1 DEF ServerAnswers, IInv, NothingElse, InCommand
  <2>3. Head(requests) = request[t] /\ requests' = <<>>
    BY <1>3, <2>2 DEF ServerAnswers
  <2>4. \E level \in Levels : stream' = Answer(request[t], level)
    BY <1>3, <2>2, <2>3, AnswerParts DEF ServerAnswers
  <2>5. \A u \in Threads : pc[u] # "data" /\ (pc[u] = "length" => u = t)
    BY <2>2 DEF IInv, OneUser, InCommand
  <2>6. ~LockFree
    BY <2>1 DEF LockFree
  <2> QED
    BY <1>1, <2>3, <2>4, <2>5, <2>6 DEF NothingElse, AnswerFor, LockFree, InCommand
<1>4. CASE ServerIgnores
  BY <1>1, <1>2, <1>4 DEF ServerIgnores, IInv, NothingElse
<1>5. CASE PeerResets
  BY <1>1, <1>2, <1>5 DEF PeerResets, IInv, NothingElse
<1> QED
  BY <1>3, <1>4, <1>5

LEMMA NextSound == IInv /\ [Next]_vars => IInv'
<1> SUFFICES ASSUME IInv, [Next]_vars PROVE IInv'
  OBVIOUS
<1>1. ASSUME NEW t \in Threads, NEW from \in States, NEW to \in States, pc[t] = from,
             from \notin {"length", "data"}, to \notin {"length", "data"}, pc' = [pc EXCEPT ![t] = to],
             UNCHANGED <<connected, request, requests, stream, returned, failed>>
      PROVE  IInv'
  <2>1. pc' \in [Threads -> States]
    BY <1>1 DEF IInv, Types
  <2>2. \A u \in Threads : pc'[u] = pc[u] \/ (~InCommand(u) /\ ~InCommand(u)')
    BY <1>1 DEF IInv, Types, InCommand
  <2> QED
    BY <1>1, <2>1, <2>2, BesidesSound
<1>2. ASSUME NEW t \in Threads, Connect(t) PROVE IInv'
  BY <1>2, ConnectSound
<1>3. ASSUME NEW t \in Threads, Disconnect(t) PROVE IInv'
  BY <1>1, <1>3 DEF Disconnect, Goto, States, server, history
<1>4. ASSUME NEW t \in Threads, Shutdown(t) PROVE IInv'
  BY <1>4, ShutdownSound
<1>5. ASSUME NEW t \in Threads, Command(t) \/ Login(t) \/ Authenticate(t) PROVE IInv'
  <2>1. ~InCommand(t) /\ \E kind \in Kinds : Send(t, kind)
    BY <1>5 DEF Command, Login, Authenticate, InCommand, Kinds
  <2> QED
    BY <2>1, SendSound
<1>6. ASSUME NEW t \in Threads, ReadLength(t) PROVE IInv'
  BY <1>6, ReadLengthSound
<1>7. ASSUME NEW t \in Threads, ReadData(t) PROVE IInv'
  BY <1>7, ReadDataSound
<1>8. ASSUME NEW t \in Threads, SetLevel(t) PROVE IInv'
  BY <1>1, <1>8 DEF SetLevel, Goto, States, server
<1>9. CASE ServerAnswers \/ ServerIgnores \/ PeerResets
  BY <1>9, ServerSound
<1>10. CASE UNCHANGED vars
  <2>1. UNCHANGED <<connected, request, requests, stream, returned, failed, pc>>
    BY <1>10 DEF vars, client, server, history
  <2>2. pc' \in [Threads -> States]
    BY <2>1 DEF IInv, Types
  <2>3. \A u \in Threads : pc'[u] = pc[u] \/ (~InCommand(u) /\ ~InCommand(u)')
    BY <2>1
  <2> QED
    BY <2>1, <2>2, <2>3, BesidesSound
<1> QED
  BY <1>2, <1>3, <1>4, <1>5, <1>6, <1>7, <1>8, <1>9, <1>10 DEF Next

-----------------------------------------------------------------------------
(* However many threads share the connection, an answer belongs to the     *)
(* command that send_command() returns it for, until a command throws.     *)
THEOREM AnswersBelong == Spec => []AnswerBelongs
<1>1. IInv => AnswerBelongs
  BY DEF IInv
<1> QED
  BY InitSound, NextSound, <1>1, PTL DEF Spec

(* One thread at a time is between the first and the last byte of a        *)
(* command, on a connection, and until a command throws nothing is on its  *)
(* way in either direction but that command and its answer.                *)
THEOREM OneCommandAtATime == Spec => [](OneUser /\ NothingElse)
<1>1. IInv => OneUser /\ NothingElse
  BY DEF IInv
<1> QED
  BY InitSound, NextSound, <1>1, PTL DEF Spec

-----------------------------------------------------------------------------
(* The types, and the parts of the stream: a thread that has read a length *)
(* finds the data behind it, however torn the stream is, and whatever was  *)
(* read before without its answer.                                         *)

\* Behind a length come its data.
Frame(parts) ==
  \A i \in 1 .. Len(parts) :
    parts[i].part = "length" => i < Len(parts) /\ parts[i + 1].part = "data"

\* After a reset by the peer nothing is on its way any more.
Framed ==
  /\ Frame(stream)
  /\ reset => requests = <<>> /\ stream = <<>>
  /\ \A t \in Threads : pc[t] = "data" => reset \/ (stream # <<>> /\ Head(stream).part = "data")

\* TypeOK but for its last two lines, which follow from OneUser and Framed.
Typed ==
  /\ connected \in BOOLEAN /\ user_level \in Levels
  /\ pc \in [Threads -> States]
  /\ request \in [Threads -> Request \cup {NoRequest}]
  /\ verdict \in [Threads -> Levels]
  /\ requests \in Seq(Request) /\ stream \in Seq(Part)
  /\ session \in Levels /\ reset \in BOOLEAN /\ sent \in 0 .. MaxRequests
  /\ returned \in [Threads -> 0 .. MaxRequests]
  /\ failed \in BOOLEAN /\ trusted \in BOOLEAN
  /\ latest \subseteq Threads /\ thrown \in BOOLEAN

TypeInv == IInv /\ Typed /\ Framed

LEMMA TailFramed ==
  ASSUME NEW s \in Seq(Part), s # <<>>, Frame(s)
  PROVE  /\ Tail(s) \in Seq(Part) /\ Frame(Tail(s))
         /\ Head(s) \in Part
         /\ Head(s).part = "length" => Tail(s) # <<>> /\ Head(Tail(s)).part = "data"
<1>1. /\ Tail(s) \in Seq(Part) /\ Head(s) = s[1] /\ s[1] \in Part /\ Len(s) \in Nat /\ Len(s) >= 1
      /\ Len(Tail(s)) = Len(s) - 1 /\ \A i \in 1 .. Len(s) - 1 : Tail(s)[i] = s[i + 1]
  OBVIOUS
<1> HIDE DEF Part
<1>2. Frame(Tail(s))
  BY <1>1 DEF Frame
<1>3. ASSUME s[1].part = "length" PROVE Tail(s) # <<>> /\ Head(Tail(s)).part = "data"
  <2>1. 1 < Len(s) /\ s[2].part = "data"
    BY <1>1, <1>3 DEF Frame
  <2>2. Head(Tail(s)) = s[2] /\ Tail(s) # <<>>
    <3> DEFINE rest == Tail(s)
    <3>1. \A i \in 1 .. Len(s) - 1, j \in 1 .. Len(s) : j = i + 1 => rest[i] = s[j]
      BY <1>1
    <3>2. rest \in Seq(Part) /\ Len(rest) >= 1
      BY <1>1, <2>1
    <3> HIDE DEF rest
    <3>3. 1 \in 1 .. Len(s) - 1 /\ 2 \in 1 .. Len(s)
      BY <1>1, <2>1
    <3>4. rest[1] = s[2]
      BY <3>1, <3>3
    <3>5. rest # <<>> /\ Head(rest) = rest[1]
      BY <3>2
    <3> QED
      BY <3>4, <3>5 DEF rest
  <2> QED
    BY <1>1, <2>1, <2>2
<1> QED
  BY <1>1, <1>2, <1>3

LEMMA TornFramed ==
  ASSUME NEW s \in Seq(Part), Frame(s), NEW torn \in Torn(s)
  PROVE  torn \in Seq(Part) /\ Frame(torn)
<1>1. CASE torn = s
  BY <1>1
<1>2. CASE s # <<>> /\ torn = <<[Head(s) EXCEPT !.part = "rest"]>> \o Tail(s)
  <2> DEFINE rest == [Head(s) EXCEPT !.part = "rest"]
  <2>1. Tail(s) \in Seq(Part) /\ Frame(Tail(s)) /\ Head(s) \in Part
    BY <1>2, TailFramed
  <2>2. rest \in Part /\ rest.part = "rest"
    BY <2>1 DEF Part
  <2> HIDE DEF rest, Part
  <2>3. <<rest>> \in Seq(Part) /\ Len(<<rest>>) = 1 /\ <<rest>>[1] = rest
    BY <2>2
  <2>4. /\ torn \in Seq(Part) /\ Len(torn) = Len(Tail(s)) + 1 /\ Len(Tail(s)) \in Nat
        /\ torn[1] = rest /\ \A i \in 2 .. Len(torn) : torn[i] = Tail(s)[i - 1]
    <3>1. torn = <<rest>> \o Tail(s)
      BY <1>2 DEF rest
    <3> QED
      BY <2>1, <2>3, <3>1
  <2> QED
    BY <2>1, <2>2, <2>4 DEF Frame
<1> QED
  BY <1>1, <1>2 DEF Torn

LEMMA AnswerFramed ==
  ASSUME NEW s \in Seq(Part), Frame(s), NEW this \in Request, NEW level \in Levels
  PROVE  /\ s \o Answer(this, level) \in Seq(Part) /\ Frame(s \o Answer(this, level))
         /\ s \o Answer(this, level) # <<>>
         /\ s # <<>> => Head(s \o Answer(this, level)) = Head(s)
<1> DEFINE length == [part |-> "length", to |-> this, level |-> level]
           data == [part |-> "data", to |-> this, level |-> level]
           both == s \o <<length, data>>
<1>1. length \in Part /\ data \in Part /\ length.part = "length" /\ data.part = "data"
  BY DEF Part
<1>2. Answer(this, level) = <<length, data>>
  BY DEF Answer
<1> HIDE DEF length, data, Part
<1>3. /\ both \in Seq(Part) /\ Len(both) = Len(s) + 2 /\ Len(s) \in Nat
      /\ both[Len(s) + 1] = length /\ both[Len(s) + 2] = data
      /\ \A i \in 1 .. Len(s) : both[i] = s[i]
  BY <1>1
<1> HIDE DEF both
<1>4. ASSUME NEW i \in 1 .. Len(both), both[i].part = "length"
      PROVE  i < Len(both) /\ both[i + 1].part = "data"
  <2>1. CASE i <= Len(s)
    <3>1. i \in 1 .. Len(s) /\ i < Len(s) /\ s[i + 1].part = "data"
      BY <1>3, <1>4, <2>1 DEF Frame
    <3> QED
      BY <1>3, <3>1
  <2>2. CASE i = Len(s) + 1
    BY <1>1, <1>3, <2>2
  <2>3. CASE i = Len(s) + 2
    BY <1>1, <1>3, <1>4, <2>3
  <2> QED
    BY <1>3, <2>1, <2>2, <2>3
<1>5. Frame(both)
  BY <1>4 DEF Frame
<1>6. both # <<>> /\ (s # <<>> => Head(both) = Head(s))
  BY <1>3
<1> QED
  BY <1>2, <1>3, <1>5, <1>6 DEF both

LEMMA InitTyped == Init => TypeInv
<1> SUFFICES ASSUME Init PROVE TypeInv
  OBVIOUS
<1>1. stream = <<>> /\ requests = <<>> /\ Len(stream) = 0
  BY DEF Init
<1>2. Framed
  BY <1>1 DEF Init, Framed, Frame
<1>3. requests \in Seq(Request) /\ stream \in Seq(Part)
  BY <1>1
<1>4. /\ pc \in [Threads -> States] /\ request \in [Threads -> Request \cup {NoRequest}]
      /\ verdict \in [Threads -> Levels] /\ returned \in [Threads -> 0 .. MaxRequests]
      /\ sent \in 0 .. MaxRequests
  <2>1. NoRequest \in Request \cup {NoRequest} /\ 0 \in 0 .. MaxRequests /\ 0 \in Levels
    OBVIOUS
  <2> HIDE DEF NoRequest, Request
  <2> QED
    BY <2>1 DEF Init, States
<1>5. Typed
  BY <1>3, <1>4 DEF Init, Typed
<1> QED
  BY <1>2, <1>5, InitSound DEF TypeInv

\* Steps that leave the stream alone, and no thread behind a length.
LEMMA StreamKept ==
  ASSUME Framed, UNCHANGED stream, requests' = requests \/ ~reset', reset' => reset,
         \A u \in Threads : pc'[u] = "data" => pc[u] = "data" /\ UNCHANGED reset
  PROVE  Framed'
  BY DEF Framed, Frame

LEMMA ConnectTyped == ASSUME TypeInv, IInv', NEW t \in Threads, Connect(t) PROVE TypeInv'
<1>1. CASE ConnectThrows
  BY <1>1 DEF ConnectThrows, TypeInv, Typed, Framed, Frame, vars, client, server, history
<1>2. CASE ConnectSucceeds
  <2>1. \A u \in Threads : pc'[u] # "data"
    BY <1>2 DEF Connect, ConnectSucceeds, TypeInv, IInv, OneUser, InCommand
  <2>2. stream' = <<>> /\ requests' = <<>> /\ Len(stream') = 0
    BY <1>2 DEF ConnectSucceeds
  <2>3. Framed'
    BY <2>1, <2>2 DEF Framed, Frame
  <2>4. requests' \in Seq(Request) /\ stream' \in Seq(Part)
    BY <2>2
  <2>5. returned' \in [Threads -> 0 .. MaxRequests] /\ session' \in Levels
    BY <1>2 DEF ConnectSucceeds
  <2>6. Typed'
    BY <1>2, <2>4, <2>5 DEF ConnectSucceeds, TypeInv, Typed
  <2> QED
    BY <2>3, <2>6 DEF TypeInv
<1> QED
  BY <1>1, <1>2 DEF Connect

LEMMA SendTyped ==
  ASSUME TypeInv, IInv', NEW t \in Threads, NEW kind \in Kinds, Send(t, kind),
         latest' \subseteq Threads
  PROVE  TypeInv'
<1> DEFINE this == [serial |-> sent + 1, thread |-> t, kind |-> kind]
<1>1. /\ sent < MaxRequests /\ sent' = sent + 1
      /\ UNCHANGED <<connected, user_level, verdict, stream, session, reset, trusted, thrown>>
      /\ request' = [request EXCEPT ![t] = this]
      /\ returned' = [returned EXCEPT ![t] = 0]
      /\ requests' = requests \/ (~reset /\ requests' = Append(requests, this))
      /\ \E state \in {"idle", "length"} : pc' = [pc EXCEPT ![t] = state]
      /\ failed' \in {failed, TRUE}
  BY DEF Send, Goto
<1>2. sent \in Nat /\ MaxRequests \in Nat /\ sent' \in 1 .. MaxRequests
  BY <1>1 DEF TypeInv, Typed
<1>3. this \in Request
  BY <1>1, <1>2 DEF Request
<1> HIDE DEF this, Request
<1>4. requests \in Seq(Request) /\ request \in [Threads -> Request \cup {NoRequest}]
      /\ returned \in [Threads -> 0 .. MaxRequests] /\ pc \in [Threads -> States]
  BY DEF TypeInv, Typed
<1>5. requests' \in Seq(Request)
  <2>1. Append(requests, this) \in Seq(Request)
    BY <1>3, <1>4
  <2> QED
    BY <1>1, <1>4, <2>1
<1>6. request' \in [Threads -> Request \cup {NoRequest}]
  BY <1>1, <1>3, <1>4
<1>7. returned' \in [Threads -> 0 .. MaxRequests] /\ sent' \in 0 .. MaxRequests
  BY <1>1, <1>2, <1>4
<1>8. pc' \in [Threads -> States]
  BY <1>1, <1>4 DEF States
<1>9. Typed'
  BY <1>1, <1>5, <1>6, <1>7, <1>8 DEF TypeInv, Typed
<1>10. Framed'
  BY <1>1, StreamKept DEF TypeInv, Typed
<1> QED
  BY <1>9, <1>10 DEF TypeInv

\* However a read ends, what it leaves in the stream is framed, and a thread
\* that goes on to the data finds them.
LEMMA ReadTyped ==
  ASSUME TypeInv, IInv', NEW t \in Threads, InCommand(t),
         stream' \in Seq(Part), Frame(stream'), reset => stream' = <<>>,
         NEW state \in States, pc' = [pc EXCEPT ![t] = state],
         state = "data" => stream' # <<>> /\ Head(stream').part = "data",
         verdict' \in [Threads -> Levels], returned' \in [Threads -> 0 .. MaxRequests],
         failed' \in {failed, TRUE}, trusted' \in BOOLEAN,
         UNCHANGED <<connected, user_level, request, requests, session, reset, sent,
                     latest, thrown>>
  PROVE  TypeInv'
<1>1. \A u \in Threads : pc'[u] = "data" => u = t /\ state = "data"
  BY DEF TypeInv, Typed, IInv, OneUser, InCommand
<1>2. Framed'
  BY <1>1 DEF TypeInv, Framed
<1>3. Typed'
  BY DEF TypeInv, Typed
<1> QED
  BY <1>2, <1>3 DEF TypeInv

LEMMA ReadFailsTyped ==
  ASSUME TypeInv, IInv', NEW t \in Threads, InCommand(t), ReadFails(t),
         UNCHANGED <<connected, user_level, request, requests, session, reset, sent,
                     latest, thrown>>
  PROVE  TypeInv'
<1>1. /\ stream' \in Torn(stream) /\ pc' = [pc EXCEPT ![t] = "idle"] /\ failed' = TRUE
      /\ UNCHANGED <<verdict, returned, trusted>>
  BY DEF ReadFails, Goto
<1>2. stream' \in Seq(Part) /\ Frame(stream')
  BY <1>1, TornFramed DEF TypeInv, Typed, Framed
<1>3. reset => stream' = <<>>
  BY <1>1 DEF TypeInv, Framed, Torn
<1>4. verdict' \in [Threads -> Levels] /\ returned' \in [Threads -> 0 .. MaxRequests]
      /\ trusted' \in BOOLEAN
  BY <1>1 DEF TypeInv, Typed
<1> QED
  BY <1>1, <1>2, <1>3, <1>4, ReadTyped DEF States

LEMMA ReadLengthTyped == ASSUME TypeInv, IInv', NEW t \in Threads, ReadLength(t) PROVE TypeInv'
<1>1. /\ InCommand(t)
      /\ UNCHANGED <<connected, user_level, request, requests, session, reset, sent,
                     latest, thrown>>
  BY DEF ReadLength, InCommand
<1>2. stream \in Seq(Part) /\ Frame(stream) /\ (reset => stream = <<>>)
  BY DEF TypeInv, Typed, Framed
<1>3. CASE (TakeLength(t) \/ TakeGarbage(t)) /\ UNCHANGED <<verdict, returned, trusted>>
  <2>1. verdict' \in [Threads -> Levels] /\ returned' \in [Threads -> 0 .. MaxRequests]
        /\ trusted' \in BOOLEAN
    BY <1>3 DEF TypeInv, Typed
  <2>2. stream # <<>> /\ failed' = failed
    BY <1>3 DEF TakeLength, TakeGarbage, Reads
  <2>3. CASE TakeLength(t)
    <3>1. Head(stream).part = "length" /\ stream' = Tail(stream) /\ pc' = [pc EXCEPT ![t] = "data"]
      BY <2>3 DEF TakeLength, Reads, Goto
    <3>2. stream' \in Seq(Part) /\ Frame(stream') /\ stream' # <<>> /\ Head(stream').part = "data"
      BY <1>2, <2>2, <3>1, TailFramed
    <3> QED
      BY <1>1, <1>2, <2>1, <2>2, <3>1, <3>2, ReadTyped DEF States
  <2>4. CASE TakeGarbage(t)
    <3>1. stream' \in Torn(stream) \cup {Tail(stream)} /\ pc' = [pc EXCEPT ![t] = "idle"]
      BY <2>4 DEF TakeGarbage, Goto
    <3>2. stream' \in Seq(Part) /\ Frame(stream')
      BY <1>2, <2>2, <3>1, TailFramed, TornFramed
    <3> QED
      BY <1>1, <1>2, <2>1, <2>2, <3>1, <3>2, ReadTyped DEF States
  <2> QED
    BY <1>3, <2>3, <2>4
<1>4. CASE ReadFails(t)
  BY <1>1, <1>4, ReadFailsTyped
<1> QED
  BY <1>3, <1>4 DEF ReadLength

LEMMA ReadDataTyped == ASSUME TypeInv, IInv', NEW t \in Threads, ReadData(t) PROVE TypeInv'
<1>1. /\ InCommand(t)
      /\ UNCHANGED <<connected, user_level, request, requests, session, reset, sent,
                     latest, thrown>>
  BY DEF ReadData, InCommand
<1>2. stream \in Seq(Part) /\ Frame(stream) /\ (reset => stream = <<>>)
  BY DEF TypeInv, Typed, Framed
<1>3. CASE /\ Reads("data")
           /\ stream' = Tail(stream)
           /\ Continue(t, Head(stream))
           /\ returned' = [returned EXCEPT ![t] = Head(stream).to.serial]
           /\ UNCHANGED failed
  <2>1. stream # <<>> /\ Head(stream) \in Part /\ stream' \in Seq(Part) /\ Frame(stream')
    BY <1>2, <1>3, TailFramed DEF Reads
  <2>2. Head(stream).level \in Levels /\ Head(stream).to.serial \in 0 .. MaxRequests
    <3>1. Head(stream).level \in Levels /\ Head(stream).to \in Request
      BY <2>1 DEF Part
    <3>2. Head(stream).to.serial \in 1 .. MaxRequests
      BY <3>1 DEF Request
    <3> QED
      BY <3>1, <3>2
  <2>3. returned' \in [Threads -> 0 .. MaxRequests]
    BY <1>3, <2>2 DEF TypeInv, Typed
  <2>4. PICK state \in {"idle", "token", "verdict"} : pc' = [pc EXCEPT ![t] = state]
    BY <1>3 DEF Continue, Goto
  <2>5. verdict' \in [Threads -> Levels] /\ trusted' \in BOOLEAN
    BY <1>3, <2>2 DEF Continue, TypeInv, Typed
  <2>6. state \in States /\ state # "data"
    BY <2>4 DEF States
  <2> QED
    BY <1>1, <1>2, <1>3, <2>1, <2>3, <2>4, <2>5, <2>6, ReadTyped
<1>4. CASE ReadFails(t)
  BY <1>1, <1>4, ReadFailsTyped
<1> QED
  BY <1>3, <1>4 DEF ReadData

LEMMA ServerTyped ==
  ASSUME TypeInv, IInv', ServerAnswers \/ ServerIgnores \/ PeerResets
  PROVE  TypeInv'
<1>1. UNCHANGED <<client, sent, history>>
  BY DEF ServerAnswers, ServerIgnores, PeerResets
<1>2. requests \in Seq(Request) /\ stream \in Seq(Part) /\ Frame(stream)
  BY DEF TypeInv, Typed, Framed
<1> HIDE DEF Request, Part
<1>3. requests # <<>> => ~reset /\ Head(requests) \in Request /\ Tail(requests) \in Seq(Request)
  BY <1>2 DEF TypeInv, Framed
<1>4. CASE ServerAnswers
  <2>1. PICK level \in Levels :
          /\ session' = level \/ UNCHANGED session
          /\ stream' = stream \o Answer(Head(requests), level)
    BY <1>4 DEF ServerAnswers
  <2>2. stream' \in Seq(Part) /\ Frame(stream')
    BY <1>2, <1>3, <1>4, <2>1, AnswerFramed DEF ServerAnswers
  <2>3. ~reset' /\ UNCHANGED reset /\ requests' \in Seq(Request) /\ session' \in Levels
    BY <1>3, <1>4, <2>1 DEF ServerAnswers, TypeInv, Typed
  <2>4. ASSUME NEW t \in Threads, pc[t] = "data" PROVE stream' # <<>> /\ Head(stream').part = "data"
    <3>1. stream # <<>> /\ Head(stream).part = "data"
      BY <1>3, <1>4, <2>4 DEF ServerAnswers, TypeInv, Framed
    <3> QED
      BY <1>2, <1>3, <1>4, <2>1, <3>1, AnswerFramed DEF ServerAnswers
  <2> QED
    BY <1>1, <2>2, <2>3, <2>4 DEF TypeInv, Typed, Framed, client, history
<1>5. CASE ServerIgnores
  <2>1. UNCHANGED <<stream, session, reset>> /\ requests' \in Seq(Request) /\ ~reset'
    BY <1>3, <1>5 DEF ServerIgnores
  <2> QED
    BY <1>1, <2>1 DEF TypeInv, Typed, Framed, Frame, client, history
<1>6. CASE PeerResets
  <2>1. stream' = <<>> /\ requests' = <<>> /\ Len(stream') = 0 /\ reset' = TRUE /\ UNCHANGED session
    BY <1>6 DEF PeerResets
  <2>2. requests' \in Seq(Request) /\ stream' \in Seq(Part)
    BY <2>1
  <2>3. Framed'
    BY <2>1 DEF Framed, Frame
  <2> QED
    BY <1>1, <2>1, <2>2, <2>3 DEF TypeInv, Typed, client, history
<1> QED
  BY <1>4, <1>5, <1>6

LEMMA NextTyped == TypeInv /\ [Next]_vars => TypeInv'
<1> SUFFICES ASSUME TypeInv, [Next]_vars PROVE TypeInv'
  OBVIOUS
<1>1. IInv'
  BY NextSound DEF TypeInv
<1>2. ASSUME NEW t \in Threads, NEW state \in States \ {"data"}, pc' = [pc EXCEPT ![t] = state],
             UNCHANGED <<request, verdict, server, returned, failed, latest>>,
             connected' \in BOOLEAN, user_level' \in Levels, trusted' \in BOOLEAN, thrown' \in BOOLEAN
      PROVE  TypeInv'
  <2>1. Framed'
    <3>1. \A u \in Threads : pc'[u] = "data" => pc[u] = "data"
      BY <1>2 DEF TypeInv, Typed
    <3> QED
      BY <1>2, <3>1, StreamKept DEF TypeInv, server
  <2>2. Typed'
    BY <1>2 DEF TypeInv, Typed, server
  <2> QED
    BY <1>1, <2>1, <2>2 DEF TypeInv
<1>3. ASSUME NEW t \in Threads, Disconnect(t) \/ Shutdown(t) \/ SetLevel(t) PROVE TypeInv'
  <2>1. /\ \E state \in {"shutdown", "idle"} : pc' = [pc EXCEPT ![t] = state]
        /\ UNCHANGED <<request, verdict, server, returned, failed, latest>>
        /\ connected' \in {connected, FALSE} /\ user_level' \in {user_level, verdict[t]}
        /\ trusted' \in {trusted, (t \in latest)} /\ thrown' \in {thrown, TRUE}
    BY <1>3 DEF Disconnect, Shutdown, SetLevel, Goto, history
  <2>2. connected' \in BOOLEAN /\ user_level' \in Levels /\ trusted' \in BOOLEAN /\ thrown' \in BOOLEAN
    <3>1. connected \in BOOLEAN /\ trusted \in BOOLEAN /\ thrown \in BOOLEAN
      BY Zenon DEF TypeInv, Typed
    <3>2. user_level \in Levels /\ verdict[t] \in Levels
      BY DEF TypeInv, Typed
    <3>3. trusted' \in BOOLEAN
      <4>1. (t \in latest) \in BOOLEAN
        OBVIOUS
      <4> QED
        BY <2>1, <3>1, <4>1, Zenon
    <3> QED
      BY <2>1, <3>1, <3>2, <3>3, Zenon
  <2> QED
    BY <1>2, <2>1, <2>2 DEF States
<1>4. ASSUME NEW t \in Threads, Command(t) \/ Login(t) \/ Authenticate(t) PROVE TypeInv'
  <2>1. \E kind \in Kinds : Send(t, kind)
    BY <1>4 DEF Command, Login, Authenticate, Kinds
  <2>2. latest' \subseteq Threads
    BY <1>4 DEF Command, Login, Authenticate, TypeInv, Typed
  <2> QED
    BY <1>1, <2>1, <2>2, SendTyped
<1>5. CASE UNCHANGED vars
  BY <1>1, <1>5 DEF TypeInv, Typed, Framed, Frame, vars, client, server, history
<1> QED
  BY <1>1, <1>3, <1>4, <1>5, ConnectTyped, ReadLengthTyped, ReadDataTyped, ServerTyped DEF Next

(* The types, for any number of requests: one thread at a time is inside   *)
(* send_command(), and behind a length that it has read come the data.     *)
THEOREM TypeCorrect == Spec => []TypeOK
<1>1. TypeInv => TypeOK
  BY DEF TypeInv, Typed, Framed, IInv, OneUser, TypeOK
<1> QED
  BY InitTyped, NextTyped, <1>1, PTL DEF Spec

-----------------------------------------------------------------------------
(* The level.  A thread writes it some time after it has read it, and not  *)
(* under the mutex.                                                        *)

\* The thread whose second request of login() is under way.
InAuth(t) == InCommand(t) /\ request[t].kind = "auth"

\* It is the latest one, until another has the mutex.
OneLatest == (\A t, u \in latest : t = u) /\ \A t \in Threads : InAuth(t) => t \in latest

\* The answer to an "auth" tells the level that the server has granted with
\* it: nobody else's request has been answered since.
AnswerLevel ==
  ~failed => \A t \in Threads :
    InAuth(t) =>
      /\ pc[t] = "length" => stream = <<>> \/ stream = Answer(request[t], session)
      /\ pc[t] = "data" =>
           \/ stream = <<>>
           \/ stream = <<[part |-> "data", to |-> request[t], level |-> session]>>

\* Nobody changes it before the latest login has written it.
VerdictLevel == ~failed => \A t \in latest : pc[t] = "verdict" => verdict[t] = session

\* A thread whose second request of login() has been sent: until it has
\* written the level it is told, user_level may be an old one.
Authenticating(t) == pc[t] = "verdict" \/ InAuth(t)

WrittenLevel ==
  ~failed /\ trusted => (user_level = session \/ \E t \in Threads : Authenticating(t))

LevelInv == TypeInv /\ OneLatest /\ AnswerLevel /\ VerdictLevel /\ WrittenLevel

LEMMA InitLevel == Init => LevelInv
<1> SUFFICES ASSUME Init PROVE LevelInv
  OBVIOUS
<1>1. OneLatest /\ VerdictLevel /\ WrittenLevel
  BY DEF Init, OneLatest, VerdictLevel, WrittenLevel, InAuth, InCommand
<1>2. AnswerLevel
  BY DEF Init, AnswerLevel, InAuth, InCommand
<1> QED
  BY <1>1, <1>2, InitTyped DEF LevelInv

LEMMA LatestKept ==
  ASSUME OneLatest, UNCHANGED latest, \A u \in Threads : InAuth(u)' => InAuth(u)
  PROVE  OneLatest'
  BY DEF OneLatest

\* When a command has thrown, nothing more is promised of the levels.
LEMMA FailedLevel ==
  ASSUME LevelInv, TypeInv', failed' = TRUE, UNCHANGED latest,
         \A u \in Threads : InAuth(u)' => InAuth(u)
  PROVE  LevelInv'
<1>1. OneLatest'
  BY LatestKept DEF LevelInv
<1>2. AnswerLevel' /\ VerdictLevel' /\ WrittenLevel'
  BY DEF AnswerLevel, VerdictLevel, WrittenLevel
<1> QED
  BY <1>1, <1>2 DEF LevelInv

\* Steps of threads that are not in a command or a login, and stay so.
LEMMA BesidesLevel ==
  ASSUME LevelInv, TypeInv',
         UNCHANGED <<user_level, request, verdict, stream, session, failed, latest, trusted>>,
         \A u \in Threads : pc'[u] = pc[u] \/ {pc[u], pc'[u]} \subseteq {"idle", "shutdown"}
  PROVE  LevelInv'
<1>1. \A u \in Threads : /\ InAuth(u)' <=> InAuth(u)
                         /\ \A state \in {"length", "data", "verdict"} : pc'[u] = state <=> pc[u] = state
  BY DEF InCommand, InAuth
<1>2. OneLatest'
  BY <1>1, LatestKept DEF LevelInv
<1>3. AnswerLevel'
  BY <1>1 DEF LevelInv, AnswerLevel
<1>4. VerdictLevel'
  BY <1>1 DEF LevelInv, VerdictLevel, TypeInv, Typed
<1>5. \A u \in Threads : Authenticating(u)' <=> Authenticating(u)
  BY <1>1 DEF Authenticating
<1>6. WrittenLevel'
  BY <1>5 DEF LevelInv, WrittenLevel
<1> QED
  BY <1>2, <1>3, <1>4, <1>6 DEF LevelInv

\* A new connection, and nobody has authenticated on it.
LEMMA ConnectLevel == ASSUME LevelInv, TypeInv', NEW t \in Threads, Connect(t) PROVE LevelInv'
<1>1. CASE ConnectThrows
  BY <1>1, BesidesLevel DEF ConnectThrows, vars, client, server, history
<1>2. CASE ConnectSucceeds
  <2>1. latest' = {} /\ trusted' = FALSE
    BY <1>2 DEF ConnectSucceeds
  <2>2. \A u \in Threads : ~InAuth(u)'
    BY <1>2 DEF Connect, ConnectSucceeds, LevelInv, TypeInv, IInv, OneUser, InAuth, InCommand
  <2>3. OneLatest' /\ VerdictLevel' /\ WrittenLevel'
    BY <2>1, <2>2 DEF OneLatest, VerdictLevel, WrittenLevel
  <2>4. AnswerLevel'
    BY <2>2 DEF AnswerLevel
  <2> QED
    BY <2>3, <2>4 DEF LevelInv
<1> QED
  BY <1>1, <1>2 DEF Connect

\* A thread that has the mutex finds no other "auth" under way, and its own
\* is the latest now.
LEMMA SendLevel ==
  ASSUME LevelInv, TypeInv', NEW t \in Threads, Command(t) \/ Login(t) \/ Authenticate(t)
  PROVE  LevelInv'
<1>1. PICK kind \in Kinds :
        /\ Send(t, kind)
        /\ pc[t] \in {"idle", "token"}
        /\ latest' = IF kind = "auth" THEN {t} ELSE latest
  BY DEF Command, Login, Authenticate, Kinds
<1> DEFINE this == [serial |-> sent + 1, thread |-> t, kind |-> kind]
<1>2. /\ UNCHANGED <<user_level, verdict, stream, session, trusted>>
      /\ request' = [request EXCEPT ![t] = this]
      /\ LockFree
      /\ \/ pc' = [pc EXCEPT ![t] = "length"] /\ UNCHANGED failed
         \/ pc' = [pc EXCEPT ![t] = "idle"] /\ failed' = TRUE
  BY <1>1 DEF Send, Goto, MayLock
<1>3. this.kind = kind
  OBVIOUS
<1> HIDE DEF this
<1>4. /\ request'[t] = this /\ pc'[t] \in {"idle", "length"}
      /\ \A u \in Threads \ {t} : request'[u] = request[u] /\ pc'[u] = pc[u]
  BY <1>2 DEF LevelInv, TypeInv, IInv, Types
<1>5. \A u \in Threads \ {t} : ~InAuth(u)' /\ (Authenticating(u)' <=> Authenticating(u))
  BY <1>2, <1>4 DEF InAuth, InCommand, Authenticating, LockFree
<1>6. OneLatest'
  <2>1. CASE kind = "auth"
    BY <1>1, <1>5, <2>1 DEF OneLatest
  <2>2. CASE kind # "auth"
    <3>1. ~InAuth(t)'
      BY <1>3, <1>4, <2>2 DEF InAuth
    <3> QED
      BY <1>1, <1>5, <2>2, <3>1, LatestKept DEF LevelInv
  <2> QED
    BY <2>1, <2>2
<1>7. VerdictLevel'
  <2> SUFFICES ASSUME ~failed', NEW u \in latest', pc'[u] = "verdict"
               PROVE  verdict'[u] = session'
    BY DEF VerdictLevel
  <2>1. u \in Threads /\ u # t /\ ~failed
    BY <1>2, <1>4 DEF LevelInv, TypeInv, Typed
  <2>2. u \in latest
    BY <1>1, <2>1
  <2> QED
    BY <1>2, <1>4, <2>1, <2>2 DEF LevelInv, VerdictLevel
<1>8. AnswerLevel'
  <2> SUFFICES ASSUME ~failed' PROVE AnswerLevel'
    BY DEF AnswerLevel
  <2>1. ~failed /\ stream' = <<>>
    BY <1>2 DEF LevelInv, TypeInv, IInv, NothingElse
  <2> QED
    BY <2>1 DEF AnswerLevel
<1>9. WrittenLevel'
  <2>1. ~Authenticating(t)
    BY <1>1 DEF Authenticating, InAuth, InCommand
  <2>2. ~failed' => ~failed
    BY <1>2
  <2> QED
    BY <1>2, <1>5, <2>1, <2>2 DEF LevelInv, WrittenLevel
<1> QED
  BY <1>6, <1>7, <1>8, <1>9 DEF LevelInv

LEMMA ReadLengthLevel == ASSUME LevelInv, TypeInv', NEW t \in Threads, ReadLength(t) PROVE LevelInv'
<1>1. /\ pc[t] = "length" /\ InCommand(t)
      /\ UNCHANGED <<user_level, request, session, latest, trusted>>
  BY DEF ReadLength, ReadFails, InCommand
<1>2. ASSUME pc' = [pc EXCEPT ![t] = "idle"], failed' = TRUE
      PROVE  LevelInv'
  <2>1. \A u \in Threads : InAuth(u)' => InAuth(u)
    BY <1>1, <1>2 DEF InAuth, InCommand, LevelInv, TypeInv, Typed
  <2> QED
    BY <1>1, <1>2, <2>1, FailedLevel
<1>3. ASSUME ~failed, stream # <<>> PROVE Head(stream).part = "length"
  BY <1>1, <1>3, AnswerParts DEF LevelInv, TypeInv, IInv, NothingElse, AnswerFor
<1>4. CASE TakeLength(t) /\ UNCHANGED <<verdict, returned, trusted>>
  <2>1. /\ stream # <<>> /\ stream' = Tail(stream) /\ UNCHANGED <<failed, verdict>>
        /\ pc' = [pc EXCEPT ![t] = "data"]
    BY <1>4 DEF TakeLength, Reads, Goto
  <2>2. pc'[t] = "data" /\ \A u \in Threads \ {t} : pc'[u] = pc[u] /\ ~InCommand(u)
    BY <1>1, <2>1 DEF LevelInv, TypeInv, Typed, IInv, OneUser
  <2>3. \A u \in Threads : /\ InAuth(u)' <=> InAuth(u)
                           /\ pc'[u] = "verdict" <=> pc[u] = "verdict"
    BY <1>1, <2>2 DEF InAuth, InCommand
  <2>4. OneLatest'
    BY <1>1, <2>3, LatestKept DEF LevelInv
  <2>5. VerdictLevel'
    BY <1>1, <2>1, <2>3 DEF LevelInv, VerdictLevel, TypeInv, Typed
  <2>6. WrittenLevel'
    BY <1>1, <2>1, <2>3 DEF LevelInv, WrittenLevel, Authenticating
  <2>7. ASSUME ~failed', request'[t].kind = "auth"
        PROVE  stream' = <<[part |-> "data", to |-> request'[t], level |-> session']>>
    <3>1. stream = Answer(request[t], session)
      BY <1>1, <2>1, <2>7 DEF LevelInv, AnswerLevel, InAuth
    <3> QED
      BY <1>1, <2>1, <3>1, AnswerParts
  <2>8. AnswerLevel'
    BY <2>2, <2>7 DEF AnswerLevel, InAuth, InCommand
  <2> QED
    BY <2>4, <2>5, <2>6, <2>8 DEF LevelInv
<1>5. CASE TakeGarbage(t) /\ UNCHANGED <<verdict, returned, trusted>>
  <2>1. failed' = failed /\ failed /\ pc' = [pc EXCEPT ![t] = "idle"]
    BY <1>3, <1>5 DEF TakeGarbage, Reads, Goto
  <2> QED
    BY <1>2, <2>1 DEF LevelInv, TypeInv, Typed
<1>6. CASE ReadFails(t)
  BY <1>2, <1>6 DEF ReadFails, Goto
<1> QED
  BY <1>4, <1>5, <1>6 DEF ReadLength

LEMMA ReadDataLevel == ASSUME LevelInv, TypeInv', NEW t \in Threads, ReadData(t) PROVE LevelInv'
<1>1. /\ pc[t] = "data" /\ InCommand(t)
      /\ UNCHANGED <<user_level, request, session, latest>>
  BY DEF ReadData, InCommand
<1>2. CASE ReadFails(t)
  <2>1. pc' = [pc EXCEPT ![t] = "idle"] /\ failed' = TRUE
    BY <1>2 DEF ReadFails, Goto
  <2>2. \A u \in Threads : InAuth(u)' => InAuth(u)
    BY <1>1, <2>1 DEF InAuth, InCommand, LevelInv, TypeInv, Typed
  <2> QED
    BY <1>1, <2>1, <2>2, FailedLevel
<1>3. CASE /\ Reads("data")
           /\ stream' = Tail(stream)
           /\ Continue(t, Head(stream))
           /\ returned' = [returned EXCEPT ![t] = Head(stream).to.serial]
           /\ UNCHANGED failed
  <2> DEFINE kind == request[t].kind
  <2>1. PICK state \in {"idle", "token", "verdict"} :
          /\ pc' = [pc EXCEPT ![t] = state]
          /\ kind = "command" => state = "idle"
          /\ state = "token" => kind # "command"
          /\ state = "verdict" => verdict' = [verdict EXCEPT ![t] = Head(stream).level]
          /\ state # "verdict" => UNCHANGED verdict
          /\ state # "verdict" /\ kind = "auth" => Head(stream).to.kind # kind \/ trusted' = FALSE
          /\ trusted' \in {trusted, FALSE}
          /\ state = "verdict" => kind = "auth"
    BY <1>3 DEF Continue, Goto
  <2>2. /\ pc'[t] = state
        /\ \A u \in Threads \ {t} : /\ pc'[u] = pc[u] /\ verdict'[u] = verdict[u]
                                    /\ pc[u] \notin {"length", "data"}
    BY <1>1, <2>1 DEF LevelInv, TypeInv, Typed, IInv, OneUser, InCommand
  <2>3. \A u \in Threads : ~InAuth(u)'
    BY <2>2 DEF InAuth, InCommand
  <2>4. OneLatest'
    BY <1>1, <2>3, LatestKept DEF LevelInv
  <2>5. AnswerLevel'
    BY <2>3 DEF AnswerLevel
  <2>6. ASSUME ~failed, kind = "auth"
        PROVE  Head(stream).to = request[t] /\ Head(stream).level = session
    <3>1. stream = <<[part |-> "data", to |-> request[t], level |-> session]>>
      BY <1>1, <1>3, <2>6 DEF LevelInv, AnswerLevel, InAuth, Reads
    <3> QED
      BY <3>1
  <2>7. VerdictLevel'
    <3> SUFFICES ASSUME ~failed', NEW u \in latest', pc'[u] = "verdict"
                 PROVE  verdict'[u] = session'
      BY DEF VerdictLevel
    <3>1. u \in Threads /\ u \in latest /\ ~failed
      BY <1>1, <1>3 DEF LevelInv, TypeInv, Typed
    <3>2. CASE u = t
      <4>1. verdict'[t] = Head(stream).level
        BY <2>1, <2>2, <3>2 DEF LevelInv, TypeInv, Typed
      <4> QED
        BY <1>1, <2>1, <2>2, <2>6, <3>1, <3>2, <4>1
    <3>3. CASE u # t
      BY <1>1, <2>2, <3>1, <3>3 DEF LevelInv, VerdictLevel
    <3> QED
      BY <3>2, <3>3
  <2>8. ASSUME ~failed, trusted', NEW u \in Threads, Authenticating(u) PROVE Authenticating(u)'
    <3>1. CASE u = t
      BY <1>1, <2>1, <2>2, <2>6, <2>8, <3>1 DEF Authenticating, InAuth
    <3>2. CASE u # t
      BY <1>1, <2>2, <2>8, <3>2 DEF Authenticating, InAuth, InCommand
    <3> QED
      BY <3>1, <3>2
  <2>9. WrittenLevel'
    BY <1>1, <1>3, <2>1, <2>8 DEF LevelInv, WrittenLevel
  <2> QED
    BY <2>4, <2>5, <2>7, <2>9 DEF LevelInv
<1> QED
  BY <1>2, <1>3 DEF ReadData

\* The level is the server's when the login was the latest one, and otherwise
\* nobody relies on it.
LEMMA SetLevelSound == ASSUME LevelInv, TypeInv', NEW t \in Threads, SetLevel(t) PROVE LevelInv'
<1>1. /\ pc[t] = "verdict" /\ user_level' = verdict[t] /\ pc' = [pc EXCEPT ![t] = "idle"]
      /\ trusted' = (t \in latest)
      /\ UNCHANGED <<request, verdict, stream, session, failed, latest>>
  BY DEF SetLevel, Goto, server
<1>2. pc'[t] = "idle" /\ \A u \in Threads \ {t} : pc'[u] = pc[u]
  BY <1>1 DEF LevelInv, TypeInv, Typed
<1>3. \A u \in Threads : /\ InAuth(u)' <=> InAuth(u)
                         /\ \A state \in {"length", "data", "verdict"} : pc'[u] = state => pc[u] = state
  BY <1>1, <1>2 DEF InAuth, InCommand
<1>4. OneLatest'
  BY <1>1, <1>3, LatestKept DEF LevelInv
<1>5. AnswerLevel'
  BY <1>1, <1>3 DEF LevelInv, AnswerLevel
<1>6. VerdictLevel'
  BY <1>1, <1>3 DEF LevelInv, VerdictLevel, TypeInv, Typed
<1>7. WrittenLevel'
  BY <1>1 DEF LevelInv, VerdictLevel, WrittenLevel
<1> QED
  BY <1>4, <1>5, <1>6, <1>7 DEF LevelInv

\* The server grants a level to the thread whose "auth" is under way, which
\* is the latest one: no other one that is waits to write its own.
LEMMA ServerLevel ==
  ASSUME LevelInv, TypeInv', ServerAnswers \/ ServerIgnores \/ PeerResets
  PROVE  LevelInv'
<1>1. UNCHANGED <<user_level, pc, request, verdict, failed, latest, trusted>>
  BY DEF ServerAnswers, ServerIgnores, PeerResets, client, history
<1>2. \A u \in Threads : InAuth(u)' <=> InAuth(u)
  BY <1>1 DEF InAuth, InCommand
<1>3. \A u \in Threads : Authenticating(u)' <=> Authenticating(u)
  BY <1>1, <1>2 DEF Authenticating
<1>4. OneLatest'
  BY <1>1, <1>2, LatestKept DEF LevelInv
<1>5. CASE failed
  BY <1>1, <1>2, <1>5, FailedLevel DEF LevelInv, TypeInv, Typed
<1>6. CASE ~failed /\ ServerAnswers
  <2>1. PICK t \in Threads : InCommand(t)
    BY <1>6 DEF ServerAnswers, LevelInv, TypeInv, IInv, NothingElse, LockFree
  <2>2. pc[t] = "length" /\ requests = <<request[t]>> /\ stream = <<>>
    BY <1>6, <2>1 DEF ServerAnswers, LevelInv, TypeInv, IInv, NothingElse, InCommand
  <2>3. Head(requests) = request[t]
    BY <2>2
  <2>4. /\ request[t].kind = "auth" => stream' = Answer(request[t], session')
        /\ request[t].kind # "auth" => session' = session
    BY <1>6, <2>2, <2>3, AnswerParts DEF ServerAnswers
  <2>5. \A u \in Threads : InCommand(u) => u = t
    BY <2>1 DEF LevelInv, TypeInv, IInv, OneUser
  <2>6. AnswerLevel'
    BY <1>1, <2>2, <2>4, <2>5 DEF AnswerLevel, InAuth, InCommand
  <2>7. VerdictLevel'
    <3> SUFFICES ASSUME NEW u \in latest, pc[u] = "verdict" PROVE session' = session
      BY <1>1, <1>6 DEF LevelInv, VerdictLevel
    <3>1. t \notin latest
      BY <2>2 DEF LevelInv, OneLatest
    <3>2. ~InAuth(t)
      BY <3>1 DEF LevelInv, OneLatest
    <3> QED
      BY <2>1, <2>4, <3>2 DEF InAuth
  <2>8. WrittenLevel'
    BY <1>1, <1>3, <1>6, <2>1, <2>4 DEF LevelInv, WrittenLevel, Authenticating, InAuth
  <2> QED
    BY <1>4, <2>6, <2>7, <2>8 DEF LevelInv
<1>7. CASE ~failed /\ PeerResets
  <2>1. stream' = <<>> /\ UNCHANGED session
    BY <1>7 DEF PeerResets
  <2>2. AnswerLevel' /\ VerdictLevel'
    BY <1>1, <2>1 DEF AnswerLevel, LevelInv, VerdictLevel
  <2>3. WrittenLevel'
    BY <1>1, <1>3, <2>1 DEF LevelInv, WrittenLevel
  <2> QED
    BY <1>4, <2>2, <2>3 DEF LevelInv
<1> QED
  BY <1>5, <1>6, <1>7 DEF ServerIgnores

LEMMA NextLevel == LevelInv /\ [Next]_vars => LevelInv'
<1> SUFFICES ASSUME LevelInv, [Next]_vars PROVE LevelInv'
  OBVIOUS
<1>1. TypeInv'
  BY NextTyped DEF LevelInv
<1>2. ASSUME NEW t \in Threads, Disconnect(t) \/ Shutdown(t) PROVE LevelInv'
  <2>1. /\ UNCHANGED <<user_level, request, verdict, stream, session, failed, latest, trusted>>
        /\ pc[t] \in {"idle", "shutdown"}
        /\ \E state \in {"idle", "shutdown"} : pc' = [pc EXCEPT ![t] = state]
    BY <1>2 DEF Disconnect, Shutdown, Goto, server, history
  <2>2. \A u \in Threads : pc'[u] = pc[u] \/ {pc[u], pc'[u]} \subseteq {"idle", "shutdown"}
    BY <2>1 DEF LevelInv, TypeInv, Typed
  <2> QED
    BY <1>1, <2>1, <2>2, BesidesLevel
<1>3. CASE UNCHANGED vars
  <2>1. UNCHANGED <<user_level, request, verdict, stream, session, failed, latest, trusted, pc>>
    BY <1>3 DEF vars, client, server, history
  <2> QED
    BY <1>1, <2>1, BesidesLevel
<1> QED
  BY <1>1, <1>2, <1>3, ConnectLevel, SendLevel, ReadLengthLevel, ReadDataLevel, SetLevelSound,
     ServerLevel DEF Next

(* is_logged_in() tells what the server has granted, for any number of     *)
(* threads and requests: on a connection on which no command has thrown,   *)
(* with no login under way, when the last to write the level was the last  *)
(* to authenticate and no login has thrown since.  Between the answer to   *)
(* that "auth" and the write, nobody else's was answered.                  *)
THEOREM LevelsAgree == Spec => []LevelAgrees
<1>1. LevelInv => LevelAgrees
  BY DEF LevelInv, WrittenLevel, LevelAgrees, Authenticating, InAuth, InLogin
<1> QED
  BY InitLevel, NextLevel, <1>1, PTL DEF Spec
=============================================================================
