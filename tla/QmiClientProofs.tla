--------------------------- MODULE QmiClientProofs ---------------------------
(***************************************************************************)
(* Who is behind the socket file, for any number of daemons that start,    *)
(* end and crash; and what a client that calls one of them prints, for any *)
(* request, any width of a byte and any place where its read() is cut.     *)
(***************************************************************************)
EXTENDS QmiClient, CodecProofs

-----------------------------------------------------------------------------
\* The socket file.

\* Daemons that live at the same time know of each other.
Overlap ==
  \A d, e \in Daemons : d # e /\ Alive(d) /\ Alive(e) => shared[d] /\ shared[e]

\* The file as a daemon that was never disturbed knows it.
Undisturbed ==
  \A d \in Daemons :
    ~shared[d] =>
      /\ stage[d] # "failed"
      /\ stage[d] = "unlinked" => file = NoDaemon
      /\ stage[d] \in {"bound", "listening", "serving"} => file = d

\* The daemon the file names has bound and not removed it.
NamesItsMaker ==
  file # NoDaemon =>
    stage[file] \in {"bound", "listening", "serving", "closing", "crashed", "abandoned"}

IInv == PathTypeOK /\ Overlap /\ Undisturbed /\ NamesItsMaker

LEMMA InitIInv == Init => IInv
BY DEF Init, IInv, PathTypeOK, Stages, Live, Overlap, Alive, Undisturbed, NamesItsMaker

LEMMA StutterIInv == IInv /\ UNCHANGED pathVars => IInv'
BY DEF pathVars, IInv, PathTypeOK, Overlap, Alive, Undisturbed, NamesItsMaker

LEMMA StartIInv == ASSUME IInv, NEW d \in Daemons, Start(d) PROVE IInv'
<1> USE DEF IInv, PathTypeOK, Stages, Live, Alive, Start
<1>1. \A e \in Daemons : stage'[e] = IF e = d THEN "unlinked" ELSE stage[e]
  OBVIOUS
<1>2. /\ shared'[d] = (shared[d] \/ \E o \in Daemons : Alive(o))
      /\ \A e \in Daemons \ {d} : shared'[e] = (shared[e] \/ Alive(e))
  OBVIOUS
<1>3. PathTypeOK' /\ file' = NoDaemon
  BY DEF FileAfterUnlink
<1>4. Overlap'
  BY <1>1, <1>2, ZenonT(60) DEF Overlap
<1>5. Undisturbed'
  BY <1>1, <1>2, <1>3 DEF Undisturbed
<1> QED BY <1>3, <1>4, <1>5 DEF NamesItsMaker

\* The steps of a daemon that has started.
LEMMA OtherIInv ==
  ASSUME IInv, NEW d \in Daemons,
         Bind(d) \/ Listen(d) \/ AddFd(d) \/ Close(d) \/ RemoveFile(d) \/ Crash(d)
  PROVE  IInv'
<1> USE DEF IInv, PathTypeOK, Stages, Live, Alive, Bind, Listen, AddFd, Close, RemoveFile, Crash
<1>1. UNCHANGED shared /\ Alive(d)
  OBVIOUS
<1>2. PICK s \in Stages : stage' = [stage EXCEPT ![d] = s]
  OBVIOUS
<1>3. \A e \in Daemons : stage'[e] = IF e = d THEN s ELSE stage[e]
  BY <1>2
<1>4. PathTypeOK'
  BY <1>1, <1>2 DEF FileAtEnd
<1>5. Overlap'
  BY <1>1, <1>3 DEF Overlap
\* An undisturbed daemon other than d does not live.
<1>6. \A e \in Daemons \ {d} : ~shared[e] => ~Alive(e)
  BY <1>1 DEF Overlap
<1>7. \A e \in Daemons \ {d} : ~shared'[e] => stage'[e] = stage[e] /\ ~Alive(e)
  BY <1>1, <1>3, <1>6
<1>8. CASE Bind(d)
  BY <1>1, <1>3, <1>4, <1>5, <1>7, <1>8, NoDaemonAssumption DEF Undisturbed, NamesItsMaker
<1>9. CASE Listen(d) \/ AddFd(d)
  <2>1. s \in {"listening", "serving", "abandoned"} /\ UNCHANGED file
    BY <1>3, <1>9
  <2>2. stage[d] \in {"bound", "listening"}
    BY <1>9
  <2>3. NamesItsMaker'
    BY <1>3, <2>1 DEF NamesItsMaker
  <2>4. Undisturbed'
    BY <1>1, <1>3, <1>7, <2>1, <2>2 DEF Undisturbed
  <2> QED BY <1>4, <1>5, <2>3, <2>4
<1>10. CASE Close(d)
  BY <1>1, <1>3, <1>4, <1>5, <1>7, <1>10 DEF Undisturbed, NamesItsMaker
<1>11. CASE RemoveFile(d)
  BY <1>1, <1>3, <1>4, <1>5, <1>7, <1>11 DEF FileAtEnd, Undisturbed, NamesItsMaker
<1>12. CASE Crash(d)
  <2>1. NamesItsMaker'
    BY <1>3, <1>12 DEF NamesItsMaker
  <2> QED BY <1>1, <1>3, <1>4, <1>5, <1>7, <1>12, <2>1 DEF Undisturbed
<1> QED BY <1>8, <1>9, <1>10, <1>11, <1>12

LEMMA PathStepIInv == ASSUME IInv, NEW d \in Daemons, DaemonNext(d) PROVE IInv'
BY StartIInv, OtherIInv DEF DaemonNext

LEMMA StepIInv == IInv /\ [CallNext]_vars => IInv'
<1> SUFFICES ASSUME IInv, [CallNext]_vars PROVE IInv'
  OBVIOUS
<1>1. CASE \E d \in Daemons : PathStep(d)
  BY <1>1, PathStepIInv DEF PathStep
<1>2. CASE ClientStep \/ SessionStep \/ \E d \in Daemons : Register(d)
  <2>1. UNCHANGED pathVars
    BY <1>2 DEF ClientStep, SessionStep, Connect, Write, Read, ReadFails, Accept, Handle,
                Flush, Register
  <2> QED BY <2>1, StutterIInv
<1>3. CASE UNCHANGED vars
  <2>1. UNCHANGED pathVars
    BY <1>3 DEF vars
  <2> QED BY <2>1, StutterIInv
<1> QED BY <1>1, <1>2, <1>3 DEF CallNext

\* IInv holds in every reachable state.
THEOREM Inductive == CallSpec => []IInv
<1>1. CallInit => IInv
  BY InitIInv DEF CallInit
<1> QED BY <1>1, StepIInv, PTL DEF CallSpec

\* A daemon that lived alone found its path free, and while it listens its path
\* leads to it, whatever earlier ones left behind (server.cpp).
THEOREM DaemonsAreReachable == CallSpec => []Reachable
<1>1. IInv => Reachable
  BY DEF IInv, Undisturbed, Reachable, Listens
<1> QED BY <1>1, Inductive, PTL

\* A file that leads nowhere is left by a crash or by a constructor that throws
\* after bind(), and by nothing else (server.cpp).
THEOREM StaleFilesAreExplained == CallSpec => []StaleFileExplained
<1>1. IInv => StaleFileExplained
  BY DEF IInv, NamesItsMaker, StaleFileExplained, Alive, Live
<1> QED BY <1>1, Inductive, PTL

\* The paths alone do the same: the client does not disturb the daemons.
THEOREM PathsAreKept == PathSpec => [](Reachable /\ StaleFileExplained)
<1>1. IInv /\ [\E d \in Daemons : DaemonNext(d)]_pathVars => IInv'
  BY PathStepIInv, StutterIInv
<1>2. IInv => Reachable /\ StaleFileExplained
  BY DEF IInv, Undisturbed, Reachable, Listens, NamesItsMaker, StaleFileExplained, Alive,
     Live
<1> QED BY <1>1, <1>2, InitIInv, PTL DEF PathSpec

-----------------------------------------------------------------------------
\* The types of the call.

\* The types need IInv, which has the types of the daemons.
TypeInv == TypeOK /\ IInv

\* Types, initially.
LEMMA InitTypes == CallInit => TypeInv
<1> SUFFICES ASSUME CallInit PROVE TypeInv
  OBVIOUS
<1>1. IInv
  BY InitIInv DEF CallInit
<1>2. request \in Message
  BY RequestsAssumption DEF CallInit
<1>3. <<>> \in Seq(Byte) /\ <<>> \in Seq(Message)
  OBVIOUS
<1> QED BY <1>1, <1>2, <1>3 DEF TypeInv, TypeOK, IInv, CallInit

\* Types, in every step: what is decoded from any bytes is a message.
LEMMA NextTypes == TypeInv /\ [CallNext]_vars => TypeInv'
<1> SUFFICES ASSUME TypeInv, [CallNext]_vars PROVE TypeInv'
  OBVIOUS
<1>1. TypeOK /\ IInv /\ IInv' /\ PathTypeOK'
  BY StepIInv DEF TypeInv, IInv
<1> USE DEF TypeOK
<1>2. CASE Connect
  <2>1. packet' = EncodeMessage(request) /\ request \in Message
    BY <1>1, <1>2 DEF Connect
  <2>2. packet' \in Seq(Byte)
    BY <2>1, MessageBytes
  <2>3. call' \in {"connected", "failed"} /\ peer' \in Daemons \union {NoDaemon}
    BY <1>1, <1>2 DEF Connect, PathTypeOK
  <2>4. UNCHANGED <<request, printed, sessionVars>>
    BY <1>2 DEF Connect
  <2> QED BY <1>1, <2>2, <2>3, <2>4 DEF TypeInv, sessionVars
<1>3. CASE Write
  BY <1>1, <1>3 DEF TypeInv, Write, sessionVars
<1>4. CASE Read
  <2>1. PICK n \in 1..Len(stream) :
          /\ printed' = DecodeMessage(Received(n))
          /\ call' = IF printed' = {} THEN "failed" ELSE "printed"
    BY <1>4 DEF Read
  <2>2. Received(n) \in Seq(Byte)
    <3>1. stream \in Seq(Byte)
      BY <1>1
    <3>2. (\A i \in 1..n : stream[i] \in Byte) /\ 1 \in Int /\ n \in Int /\ 1 =< n + 1
      BY <3>1
    <3> QED BY <3>2, Part DEF Received
  <2>3. printed' \subseteq Message
    BY <2>1, <2>2, DecodedAreMessages
  <2>4. call' \in {"failed", "printed"}
    BY <2>1
  <2>5. UNCHANGED <<request, peer, packet, sessionVars>>
    BY <1>4 DEF Read
  <2> QED BY <1>1, <2>3, <2>4, <2>5 DEF TypeInv, sessionVars
<1>5. CASE ReadFails
  BY <1>1, <1>5 DEF TypeInv, ReadFails, sessionVars
<1>6. CASE Accept
  BY <1>1, <1>6 DEF TypeInv, Accept, clientVars
<1>7. CASE Handle
  <2> DEFINE found == Messages(packet)
             answers == [i \in DOMAIN found |-> Dispatch(found[i], registered[peer])]
  <2>1. registered[peer] \in BOOLEAN
    BY <1>1, <1>7 DEF Handle, PeerThere
  <2>2. found \in Seq(Message)
    BY <1>1, MessagesFound
  <2>3. answers \in Seq(Message)
    <3> HIDE DEF found
    <3>1. /\ DOMAIN found = 1..Len(found) /\ Len(found) \in Nat
          /\ \A i \in 1..Len(found) : found[i] \in Message
      BY <2>2
    <3>2. \A i \in 1..Len(found) : Dispatch(found[i], registered[peer]) \in Message
      BY <2>1, <3>1, AnswersFit
    <3> QED BY <3>1, <3>2
  <2>4. outbox' = outbox \o answers /\ outbox \in Seq(Message)
    BY <1>1, <1>7 DEF Handle
  <2>5. outbox' \in Seq(Message)
    <3> HIDE DEF answers
    <3> QED BY <2>3, <2>4, ConcatProperties
  <2>6. handled' = TRUE /\ UNCHANGED <<clientVars, accepted, registered, stream, written, news>>
    BY <1>7 DEF Handle
  <2> QED BY <1>1, <2>5, <2>6 DEF TypeInv, clientVars
<1>8. CASE Flush
  <2>1. PICK m \in Message : m = Head(outbox)
    BY <1>1, <1>8 DEF Flush
  <2>2. EncodeMessage(m) \in Seq(Byte)
    BY MessageBytes
  <2>3. /\ stream' = stream \o EncodeMessage(m)
        /\ written' = Append(written, m) /\ outbox' = Tail(outbox)
    BY <1>8, <2>1 DEF Flush
  <2>4. stream' \in Seq(Byte)
    BY <1>1, <2>2, <2>3, ConcatProperties
  <2>5. written' \in Seq(Message)
    BY <1>1, <2>3
  <2>6. outbox' \in Seq(Message)
    BY <1>1, <1>8, <2>3 DEF Flush
  <2>7. UNCHANGED <<clientVars, accepted, handled, registered, news>>
    BY <1>8 DEF Flush
  <2> QED BY <1>1, <2>4, <2>5, <2>6, <2>7 DEF TypeInv, clientVars
<1>9. ASSUME NEW d \in Daemons, Register(d) PROVE TypeInv'
  <2>1. registered' = [registered EXCEPT ![d] = TRUE] /\ registered' \in [Daemons -> BOOLEAN]
    BY <1>1, <1>9 DEF Register
  <2>2. outbox' \in Seq(Message) /\ news' \in BOOLEAN
    <3>1. CASE d = peer /\ accepted
      <4>1. PICK m \in Message : m = Indication
        BY IndicationFits
      <4>2. outbox' = Append(outbox, m) /\ news' = TRUE /\ outbox \in Seq(Message)
        BY <1>1, <1>9, <3>1, <4>1 DEF Register
      <4> QED BY <4>2
    <3>2. CASE ~(d = peer /\ accepted)
      BY <1>1, <1>9, <3>2 DEF Register
    <3> QED BY <3>1, <3>2
  <2>3. UNCHANGED <<clientVars, accepted, handled, stream, written>>
    BY <1>9 DEF Register
  <2> QED BY <1>1, <2>1, <2>2, <2>3 DEF TypeInv, clientVars
<1>10. ASSUME NEW d \in Daemons, PathStep(d) PROVE TypeInv'
  BY <1>1, <1>10 DEF TypeInv, PathStep, clientVars, sessionVars
<1>11. CASE UNCHANGED vars
  BY <1>1, <1>11 DEF TypeInv, vars, clientVars, sessionVars
<1> QED BY <1>2, <1>3, <1>4, <1>5, <1>6, <1>7, <1>8, <1>9, <1>10, <1>11
       DEF CallNext, ClientStep, SessionStep

-----------------------------------------------------------------------------
\* What the client prints.

\* The request stays what it was, and packet is its encoding.
RequestKept == request \in Message /\ (call # "start" => packet = EncodeMessage(request))

\* m answers the request asked.
Answers(m, asked) ==
  /\ m.header.flags = ResponseFlag
  /\ m.header.transactionId = asked.header.transactionId
  /\ m.header.serviceId = asked.header.serviceId
  /\ m.header.messageId = asked.header.messageId

\* A message the session may send to who asked, heard: the modem registered.
Good(m, asked, heard) ==
  /\ Fits(m)
  /\ Fits(asked) => Answers(m, asked) \/ (heard /\ m = Indication)

\* What the session has queued and what it has written.
Queued == \A i \in 1..Len(outbox) : Good(outbox[i], request, news)

Sent == \A i \in 1..Len(written) : Good(written[i], request, news)

\* The stream begins with the first message that was written, complete.
StreamBegins ==
  IF written = <<>> THEN stream = <<>> ELSE Begins(stream, EncodeMessage(written[1]))

\* Only a message that was written is printed, the first one.
PrintsFirst == call = "printed" => written # <<>> /\ printed = {AsSent(written[1])}

\* The inductive invariant of the call.
CallInv == TypeInv /\ RequestKept /\ Queued /\ Sent /\ StreamBegins /\ PrintsFirst

\* Initially.
LEMMA InitCall == CallInit => CallInv
<1> SUFFICES ASSUME CallInit PROVE CallInv
  OBVIOUS
<1>1. TypeInv
  BY InitTypes
<1>2. RequestKept
  BY RequestsAssumption DEF CallInit, RequestKept
<1>3. outbox = <<>> /\ written = <<>> /\ stream = <<>> /\ call = "start"
  BY DEF CallInit
<1>4. Len(<<>>) = 0
  OBVIOUS
<1> QED BY <1>1, <1>2, <1>3, <1>4 DEF CallInv, Queued, Sent, StreamBegins, PrintsFirst

\* A message stays good when the modem registers.
LEMMA GoodStays ==
  ASSUME NEW m, NEW asked, NEW heard, NEW later, heard => later, Good(m, asked, heard)
  PROVE  Good(m, asked, later)
BY DEF Good

\* The answers to the messages found in the request.
LEMMA AnswersAreGood ==
  ASSUME NEW asked \in Message, NEW r \in BOOLEAN, NEW heard,
         NEW found \in Seq(Message), found = Messages(EncodeMessage(asked)),
         NEW i \in 1..Len(found)
  PROVE  Good(Dispatch(found[i], r), asked, heard)
<1>1. found[i] \in Message
  OBVIOUS
<1>2. Fits(Dispatch(found[i], r))
  BY <1>1, AnswersFit
<1>3. ASSUME Fits(asked) PROVE Answers(Dispatch(found[i], r), asked)
  <2>1. found = <<AsSent(asked)>>
    BY <1>3, FoundAlone
  <2>2. found[i] = AsSent(asked)
    BY <2>1
  <2>3. /\ AsSent(asked).header.transactionId = asked.header.transactionId
        /\ AsSent(asked).header.serviceId = asked.header.serviceId
        /\ AsSent(asked).header.messageId = asked.header.messageId
    BY DEF AsSent, WithLength, Message, Header
  <2> QED BY <2>2, <2>3 DEF Answers, Dispatch, Response
<1> QED BY <1>2, <1>3 DEF Good

\* Steps that leave what was queued and written alone, and print nothing.
LEMMA QuietCall ==
  ASSUME CallInv, UNCHANGED <<request, outbox, stream, written, news>>,
         call' # "printed" \/ UNCHANGED <<call, printed>>
  PROVE  Queued' /\ Sent' /\ StreamBegins' /\ PrintsFirst'
BY DEF CallInv, Queued, Sent, StreamBegins, PrintsFirst

\* In every step.  What arrives at the session is one frame or, if the request
\* does not fit, anything: then PrintsAnswerOrNews says nothing of the answers,
\* but they still fit, so the first of them is what the client can decode.
LEMMA NextCall == CallInv /\ [CallNext]_vars => CallInv'
<1> SUFFICES ASSUME CallInv, [CallNext]_vars PROVE CallInv'
  OBVIOUS
<1>1. TypeOK /\ RequestKept /\ Queued /\ Sent /\ StreamBegins /\ PrintsFirst
  BY DEF CallInv, TypeInv
<1>2. TypeInv'
  BY NextTypes DEF CallInv
<1>3. RequestKept'
  BY <1>1 DEF RequestKept, CallNext, ClientStep, SessionStep, PathStep, Connect, Write, Read,
         ReadFails, Accept, Handle, Flush, Register, vars, clientVars, sessionVars
<1> SUFFICES Queued' /\ Sent' /\ StreamBegins' /\ PrintsFirst'
  BY <1>2, <1>3 DEF CallInv
<1>4. CASE Connect
  BY <1>4, QuietCall DEF Connect, sessionVars
<1>5. CASE Write
  BY <1>5, QuietCall DEF Write, sessionVars
<1>6. CASE Read
  <2>1. UNCHANGED <<request, outbox, stream, written, news>>
    BY <1>6 DEF Read, sessionVars
  <2>2. PICK n \in 1..Len(stream) :
          /\ printed' = DecodeMessage(SubSeq(stream, 1, n))
          /\ call' = IF printed' = {} THEN "failed" ELSE "printed"
    BY <1>6 DEF Read, Received
  <2>3. written # <<>>
    <3>1. stream # <<>>
      BY <2>2
    <3> QED BY <1>1, <3>1 DEF StreamBegins
  <2>4. PICK m \in Message : m = written[1] /\ Fits(m)
    <3>1. written \in Seq(Message) /\ 1 \in 1..Len(written)
      BY <1>1, <2>3 DEF TypeOK
    <3> QED BY <1>1, <3>1 DEF Sent, Good
  <2>5. Begins(stream, EncodeMessage(m)) /\ stream \in Seq(Byte)
    BY <1>1, <2>3, <2>4 DEF StreamBegins, TypeOK
  <2>6. printed' \in {{}, {AsSent(m)}}
    BY <2>2, <2>4, <2>5, FirstDecodes
  <2>7. PrintsFirst'
    BY <2>1, <2>2, <2>3, <2>4, <2>6 DEF PrintsFirst
  <2> QED BY <1>1, <2>1, <2>7 DEF Queued, Sent, StreamBegins
<1>7. CASE ReadFails
  BY <1>7, QuietCall DEF ReadFails, sessionVars
<1>8. CASE Accept
  BY <1>8, QuietCall DEF Accept, clientVars
<1>9. CASE Handle
  <2>1. UNCHANGED <<request, call, printed, stream, written, news>>
    BY <1>9 DEF Handle, clientVars
  <2> DEFINE found == Messages(packet)
             answers == [i \in DOMAIN found |-> Dispatch(found[i], registered[peer])]
  <2>2. outbox' = outbox \o answers /\ outbox \in Seq(Message)
    BY <1>1, <1>9 DEF Handle, TypeOK
  <2>3. packet = EncodeMessage(request) /\ request \in Message
    BY <1>1, <1>9 DEF Handle, RequestKept
  <2>4. registered[peer] \in BOOLEAN
    BY <1>1, <1>9 DEF Handle, PeerThere, TypeOK
  <2>5. found \in Seq(Message)
    BY <1>1, MessagesFound DEF TypeOK
  <2>6. /\ answers \in Seq(Message) /\ Len(answers) = Len(found)
        /\ \A i \in 1..Len(answers) : Good(answers[i], request, news)
    <3>1. found = Messages(EncodeMessage(request))
      BY <2>3
    <3> HIDE DEF found
    <3>2. /\ DOMAIN found = 1..Len(found) /\ Len(found) \in Nat
          /\ \A i \in 1..Len(found) : found[i] \in Message
      BY <2>5
    <3>3. \A i \in 1..Len(found) : Dispatch(found[i], registered[peer]) \in Message
      BY <2>4, <3>2, AnswersFit
    <3>4. \A i \in 1..Len(found) : Good(Dispatch(found[i], registered[peer]), request, news)
      BY <2>3, <2>4, <2>5, <3>1, AnswersAreGood
    <3>5. answers \in Seq(Message) /\ Len(answers) = Len(found)
      BY <3>2, <3>3
    <3>6. \A i \in 1..Len(found) : answers[i] = Dispatch(found[i], registered[peer])
      BY <3>2
    <3> HIDE DEF answers
    <3> QED BY <3>4, <3>5, <3>6
  <2>7. Queued'
    <3> HIDE DEF answers
    <3> SUFFICES ASSUME NEW i \in 1..Len(outbox') PROVE Good(outbox'[i], request, news)
      BY <2>1 DEF Queued
    <3>1. PICK a \in Nat, b \in Nat : a = Len(outbox) /\ b = Len(answers)
      BY <2>2, <2>6
    <3>2. /\ Len(outbox') = a + b
          /\ \A j \in 1..a : outbox'[j] = outbox[j]
          /\ \A j \in 1..b : outbox'[a + j] = answers[j]
      <4>1. answers \in Seq(Message) /\ outbox \in Seq(Message) /\ outbox' = outbox \o answers
        BY <2>2, <2>6
      <4> QED BY <3>1, <4>1, ConcatProperties
    <3>3. CASE i \in 1..a
      BY <1>1, <3>1, <3>2, <3>3 DEF Queued
    <3>4. CASE i \notin 1..a
      <4>1. PICK j \in 1..b : i = a + j
        <5>1. i - a \in 1..b /\ i = a + (i - a)
          BY <3>1, <3>2, <3>4
        <5> QED BY <5>1
      <4> QED BY <2>6, <3>1, <3>2, <4>1
    <3> QED BY <3>3, <3>4
  <2> QED BY <1>1, <2>1, <2>7 DEF Sent, StreamBegins, PrintsFirst
<1>10. CASE Flush
  <2>1. UNCHANGED <<request, call, printed, news>>
    BY <1>10 DEF Flush, clientVars
  <2>2. PICK m \in Message : m = Head(outbox) /\ m = outbox[1] /\ 1 \in 1..Len(outbox)
    BY <1>1, <1>10 DEF Flush, TypeOK
  <2>3. Good(m, request, news)
    BY <1>1, <2>2 DEF Queued
  <2>4. /\ stream' = Join(stream, EncodeMessage(m)) /\ written' = Append(written, m)
        /\ outbox' = Tail(outbox) /\ outbox # <<>>
    BY <1>10, <2>2 DEF Flush, Join
  <2>5. outbox \in Seq(Message) /\ written \in Seq(Message) /\ stream \in Seq(Byte)
    BY <1>1 DEF TypeOK
  <2>6. Queued'
    <3> SUFFICES ASSUME NEW i \in 1..Len(outbox') PROVE Good(outbox'[i], request, news)
      BY <2>1 DEF Queued
    <3>1. i + 1 \in 1..Len(outbox) /\ outbox'[i] = outbox[i + 1]
      BY <2>4, <2>5
    <3> QED BY <1>1, <3>1 DEF Queued
  <2>7. PICK l \in Nat : /\ l = Len(written) /\ Len(written') = l + 1 /\ written'[l + 1] = m
                         /\ \A i \in 1..l : written'[i] = written[i]
    BY <2>4, <2>5
  <2>8. Sent'
    <3> SUFFICES ASSUME NEW i \in 1..(l + 1) PROVE Good(written'[i], request, news)
      BY <2>1, <2>7 DEF Sent
    <3>1. CASE i \in 1..l
      BY <1>1, <2>7, <3>1 DEF Sent
    <3>2. CASE i = l + 1
      BY <2>3, <2>7, <3>2
    <3> QED BY <3>1, <3>2
  <2>9. written' # <<>>
    BY <2>7
  <2>10. written # <<>> => written'[1] = written[1]
    <3>1. written # <<>> => 1 \in 1..l
      BY <2>5, <2>7
    <3> QED BY <2>7, <3>1
  <2>11. PICK e \in Seq(Byte) : e = EncodeMessage(m)
    BY MessageBytes
  <2>12. Joined(stream', stream, e)
    BY <2>4, <2>5, <2>11, Joins
  <2>13. StreamBegins'
    <3>1. CASE written = <<>>
      <4>1. l = 0 /\ written'[1] = m
        BY <2>7, <3>1
      <4>2. stream = <<>> /\ Len(stream) = 0
        BY <1>1, <3>1 DEF StreamBegins
      <4>3. Begins(stream', e)
        <5>1. \A j \in 1..Len(e) : 0 + j = j
          OBVIOUS
        <5>2. Len(e) \in Nat
          OBVIOUS
        <5> QED BY <2>12, <4>2, <5>1, <5>2 DEF Joined, Begins
      <4> QED BY <2>9, <2>11, <4>1, <4>3 DEF StreamBegins
    <3>2. CASE written # <<>>
      <4>1. PICK b : b = EncodeMessage(written[1])
        OBVIOUS
      <4>2. Begins(stream, b)
        BY <1>1, <3>2, <4>1 DEF StreamBegins
      <4>3. b \in Seq(Byte)
        <5>1. written[1] \in Message
          BY <2>5, <3>2
        <5> QED BY <4>1, <5>1, MessageBytes
      <4>4. Begins(stream', b)
        <5>1. Len(stream) \in Nat /\ Len(b) \in Nat /\ Len(e) \in Nat
          BY <2>5, <4>3
        <5> QED BY <2>12, <4>2, <5>1 DEF Joined, Begins
      <4> QED BY <2>9, <2>10, <3>2, <4>1, <4>4 DEF StreamBegins
    <3> QED BY <3>1, <3>2
  <2>14. PrintsFirst'
    BY <1>1, <2>1, <2>9, <2>10 DEF PrintsFirst
  <2> QED BY <2>6, <2>8, <2>13, <2>14
<1>11. ASSUME NEW d \in Daemons, Register(d) PROVE Queued' /\ Sent' /\ StreamBegins' /\ PrintsFirst'
  <2>1. UNCHANGED <<request, call, printed, stream, written>>
    BY <1>11 DEF Register, clientVars
  <2>2. CASE d = peer /\ accepted
    <3>1. PICK m \in Message : m = Indication /\ Fits(m)
      BY IndicationFits
    <3>2. outbox' = Append(outbox, m) /\ news' = TRUE /\ outbox \in Seq(Message)
      BY <1>1, <1>11, <2>2, <3>1 DEF Register, TypeOK
    <3>3. Good(m, request, news')
      BY <3>1, <3>2 DEF Good
    <3>4. Queued'
      <4> SUFFICES ASSUME NEW i \in 1..Len(outbox') PROVE Good(outbox'[i], request, news')
        BY <2>1 DEF Queued
      <4>1. PICK l \in Nat : /\ l = Len(outbox) /\ Len(outbox') = l + 1 /\ outbox'[l + 1] = m
                             /\ \A j \in 1..l : outbox'[j] = outbox[j]
        BY <3>2
      <4>2. CASE i \in 1..l
        BY <1>1, <3>2, <4>1, <4>2, GoodStays DEF Queued
      <4>3. CASE i = l + 1
        BY <3>3, <4>1, <4>3
      <4> QED BY <4>1, <4>2, <4>3
    <3>5. Sent'
      <4>1. \A i \in 1..Len(written) : Good(written[i], request, news')
        BY <1>1, <3>2, GoodStays DEF Sent
      <4> QED BY <2>1, <4>1 DEF Sent
    <3> QED BY <1>1, <2>1, <3>4, <3>5 DEF StreamBegins, PrintsFirst
  <2>3. CASE ~(d = peer /\ accepted)
    BY <1>11, <2>1, <2>3, QuietCall DEF Register
  <2> QED BY <2>2, <2>3
<1>12. ASSUME NEW d \in Daemons, PathStep(d) PROVE Queued' /\ Sent' /\ StreamBegins' /\ PrintsFirst'
  BY <1>12, QuietCall DEF PathStep, clientVars, sessionVars
<1>13. CASE UNCHANGED vars
  BY <1>13, QuietCall DEF vars, clientVars, sessionVars
<1> QED BY <1>4, <1>5, <1>6, <1>7, <1>8, <1>9, <1>10, <1>11, <1>12, <1>13
       DEF CallNext, ClientStep, SessionStep

\* CallInv holds in every reachable state.
THEOREM CallInductive == CallSpec => []CallInv
BY InitCall, NextCall, PTL DEF CallSpec

\* The variables keep their types: whatever bytes a read() of the client or of the
\* session returns, what is printed and what is queued are messages
\* (qmi-client.cpp, session.cpp).
THEOREM TypesAreKept == CallSpec => []TypeOK
<1>1. CallInv => TypeOK
  BY DEF CallInv, TypeInv
<1> QED BY <1>1, CallInductive, PTL

\* The request comes through the codec as it was, and as one frame, if and only if
\* its length field can count its payload; no part of it is taken for a message
\* (codec.cpp encodeMessage, decodeMessage, frame_parser.cpp next).
THEOREM MessagesRoundTrip == CallSpec => []RoundTrip
<1>1. CallInv => RoundTrip
  <2> SUFFICES ASSUME RequestKept, call = "connected" PROVE RoundTrip
    BY DEF RoundTrip, CallInv
  <2>1. request \in Message /\ packet = EncodeMessage(request)
    BY DEF RequestKept
  <2>2. Fits(request) <=> DecodeMessage(packet) = {AsSent(request)}
    BY <2>1, MessageRoundTrip
  <2>3. Fits(request) => Messages(packet) = <<AsSent(request)>>
    BY <2>1, FoundAlone
  <2>4. ASSUME Fits(request), NEW n \in 0..(Len(packet) - 1)
        PROVE  DecodeMessage(SubSeq(packet, 1, n)) = {}
    BY <2>1, <2>4, EncodedAlone, CutDoesNotDecode
  <2> QED BY <2>2, <2>3, <2>4 DEF RoundTrip
<1> QED BY <1>1, CallInductive, PTL

\* What the client prints is the first message written to it, complete, and that
\* is the answer to its request or the news of a registration that happened while
\* its session lived (qmi-client.cpp, session.cpp onEvent).
THEOREM PrintedIsFirst == CallSpec => []PrintsAnswerOrNews
<1>1. CallInv => PrintsAnswerOrNews
  <2> SUFFICES ASSUME CallInv, call = "printed" PROVE PrintsAnswerOrNews
    BY DEF PrintsAnswerOrNews
  <2>1. written # <<>> /\ printed = {AsSent(written[1])} /\ written \in Seq(Message)
    BY DEF CallInv, PrintsFirst, TypeInv, TypeOK
  <2>2. 1 \in 1..Len(written)
    BY <2>1
  <2>3. Good(written[1], request, news)
    BY <2>2 DEF CallInv, Sent
  <2> QED BY <2>1, <2>3 DEF PrintsAnswerOrNews, Good, Answers
<1> QED BY <1>1, CallInductive, PTL
=============================================================================
