-------------------------- MODULE QmiServerProofs ---------------------------
(***************************************************************************)
(* The daemon's client tables and its event dispatch, for any number of    *)
(* connections, descriptors and events per batch; then the types of its    *)
(* variables: what flush() and read() do is typed because the descriptor   *)
(* they work on is open and its session is there.                          *)
(*                                                                         *)
(* What a client of the daemon is told, for any number of requests and any *)
(* room in the sockets: the messages written to it, with those its session *)
(* holds, are a good stream, so the daemon implements QmiService.          *)
(***************************************************************************)
EXTENDS QmiServer, SequenceTheorems, TLAPS

\* What the tables hold.
Shape ==
  /\ pc \in {"wait", "dispatch", "accept", "flush", "read", "exited", "killed"}
  /\ DOMAIN files \subseteq ClientFds
  /\ \A fd \in DOMAIN files : files[fd] \in Conns
  /\ backlog \in Seq(Conns)
  /\ about \in [ClientFds -> Conns \union {NoConn}]

\* What is not dispatched yet was reported for connections still there.
BatchIsFresh ==
  ~Ended =>
    \A fd \in ClientFds :
      fd \in DOMAIN batch => fd \in DOMAIN files /\ files[fd] = about[fd]

\* The descriptor being handled is open, it is the one reported, and it is not
\* in the rest of the batch: removing its session leaves no event behind.
HandledIsOpen ==
  /\ pc = "wait" => DOMAIN batch = {}
  /\ pc \in {"flush", "read"} =>
       /\ cur \in DOMAIN files
       /\ files[cur] = about[cur]
       /\ cur \notin DOMAIN batch

IInv == Shape /\ TablesAgree /\ BatchIsFresh /\ HandledIsOpen

tableVars == <<pc, batch, cur, callbacks, sessions, files, interest, backlog, about>>

LEMMA Fds == ClientFds \intersect OwnFds = {}
BY MaxFdsAssumption DEF ClientFds, OwnFds, SignalFd, TimerFd, ListenFd

LEMMA InitIInv == Init => IInv
BY DEF Init, Empty, IInv, Shape, TablesAgree, BatchIsFresh, HandledIsOpen, Ended

LEMMA StutterIInv == IInv /\ UNCHANGED tableVars => IInv'
BY DEF tableVars, IInv, Shape, TablesAgree, BatchIsFresh, HandledIsOpen, Ended

LEMMA WithoutDomain ==
  ASSUME NEW f, NEW x
  PROVE  /\ DOMAIN Without(f, x) = DOMAIN f \ {x}
         /\ \A y \in DOMAIN f \ {x} : Without(f, x)[y] = f[y]
BY DEF Without, Restrict

-----------------------------------------------------------------------------
LEMMA OutsideIInv == ASSUME IInv, ClientStep \/ Environment PROVE IInv'
<1>1. CASE \E c \in Conns : Connect(c)
  <2> PICK c \in Conns : Connect(c)
    BY <1>1
  <2>1. backlog' \in Seq(Conns)
    BY DEF Connect, IInv, Shape
  <2> QED
    BY <2>1 DEF Connect, daemonVars, historyVars, IInv, Shape, TablesAgree,
                BatchIsFresh, HandledIsOpen, Ended
<1>2. CASE \E c \in Conns :
             SendRequest(c) \/ ClientShuts(c) \/ ClientReads(c) \/ ClientCloses(c)
  <2>1. UNCHANGED tableVars
    BY <1>2 DEF SendRequest, ClientShuts, ClientReads, ClientCloses, daemonVars, kernelVars,
                historyVars, tableVars
  <2> QED BY <2>1, StutterIInv
<1>3. CASE Environment
  <2>1. UNCHANGED tableVars
    BY <1>3 DEF Environment, TimerExpires, SignalArrives, SearchStarts,
                daemonVars, historyVars, tableVars
  <2> QED BY <2>1, StutterIInv
<1> QED BY <1>1, <1>2, <1>3 DEF ClientStep

LEMMA WaitIInv == ASSUME IInv, Wait PROVE IInv'
<1> USE DEF IInv
<1>1. PICK fds \in SUBSET ReadyFds :
        /\ batch' = [fd \in fds |-> Events(fd)]
        /\ about' = [fd \in ClientFds |-> IF fd \in fds THEN files[fd] ELSE NoConn]
  BY DEF Wait
<1>2. /\ pc = "wait" /\ pc' = "dispatch"
      /\ UNCHANGED <<callbacks, sessions, files, interest, backlog>>
  BY DEF Wait, kernelVars
<1>3. DOMAIN interest = DOMAIN files
  BY <1>2 DEF TablesAgree, Ended
<1>4. \A fd \in ClientFds : fd \in fds => fd \in DOMAIN files
  BY <1>1, <1>3, Fds DEF ReadyFds
<1>5. Shape'
  BY <1>1, <1>2, <1>4 DEF Shape
<1>6. TablesAgree'
  BY <1>2 DEF TablesAgree, Ended
<1>7. BatchIsFresh'
  BY <1>1, <1>2, <1>4 DEF BatchIsFresh
<1>8. HandledIsOpen'
  BY <1>2 DEF HandledIsOpen
<1> QED BY <1>5, <1>6, <1>7, <1>8

\* Once the daemon has ended nothing is claimed of the tables.
LEMMA EndedIInv ==
  ASSUME IInv, pc' \in {"exited", "killed"}, DOMAIN files' = {}, backlog' = <<>>,
         about' \in [ClientFds -> Conns \union {NoConn}]
  PROVE  IInv'
<1>1. backlog' \in Seq(Conns)
  OBVIOUS
<1> QED
  BY <1>1 DEF IInv, Shape, TablesAgree, BatchIsFresh, HandledIsOpen, Ended

LEMMA BatchDoneIInv == ASSUME IInv, BatchDone PROVE IInv'
<1>1. CASE running
  BY <1>1 DEF BatchDone, Empty, historyVars, IInv, Shape, TablesAgree, BatchIsFresh,
              HandledIsOpen, Ended
<1>2. CASE ~running
  <2>1. /\ pc' = "exited" /\ DOMAIN files' = {} /\ backlog' = <<>>
        /\ about' \in [ClientFds -> Conns \union {NoConn}]
    BY <1>2 DEF BatchDone, Empty, historyVars
  <2> QED
    BY <2>1, EndedIInv
<1> QED BY <1>1, <1>2

\* Taking an event off the batch and touching no table.
LEMMA TakeIInv ==
  ASSUME IInv, NEW fd, Take(fd), pc' \in {"dispatch", "accept"},
         DOMAIN sessions' = DOMAIN sessions,
         UNCHANGED <<callbacks, files, backlog, about>>,
         DOMAIN interest' = DOMAIN interest
  PROVE  IInv'
<1> USE DEF IInv, Take
<1>1. DOMAIN batch' = DOMAIN batch \ {fd}
  BY WithoutDomain
<1>2. Shape'
  BY DEF Shape
<1>3. TablesAgree'
  BY DEF TablesAgree, Ended
<1>4. BatchIsFresh'
  BY <1>1 DEF BatchIsFresh, Ended
<1>5. HandledIsOpen'
  BY DEF HandledIsOpen
<1> QED BY <1>2, <1>3, <1>4, <1>5

LEMMA OwnIInv ==
  ASSUME IInv, HandleSignal \/ HandleTimer \/ HandleListen
  PROVE  IInv'
<1>1. CASE HandleSignal
  BY <1>1, TakeIInv DEF HandleSignal, Take, historyVars
<1>2. CASE HandleTimer
  <2>1. DOMAIN sessions' = DOMAIN sessions
    BY <1>2 DEF HandleTimer, Publish
  <2> QED BY <1>2, <2>1, TakeIInv DEF HandleTimer, Take, historyVars
<1>3. CASE HandleListen
  BY <1>3, TakeIInv DEF HandleListen, Take, kernelVars, historyVars
<1> QED BY <1>1, <1>2, <1>3

\* A new connection gets a descriptor that is in no table and in no event left
\* in the batch.
LEMMA AcceptIInv == ASSUME IInv, NEW fd \in ClientFds, Accept(fd) PROVE IInv'
<1> USE DEF IInv, Accept
<1>1. fd \notin DOMAIN files /\ fd \notin DOMAIN batch
  BY DEF LowestFree, BatchIsFresh, Ended
<1>2. /\ DOMAIN files' = DOMAIN files \union {fd}
      /\ DOMAIN sessions' = DOMAIN sessions \union {fd}
      /\ DOMAIN interest' = DOMAIN interest \union {fd}
      /\ callbacks' = callbacks \union {fd}
      /\ \A other \in DOMAIN files : files'[other] = files[other]
      /\ files'[fd] = Head(backlog)
  <2>1. /\ files' = Emplace(files, fd, Head(backlog))
        /\ sessions' = Emplace(sessions, fd, <<>>)
        /\ interest' = Emplace(interest, fd, {"IN"})
        /\ callbacks' = callbacks \union {fd}
    OBVIOUS
  <2>2. /\ DOMAIN files' = DOMAIN files \union {fd}
        /\ \A other \in DOMAIN files : files'[other] = files[other]
        /\ files'[fd] = Head(backlog)
    BY <1>1, <2>1 DEF Emplace
  <2>3. DOMAIN sessions' = DOMAIN sessions \union {fd}
    BY <2>1 DEF Emplace
  <2>4. DOMAIN interest' = DOMAIN interest \union {fd}
    BY <2>1 DEF Emplace
  <2> QED BY <2>1, <2>2, <2>3, <2>4
<1>3. /\ pc = "accept" /\ UNCHANGED <<pc, batch, cur, about>>
      /\ Head(backlog) \in Conns /\ backlog' \in Seq(Conns)
  BY DEF Shape, historyVars
<1>4. Shape'
  BY <1>2, <1>3 DEF Shape
<1>5. TablesAgree'
  BY <1>2, <1>3 DEF TablesAgree, Ended
<1>6. BatchIsFresh'
  BY <1>1, <1>2, <1>3 DEF BatchIsFresh, Ended
<1>7. HandledIsOpen'
  BY <1>3 DEF HandledIsOpen
<1> QED BY <1>4, <1>5, <1>6, <1>7

LEMMA AcceptEndsIInv == ASSUME IInv, AcceptEnds PROVE IInv'
BY DEF AcceptEnds, kernelVars, historyVars, IInv, Shape, TablesAgree, BatchIsFresh,
       HandledIsOpen, Ended

\* Removing the session of a descriptor that has no event left in the batch.
LEMMA RemoveIInv ==
  ASSUME IInv, NEW fd, RemoveClient(fd), ~Ended, fd \notin DOMAIN batch',
         DOMAIN batch' \subseteq DOMAIN batch, UNCHANGED <<backlog, about>>
  PROVE  IInv'
<1> USE DEF IInv, RemoveClient
<1>1. /\ DOMAIN files' = DOMAIN files \ {fd}
      /\ DOMAIN sessions' = DOMAIN sessions \ {fd}
      /\ DOMAIN interest' = DOMAIN interest \ {fd}
      /\ callbacks' = callbacks \ {fd}
      /\ \A other \in DOMAIN files' : files'[other] = files[other]
  BY WithoutDomain
<1>2. Shape'
  BY <1>1 DEF Shape
<1>3. TablesAgree'
  BY <1>1 DEF TablesAgree, Ended
<1>4. BatchIsFresh'
  BY <1>1 DEF BatchIsFresh, Ended
<1>5. HandledIsOpen'
  BY DEF HandledIsOpen
<1> QED BY <1>2, <1>3, <1>4, <1>5

\* updateEvents() at the end of a handler.
LEMMA EndHandlerIInv ==
  ASSUME IInv, NEW fd, EndHandler(fd), ~Ended,
         DOMAIN batch' \subseteq DOMAIN batch, UNCHANGED <<backlog, about>>
  PROVE  IInv'
<1>1. DOMAIN interest' = DOMAIN interest
  BY DEF EndHandler
<1> QED
  BY <1>1 DEF EndHandler, IInv, Shape, TablesAgree, BatchIsFresh, HandledIsOpen, Ended

LEMMA HandleClientIInv ==
  ASSUME IInv, NEW fd \in ClientFds, HandleClient(fd)
  PROVE  IInv'
<1> USE DEF HandleClient
<1>1. /\ Take(fd) /\ pc = "dispatch" /\ fd \in DOMAIN batch
      /\ DOMAIN batch' = DOMAIN batch \ {fd}
      /\ UNCHANGED <<backlog, about>>
  BY WithoutDomain DEF Take, historyVars
<1>2. fd \in DOMAIN files /\ files[fd] = about[fd]
  BY <1>1 DEF IInv, BatchIsFresh, Ended
<1>3. CASE fd \notin callbacks \intersect DOMAIN sessions
  BY <1>1, <1>3, TakeIInv
<1>4. CASE RemoveClient(fd)
  BY <1>1, <1>4, RemoveIInv DEF Ended
<1>5. CASE EndHandler(fd)
  BY <1>1, <1>5, EndHandlerIInv DEF Ended
<1>6. CASE /\ pc' = IF "OUT" \in batch[fd] THEN "flush" ELSE "read"
           /\ cur' = fd
           /\ UNCHANGED <<sessions, interest, callbacks, files>>
  BY <1>1, <1>2, <1>6
  DEF IInv, Shape, TablesAgree, BatchIsFresh, HandledIsOpen, Ended
<1> QED BY <1>3, <1>4, <1>5, <1>6

LEMMA FlushIInv ==
  ASSUME IInv, FlushMessage \/ FlushEnds \/ FlushBreaks
  PROVE  IInv'
<1>1. CASE FlushMessage
  <2>1. DOMAIN sessions' = DOMAIN sessions
    BY <1>1 DEF FlushMessage
  <2> QED
    BY <1>1, <2>1 DEF FlushMessage, kernelVars, IInv, Shape, TablesAgree,
                      BatchIsFresh, HandledIsOpen, Ended
<1>2. CASE FlushEnds
  <2>1. CASE "IN" \in curEvents
    BY <1>2, <2>1 DEF FlushEnds, historyVars, IInv, Shape, TablesAgree,
                      BatchIsFresh, HandledIsOpen, Ended
  <2>2. CASE "IN" \notin curEvents
    BY <1>2, <2>2, EndHandlerIInv DEF FlushEnds, historyVars, Ended
  <2> QED BY <2>1, <2>2
<1>3. CASE FlushBreaks
  BY <1>3, EndedIInv DEF FlushBreaks, Empty, historyVars, IInv, Shape
<1> QED BY <1>1, <1>2, <1>3

LEMMA ReadIInv ==
  ASSUME IInv, ReadEnds \/ \E n \in 1..MaxRequests : ReadRequests(n)
  PROVE  IInv'
<1>1. CASE \E n \in 1..MaxRequests : ReadRequests(n)
  <2>1. DOMAIN sessions' = DOMAIN sessions
    BY <1>1 DEF ReadRequests
  <2> QED
    BY <1>1, <2>1 DEF ReadRequests, kernelVars, historyVars, IInv, Shape, TablesAgree,
                      BatchIsFresh, HandledIsOpen, Ended
<1>2. CASE ReadEnds
  <2>1. /\ ~Ended /\ cur \notin DOMAIN batch'
        /\ UNCHANGED <<batch, backlog, about>>
    BY <1>2 DEF ReadEnds, historyVars, Ended, IInv, HandledIsOpen
  <2>2. EndHandler(cur) \/ RemoveClient(cur)
    BY <1>2 DEF ReadEnds
  <2> QED BY <2>1, <2>2, EndHandlerIInv, RemoveIInv
<1> QED BY <1>1, <1>2

-----------------------------------------------------------------------------
LEMMA StepIInv == IInv /\ [Next]_vars => IInv'
<1> SUFFICES ASSUME IInv, [Next]_vars PROVE IInv'
  OBVIOUS
<1>1. CASE ClientStep \/ Environment
  BY <1>1, OutsideIInv
<1>2. CASE DaemonStep
  BY <1>2, WaitIInv, BatchDoneIInv, OwnIInv, AcceptIInv, AcceptEndsIInv,
     HandleClientIInv, FlushIInv, ReadIInv
  DEF DaemonStep
<1>3. CASE UNCHANGED vars
  <2>1. UNCHANGED tableVars
    BY <1>3 DEF vars, daemonVars, kernelVars, historyVars, tableVars
  <2> QED BY <2>1, StutterIInv
<1> QED BY <1>1, <1>2, <1>3 DEF Next

THEOREM Inductive == Spec => []IInv
BY InitIInv, StepIInv, PTL DEF Spec

\* Whenever the daemon makes a system call, the kernel's tables, the loop's
\* callbacks and the server's sessions name the same descriptors.
THEOREM TablesAlwaysAgree == Spec => []TablesAgree
BY Inductive, PTL DEF IInv

\* No event reaches a session other than the one it was reported for, for any
\* number of connections and descriptors, however soon these are reused.
THEOREM EventsReachTheirSession == Spec => []EventForRightSession
<1>1. IInv => EventForRightSession
  <2> SUFFICES ASSUME IInv, ~Ended, NEW fd \in ClientFds,
                      fd \in DOMAIN batch \/ (pc \in {"flush", "read"} /\ fd = cur)
               PROVE  /\ fd \in DOMAIN sessions
                      /\ about[fd] # NoConn
                      /\ files[fd] = about[fd]
    BY DEF EventForRightSession
  <2>1. fd \in DOMAIN files /\ files[fd] = about[fd]
    BY DEF IInv, BatchIsFresh, HandledIsOpen
  <2>2. files[fd] \in Conns /\ DOMAIN sessions = DOMAIN files
    BY <2>1 DEF IInv, Shape, TablesAgree
  <2> QED BY <2>1, <2>2, NoConnAssumption
<1> QED BY <1>1, Inductive, PTL
-----------------------------------------------------------------------------
\* The types, inductive together with the tables.

LEMMA InitTypes == Init => TypeOK
<1> SUFFICES ASSUME Init PROVE TypeOK
  OBVIOUS
<1>1. 0 \in 0..MaxRequests /\ 0 \in 0..Room
  BY MaxRequestsAssumption, RoomAssumption
<1>2. << >> \in Seq(Conns) /\ << >> \in Seq(Message)
  OBVIOUS
<1> QED BY <1>1, <1>2 DEF Init, Empty, TypeOK

LEMMA ConnectTypes == ASSUME TypeOK, NEW c \in Conns, Connect(c) PROVE TypeOK'
BY DEF Connect, TypeOK, daemonVars, historyVars

LEMMA SendRequestTypes == ASSUME TypeOK, NEW c \in Conns, SendRequest(c) PROVE TypeOK'
<1>1. asked' \in [Conns -> 0..MaxRequests]
  BY MaxRequestsAssumption DEF SendRequest, TypeOK
<1> QED BY <1>1 DEF SendRequest, TypeOK, daemonVars, kernelVars, historyVars

LEMMA ClientShutsTypes == ASSUME TypeOK, NEW c \in Conns, ClientShuts(c) PROVE TypeOK'
<1>1. client' \in [Conns -> {"idle", "open", "half", "closed"}]
  BY DEF ClientShuts, TypeOK
<1> QED BY <1>1 DEF ClientShuts, TypeOK, daemonVars, kernelVars, historyVars

LEMMA ClientReadsTypes == ASSUME TypeOK, NEW c \in Conns, ClientReads(c) PROVE TypeOK'
<1>1. unread' \in [Conns -> 0..Room]
  BY RoomAssumption DEF ClientReads, TypeOK
<1> QED BY <1>1 DEF ClientReads, TypeOK, daemonVars, kernelVars, historyVars

LEMMA ClientClosesTypes == ASSUME TypeOK, NEW c \in Conns, ClientCloses(c) PROVE TypeOK'
<1>1. client' \in [Conns -> {"idle", "open", "half", "closed"}]
  BY DEF ClientCloses, TypeOK
<1> QED BY <1>1 DEF ClientCloses, TypeOK, daemonVars, kernelVars, historyVars

LEMMA EnvironmentTypes == ASSUME TypeOK, Environment PROVE TypeOK'
<1>1. CASE TimerExpires
  BY <1>1 DEF TimerExpires, TypeOK, daemonVars, clientVars, historyVars
<1>2. CASE SignalArrives
  BY <1>2 DEF SignalArrives, TypeOK, daemonVars, clientVars, historyVars
<1>3. CASE SearchStarts
  BY <1>3 DEF SearchStarts, TypeOK, clientVars, historyVars
<1> QED BY <1>1, <1>2, <1>3 DEF Environment

LEMMA WaitTypes == ASSUME TypeOK, IInv, Wait PROVE TypeOK'
<1>1. PICK fds \in SUBSET ReadyFds :
        /\ batch' = [fd \in fds |-> Events(fd)]
        /\ about' = [fd \in ClientFds |-> IF fd \in fds THEN files[fd] ELSE NoConn]
  BY DEF Wait
<1>2. fds \subseteq OwnFds \union ClientFds
  BY DEF ReadyFds, TypeOK
<1>3. \A fd \in fds : Events(fd) \subseteq {"IN", "OUT", "HUP", "ERR"}
  BY DEF Events, Level
<1>4. \A fd \in ClientFds : fd \in fds => files[fd] \in Conns
  <2>1. DOMAIN interest = DOMAIN files
    BY DEF Wait, IInv, TablesAgree, Ended
  <2> QED BY <2>1, Fds DEF ReadyFds, TypeOK
<1>5. /\ DOMAIN batch' \subseteq OwnFds \union ClientFds
      /\ \A fd \in DOMAIN batch' : batch'[fd] \subseteq {"IN", "OUT", "HUP", "ERR"}
  BY <1>1, <1>2, <1>3
<1>6. about' \in [ClientFds -> Conns \union {NoConn}]
  BY <1>1, <1>4
<1> QED BY <1>5, <1>6 DEF Wait, TypeOK, kernelVars, clientVars

LEMMA BatchDoneTypes == ASSUME TypeOK, BatchDone PROVE TypeOK'
<1>1. CASE running
  BY <1>1 DEF BatchDone, TypeOK, clientVars, historyVars
<1>2. CASE ~running
  <2>1. DOMAIN sessions' = {} /\ DOMAIN files' = {} /\ DOMAIN interest' = {}
    BY <1>2 DEF BatchDone, Empty
  <2>2. backlog' = << >> /\ << >> \in Seq(Conns)
    BY <1>2 DEF BatchDone
  <2>3. pc' = "exited" /\ UNCHANGED <<batch, callbacks>>
    BY <1>2 DEF BatchDone
  <2> QED BY <2>1, <2>2, <2>3 DEF BatchDone, TypeOK, clientVars, historyVars
<1> QED BY <1>1, <1>2

\* The rest of a batch.
LEMMA TakeTypes ==
  ASSUME TypeOK, NEW fd, Take(fd)
  PROVE  /\ DOMAIN batch' \subseteq OwnFds \union ClientFds
         /\ \A other \in DOMAIN batch' :
              batch'[other] \subseteq {"IN", "OUT", "HUP", "ERR"}
<1>1. /\ DOMAIN batch' = DOMAIN batch \ {fd}
      /\ \A other \in DOMAIN batch \ {fd} : batch'[other] = batch[other]
  BY WithoutDomain DEF Take
<1> QED BY <1>1 DEF TypeOK

LEMMA IndicationType == Indication \in Message
BY MaxRequestsAssumption DEF Indication, Message

LEMMA OwnTypes ==
  ASSUME TypeOK, HandleSignal \/ HandleTimer \/ HandleListen
  PROVE  TypeOK'
<1>1. /\ DOMAIN batch' \subseteq OwnFds \union ClientFds
      /\ \A other \in DOMAIN batch' :
           batch'[other] \subseteq {"IN", "OUT", "HUP", "ERR"}
  BY TakeTypes DEF HandleSignal, HandleTimer, HandleListen
<1>2. CASE HandleSignal
  BY <1>1, <1>2 DEF HandleSignal, TypeOK, clientVars, historyVars
<1>3. CASE HandleTimer
  <2>1. /\ DOMAIN sessions' = DOMAIN sessions
        /\ \A fd \in DOMAIN sessions' : sessions'[fd] \in Seq(Message)
    <3>1. CASE sessions' = Publish(sessions)
      <4>1. \A fd \in DOMAIN sessions : Append(sessions[fd], Indication) \in Seq(Message)
        BY IndicationType DEF TypeOK
      <4> QED BY <3>1, <4>1 DEF Publish
    <3>2. CASE UNCHANGED sessions
      BY <3>2 DEF TypeOK
    <3> QED BY <1>3, <3>1, <3>2 DEF HandleTimer
  <2> QED BY <1>1, <1>3, <2>1 DEF HandleTimer, TypeOK, clientVars, historyVars
<1>4. CASE HandleListen
  BY <1>1, <1>4 DEF HandleListen, TypeOK, kernelVars, clientVars, historyVars
<1> QED BY <1>2, <1>3, <1>4

LEMMA AcceptTypes == ASSUME TypeOK, NEW fd \in ClientFds, Accept(fd) PROVE TypeOK'
<1>1. Head(backlog) \in Conns /\ backlog' \in Seq(Conns)
  BY DEF Accept, TypeOK
<1>2. /\ DOMAIN files' \subseteq ClientFds
      /\ \A other \in DOMAIN files' : files'[other] \in Conns
  BY <1>1 DEF Accept, Emplace, TypeOK
<1>3. /\ DOMAIN sessions' \subseteq ClientFds
      /\ \A other \in DOMAIN sessions' : sessions'[other] \in Seq(Message)
  <2>1. sessions' = [other \in DOMAIN sessions \union {fd} |->
                       IF other \in DOMAIN sessions THEN sessions[other] ELSE <<>>]
    BY DEF Accept, Emplace
  <2>2. << >> \in Seq(Message)
    OBVIOUS
  <2> QED BY <2>1, <2>2 DEF TypeOK
<1>4. /\ DOMAIN interest' \subseteq ClientFds
      /\ \A other \in DOMAIN interest' : interest'[other] \subseteq {"IN", "OUT"}
  BY DEF Accept, Emplace, TypeOK
<1>5. callbacks' \subseteq ClientFds
  BY DEF Accept, TypeOK
<1> QED
  BY <1>1, <1>2, <1>3, <1>4, <1>5 DEF Accept, TypeOK, clientVars, historyVars

LEMMA AcceptEndsTypes == ASSUME TypeOK, AcceptEnds PROVE TypeOK'
BY DEF AcceptEnds, TypeOK, kernelVars, clientVars, historyVars

\* The tables after one of the two ends of a handler.
TablesTyped ==
  /\ pc \in {"wait", "dispatch", "accept", "flush", "read", "exited", "killed"}
  /\ callbacks \subseteq ClientFds
  /\ DOMAIN sessions \subseteq ClientFds
  /\ \A fd \in DOMAIN sessions : sessions[fd] \in Seq(Message)
  /\ DOMAIN files \subseteq ClientFds
  /\ \A fd \in DOMAIN files : files[fd] \in Conns
  /\ DOMAIN interest \subseteq ClientFds
  /\ \A fd \in DOMAIN interest : interest[fd] \subseteq {"IN", "OUT"}

LEMMA RemoveTypes == ASSUME TypeOK, NEW fd, RemoveClient(fd) PROVE TablesTyped'
<1>1. /\ DOMAIN files' \subseteq DOMAIN files
      /\ \A other \in DOMAIN files' : files'[other] = files[other]
  BY WithoutDomain DEF RemoveClient
<1>2. /\ DOMAIN sessions' \subseteq DOMAIN sessions
      /\ \A other \in DOMAIN sessions' : sessions'[other] = sessions[other]
  BY WithoutDomain DEF RemoveClient
<1>3. /\ DOMAIN interest' \subseteq DOMAIN interest
      /\ \A other \in DOMAIN interest' : interest'[other] = interest[other]
  BY WithoutDomain DEF RemoveClient
<1> QED BY <1>1, <1>2, <1>3 DEF RemoveClient, TablesTyped, TypeOK

LEMMA EndHandlerTypes == ASSUME TypeOK, NEW fd, EndHandler(fd) PROVE TablesTyped'
<1>1. /\ DOMAIN interest' = DOMAIN interest
      /\ \A other \in DOMAIN interest' : interest'[other] \subseteq {"IN", "OUT"}
  BY DEF EndHandler, Watched, TypeOK
<1> QED BY <1>1 DEF EndHandler, TablesTyped, TypeOK

LEMMA HandleClientTypes ==
  ASSUME TypeOK, NEW fd \in ClientFds, HandleClient(fd)
  PROVE  TypeOK'
<1>1. /\ DOMAIN batch' \subseteq OwnFds \union ClientFds
      /\ \A other \in DOMAIN batch' :
           batch'[other] \subseteq {"IN", "OUT", "HUP", "ERR"}
  BY TakeTypes DEF HandleClient
<1>2. batch[fd] \subseteq {"IN", "OUT", "HUP", "ERR"}
  BY DEF HandleClient, Take, TypeOK
<1>3. TablesTyped' /\ cur' \in ClientFds \union {0}
                   /\ curEvents' \subseteq {"IN", "OUT", "HUP", "ERR"}
  <2>1. CASE UNCHANGED <<pc, sessions, interest, callbacks, files, cur, curEvents>>
    BY <2>1 DEF TablesTyped, TypeOK
  <2>2. CASE RemoveClient(fd) /\ UNCHANGED <<cur, curEvents>>
    BY <2>2, RemoveTypes DEF TypeOK
  <2>3. CASE EndHandler(fd) /\ UNCHANGED <<cur, curEvents>>
    BY <2>3, EndHandlerTypes DEF TypeOK
  <2>4. CASE /\ pc' = IF "OUT" \in batch[fd] THEN "flush" ELSE "read"
             /\ cur' = fd
             /\ curEvents' = batch[fd]
             /\ UNCHANGED <<sessions, interest, callbacks, files>>
    BY <1>2, <2>4 DEF TablesTyped, TypeOK
  <2> QED BY <2>1, <2>2, <2>3, <2>4 DEF HandleClient
<1> QED
  BY <1>1, <1>3 DEF HandleClient, TablesTyped, TypeOK, clientVars, historyVars

\* The connection a handler works on, and what its session holds.
LEMMA HandledTypes ==
  ASSUME TypeOK, IInv, pc \in {"flush", "read"}
  PROVE  /\ conn \in Conns
         /\ cur \in DOMAIN sessions
         /\ outbox \in Seq(Message)
<1>1. cur \in DOMAIN files /\ DOMAIN sessions = DOMAIN files
  BY DEF IInv, HandledIsOpen, TablesAgree, Ended
<1>2. files[cur] \in Conns /\ sessions[cur] \in Seq(Message)
  BY <1>1 DEF TypeOK
<1> QED BY <1>1, <1>2 DEF conn, outbox

LEMMA FlushMessageTypes == ASSUME TypeOK, IInv, FlushMessage PROVE TypeOK'
<1>1. conn \in Conns /\ cur \in DOMAIN sessions /\ outbox \in Seq(Message)
  BY HandledTypes DEF FlushMessage
<1>2. Head(outbox) \in Message /\ Tail(outbox) \in Seq(Message)
  BY <1>1 DEF FlushMessage
<1>3. unread' \in [Conns -> 0..Room]
  <2>1. unread[conn] \in 0..Room /\ unread[conn] < Room
    BY <1>1 DEF FlushMessage, TypeOK
  <2>2. unread[conn] + 1 \in 0..Room
    BY <2>1, RoomAssumption
  <2> QED BY <2>2 DEF FlushMessage, TypeOK
<1>4. wire' \in [Conns -> Seq(Message)]
  BY <1>1, <1>2 DEF FlushMessage, TypeOK
<1>5. /\ DOMAIN sessions' = DOMAIN sessions
      /\ \A fd \in DOMAIN sessions' : sessions'[fd] \in Seq(Message)
  BY <1>1, <1>2 DEF FlushMessage, TypeOK
<1> QED BY <1>3, <1>4, <1>5 DEF FlushMessage, TypeOK, kernelVars

LEMMA FlushEndsTypes == ASSUME TypeOK, FlushEnds PROVE TypeOK'
<1>1. TablesTyped'
  <2>1. CASE pc' = "read" /\ UNCHANGED <<sessions, interest, callbacks, files>>
    BY <2>1 DEF TablesTyped, TypeOK
  <2>2. CASE EndHandler(cur)
    BY <2>2, EndHandlerTypes
  <2> QED BY <2>1, <2>2 DEF FlushEnds
<1> QED BY <1>1 DEF FlushEnds, TablesTyped, TypeOK, clientVars, historyVars

LEMMA FlushBreaksTypes == ASSUME TypeOK, FlushBreaks PROVE TypeOK'
BY DEF FlushBreaks, Empty, TypeOK, clientVars, historyVars

LEMMA ReadRequestsTypes ==
  ASSUME TypeOK, IInv, NEW n \in 1..MaxRequests, ReadRequests(n)
  PROVE  TypeOK'
<1>1. conn \in Conns /\ cur \in DOMAIN sessions /\ outbox \in Seq(Message)
  BY HandledTypes DEF ReadRequests
<1> DEFINE c == conn
           before == taken[c]
<1>2. /\ before \in Nat /\ before + n =< MaxRequests
      /\ before + n \in 0..MaxRequests
  BY <1>1, MaxRequestsAssumption DEF ReadRequests, TypeOK
<1>3. taken' \in [Conns -> 0..MaxRequests]
  BY <1>1, <1>2 DEF ReadRequests, TypeOK
<1>4. Answers(c, n) \in Seq(Message)
  <2>1. \A i \in 1..n : before + i \in 0..MaxRequests
    BY <1>2, MaxRequestsAssumption
  <2>2. \A i \in 1..n : [txn |-> before + i, registered |-> modem = "Registered"] \in Message
    BY <2>1 DEF Message
  <2>3. n \in Nat
    BY MaxRequestsAssumption
  <2> QED BY <2>2, <2>3 DEF Answers
<1>5. /\ DOMAIN sessions' = DOMAIN sessions
      /\ \A fd \in DOMAIN sessions' : sessions'[fd] \in Seq(Message)
  <2>1. sessions' = [sessions EXCEPT ![cur] = outbox \o Answers(c, n)]
    BY DEF ReadRequests, outbox
  <2>2. outbox \o Answers(c, n) \in Seq(Message)
    BY <1>1, <1>4
  <2> QED BY <2>1, <2>2 DEF TypeOK
<1> QED
  BY <1>3, <1>5 DEF ReadRequests, TypeOK, kernelVars, historyVars

LEMMA ReadEndsTypes == ASSUME TypeOK, ReadEnds PROVE TypeOK'
<1>1. TablesTyped'
  BY EndHandlerTypes, RemoveTypes DEF ReadEnds
<1> QED BY <1>1 DEF ReadEnds, TablesTyped, TypeOK, clientVars, historyVars

LEMMA StepTypes == TypeOK /\ IInv /\ [Next]_vars => TypeOK'
<1> SUFFICES ASSUME TypeOK, IInv, [Next]_vars PROVE TypeOK'
  OBVIOUS
<1>1. CASE ClientStep
  BY <1>1, ConnectTypes, SendRequestTypes, ClientShutsTypes, ClientReadsTypes,
     ClientClosesTypes
  DEF ClientStep
<1>2. CASE Environment
  BY <1>2, EnvironmentTypes
<1>3. CASE DaemonStep
  BY <1>3, WaitTypes, BatchDoneTypes, OwnTypes, AcceptTypes, AcceptEndsTypes,
     HandleClientTypes, FlushMessageTypes, FlushEndsTypes, FlushBreaksTypes,
     ReadRequestsTypes, ReadEndsTypes
  DEF DaemonStep
<1>4. CASE UNCHANGED vars
  BY <1>4 DEF vars, daemonVars, kernelVars, clientVars, historyVars, TypeOK
<1> QED BY <1>1, <1>2, <1>3, <1>4 DEF Next

\* Every variable keeps to its values: no transaction id is beyond what a client
\* may have sent, no socket holds more than it can, no table names a descriptor
\* the process does not have, and no number of requests read exceeds the bound
\* (server.cpp, session.cpp).
THEOREM TypesAreKept == Spec => []TypeOK
BY InitTypes, StepTypes, Inductive, PTL DEF Spec

-----------------------------------------------------------------------------
\* Streams of messages.

\* Of the first l messages of m: each of the n requests read is answered once
\* and in order.
Ordered(m, l, n) ==
  /\ \A i \in 1..l : m[i].txn \in 0..n
  /\ \A k \in 1..n : \E i \in 1..l : m[i].txn = k
  /\ \A i, j \in 1..l :
       i < j /\ m[i].txn # 0 /\ m[j].txn # 0 => m[i].txn < m[j].txn

\* The registration is told as it is: "registered" never before the modem is,
\* never taken back, and by an indication where "not registered" was said.
Consistent(m, l, registered) ==
  /\ \A i \in 1..l : m[i].registered => registered
  /\ \A i \in 1..l : m[i].txn = 0 => m[i].registered
  /\ \A i, j \in 1..l : i < j /\ m[i].registered => m[j].registered
  /\ \A i, j \in 1..l : i < j /\ m[j].txn = 0 => ~m[i].registered
  /\ registered /\ (\E i \in 1..l : ~m[i].registered)
       => \E i \in 1..l : m[i].txn = 0

\* t is the first l of s, and after it the first k of r.
Joined(t, s, l, r, k) ==
  /\ \A i \in 1..l : t[i] = s[i]
  /\ \A i \in 1..k : t[l + i] = r[i]

LEMMA ConcatJoined ==
  ASSUME NEW S, NEW s \in Seq(S), NEW r \in Seq(S)
  PROVE  /\ s \o r \in Seq(S)
         /\ Len(s \o r) = Len(s) + Len(r)
         /\ Joined(s \o r, s, Len(s), r, Len(r))
<1>1. /\ s \o r \in Seq(S)
      /\ Len(s \o r) = Len(s) + Len(r)
      /\ \A i \in 1..Len(s) + Len(r) :
           (s \o r)[i] = IF i <= Len(s) THEN s[i] ELSE r[i - Len(s)]
  BY ConcatProperties
<1>2. Len(s) \in Nat /\ Len(r) \in Nat
  OBVIOUS
<1> DEFINE t == s \o r
           l == Len(s)
           k == Len(r)
<1> HIDE DEF t, l, k
<1>3. /\ l \in Nat /\ k \in Nat
      /\ \A i \in 1..l + k : t[i] = IF i <= l THEN s[i] ELSE r[i - l]
  BY <1>1, <1>2 DEF t, l, k
<1>4. Joined(t, s, l, r, k)
  BY <1>3 DEF Joined
<1> QED BY <1>1, <1>4 DEF t, l, k

\* An empty stream.
LEMMA EmptyGood ==
  ASSUME NEW m, NEW registered \in BOOLEAN
  PROVE  Ordered(m, 0, 0) /\ Consistent(m, 0, registered)
BY DEF Ordered, Consistent

\* The indication is queued when the modem registers.
LEMMA IndicationGood ==
  ASSUME NEW m, NEW l \in Nat, NEW t, NEW n \in Nat, NEW r,
         Ordered(m, l, n), Consistent(m, l, FALSE),
         Joined(t, m, l, r, 1), r[1] = Indication
  PROVE  Ordered(t, l + 1, n) /\ Consistent(t, l + 1, TRUE)
<1>1. /\ \A i \in 1..l : t[i] = m[i]
      /\ t[l + 1].txn = 0 /\ t[l + 1].registered = TRUE
  BY DEF Joined, Indication
<1>2. Ordered(t, l + 1, n)
  BY <1>1 DEF Ordered
<1>3. Consistent(t, l + 1, TRUE)
  BY <1>1 DEF Consistent
<1> QED BY <1>2, <1>3

\* The answers to the next k requests are queued.
LEMMA AnswersGood ==
  ASSUME NEW m, NEW l \in Nat, NEW t, NEW n \in Nat, NEW k \in Nat, NEW r,
         NEW registered \in BOOLEAN,
         Ordered(m, l, n), Consistent(m, l, registered),
         Joined(t, m, l, r, k),
         \A i \in 1..k : r[i].txn = n + i /\ r[i].registered = registered
  PROVE  Ordered(t, l + k, n + k) /\ Consistent(t, l + k, registered)
<1>1. \A i \in 1..k : t[l + i].txn = n + i /\ t[l + i].registered = registered
  BY DEF Joined
<1>2. \A i \in 1..(l + k) :
        \/ i \in 1..l /\ t[i] = m[i]
        \/ /\ i > l /\ i - l \in 1..k
           /\ t[i].txn = n + (i - l) /\ t[i].registered = registered
  <2> SUFFICES ASSUME NEW i \in 1..(l + k), i > l
               PROVE  /\ i - l \in 1..k
                      /\ t[i].txn = n + (i - l) /\ t[i].registered = registered
    BY DEF Joined
  <2>1. i - l \in 1..k /\ l + (i - l) = i
    OBVIOUS
  <2> QED BY <1>1, <2>1
<1>3. \A i \in 1..l : i \in 1..(l + k) /\ t[i] = m[i]
  BY DEF Joined
<1>4. Ordered(t, l + k, n + k)
  <2>1. \A i \in 1..(l + k) : t[i].txn \in 0..(n + k)
    BY <1>2 DEF Ordered
  <2>2. \A x \in 1..(n + k) : \E i \in 1..(l + k) : t[i].txn = x
    <3> TAKE x \in 1..(n + k)
    <3>1. CASE x =< n
      BY <1>3, <3>1 DEF Ordered
    <3>2. CASE x > n
      <4>1. x - n \in 1..k /\ n + (x - n) = x /\ l + (x - n) \in 1..(l + k)
        BY <3>2
      <4> QED BY <1>1, <4>1
    <3> QED BY <3>1, <3>2
  <2>3. \A i, j \in 1..(l + k) :
          i < j /\ t[i].txn # 0 /\ t[j].txn # 0 => t[i].txn < t[j].txn
    BY <1>2 DEF Ordered
  <2> QED BY <2>1, <2>2, <2>3 DEF Ordered
<1>5. Consistent(t, l + k, registered)
  <2>1. \A i \in 1..(l + k) : i \in 1..l \/ (t[i].txn # 0 /\ t[i].registered = registered)
    BY <1>2
  <2> QED BY <1>2, <1>3, <2>1 DEF Consistent
<1> QED BY <1>4, <1>5

Good(m, n, registered) ==
  Ordered(m, Len(m), n) /\ Consistent(m, Len(m), registered)

LEMMA GoodEmpty ==
  ASSUME NEW registered \in BOOLEAN
  PROVE  Good(<<>>, 0, registered)
<1>1. Len(<<>>) = 0
  OBVIOUS
<1> QED BY <1>1, EmptyGood DEF Good

LEMMA GoodIndication ==
  ASSUME NEW m \in Seq(Message), NEW n \in Nat, Good(m, n, FALSE)
  PROVE  Good(Append(m, Indication), n, TRUE)
<1> DEFINE r == <<Indication>>
           t == m \o r
<1>1. r \in Seq(Message) /\ Len(r) = 1 /\ r[1] = Indication
  BY IndicationType
<1>2. Append(m, Indication) = t
  BY <1>1
<1>3. Len(m) \in Nat
  OBVIOUS
<1> HIDE DEF r, t
<1>4. Len(t) = Len(m) + 1 /\ Joined(t, m, Len(m), r, 1)
  BY <1>1, ConcatJoined DEF t
<1>5. Ordered(t, Len(m) + 1, n) /\ Consistent(t, Len(m) + 1, TRUE)
  BY <1>1, <1>3, <1>4, IndicationGood DEF Good
<1> QED BY <1>2, <1>4, <1>5 DEF Good

LEMMA GoodAnswers ==
  ASSUME NEW m \in Seq(Message), NEW n \in Nat, NEW registered \in BOOLEAN,
         Good(m, n, registered),
         NEW r \in Seq(Message), NEW k \in Nat, Len(r) = k,
         \A i \in 1..k : r[i].txn = n + i /\ r[i].registered = registered
  PROVE  Good(m \o r, n + k, registered)
<1> DEFINE t == m \o r
           l == Len(m)
<1>1. l \in Nat
  OBVIOUS
<1>2. Len(t) = l + k /\ Joined(t, m, l, r, k)
  BY ConcatJoined
<1>3. Ordered(m, l, n) /\ Consistent(m, l, registered)
  BY DEF Good
<1> HIDE DEF t, l
<1>4. Ordered(t, l + k, n + k) /\ Consistent(t, l + k, registered)
  BY <1>1, <1>2, <1>3, AnswersGood
<1>5. Good(t, n + k, registered)
  BY <1>2, <1>4 DEF Good
<1> QED BY <1>5 DEF t

\* A message is queued, some are, or the front one is written.
LEMMA Queued ==
  ASSUME NEW w \in Seq(Message), NEW s \in Seq(Message), NEW x \in Message
  PROVE  w \o Append(s, x) = Append(w \o s, x)
<1>1. <<x>> \in Seq(Message) /\ w \o s \in Seq(Message)
  BY ConcatProperties
<1>2. Append(s, x) = s \o <<x>>
  OBVIOUS
<1>3. Append(w \o s, x) = (w \o s) \o <<x>>
  BY <1>1
<1> QED BY <1>1, <1>2, <1>3, ConcatAssociative

LEMMA AllQueued ==
  ASSUME NEW w \in Seq(Message), NEW s \in Seq(Message), NEW a \in Seq(Message)
  PROVE  (w \o s) \o a = w \o (s \o a)
BY ConcatAssociative

LEMMA Written ==
  ASSUME NEW w \in Seq(Message), NEW s \in Seq(Message), s # <<>>
  PROVE  Append(w, Head(s)) \o Tail(s) = w \o s
<1>1. /\ Head(s) \in Message /\ Tail(s) \in Seq(Message)
      /\ <<Head(s)>> \in Seq(Message)
  BY HeadTailProperties
<1>2. Append(w, Head(s)) = w \o <<Head(s)>>
  BY <1>1
<1>3. s = <<Head(s)>> \o Tail(s)
  <2> DEFINE h == <<Head(s)>>
             u == h \o Tail(s)
             n == Len(Tail(s))
  <2>1. h \in Seq(Message) /\ Len(h) = 1 /\ h[1] = s[1]
    BY <1>1
  <2> HIDE DEF h
  <2>2. u \in Seq(Message) /\ Len(u) = 1 + n /\ Joined(u, h, 1, Tail(s), n)
    BY <1>1, <2>1, ConcatJoined
  <2>3. n \in Nat /\ Len(s) = n + 1 /\ \A i \in 1..n : Tail(s)[i] = s[i + 1]
    BY HeadTailProperties
  <2> HIDE DEF u, n
  <2>4. \A i \in 1..(n + 1) : s[i] = u[i]
    <3>1. u[1] = s[1] /\ \A i \in 1..n : u[1 + i] = s[i + 1]
      BY <2>1, <2>2, <2>3 DEF Joined
    <3>2. \A i \in 1..(n + 1) : i = 1 \/ (i - 1 \in 1..n /\ 1 + (i - 1) = i /\ (i - 1) + 1 = i)
      BY <2>3
    <3> QED BY <3>1, <3>2
  <2>5. s = u
    <3>1. Len(s) = Len(u)
      BY <2>2, <2>3
    <3> QED BY <2>2, <2>3, <2>4, <3>1, SeqEqual
  <2> QED BY <2>5 DEF u, h
<1> QED BY <1>1, <1>2, <1>3, ConcatAssociative

-----------------------------------------------------------------------------
\* The connections.

Waits(c) == \E i \in 1..Len(backlog) : backlog[i] = c

\* A connection is in one place: it has one descriptor, or one place in the
\* backlog, and none before it is made.
OnePlace ==
  /\ \A a, b \in DOMAIN files : files[a] = files[b] => a = b
  /\ \A i, j \in 1..Len(backlog) : backlog[i] = backlog[j] => i = j
  /\ \A a \in DOMAIN files : ~Waits(files[a]) /\ client[files[a]] # "idle"
  /\ \A c \in Conns : Waits(c) => client[c] # "idle"

\* Nothing is read or written before the connection is accepted.
Unused ==
  \A c \in Conns :
    client[c] = "idle" \/ Waits(c) => wire[c] = <<>> /\ taken[c] = 0

ConnInv == OnePlace /\ Unused

\* All that the proofs of QmiServerProofs give.
Known == IInv /\ TypeOK

LEMMA InitConn == Init => ConnInv
BY DEF Init, Empty, ConnInv, OnePlace, Unused, Waits

\* Connections leave the tables, and none comes.
LEMMA LeaveConn ==
  ASSUME Known, ConnInv, DOMAIN files' \subseteq DOMAIN files,
         \A a \in DOMAIN files' : files'[a] = files[a],
         backlog' = backlog \/ backlog' = <<>>,
         \A c \in Conns : client'[c] = "idle" <=> client[c] = "idle",
         UNCHANGED <<taken, wire>>
  PROVE  ConnInv'
<1>1. \A c : Waits(c)' => Waits(c)
  BY DEF Waits
<1>2. \A a \in DOMAIN files' : files'[a] \in Conns
  BY DEF Known, TypeOK
<1>3. \A i, j \in 1..Len(backlog') : backlog'[i] = backlog'[j] => i = j
  BY DEF ConnInv, OnePlace
<1>4. OnePlace'
  BY <1>1, <1>2, <1>3 DEF ConnInv, OnePlace
<1>5. Unused'
  BY <1>1 DEF ConnInv, Unused
<1> QED BY <1>4, <1>5 DEF ConnInv

LEMMA StayConn ==
  ASSUME Known, ConnInv, UNCHANGED <<files, backlog, client, taken, wire>>
  PROVE  ConnInv'
BY LeaveConn

LEMMA ConnectConn ==
  ASSUME Known, ConnInv, NEW c \in Conns, Connect(c)
  PROVE  ConnInv'
<1>1. /\ client[c] = "idle" /\ backlog' = Append(backlog, c)
      /\ client' = [client EXCEPT ![c] = "open"]
      /\ UNCHANGED <<files, taken, wire>>
  BY DEF Connect, historyVars
<1>2. backlog \in Seq(Conns) /\ Len(backlog) \in Nat
  BY DEF Known, TypeOK
<1> DEFINE l == Len(backlog)
<1>3. /\ Len(backlog') = l + 1 /\ backlog'[l + 1] = c
      /\ \A i \in 1..l : backlog'[i] = backlog[i]
  BY <1>1, <1>2
<1>4. \A d \in Conns : client'[d] = IF d = c THEN "open" ELSE client[d]
  BY <1>1 DEF Known, TypeOK
<1>5. \A a \in DOMAIN files : files[a] \in Conns
  BY DEF Known, TypeOK
<1>6. ~Waits(c)
  BY <1>1 DEF ConnInv, OnePlace
<1>7. \A d \in Conns : Waits(d)' <=> d = c \/ Waits(d)
  BY <1>2, <1>3 DEF Waits
<1>8. \A i, j \in 1..Len(backlog') : backlog'[i] = backlog'[j] => i = j
  <2>1. \A i \in 1..(l + 1) : i \in 1..l \/ i = l + 1
    BY <1>2
  <2>2. \A i \in 1..l : backlog'[i] = backlog[i] /\ backlog[i] # c
    BY <1>3, <1>6 DEF Waits
  <2> QED BY <1>3, <2>1, <2>2 DEF ConnInv, OnePlace
<1>9. OnePlace'
  BY <1>1, <1>4, <1>5, <1>7, <1>8 DEF ConnInv, OnePlace
<1>10. Unused'
  BY <1>1, <1>4, <1>7 DEF ConnInv, Unused
<1> QED BY <1>9, <1>10 DEF ConnInv

\* The tables after accept4() returned fd for a new connection c.
LEMMA Accepted ==
  ASSUME Known, NEW fd \in ClientFds, Accept(fd)
  PROVE  /\ fd \notin DOMAIN files /\ DOMAIN sessions = DOMAIN files
         /\ Head(backlog) \in Conns /\ Waits(Head(backlog))
         /\ DOMAIN files' = DOMAIN files \union {fd}
         /\ DOMAIN sessions' = DOMAIN files \union {fd}
         /\ DOMAIN interest' = DOMAIN files \union {fd}
         /\ files'[fd] = Head(backlog)
         /\ sessions'[fd] = <<>>
         /\ interest'[fd] = {"IN"}
         /\ \A a \in DOMAIN files : /\ files'[a] = files[a]
                                    /\ sessions'[a] = sessions[a]
                                    /\ interest'[a] = interest[a]
<1>1. DOMAIN sessions = DOMAIN files /\ DOMAIN interest = DOMAIN files
  BY DEF Accept, Known, IInv, TablesAgree, Ended
<1>2. /\ fd \notin DOMAIN files
      /\ files' = Emplace(files, fd, Head(backlog))
      /\ sessions' = Emplace(sessions, fd, <<>>)
      /\ interest' = Emplace(interest, fd, {"IN"})
  BY DEF Accept, LowestFree
<1>3. Head(backlog) \in Conns /\ Waits(Head(backlog))
  BY DEF Accept, Known, TypeOK, Waits
<1>4. /\ DOMAIN files' = DOMAIN files \union {fd}
      /\ files'[fd] = Head(backlog)
      /\ \A a \in DOMAIN files : files'[a] = files[a]
  BY <1>2 DEF Emplace
<1>5. /\ DOMAIN sessions' = DOMAIN sessions \union {fd}
      /\ sessions'[fd] = <<>>
      /\ \A a \in DOMAIN sessions : sessions'[a] = sessions[a]
  BY <1>1, <1>2 DEF Emplace
<1>6. /\ DOMAIN interest' = DOMAIN interest \union {fd}
      /\ interest'[fd] = {"IN"}
      /\ \A a \in DOMAIN interest : interest'[a] = interest[a]
  BY <1>1, <1>2 DEF Emplace
<1> QED BY <1>1, <1>2, <1>3, <1>4, <1>5, <1>6

LEMMA AcceptConn ==
  ASSUME Known, ConnInv, NEW fd \in ClientFds, Accept(fd)
  PROVE  ConnInv'
<1> DEFINE c == Head(backlog)
           l == Len(backlog')
<1>1. UNCHANGED <<client, taken, wire>>
  BY DEF Accept, clientVars, historyVars
<1>2. /\ backlog' \in Seq(Conns) /\ Len(backlog) = l + 1 /\ l \in Nat
      /\ c = backlog[1]
      /\ \A i \in 1..l : backlog'[i] = backlog[i + 1]
  BY DEF Accept, Known, TypeOK
<1> HIDE DEF l
<1>3. \A i \in 1..l : i + 1 \in 1..(l + 1) /\ i + 1 # 1 /\ 1 \in 1..(l + 1)
  BY <1>2
<1>4. \A i, j \in 1..(l + 1) : backlog[i] = backlog[j] => i = j
  BY <1>2 DEF ConnInv, OnePlace
<1>5. \A i, j \in 1..l : backlog'[i] = backlog'[j] => i = j
  <2> SUFFICES ASSUME NEW i \in 1..l, NEW j \in 1..l, backlog'[i] = backlog'[j] PROVE i = j
    OBVIOUS
  <2>1. i + 1 = j + 1
    BY <1>2, <1>3, <1>4
  <2> QED BY <1>2, <2>1
<1>6. \A i \in 1..l : backlog'[i] # c
  BY <1>2, <1>3, <1>4
<1>7. \A d : Waits(d)' => Waits(d) /\ d # c
  BY <1>2, <1>3, <1>6 DEF Waits, l
<1>8. OnePlace'
  <2>1. /\ c \in Conns /\ (\A a \in DOMAIN files : files[a] # c) /\ client[c] # "idle"
        /\ DOMAIN files' = DOMAIN files \union {fd}
        /\ files'[fd] = c
        /\ fd \notin DOMAIN files
        /\ \A a \in DOMAIN files : files'[a] = files[a]
    BY Accepted DEF ConnInv, OnePlace
  <2>2. \A a, b \in DOMAIN files' : files'[a] = files'[b] => a = b
    BY <2>1 DEF ConnInv, OnePlace
  <2>3. \A a \in DOMAIN files' : (~Waits(files[a]))' /\ client'[files'[a]] # "idle"
    <3>1. \A a \in DOMAIN files' : files'[a] = c \/ (a \in DOMAIN files /\ files'[a] = files[a])
      BY <2>1
    <3>2. \A a \in DOMAIN files' : (Waits(files[a]))' => Waits(files'[a]) /\ files'[a] # c
      BY <1>7
    <3> QED BY <1>1, <2>1, <3>1, <3>2 DEF ConnInv, OnePlace
  <2>4. \A d \in Conns : Waits(d)' => client'[d] # "idle"
    BY <1>1, <1>7 DEF ConnInv, OnePlace
  <2> QED BY <1>5, <2>2, <2>3, <2>4 DEF OnePlace, l
<1>9. Unused'
  BY <1>1, <1>7 DEF ConnInv, Unused
<1> QED BY <1>8, <1>9 DEF ConnInv

\* Reading from an accepted connection and writing to it.
LEMMA HandledConn ==
  ASSUME Known, ConnInv, pc \in {"flush", "read"},
         UNCHANGED <<files, backlog, client>>,
         \A c \in Conns \ {conn} : taken'[c] = taken[c] /\ wire'[c] = wire[c]
  PROVE  ConnInv'
<1>1. conn \in Conns /\ ~Waits(conn) /\ client[conn] # "idle"
  BY HandledTypes DEF Known, ConnInv, OnePlace, conn, IInv, HandledIsOpen
<1>2. \A c : Waits(c)' <=> Waits(c)
  BY DEF Waits
<1>3. OnePlace'
  BY <1>2 DEF ConnInv, OnePlace
<1>4. Unused'
  BY <1>1, <1>2 DEF ConnInv, Unused
<1> QED BY <1>3, <1>4 DEF ConnInv

\* The steps that move no connection: those of the environment, the end of a
\* batch, the handlers of the daemon's own descriptors and the ends of the
\* handlers of a client.
LEMMA OtherConn ==
  ASSUME Known, ConnInv,
         \/ Environment \/ Wait \/ BatchDone \/ HandleSignal \/ HandleTimer \/ HandleListen
         \/ AcceptEnds \/ FlushEnds \/ FlushBreaks \/ ReadEnds
         \/ \E c \in Conns : SendRequest(c) \/ ClientShuts(c) \/ ClientReads(c) \/ ClientCloses(c)
         \/ \E fd \in ClientFds : HandleClient(fd)
  PROVE  ConnInv'
<1>1. /\ DOMAIN files' \subseteq DOMAIN files
      /\ \A a \in DOMAIN files' : files'[a] = files[a]
  <2>1. CASE UNCHANGED files
    BY <2>1
  <2>2. CASE files' = Empty
    BY <2>2 DEF Empty
  <2>3. CASE \E fd : files' = Without(files, fd)
    <3> PICK fd : files' = Without(files, fd)
      BY <2>3
    <3>1. /\ DOMAIN Without(files, fd) = DOMAIN files \ {fd}
          /\ \A a \in DOMAIN files \ {fd} : Without(files, fd)[a] = files[a]
      BY WithoutDomain
    <3> QED BY <3>1
  <2>4. \/ UNCHANGED files
        \/ files' = Empty
        \/ \E fd : files' = Without(files, fd)
    <3>1. \A fd : RemoveClient(fd) => files' = Without(files, fd)
      BY DEF RemoveClient
    <3>2. \A fd : EndHandler(fd) => UNCHANGED files
      BY DEF EndHandler
    <3>3. CASE \E fd \in ClientFds : HandleClient(fd)
      BY <3>1, <3>2, <3>3 DEF HandleClient
    <3>4. CASE FlushEnds \/ ReadEnds
      BY <3>1, <3>2, <3>4 DEF FlushEnds, ReadEnds
    <3>5. CASE BatchDone \/ FlushBreaks
      BY <3>5 DEF BatchDone, FlushBreaks
    <3> QED
      BY <3>3, <3>4, <3>5
      DEF Environment, TimerExpires, SignalArrives, SearchStarts, SendRequest, ClientShuts,
          ClientReads, ClientCloses, Wait, HandleSignal, HandleTimer, HandleListen,
          AcceptEnds, kernelVars
  <2> QED BY <2>1, <2>2, <2>3, <2>4
<1>2. backlog' = backlog \/ backlog' = <<>>
  BY DEF Environment, TimerExpires, SignalArrives, SearchStarts, SendRequest, ClientShuts,
         ClientReads, ClientCloses, Wait, BatchDone, HandleSignal, HandleTimer,
         HandleListen, AcceptEnds, FlushEnds, FlushBreaks, ReadEnds, HandleClient, kernelVars
<1>3. \A c \in Conns : client'[c] = "idle" <=> client[c] = "idle"
  BY DEF Environment, TimerExpires, SignalArrives, SearchStarts, SendRequest, ClientShuts,
         ClientReads, ClientCloses, Wait, BatchDone, HandleSignal, HandleTimer,
         HandleListen, AcceptEnds, FlushEnds, FlushBreaks, ReadEnds, HandleClient,
         clientVars, Known, TypeOK
<1>4. UNCHANGED <<taken, wire>>
  BY DEF Environment, TimerExpires, SignalArrives, SearchStarts, SendRequest, ClientShuts,
         ClientReads, ClientCloses, Wait, BatchDone, HandleSignal, HandleTimer,
         HandleListen, AcceptEnds, FlushEnds, FlushBreaks, ReadEnds, HandleClient,
         clientVars, historyVars
<1> QED BY <1>1, <1>2, <1>3, <1>4, LeaveConn

LEMMA StepConn == Known /\ ConnInv /\ [Next]_vars => ConnInv'
<1> SUFFICES ASSUME Known, ConnInv, [Next]_vars PROVE ConnInv'
  OBVIOUS
<1>1. CASE UNCHANGED vars
  BY <1>1, StayConn DEF vars, kernelVars, clientVars, historyVars
<1>2. CASE FlushMessage
  <2>1. UNCHANGED <<files, backlog, client, taken>> /\ pc = "flush"
    BY <1>2 DEF FlushMessage, kernelVars
  <2>2. \A c \in Conns \ {conn} : wire'[c] = wire[c]
    BY <1>2 DEF FlushMessage, Known, TypeOK
  <2> QED BY <2>1, <2>2, HandledConn
<1>3. CASE \E n \in 1..MaxRequests : ReadRequests(n)
  <2>1. UNCHANGED <<files, backlog, client, wire>> /\ pc = "read"
    BY <1>3 DEF ReadRequests, kernelVars, historyVars
  <2>2. \A c \in Conns \ {conn} : taken'[c] = taken[c]
    BY <1>3 DEF ReadRequests, Known, TypeOK
  <2> QED BY <2>1, <2>2, HandledConn
<1> QED
  BY <1>1, <1>2, <1>3, OtherConn, ConnectConn, AcceptConn
  DEF Next, ClientStep, DaemonStep

-----------------------------------------------------------------------------
\* The streams.

GoodStreams ==
  \A fd \in DOMAIN sessions :
    Good(Stream(fd), taken[files[fd]], modem = "Registered")

\* What was read was asked.
Asked == \A c \in Conns : taken[c] =< asked[c]

\* Nothing is left in the end.
NoneLeft == Ended => DOMAIN sessions = {}

StreamInv == GoodStreams /\ Asked /\ NoneLeft

LEMMA InitStream == Init => StreamInv
BY DEF Init, Empty, StreamInv, GoodStreams, Asked, NoneLeft, Ended

\* What a session's stream is made of.
LEMMA StreamTypes ==
  ASSUME Known, NoneLeft, NEW fd \in DOMAIN sessions
  PROVE  /\ ~Ended
         /\ fd \in DOMAIN files /\ files[fd] \in Conns
         /\ wire[files[fd]] \in Seq(Message) /\ sessions[fd] \in Seq(Message)
         /\ taken[files[fd]] \in Nat
         /\ Stream(fd) = wire[files[fd]] \o sessions[fd]
         /\ Stream(fd) \in Seq(Message)
<1>1. ~Ended /\ fd \in DOMAIN files
  BY DEF NoneLeft, Known, IInv, TablesAgree
<1>2. files[fd] \in Conns /\ sessions[fd] \in Seq(Message)
  BY <1>1 DEF Known, TypeOK
<1>3. wire[files[fd]] \in Seq(Message) /\ taken[files[fd]] \in Nat
  BY <1>2 DEF Known, TypeOK
<1>4. wire[files[fd]] \o sessions[fd] \in Seq(Message)
  BY <1>2, <1>3, ConcatProperties
<1> QED BY <1>1, <1>2, <1>3, <1>4 DEF Stream

\* Sessions go, or nothing of them changes.
LEMMA SameStreams ==
  ASSUME Known, StreamInv,
         DOMAIN sessions' \subseteq DOMAIN sessions,
         \A fd \in DOMAIN sessions' : sessions'[fd] = sessions[fd] /\ files'[fd] = files[fd],
         UNCHANGED <<taken, wire>>, modem' = "Registered" <=> modem = "Registered",
         \A c \in Conns : asked[c] =< asked'[c], asked' \in [Conns -> Nat],
         Ended' => DOMAIN sessions' = {}
  PROVE  StreamInv'
<1>1. \A fd \in DOMAIN sessions' : /\ Stream(fd)' = Stream(fd)
                                   /\ taken'[files'[fd]] = taken[files[fd]]
  BY DEF Stream
<1>2. GoodStreams'
  BY <1>1 DEF StreamInv, GoodStreams
<1>3. Asked'
  BY MaxRequestsAssumption DEF StreamInv, Asked, Known, TypeOK
<1> QED BY <1>2, <1>3 DEF StreamInv, NoneLeft

\* The modem registers, and every session queues the indication.
LEMMA TimerStream == ASSUME Known, StreamInv, HandleTimer PROVE StreamInv'
<1>1. UNCHANGED <<pc, files, taken, wire, asked>>
  BY DEF HandleTimer, clientVars, historyVars
<1>2. CASE modem # "SearchingNetwork"
  BY <1>1, <1>2, SameStreams DEF HandleTimer, Known, TypeOK, StreamInv, NoneLeft, Ended
<1>3. CASE modem = "SearchingNetwork"
  <2>1. modem' = "Registered" /\ sessions' = Publish(sessions)
    BY <1>3 DEF HandleTimer
  <2>2. /\ DOMAIN sessions' = DOMAIN sessions
        /\ \A fd \in DOMAIN sessions : sessions'[fd] = Append(sessions[fd], Indication)
    BY <2>1 DEF Publish
  <2>3. ASSUME NEW fd \in DOMAIN sessions
        PROVE  Good(Stream(fd), taken[files[fd]], TRUE)'
    <3>1. Stream(fd)' = wire[files[fd]] \o Append(sessions[fd], Indication)
      BY <1>1, <2>2 DEF Stream
    <3>2. Stream(fd)' = Append(Stream(fd), Indication)
      <4>1. /\ wire[files[fd]] \in Seq(Message) /\ sessions[fd] \in Seq(Message)
            /\ Stream(fd) = wire[files[fd]] \o sessions[fd]
        BY StreamTypes DEF StreamInv
      <4>2. wire[files[fd]] \o Append(sessions[fd], Indication)
              = Append(wire[files[fd]] \o sessions[fd], Indication)
        BY <4>1, IndicationType, Queued
      <4> QED BY <3>1, <4>1, <4>2
    <3>3. Good(Stream(fd), taken[files[fd]], FALSE)
      BY <1>3 DEF StreamInv, GoodStreams
    <3>4. Good(Append(Stream(fd), Indication), taken[files[fd]], TRUE)
      BY <3>3, StreamTypes, GoodIndication DEF StreamInv
    <3> QED BY <1>1, <3>2, <3>4
  <2>4. GoodStreams'
    BY <2>1, <2>2, <2>3 DEF GoodStreams
  <2> QED BY <1>1, <2>2, <2>4 DEF StreamInv, Asked, NoneLeft, Ended
<1> QED BY <1>2, <1>3

LEMMA AcceptStream ==
  ASSUME Known, ConnInv, StreamInv, NEW fd \in ClientFds, Accept(fd)
  PROVE  StreamInv'
<1> DEFINE c == Head(backlog)
<1>1. UNCHANGED <<pc, modem, taken, wire, asked>> /\ ~Ended
  BY DEF Accept, clientVars, historyVars, Ended
<1>2. c \in Conns /\ wire[c] = <<>> /\ taken[c] = 0
  BY Accepted DEF ConnInv, Unused
<1>3. Good(Stream(fd), taken[files[fd]], modem = "Registered")'
  <2>1. files'[fd] = c /\ sessions'[fd] = <<>>
    BY Accepted
  <2>2. Stream(fd)' = <<>> /\ taken'[files'[fd]] = 0
    <3>1. Stream(fd)' = <<>> \o <<>>
      BY <1>1, <1>2, <2>1 DEF Stream
    <3> QED BY <1>1, <1>2, <2>1, <3>1
  <2>3. Good(<<>>, 0, modem' = "Registered")
    BY GoodEmpty
  <2> QED BY <2>2, <2>3
<1>4. \A a \in DOMAIN sessions :
        Good(Stream(a), taken[files[a]], modem = "Registered")'
  <2> TAKE a \in DOMAIN sessions
  <2>1. files'[a] = files[a] /\ sessions'[a] = sessions[a]
    BY Accepted
  <2>2. Stream(a)' = Stream(a) /\ taken'[files'[a]] = taken[files[a]]
    BY <1>1, <2>1 DEF Stream
  <2> QED BY <1>1, <2>2 DEF StreamInv, GoodStreams
<1>5. DOMAIN sessions' = DOMAIN sessions \union {fd}
  BY Accepted
<1>6. GoodStreams'
  BY <1>3, <1>4, <1>5 DEF GoodStreams
<1> QED BY <1>1, <1>6 DEF StreamInv, Asked, NoneLeft, Ended

\* Another session is of another connection.
LEMMA OtherStream ==
  ASSUME Known, ConnInv, StreamInv, pc \in {"flush", "read"},
         NEW fd \in DOMAIN sessions, fd # cur
  PROVE  files[fd] \in Conns /\ files[fd] # conn
BY StreamTypes DEF ConnInv, OnePlace, StreamInv, conn, Known, IInv, HandledIsOpen

\* What is written goes from the session to the wire.
LEMMA FlushStream ==
  ASSUME Known, ConnInv, StreamInv, FlushMessage
  PROVE  StreamInv'
<1>1. /\ pc = "flush" /\ outbox # <<>>
      /\ UNCHANGED <<pc, modem, files, cur, taken, asked>>
      /\ wire' = [wire EXCEPT ![conn] = Append(@, Head(outbox))]
      /\ sessions' = [sessions EXCEPT ![cur] = Tail(outbox)]
  BY DEF FlushMessage, kernelVars
<1>2. conn \in Conns /\ cur \in DOMAIN sessions /\ conn = files[cur] /\ outbox = sessions[cur]
  BY <1>1, HandledTypes DEF Known, conn, outbox
<1>3. Stream(cur)' = Stream(cur)
  <2>1. wire'[conn] = Append(wire[conn], Head(outbox)) /\ sessions'[cur] = Tail(outbox)
    BY <1>1, <1>2 DEF Known, TypeOK
  <2>2. Stream(cur)' = Append(wire[conn], Head(outbox)) \o Tail(outbox)
    BY <1>1, <1>2, <2>1 DEF Stream
  <2>3. wire[conn] \in Seq(Message) /\ outbox \in Seq(Message)
    BY <1>2, StreamTypes DEF StreamInv
  <2> QED BY <1>1, <1>2, <2>2, <2>3, Written DEF Stream
<1>4. \A fd \in DOMAIN sessions : Stream(fd)' = Stream(fd)
  <2> SUFFICES ASSUME NEW fd \in DOMAIN sessions, fd # cur PROVE Stream(fd)' = Stream(fd)
    BY <1>1, <1>3 DEF Stream
  <2>1. files[fd] \in Conns /\ files[fd] # conn
    BY <1>1, OtherStream
  <2>2. wire'[files[fd]] = wire[files[fd]] /\ sessions'[fd] = sessions[fd]
    BY <1>1, <2>1 DEF Known, TypeOK
  <2> QED BY <1>1, <2>2 DEF Stream
<1>5. DOMAIN sessions' = DOMAIN sessions
  BY <1>1
<1>6. GoodStreams'
  BY <1>1, <1>4, <1>5 DEF StreamInv, GoodStreams
<1> QED BY <1>1, <1>5, <1>6 DEF StreamInv, Asked, NoneLeft, Ended

\* What is read is answered at once.
LEMMA ReadStream ==
  ASSUME Known, ConnInv, StreamInv, NEW n \in 1..MaxRequests, ReadRequests(n)
  PROVE  StreamInv'
<1> DEFINE before == taken[conn]
           a == Answers(conn, n)
<1>1. /\ pc = "read" /\ n =< asked[conn] - before
      /\ UNCHANGED <<pc, modem, files, cur, asked, wire>>
      /\ taken' = [taken EXCEPT ![conn] = before + n]
      /\ sessions' = [sessions EXCEPT ![cur] = outbox \o a]
  BY DEF ReadRequests, kernelVars, historyVars, outbox
<1>2. conn \in Conns /\ cur \in DOMAIN sessions /\ conn = files[cur] /\ outbox = sessions[cur]
  BY <1>1, HandledTypes DEF Known, conn, outbox
<1>3. n \in Nat /\ before \in Nat /\ asked[conn] \in Nat /\ before + n =< asked[conn]
  <2>1. n \in Nat
    BY MaxRequestsAssumption
  <2>2. before \in Nat /\ asked[conn] \in Nat
    BY <1>2, MaxRequestsAssumption DEF Known, TypeOK
  <2> QED BY <1>1, <2>1, <2>2
<1>4. taken'[conn] = before + n /\ \A c \in Conns \ {conn} : taken'[c] = taken[c]
  BY <1>1, <1>2 DEF Known, TypeOK
<1>5. /\ a \in Seq(Message) /\ Len(a) = n
      /\ \A i \in 1..n : a[i].txn = before + i /\ a[i].registered = (modem = "Registered")
  <2>1. a = [i \in 1..n |-> [txn |-> before + i, registered |-> modem = "Registered"]]
    BY DEF Answers
  <2>2. before + n =< MaxRequests
    <3>1. asked[conn] =< MaxRequests
      BY <1>2, MaxRequestsAssumption DEF Known, TypeOK
    <3> QED BY <1>3, <3>1, MaxRequestsAssumption
  <2>3. \A i \in 1..n : before + i \in 0..MaxRequests
    BY <1>3, <2>2, MaxRequestsAssumption
  <2>4. \A i \in 1..n : [txn |-> before + i, registered |-> modem = "Registered"] \in Message
    BY <2>3 DEF Message
  <2>5. a \in Seq(Message) /\ Len(a) = n
    BY <1>3, <2>4 DEF Answers
  <2> QED BY <2>1, <2>5
<1>6. Good(Stream(cur), taken[files[cur]], modem = "Registered")'
  <2>1. wire[conn] \in Seq(Message) /\ outbox \in Seq(Message) /\ Stream(cur) \in Seq(Message)
        /\ Stream(cur) = wire[conn] \o outbox
    BY <1>2, StreamTypes DEF StreamInv
  <2>2. Stream(cur)' = wire[conn] \o (outbox \o a)
    BY <1>1, <1>2 DEF Stream
  <2>3. Stream(cur)' = Stream(cur) \o a
    <3>1. a \in Seq(Message)
      BY <1>5
    <3> HIDE DEF a
    <3>2. (wire[conn] \o outbox) \o a = wire[conn] \o (outbox \o a)
      BY <2>1, <3>1, AllQueued
    <3> QED BY <2>1, <2>2, <3>2
  <2>4. Good(Stream(cur), before, modem = "Registered")
    BY <1>2 DEF StreamInv, GoodStreams
  <2> HIDE DEF a, before
  <2>5. Good(Stream(cur) \o a, before + n, modem = "Registered")
    BY <1>3, <1>5, <2>1, <2>4, GoodAnswers
  <2> QED BY <1>1, <1>2, <1>4, <2>3, <2>5
<1>7. \A fd \in DOMAIN sessions :
        fd # cur => Stream(fd)' = Stream(fd) /\ taken'[files'[fd]] = taken[files[fd]]
  <2> SUFFICES ASSUME NEW fd \in DOMAIN sessions, fd # cur
               PROVE  Stream(fd)' = Stream(fd) /\ taken'[files'[fd]] = taken[files[fd]]
    OBVIOUS
  <2>1. files[fd] \in Conns /\ files[fd] # conn
    BY <1>1, OtherStream
  <2> QED BY <1>1, <1>4, <2>1 DEF Stream
<1>8. DOMAIN sessions' = DOMAIN sessions
  BY <1>1
<1>9. GoodStreams'
  BY <1>1, <1>6, <1>7, <1>8 DEF StreamInv, GoodStreams
<1>10. Asked'
  BY <1>1, <1>3, <1>4 DEF StreamInv, Asked
<1> QED BY <1>1, <1>8, <1>9, <1>10 DEF StreamInv, NoneLeft, Ended

\* The steps that leave the streams as they are.
LEMMA OutsideStream ==
  ASSUME Known, StreamInv, ClientStep \/ Environment
  PROVE  StreamInv'
<1>1. UNCHANGED <<pc, sessions, files, taken, wire>>
  BY DEF ClientStep, Connect, SendRequest, ClientShuts, ClientReads, ClientCloses, Environment,
         TimerExpires, SignalArrives, SearchStarts, daemonVars, kernelVars, clientVars,
         historyVars
<1>2. modem' = "Registered" <=> modem = "Registered"
  BY DEF ClientStep, Connect, SendRequest, ClientShuts, ClientReads, ClientCloses, Environment,
         TimerExpires, SignalArrives, SearchStarts, daemonVars
<1>3. asked' \in [Conns -> Nat] /\ \A c \in Conns : asked[c] =< asked'[c]
  <2>1. asked \in [Conns -> Nat]
    BY MaxRequestsAssumption DEF Known, TypeOK
  <2>2. CASE UNCHANGED asked
    BY <2>1, <2>2
  <2>3. CASE \E c \in Conns : asked' = [asked EXCEPT ![c] = @ + 1]
    BY <2>1, <2>3
  <2> QED
    BY <2>2, <2>3
    DEF ClientStep, Connect, SendRequest, ClientShuts, ClientReads, ClientCloses, Environment,
        TimerExpires, SignalArrives, SearchStarts, clientVars
<1> QED BY <1>1, <1>2, <1>3, SameStreams DEF StreamInv, NoneLeft, Ended

LEMMA DaemonStream ==
  ASSUME Known, StreamInv,
         \/ Wait \/ BatchDone \/ HandleSignal \/ HandleListen
         \/ AcceptEnds \/ FlushEnds \/ FlushBreaks \/ ReadEnds
         \/ \E fd \in ClientFds : HandleClient(fd)
  PROVE  StreamInv'
<1>1. UNCHANGED <<modem, asked, taken, wire>>
  BY DEF Wait, BatchDone, HandleSignal, HandleListen, AcceptEnds, FlushEnds, FlushBreaks,
         ReadEnds, HandleClient, kernelVars, clientVars, historyVars
<1>2. asked \in [Conns -> Nat]
  BY MaxRequestsAssumption DEF Known, TypeOK
<1>3. \A fd : RemoveClient(fd) => /\ pc' = "dispatch"
                                  /\ files' = Without(files, fd)
                                  /\ sessions' = Without(sessions, fd)
  BY DEF RemoveClient
<1>4. \A fd : EndHandler(fd) => pc' = "dispatch" /\ UNCHANGED <<files, sessions>>
  BY DEF EndHandler
<1>5. \/ ~Ended' /\ UNCHANGED <<files, sessions>>
      \/ sessions' = Empty
      \/ /\ ~Ended'
         /\ \E fd : files' = Without(files, fd) /\ sessions' = Without(sessions, fd)
  <2>1. CASE \E fd \in ClientFds : HandleClient(fd)
    <3> PICK fd \in ClientFds : HandleClient(fd)
      BY <2>1
    <3>1. pc = "dispatch"
      BY DEF HandleClient, Take
    <3> QED BY <1>3, <1>4, <3>1 DEF HandleClient, Ended
  <2>2. CASE FlushEnds \/ ReadEnds
    BY <1>3, <1>4, <2>2 DEF FlushEnds, ReadEnds, Ended
  <2>3. CASE BatchDone \/ FlushBreaks
    BY <2>3 DEF BatchDone, FlushBreaks, Ended
  <2> QED
    BY <2>1, <2>2, <2>3
    DEF Wait, HandleSignal, HandleListen, AcceptEnds, Take, kernelVars, Ended
<1>6. CASE ~Ended' /\ UNCHANGED <<files, sessions>>
  BY <1>1, <1>2, <1>6, SameStreams
<1>7. CASE sessions' = Empty
  <2>1. DOMAIN sessions' = {}
    BY <1>7 DEF Empty
  <2> QED BY <1>1, <1>2, <2>1, SameStreams
<1>8. CASE /\ ~Ended'
           /\ \E fd : files' = Without(files, fd) /\ sessions' = Without(sessions, fd)
  <2> PICK fd : files' = Without(files, fd) /\ sessions' = Without(sessions, fd)
    BY <1>8
  <2>1. /\ DOMAIN sessions' = DOMAIN sessions \ {fd}
        /\ \A a \in DOMAIN sessions \ {fd} : sessions'[a] = sessions[a]
    BY WithoutDomain
  <2>2. \A a \in DOMAIN files \ {fd} : files'[a] = files[a]
    BY WithoutDomain
  <2>3. \A a \in DOMAIN sessions : a \in DOMAIN files
    BY StreamTypes DEF StreamInv
  <2> QED BY <1>1, <1>2, <1>8, <2>1, <2>2, <2>3, SameStreams
<1> QED BY <1>5, <1>6, <1>7, <1>8

LEMMA StepStream == Known /\ ConnInv /\ StreamInv /\ [Next]_vars => StreamInv'
<1> SUFFICES ASSUME Known, ConnInv, StreamInv, [Next]_vars PROVE StreamInv'
  OBVIOUS
<1>1. CASE UNCHANGED vars
  <2>1. UNCHANGED <<pc, modem, sessions, files, taken, wire, asked>>
    BY <1>1 DEF vars, daemonVars, kernelVars, clientVars, historyVars
  <2>2. asked \in [Conns -> Nat]
    BY MaxRequestsAssumption DEF Known, TypeOK
  <2> QED BY <2>1, <2>2, SameStreams DEF StreamInv, NoneLeft, Ended
<1> QED
  BY <1>1, OutsideStream, DaemonStream, TimerStream, AcceptStream, FlushStream, ReadStream
  DEF Next, DaemonStep

SInv == Known /\ ConnInv /\ StreamInv

THEOREM StreamsAreGood == Spec => []SInv
<1>1. Init => ConnInv /\ StreamInv
  BY InitConn, InitStream
<1>2. SInv /\ Known' /\ [Next]_vars => SInv'
  BY StepConn, StepStream DEF SInv
<1>3. Spec => []Known
  <2>1. IInv /\ TypeOK <=> Known
    BY DEF Known
  <2> QED BY <2>1, Inductive, TypesAreKept, PTL
<1>4. Known /\ ConnInv /\ StreamInv <=> SInv
  BY DEF SInv
<1> QED BY <1>1, <1>2, <1>3, <1>4, PTL DEF Spec

\* Every request the daemon read is answered once and in order, for any number
\* of clients and requests and however the writes are cut (session.cpp).
THEOREM RequestsAreAnswered == Spec => []AnswersInOrder
<1>1. SInv => AnswersInOrder
  <2> SUFFICES ASSUME SInv, NEW fd \in DOMAIN sessions
               PROVE  LET m == Stream(fd)
                      IN  /\ {m[i].txn : i \in DOMAIN m} \ {0} = 1..taken[files[fd]]
                          /\ \A i, j \in DOMAIN m :
                               i < j /\ IsAnswer(m[i]) /\ IsAnswer(m[j])
                                 => m[i].txn < m[j].txn
    BY DEF AnswersInOrder
  <2> DEFINE m == Stream(fd)
             n == taken[files[fd]]
             l == Len(m)
  <2>1. m \in Seq(Message) /\ n \in Nat
    BY StreamTypes DEF SInv, StreamInv
  <2>2. DOMAIN m = 1..l
    BY <2>1
  <2>3. Ordered(m, l, n)
    BY DEF SInv, StreamInv, GoodStreams, Good
  <2> HIDE DEF m, n, l
  <2>4. {m[i].txn : i \in DOMAIN m} \ {0} = 1..n
    <3>1. \A i \in 1..l : m[i].txn = 0 \/ m[i].txn \in 1..n
      BY <2>1, <2>3 DEF Ordered
    <3>2. \A k \in 1..n : k # 0 /\ \E i \in 1..l : m[i].txn = k
      BY <2>1, <2>3 DEF Ordered
    <3>3. 0 \notin 1..n
      BY <2>1
    <3> QED BY <2>2, <3>1, <3>2, <3>3
  <2>5. \A i, j \in DOMAIN m :
          i < j /\ IsAnswer(m[i]) /\ IsAnswer(m[j]) => m[i].txn < m[j].txn
    BY <2>2, <2>3 DEF Ordered, IsAnswer
  <2> QED BY <2>4, <2>5 DEF m, n
<1> QED BY <1>1, StreamsAreGood, PTL

\* On each connection the registration is told consistently, for any number of
\* clients and requests (session.cpp onEvent, dispatcher.cpp).
THEOREM NewsIsAlwaysConsistent == Spec => []NewsIsConsistent
<1>1. SInv => NewsIsConsistent
  <2> SUFFICES ASSUME SInv, NEW fd \in DOMAIN sessions
               PROVE  LET m == Stream(fd)
                      IN  /\ \A i, j \in DOMAIN m :
                               i =< j /\ m[i].registered => m[j].registered
                          /\ \A i, j \in DOMAIN m :
                               i < j /\ m[j] = Indication => ~m[i].registered
                          /\ modem = "Registered" /\ (\E i \in DOMAIN m : ~m[i].registered)
                               => \E i \in DOMAIN m : m[i] = Indication
    BY DEF NewsIsConsistent
  <2> DEFINE m == Stream(fd)
             l == Len(m)
             reg == modem = "Registered"
  <2>1. m \in Seq(Message)
    BY StreamTypes DEF SInv, StreamInv
  <2>2. DOMAIN m = 1..l /\ l \in Nat /\ \A i \in 1..l : m[i] \in Message
    BY <2>1
  <2>3. Consistent(m, l, reg)
    BY DEF SInv, StreamInv, GoodStreams, Good
  <2> HIDE DEF m, l, reg
  <2>4. \A i \in 1..l : m[i] = Indication <=> m[i].txn = 0
    BY <2>2, <2>3 DEF Consistent, Message, Indication
  <2>5. \A i, j \in 1..l : i =< j /\ m[i].registered => m[j].registered
    BY <2>2, <2>3 DEF Consistent
  <2>6. \A i, j \in 1..l : i < j /\ m[j] = Indication => ~m[i].registered
    BY <2>3, <2>4 DEF Consistent
  <2>7. reg /\ (\E i \in 1..l : ~m[i].registered) => \E i \in 1..l : m[i] = Indication
    BY <2>3, <2>4 DEF Consistent
  <2> QED BY <2>2, <2>5, <2>6, <2>7 DEF m, reg
<1> QED BY <1>1, StreamsAreGood, PTL

-----------------------------------------------------------------------------
\* What epoll watches.

Suits(watch, out) ==
  /\ "OUT" \in watch => out # <<>>
  /\ (\E i \in DOMAIN out : IsAnswer(out[i])) => "OUT" \in watch

\* WatchedIfNeeded at any time, but for the session that is being handled.
WatchInv ==
  ~Ended => \A fd \in DOMAIN sessions :
              ~(pc \in {"flush", "read"} /\ fd = cur) => Suits(interest[fd], sessions[fd])

LEMMA WatchedSuits == ASSUME NEW out \in Seq(Message) PROVE Suits(Watched(out), out)
<1>1. DOMAIN <<>> = {}
  OBVIOUS
<1> QED BY <1>1 DEF Suits, Watched

\* No session but the handled one gets something else to write or to watch.
LEMMA SameWatch ==
  ASSUME WatchInv,
         ~Ended' => /\ ~Ended
                    /\ pc' \in {"flush", "read"} <=> pc \in {"flush", "read"}
                    /\ cur' = cur
                    /\ DOMAIN sessions' \subseteq DOMAIN sessions
                    /\ \A fd \in DOMAIN sessions' :
                         (pc \in {"flush", "read"} /\ fd = cur)
                           \/ (sessions'[fd] = sessions[fd] /\ interest'[fd] = interest[fd])
  PROVE  WatchInv'
BY DEF WatchInv

LEMMA TimerWatch == ASSUME Known, WatchInv, HandleTimer PROVE WatchInv'
<1>1. /\ pc = "dispatch" /\ UNCHANGED <<pc, cur, interest>>
      /\ sessions' = Publish(sessions) \/ UNCHANGED sessions
  BY DEF HandleTimer, Take
<1>2. CASE UNCHANGED sessions
  BY <1>1, <1>2, SameWatch DEF Ended
<1>3. CASE sessions' = Publish(sessions)
  <2> SUFFICES ASSUME NEW fd \in DOMAIN sessions
               PROVE  Suits(interest[fd], Append(sessions[fd], Indication))
    BY <1>1, <1>3 DEF WatchInv, Publish, Ended
  <2>1. Suits(interest[fd], sessions[fd])
    BY <1>1 DEF WatchInv, Ended
  <2> DEFINE out == sessions[fd]
             longer == Append(out, Indication)
  <2>2. out \in Seq(Message)
    BY DEF Known, TypeOK
  <2>3. /\ longer # <<>>
        /\ \A i \in DOMAIN longer : (i \in DOMAIN out /\ longer[i] = out[i])
                                      \/ longer[i] = Indication
    BY <2>2
  <2>4. ~IsAnswer(Indication)
    BY DEF IsAnswer, Indication
  <2> HIDE DEF longer, out
  <2>5. Suits(interest[fd], longer)
    BY <2>1, <2>3, <2>4 DEF Suits, out
  <2> QED BY <2>5 DEF longer, out
<1> QED BY <1>1, <1>2, <1>3

LEMMA AcceptWatch ==
  ASSUME Known, WatchInv, NEW fd \in ClientFds, Accept(fd)
  PROVE  WatchInv'
<1>1. pc = "accept" /\ UNCHANGED <<pc, cur>> /\ ~Ended
  BY DEF Accept, Ended
<1>2. Suits(interest'[fd], sessions'[fd])
  <2>1. interest'[fd] = {"IN"} /\ sessions'[fd] = <<>>
    BY Accepted
  <2>2. DOMAIN <<>> = {}
    OBVIOUS
  <2> QED BY <2>1, <2>2 DEF Suits
<1>3. \A a \in DOMAIN sessions : Suits(interest'[a], sessions'[a])
  BY <1>1, Accepted DEF WatchInv
<1>4. DOMAIN sessions' = DOMAIN sessions \union {fd}
  BY Accepted
<1> QED BY <1>1, <1>2, <1>3, <1>4 DEF WatchInv

\* The two ends of a handler of fd.
LEMMA RemoveWatch ==
  ASSUME Known, WatchInv, ~Ended, NEW fd, RemoveClient(fd),
         pc = "dispatch" \/ fd = cur
  PROVE  WatchInv'
<1>1. /\ DOMAIN sessions' = DOMAIN sessions \ {fd}
      /\ \A a \in DOMAIN sessions \ {fd} : sessions'[a] = sessions[a]
  BY WithoutDomain DEF RemoveClient
<1>2. \A a \in DOMAIN interest \ {fd} : interest'[a] = interest[a]
  BY WithoutDomain DEF RemoveClient
<1>3. DOMAIN interest = DOMAIN sessions
  BY DEF Known, IInv, TablesAgree
<1>4. \A a \in DOMAIN sessions \ {fd} : Suits(interest[a], sessions[a])
  BY DEF WatchInv
<1> QED BY <1>1, <1>2, <1>3, <1>4 DEF WatchInv

LEMMA EndHandlerWatch ==
  ASSUME Known, WatchInv, ~Ended, NEW fd, EndHandler(fd),
         pc = "dispatch" \/ fd = cur
  PROVE  WatchInv'
<1>1. /\ UNCHANGED sessions
      /\ \A a \in DOMAIN interest :
           interest'[a] = IF a = fd THEN Watched(sessions[fd]) ELSE interest[a]
  BY DEF EndHandler
<1>2. DOMAIN interest = DOMAIN sessions /\ \A a \in DOMAIN sessions : sessions[a] \in Seq(Message)
  BY DEF Known, IInv, TablesAgree, TypeOK
<1>3. \A a \in DOMAIN sessions \ {fd} : Suits(interest[a], sessions[a])
  BY DEF WatchInv
<1>4. fd \in DOMAIN sessions => Suits(Watched(sessions[fd]), sessions[fd])
  BY <1>2, WatchedSuits
<1> QED BY <1>1, <1>2, <1>3, <1>4 DEF WatchInv

LEMMA HandleClientWatch ==
  ASSUME Known, WatchInv, NEW fd \in ClientFds, HandleClient(fd)
  PROVE  WatchInv'
<1>1. pc = "dispatch" /\ ~Ended
  BY DEF HandleClient, Take, Ended
<1>2. CASE UNCHANGED <<pc, sessions, interest, callbacks, files, cur, curEvents>>
  BY <1>1, <1>2, SameWatch DEF Ended
<1>3. CASE RemoveClient(fd)
  BY <1>1, <1>3, RemoveWatch
<1>4. CASE EndHandler(fd)
  BY <1>1, <1>4, EndHandlerWatch
<1>5. CASE UNCHANGED <<sessions, interest, callbacks, files>>
  BY <1>1, <1>5 DEF WatchInv
<1> QED BY <1>2, <1>3, <1>4, <1>5 DEF HandleClient

LEMMA OtherWatch ==
  ASSUME Known, WatchInv,
         \/ ClientStep \/ Environment \/ Wait \/ BatchDone \/ HandleSignal
         \/ HandleListen \/ AcceptEnds \/ FlushMessage \/ FlushEnds \/ FlushBreaks
         \/ ReadEnds \/ \E n \in 1..MaxRequests : ReadRequests(n)
  PROVE  WatchInv'
<1>1. CASE ClientStep \/ Environment
  <2>1. UNCHANGED <<pc, sessions, interest, cur>>
    BY <1>1 DEF ClientStep, Connect, SendRequest, ClientShuts, ClientReads, ClientCloses,
           Environment, TimerExpires, SignalArrives, SearchStarts, daemonVars, kernelVars
  <2> QED BY <2>1, SameWatch DEF Ended
<1>2. CASE Wait \/ HandleSignal \/ HandleListen \/ AcceptEnds
  <2>1. /\ pc \in {"wait", "dispatch", "accept"} /\ pc' \in {"wait", "dispatch", "accept"}
        /\ UNCHANGED <<sessions, interest, cur>>
    BY <1>2 DEF Wait, HandleSignal, HandleListen, AcceptEnds, Take, kernelVars
  <2> QED BY <2>1, SameWatch DEF Ended
<1>3. CASE BatchDone \/ FlushBreaks
  <2>1. Ended' \/ (pc = "dispatch" /\ pc' = "wait" /\ UNCHANGED <<sessions, interest, cur>>)
    BY <1>3 DEF BatchDone, FlushBreaks, Ended
  <2> QED BY <2>1, SameWatch DEF Ended
<1>4. CASE FlushMessage \/ \E n \in 1..MaxRequests : ReadRequests(n)
  <2>1. /\ pc \in {"flush", "read"} /\ UNCHANGED <<pc, interest, cur>>
        /\ DOMAIN sessions' = DOMAIN sessions
        /\ \A fd \in DOMAIN sessions : fd = cur \/ sessions'[fd] = sessions[fd]
    BY <1>4 DEF FlushMessage, ReadRequests, kernelVars
  <2> QED BY <2>1, SameWatch DEF Ended
<1>5. CASE FlushEnds \/ ReadEnds
  <2>1. pc \in {"flush", "read"} /\ ~Ended
    BY <1>5 DEF FlushEnds, ReadEnds, Ended
  <2>2. CASE pc' = "read" /\ UNCHANGED <<sessions, interest, callbacks, files, cur>>
    BY <2>1, <2>2, SameWatch DEF Ended
  <2> QED
    BY <1>5, <2>1, <2>2, RemoveWatch, EndHandlerWatch DEF FlushEnds, ReadEnds
<1> QED BY <1>1, <1>2, <1>3, <1>4, <1>5

\* When the daemon waits, a session with an answer to write is watched, and one
\* with nothing to write is not: it neither forgets an answer nor spins
\* (server.cpp updateEvents).
THEOREM AnswersAreWatched == Spec => []WatchedIfNeeded
<1>1. Init => WatchInv
  BY DEF Init, Empty, WatchInv
<1>2. Known /\ WatchInv /\ [Next]_vars => WatchInv'
  <2> SUFFICES ASSUME Known, WatchInv, [Next]_vars PROVE WatchInv'
    OBVIOUS
  <2>1. CASE UNCHANGED vars
    <3>1. UNCHANGED <<pc, sessions, interest, cur>>
      BY <2>1 DEF vars, daemonVars, kernelVars
    <3> QED BY <3>1, SameWatch DEF Ended
  <2> QED
    BY <2>1, TimerWatch, AcceptWatch, HandleClientWatch, OtherWatch DEF Next, DaemonStep
<1>3. Known /\ WatchInv => WatchedIfNeeded
  BY DEF WatchInv, WatchedIfNeeded, Suits, Ended
<1>4. SInv => Known
  BY DEF SInv
<1> QED BY <1>1, <1>2, <1>3, <1>4, StreamsAreGood, PTL DEF Spec

-----------------------------------------------------------------------------
\* The refinement.

LEMMA InitService == Init => Service!Init
BY DEF Init, Service!Init

\* A message written is the next answer, or the indication at its time.
LEMMA FlushService ==
  ASSUME SInv, FlushMessage
  PROVE  Service!Next
<1> DEFINE m == Stream(cur)
           w == wire[conn]
           at == Len(w) + 1
           x == Head(outbox)
<1>1. /\ pc = "flush" /\ outbox # <<>>
      /\ UNCHANGED <<modem, asked>>
      /\ wire' = [wire EXCEPT ![conn] = Append(@, x)]
  BY DEF FlushMessage
<1>2. /\ conn \in Conns /\ cur \in DOMAIN sessions /\ conn = files[cur]
      /\ outbox = sessions[cur]
  BY <1>1, HandledTypes DEF SInv, Known, conn, outbox
<1>3. w \in Seq(Message) /\ outbox \in Seq(Message) /\ m = w \o outbox
  BY <1>2, StreamTypes DEF SInv, StreamInv
<1>4. x \in Message /\ at \in 1..Len(m)
      /\ m[at] = x /\ \A i \in 1..Len(w) : m[i] = w[i]
      /\ Len(w) \in Nat /\ DOMAIN w = 1..Len(w) /\ Len(m) \in Nat
  <2>1. x \in Message /\ Len(outbox) \in Nat \ {0} /\ x = outbox[1] /\ Len(w) \in Nat
    BY <1>1, <1>3
  <2>2. Len(m) = Len(w) + Len(outbox) /\ Joined(m, w, Len(w), outbox, Len(outbox))
    BY <1>3, ConcatJoined
  <2> QED BY <1>3, <2>1, <2>2 DEF Joined
<1>5. /\ Ordered(m, Len(m), taken[conn])
      /\ Consistent(m, Len(m), modem = "Registered")
  BY <1>2 DEF SInv, StreamInv, GoodStreams, Good
<1>6. /\ taken[conn] \in Nat /\ taken[conn] =< asked[conn]
      /\ asked[conn] \in Nat /\ asked[conn] =< MaxRequests
  BY <1>2, MaxRequestsAssumption DEF SInv, Known, TypeOK, StreamInv, Asked
<1> DEFINE l == Len(m)
           n == taken[conn]
           reg == modem = "Registered"
<1> HIDE DEF m, w, l, n, reg, x, at
<1>7. Service!Told(conn) <=> \E i \in DOMAIN w : w[i].registered
  BY DEF Service!Told, w
<1>8. Service!Write(conn, x)
  BY <1>1 DEF Service!Write
<1>9. CASE x.txn = 0
  <2>1. x = Indication
    <3>1. x.registered
      BY <1>4, <1>5, <1>9 DEF Consistent, l
    <3> QED BY <1>4, <1>9, <3>1 DEF Message, Indication
  <2>2. reg
    BY <1>4, <1>5, <1>9 DEF Consistent, l, reg
  <2>3. ~Service!Told(conn)
    <3>1. \A i \in DOMAIN w : i \in 1..l /\ i < at /\ m[i] = w[i]
      BY <1>4 DEF at, l
    <3>2. \A i \in 1..l : i < at => ~m[i].registered
      BY <1>4, <1>5, <1>9 DEF Consistent, l
    <3> QED BY <1>7, <3>1, <3>2
  <2>4. Service!Indication = Indication
    BY DEF Service!Indication, Indication
  <2>5. Service!Indicate(conn)
    BY <1>8, <2>1, <2>2, <2>3, <2>4 DEF Service!Indicate, reg
  <2> QED BY <1>2, <2>5 DEF Service!Next
<1>10. CASE x.txn # 0
  <2>1. \A i \in DOMAIN w : i \in 1..l /\ i < at /\ m[i] = w[i]
    BY <1>4 DEF at, l
  <2>2. x.txn \in 1..n
    <3>1. x.txn \in 0..n
      BY <1>4, <1>5 DEF Ordered, l, n
    <3> QED BY <1>6, <1>10, <3>1 DEF n
  <2>3. \A k \in 1..MaxRequests : Service!Answered(conn, k) <=> k < x.txn
    <3> TAKE k \in 1..MaxRequests
    <3>1. Service!Answered(conn, k) <=> \E i \in DOMAIN w : m[i].txn = k
      BY <2>1 DEF Service!Answered, w
    <3>2. ASSUME NEW i \in DOMAIN w, m[i].txn = k PROVE k < x.txn
      BY <1>4, <1>5, <1>10, <2>1, <3>2 DEF Ordered, l
    <3>3. ASSUME k < x.txn PROVE \E i \in DOMAIN w : m[i].txn = k
      <4>1. k \in 1..n
        BY <1>6, <2>2, <3>3 DEF n
      <4>2. PICK i \in 1..l : m[i].txn = k
        BY <1>5, <4>1 DEF Ordered, l, n
      <4>3. ~(at < i)
        BY <1>4, <1>5, <1>10, <3>3, <4>1, <4>2, <2>2 DEF Ordered, l
      <4>4. i # at
        BY <1>4, <3>3, <4>1, <4>2, <2>2
      <4>5. i \in DOMAIN w
        BY <1>4, <4>3, <4>4 DEF at
      <4> QED BY <4>2, <4>5
    <3> QED BY <3>1, <3>2, <3>3
  <2>4. x.registered => reg
    BY <1>4, <1>5 DEF Consistent, l, reg
  <2>5. Service!Told(conn) => x.registered
    BY <1>4, <1>5, <1>7, <2>1 DEF Consistent, l
  <2>6. x.txn \in 1..asked[conn]
    BY <1>6, <2>2 DEF n
  <2>7. Service!Answer(conn, x)
    BY <1>8, <2>3, <2>4, <2>5, <2>6 DEF Service!Answer, reg
  <2>8. x \in Service!Message
    BY <1>4 DEF Service!Message, Message
  <2> QED BY <1>2, <2>7, <2>8 DEF Service!Next
<1> QED BY <1>9, <1>10

LEMMA StepService == SInv /\ [Next]_vars => [Service!Next]_Service!vars
<1> SUFFICES ASSUME SInv, [Next]_vars PROVE Service!Next \/ UNCHANGED Service!vars
  OBVIOUS
<1> DEFINE Same == UNCHANGED <<asked, modem, wire>>
<1>1. Same => UNCHANGED Service!vars
  BY DEF Service!vars
<1>2. CASE UNCHANGED vars
  BY <1>1, <1>2 DEF vars, daemonVars, clientVars, historyVars
<1>3. CASE ClientStep
  <2>1. CASE \E c \in Conns : SendRequest(c)
    <3> PICK c \in Conns : SendRequest(c)
      BY <2>1
    <3>1. Service!Ask(c)
      BY DEF SendRequest, Service!Ask, daemonVars, historyVars
    <3> QED BY <3>1 DEF Service!Next
  <2>2. CASE \E c \in Conns : Connect(c) \/ ClientShuts(c) \/ ClientReads(c) \/ ClientCloses(c)
    BY <1>1, <2>2 DEF Connect, ClientShuts, ClientReads, ClientCloses, daemonVars, historyVars
  <2> QED BY <1>3, <2>1, <2>2 DEF ClientStep
<1>4. CASE Environment
  <2>1. (modem' = "Registered") = (modem = "Registered") /\ UNCHANGED <<asked, wire>>
    BY <1>4 DEF Environment, TimerExpires, SignalArrives, SearchStarts, daemonVars,
                clientVars, historyVars
  <2> QED BY <2>1 DEF Service!vars
<1>5. CASE HandleTimer
  <2>1. UNCHANGED <<asked, wire>>
    BY <1>5 DEF HandleTimer, clientVars, historyVars
  <2>2. CASE UNCHANGED modem
    BY <1>1, <2>1, <2>2
  <2>3. CASE modem' = "Registered"
    BY <2>1, <2>3 DEF Service!Next, Service!Register
  <2> QED BY <1>5, <2>2, <2>3 DEF HandleTimer
<1>6. CASE FlushMessage
  BY <1>6, FlushService
<1>7. CASE \/ Wait \/ BatchDone \/ HandleSignal \/ HandleListen \/ AcceptEnds
           \/ FlushEnds \/ FlushBreaks \/ ReadEnds
           \/ \E fd \in ClientFds : Accept(fd) \/ HandleClient(fd)
           \/ \E n \in 1..MaxRequests : ReadRequests(n)
  BY <1>1, <1>7
  DEF Wait, BatchDone, HandleSignal, HandleListen, AcceptEnds, FlushEnds, FlushBreaks,
      ReadEnds, Accept, HandleClient, ReadRequests, kernelVars, clientVars, historyVars
<1> QED
  BY <1>2, <1>3, <1>4, <1>5, <1>6, <1>7 DEF Next, DaemonStep

\* The daemon implements the service: every behaviour of it is, for each client,
\* one in which the next answer is written, or the indication once after the
\* registration, for any number of clients, descriptors and requests.
THEOREM DaemonImplementsService == Spec => ImplementsService
BY InitService, StepService, StreamsAreGood, PTL
DEF Spec, ImplementsService, Service!Spec
=============================================================================
