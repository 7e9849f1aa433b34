----------------------------- MODULE QmiServer ------------------------------
(***************************************************************************)
(* The daemon seen from its QMI clients: the event loop                    *)
(* (src/transport/event_loop.cpp, epoll.cpp), the Unix socket server and   *)
(* its sessions (src/qmi/server.cpp, session.cpp), the modem and its       *)
(* search timer as main.cpp composes them, the kernel's sockets and        *)
(* descriptor table, and the clients.                                      *)
(*                                                                         *)
(* The daemon has one thread.  It is interleaved with the clients and the  *)
(* kernel between any two system calls, so each action of the daemon ends  *)
(* with the system call that makes the next outcome known: pc says which   *)
(* loop of the code it is in.                                              *)
(*                                                                         *)
(* A message is the unit of read() and write(): module Outbox has the      *)
(* bytes and the partial writes.  Module EventBus shows that the handlers  *)
(* on the bus are those of the living sessions, so publish() reaches       *)
(* exactly those.                                                          *)
(***************************************************************************)
EXTENDS Integers, Sequences, FiniteSets, Functions

CONSTANTS
  Conns,        \* the client connections of a behaviour, each made once
  NoConn,       \* not one of them
  Halves,       \* those whose client may shut down its sending side first
  MaxFds,       \* the descriptors the process has left for clients
  MaxBatch,     \* the length of the array given to epoll_wait
  Room,         \* how many unread messages a socket holds
  MaxRequests   \* bound: requests a client sends on one connection

ASSUME NoConnAssumption == NoConn \notin Conns
ASSUME MaxFdsAssumption == MaxFds \in Nat
ASSUME MaxBatchAssumption == MaxBatch \in Nat \ {0}
ASSUME RoomAssumption == Room \in Nat \ {0}
ASSUME MaxRequestsAssumption == MaxRequests \in Nat

\* The descriptors main() opens, in its order, and the ones accept4() returns.
SignalFd == 1
TimerFd == 2
ListenFd == 3
OwnFds == {SignalFd, TimerFd, ListenFd}
ClientFds == 4..(3 + MaxFds)

VARIABLES
  \* the daemon
  pc,         \* "wait", "dispatch", "accept", "flush", "read",
              \* "exited" (main returned), "killed" (by SIGPIPE)
  running,    \* EventLoop::running_
  batch,      \* fd -> events: what epoll_wait returned, not dispatched yet
  cur,        \* the descriptor whose callback runs in "flush" and "read"
  curEvents,  \* and its events
  callbacks,  \* EventLoop::callbacks_, the keys that are clients
  sessions,   \* Server::sessions_: fd -> what its outbox holds
  modem,      \* Modem::state_
  \* the kernel
  files,      \* fd -> connection: the open client descriptors
  interest,   \* fd -> subset of {"IN", "OUT"}: what epoll watches
  backlog,    \* connections not accepted
  timer,      \* the timerfd: "off", "armed", "expired"
  signal,     \* a SIGINT or SIGTERM is pending
  \* the clients
  client,     \* conn -> "idle", "open", "half" (sends no more), "closed"
  asked,      \* conn -> number of requests sent
  taken,      \* conn -> number of requests the daemon has read
  unread,     \* conn -> number of messages sent to the client, not read yet
  \* history
  wire,       \* conn -> every message the daemon wrote
  about       \* fd -> the connection the batch's events came from

daemonVars == <<pc, running, batch, cur, curEvents, callbacks, sessions, modem>>
kernelVars == <<files, interest, backlog, timer, signal>>
clientVars == <<client, asked, taken, unread>>
historyVars == <<wire, about>>
vars == <<daemonVars, kernelVars, clientVars, historyVars>>

Ended == pc \in {"exited", "killed"}

\* A message to a client: the answer to its request number txn, or the
\* indication, which has transaction id 0.
Message == [txn : 0..MaxRequests, registered : BOOLEAN]

Indication == [txn |-> 0, registered |-> TRUE]

Empty == [x \in {} |-> {}]

Without(f, x) == Restrict(f, DOMAIN f \ {x})

\* emplace() of the standard maps: an existing key keeps its value.
Emplace(f, x, v) == [y \in DOMAIN f \union {x} |-> IF y \in DOMAIN f THEN f[y] ELSE v]

Init ==
  /\ pc = "wait"
  /\ running = TRUE
  /\ batch = Empty
  /\ cur = 0
  /\ curEvents = {}
  /\ callbacks = {}
  /\ sessions = Empty
  /\ modem = "Ready"
  /\ files = Empty
  /\ interest = Empty
  /\ backlog = <<>>
  /\ timer = "off"
  /\ signal = FALSE
  /\ client = [c \in Conns |-> "idle"]
  /\ asked = [c \in Conns |-> 0]
  /\ taken = [c \in Conns |-> 0]
  /\ unread = [c \in Conns |-> 0]
  /\ wire = [c \in Conns |-> <<>>]
  /\ about = [fd \in ClientFds |-> NoConn]

-----------------------------------------------------------------------------
\* The clients, the AT side and the environment.

Connect(c) ==
  /\ client[c] = "idle"
  /\ ~Ended
  /\ client' = [client EXCEPT ![c] = "open"]
  /\ backlog' = Append(backlog, c)
  /\ UNCHANGED <<daemonVars, files, interest, timer, signal,
                 asked, taken, unread, historyVars>>

\* The connection still has its other end: in the backlog or accepted.
Connected(c) == c \in Range(backlog) \union Range(files)

SendRequest(c) ==
  /\ client[c] = "open"
  /\ Connected(c)
  /\ ~Ended
  /\ asked[c] < MaxRequests
  /\ asked' = [asked EXCEPT ![c] = @ + 1]
  /\ UNCHANGED <<daemonVars, kernelVars, client, taken, unread, historyVars>>

\* shutdown(SHUT_WR)
ClientShuts(c) ==
  /\ c \in Halves
  /\ client[c] = "open"
  /\ client' = [client EXCEPT ![c] = "half"]
  /\ UNCHANGED <<daemonVars, kernelVars, asked, taken, unread, historyVars>>

ClientReads(c) ==
  /\ client[c] \in {"open", "half"}
  /\ unread[c] > 0
  /\ unread' = [unread EXCEPT ![c] = @ - 1]
  /\ UNCHANGED <<daemonVars, kernelVars, client, asked, taken, historyVars>>

ClientCloses(c) ==
  /\ client[c] \in {"open", "half"}
  /\ client' = [client EXCEPT ![c] = "closed"]
  /\ UNCHANGED <<daemonVars, kernelVars, asked, taken, unread, historyVars>>

TimerExpires ==
  /\ timer = "armed"
  /\ ~Ended
  /\ timer' = "expired"
  /\ UNCHANGED <<daemonVars, files, interest, backlog, signal,
                 clientVars, historyVars>>

SignalArrives ==
  /\ ~signal
  /\ ~Ended
  /\ signal' = TRUE
  /\ UNCHANGED <<daemonVars, files, interest, backlog, timer,
                 clientVars, historyVars>>

\* startNetworkSearch(), called by a callback of the loop.  The one that calls
\* it, Modem::handleAt, is not in the repository: any time between two events.
SearchStarts ==
  /\ pc = "dispatch"
  /\ modem = "Ready"
  /\ modem' = "SearchingNetwork"
  /\ timer' = "armed"
  /\ UNCHANGED <<pc, running, batch, cur, curEvents, callbacks, sessions, files,
                 interest, backlog, signal, clientVars, historyVars>>

-----------------------------------------------------------------------------
\* epoll: what is true of a descriptor, and what epoll_wait reports of it.

Fixed(fd) ==
  CASE fd = SignalFd -> signal
    [] fd = TimerFd -> timer = "expired"
    [] fd = ListenFd -> backlog # <<>>

\* A Unix socket: EPOLLHUP once the client closed its end, with EPOLLERR
\* (ECONNRESET) if it left messages unread.  Both are reported unasked.  If it
\* only sends no more, EPOLLIN is all that is reported of it.
Level(c) ==
  {e \in {"IN", "OUT", "HUP", "ERR"} :
     CASE e = "IN"  -> taken[c] < asked[c] \/ client[c] \in {"half", "closed"}
       [] e = "OUT" -> unread[c] < Room \/ client[c] = "closed"
       [] e = "HUP" -> client[c] = "closed"
       [] e = "ERR" -> client[c] = "closed" /\ unread[c] > 0}

Events(fd) ==
  IF fd \in OwnFds
  THEN IF Fixed(fd) THEN {"IN"} ELSE {}
  ELSE Level(files[fd]) \intersect (interest[fd] \union {"HUP", "ERR"})

ReadyFds == {fd \in OwnFds \union DOMAIN interest : Events(fd) # {}}

\* epoll_wait returns all that is ready, in some order, or as much as the
\* array holds.  It waits while nothing is ready.
Wait ==
  /\ pc = "wait"
  /\ \E fds \in SUBSET ReadyFds :
       /\ fds # {}
       /\ fds = ReadyFds \/ Cardinality(fds) = MaxBatch
       /\ Cardinality(fds) =< MaxBatch
       /\ batch' = [fd \in fds |-> Events(fd)]
       /\ about' = [fd \in ClientFds |-> IF fd \in fds THEN files[fd] ELSE NoConn]
  /\ pc' = "dispatch"
  /\ UNCHANGED <<running, cur, curEvents, callbacks, sessions, modem,
                 kernelVars, clientVars, wire>>

\* The for loop of run() comes to the event of fd.
Take(fd) ==
  /\ pc = "dispatch"
  /\ fd \in DOMAIN batch
  /\ batch' = Without(batch, fd)

\* The batch is done; the loop tests running_.  At the end main() returns:
\* ~Server closes the clients and the listening socket.
BatchDone ==
  /\ pc = "dispatch"
  /\ batch = Empty
  /\ \/ /\ running
        /\ pc' = "wait"
        /\ UNCHANGED <<sessions, files, interest, backlog>>
     \/ /\ ~running
        /\ pc' = "exited"
        /\ sessions' = Empty
        /\ files' = Empty
        /\ interest' = Empty
        /\ backlog' = <<>>
  /\ about' = [fd \in ClientFds |-> NoConn]
  /\ UNCHANGED <<running, batch, cur, curEvents, callbacks, modem, timer,
                 signal, clientVars, wire>>

-----------------------------------------------------------------------------
\* Faulty variants of the definitions below, each rejected by a property:
\* stop() left out, the indication put before what is queued, slow sessions
\* dropped by the publisher; removeClient() forgetting the callback or the
\* descriptor; EPOLLOUT watched always or never; answers numbered wrongly, or
\* only the first frame of a read answered.
HandleSignalNoStop ==
  /\ Take(SignalFd)
  /\ signal' = FALSE
  /\ UNCHANGED <<pc, running, cur, curEvents, callbacks, sessions, modem, files,
                 interest, backlog, timer, clientVars, historyVars>>

PublishInFront(out) == [fd \in DOMAIN out |-> <<Indication>> \o out[fd]]

HandleTimerDropsSlow ==
  /\ Take(TimerFd)
  /\ timer' = "off"
  /\ modem' = "Registered"
  /\ LET kept == {fd \in DOMAIN sessions : sessions[fd] = <<>>}
     IN  /\ sessions' = [fd \in kept |-> <<Indication>>]
         /\ files' = Restrict(files, kept)
         /\ interest' = Restrict(interest, kept)
         /\ callbacks' = kept
  /\ UNCHANGED <<pc, running, cur, curEvents, backlog, signal,
                 clientVars, historyVars>>

RemoveKeepsCallback(fd) ==
  /\ pc' = "dispatch"
  /\ interest' = Without(interest, fd)
  /\ sessions' = Without(sessions, fd)
  /\ files' = Without(files, fd)
  /\ UNCHANGED callbacks

RemoveKeepsFile(fd) ==
  /\ pc' = "dispatch"
  /\ interest' = Without(interest, fd)
  /\ callbacks' = callbacks \ {fd}
  /\ sessions' = Without(sessions, fd)
  /\ UNCHANGED files

WatchedAlways(out) == {"IN", "OUT"}

WatchedNever(out) == {"IN"}

AnswersRenumbered(c, n) ==
  [i \in 1..n |-> [txn |-> taken[c] + i + 1, registered |-> modem = "Registered"]]

AnswersFirstOnly(c, n) ==
  <<[txn |-> taken[c] + 1, registered |-> modem = "Registered"]>>

-----------------------------------------------------------------------------
\* The callbacks of the daemon's own descriptors.

\* stop() only clears running_: the rest of the batch is still dispatched.
HandleSignal ==
  /\ Take(SignalFd)
  /\ signal' = FALSE
  /\ running' = FALSE
  /\ UNCHANGED <<pc, cur, curEvents, callbacks, sessions, modem, files, interest,
                 backlog, timer, clientVars, historyVars>>

\* Every session queues the indication; nothing tells epoll that there is
\* something to write.
Publish(out) == [fd \in DOMAIN out |-> Append(out[fd], Indication)]

\* networkSearchComplete()
HandleTimer ==
  /\ Take(TimerFd)
  /\ timer' = "off"
  /\ IF modem = "SearchingNetwork"
     THEN /\ modem' = "Registered"
          /\ sessions' = Publish(sessions)
     ELSE UNCHANGED <<modem, sessions>>
  /\ UNCHANGED <<pc, running, cur, curEvents, callbacks, files, interest, backlog,
                 signal, clientVars, historyVars>>

-----------------------------------------------------------------------------
\* acceptClients(): accept4() until it returns -1.

HandleListen ==
  /\ Take(ListenFd)
  /\ pc' = "accept"
  /\ UNCHANGED <<running, cur, curEvents, callbacks, sessions, modem, kernelVars,
                 clientVars, historyVars>>

LowestFree(fd) ==
  /\ fd \in ClientFds \ DOMAIN files
  /\ \A other \in ClientFds \ DOMAIN files : fd =< other

\* A new session, its callback and its place in epoll.
Accept(fd) ==
  /\ pc = "accept"
  /\ backlog # <<>>
  /\ LowestFree(fd)
  /\ backlog' = Tail(backlog)
  /\ files' = Emplace(files, fd, Head(backlog))
  /\ sessions' = Emplace(sessions, fd, <<>>)
  /\ interest' = Emplace(interest, fd, {"IN"})
  /\ callbacks' = callbacks \union {fd}
  /\ UNCHANGED <<pc, running, batch, cur, curEvents, modem, timer, signal,
                 clientVars, historyVars>>

\* EAGAIN when nobody waits, EMFILE when no descriptor is left: both end the
\* loop.
AcceptEnds ==
  /\ pc = "accept"
  /\ \/ backlog = <<>>
     \/ ClientFds \subseteq DOMAIN files
  /\ pc' = "dispatch"
  /\ UNCHANGED <<running, batch, cur, curEvents, callbacks, sessions, modem,
                 kernelVars, clientVars, historyVars>>

-----------------------------------------------------------------------------
\* handleClient(fd, events).

Hangup(events) == events \intersect {"HUP", "ERR"} # {}

\* updateEvents(): EPOLLOUT is watched while the outbox holds something.
Watched(out) == IF out = <<>> THEN {"IN"} ELSE {"IN", "OUT"}

\* The handler ends with updateEvents(fd).
EndHandler(fd) ==
  /\ pc' = "dispatch"
  /\ interest' = [interest EXCEPT ![fd] = Watched(sessions[fd])]
  /\ UNCHANGED <<sessions, callbacks, files>>

\* removeClient(fd): the event loop forgets fd, then the session is destroyed,
\* which ends its subscription and closes fd.
RemoveClient(fd) ==
  /\ pc' = "dispatch"
  /\ interest' = Without(interest, fd)
  /\ callbacks' = callbacks \ {fd}
  /\ sessions' = Without(sessions, fd)
  /\ files' = Without(files, fd)

\* An event whose callback or session is gone is dropped.  On EPOLLHUP or
\* EPOLLERR onWritable() and onReadable() return false before any system call.
HandleClient(fd) ==
  /\ Take(fd)
  /\ LET events == batch[fd]
     IN  IF fd \notin callbacks \intersect DOMAIN sessions
         THEN UNCHANGED <<pc, sessions, interest, callbacks, files, cur, curEvents>>
         ELSE IF events \intersect {"IN", "OUT"} # {} /\ Hangup(events)
         THEN RemoveClient(fd) /\ UNCHANGED <<cur, curEvents>>
         ELSE IF events \intersect {"IN", "OUT"} = {}
         THEN EndHandler(fd) /\ UNCHANGED <<cur, curEvents>>
         ELSE /\ pc' = IF "OUT" \in events THEN "flush" ELSE "read"
              /\ cur' = fd
              /\ curEvents' = events
              /\ UNCHANGED <<sessions, interest, callbacks, files>>
  /\ UNCHANGED <<running, modem, backlog, timer, signal, clientVars,
                 historyVars>>

conn == files[cur]
outbox == sessions[cur]

\* flush(): write() takes the front message.
FlushMessage ==
  /\ pc = "flush"
  /\ outbox # <<>>
  /\ client[conn] # "closed"
  /\ unread[conn] < Room
  /\ wire' = [wire EXCEPT ![conn] = Append(@, Head(outbox))]
  /\ unread' = [unread EXCEPT ![conn] = @ + 1]
  /\ sessions' = [sessions EXCEPT ![cur] = Tail(outbox)]
  /\ UNCHANGED <<pc, running, batch, cur, curEvents, callbacks, modem, kernelVars,
                 client, asked, taken, about>>

\* flush() returns true: nothing is left, or write() would block.
FlushEnds ==
  /\ pc = "flush"
  /\ outbox # <<>> => client[conn] # "closed" /\ unread[conn] = Room
  /\ IF "IN" \in curEvents
     THEN pc' = "read" /\ UNCHANGED <<sessions, interest, callbacks, files, cur>>
     ELSE EndHandler(cur) /\ cur' = 0
  /\ curEvents' = {}
  /\ UNCHANGED <<running, batch, modem, backlog, timer, signal,
                 clientVars, historyVars>>

\* The client closed after epoll_wait: write() raises SIGPIPE, which nothing
\* blocks or ignores.
FlushBreaks ==
  /\ pc = "flush"
  /\ outbox # <<>>
  /\ client[conn] = "closed"
  /\ pc' = "killed"
  /\ sessions' = Empty
  /\ files' = Empty
  /\ interest' = Empty
  /\ backlog' = <<>>
  /\ UNCHANGED <<running, batch, cur, curEvents, callbacks, modem, timer, signal,
                 clientVars, historyVars>>

\* The answers to the next n requests of c, as the modem is now.
Answers(c, n) ==
  [i \in 1..n |-> [txn |-> taken[c] + i, registered |-> modem = "Registered"]]

\* onReadable(): read() returns n requests, each is dispatched and its answer
\* queued.
ReadRequests(n) ==
  /\ pc = "read"
  /\ n =< asked[conn] - taken[conn]
  /\ taken' = [taken EXCEPT ![conn] = @ + n]
  /\ sessions' = [sessions EXCEPT ![cur] = @ \o Answers(conn, n)]
  /\ UNCHANGED <<pc, running, batch, cur, curEvents, callbacks, modem, kernelVars,
                 client, asked, unread, historyVars>>

\* Nothing left to read: EAGAIN while the client may send; else 0, or
\* ECONNRESET, and the session goes, with what its outbox holds, also if the
\* client still waits for it.
ReadEnds ==
  /\ pc = "read"
  /\ taken[conn] = asked[conn]
  /\ IF client[conn] = "open"
     THEN EndHandler(cur)
     ELSE RemoveClient(cur)
  /\ cur' = 0
  /\ curEvents' = {}
  /\ UNCHANGED <<running, batch, modem, backlog, timer, signal,
                 clientVars, historyVars>>

-----------------------------------------------------------------------------
ClientStep ==
  \E c \in Conns :
    Connect(c) \/ SendRequest(c) \/ ClientShuts(c) \/ ClientReads(c) \/ ClientCloses(c)

Environment == TimerExpires \/ SignalArrives \/ SearchStarts

DaemonStep ==
  \/ Wait
  \/ BatchDone
  \/ HandleSignal
  \/ HandleTimer
  \/ HandleListen
  \/ \E fd \in ClientFds : Accept(fd)
  \/ AcceptEnds
  \/ \E fd \in ClientFds : HandleClient(fd)
  \/ FlushMessage
  \/ FlushEnds
  \/ FlushBreaks
  \/ \E n \in 1..MaxRequests : ReadRequests(n)
  \/ ReadEnds

Next == ClientStep \/ Environment \/ DaemonStep

Spec == Init /\ [][Next]_vars

\* The kernel schedules the daemon, and an armed timer expires.
Fairness == WF_vars(DaemonStep) /\ WF_vars(TimerExpires)

\* Every client reads what it is sent.
ClientsRead == \A c \in Conns : WF_vars(ClientReads(c))

FairSpec == Spec /\ Fairness /\ ClientsRead

\* Every client closes its connection some day.
ClientsLeave == \A c \in Conns : WF_vars(ClientCloses(c))

LeavingSpec == Spec /\ Fairness /\ ClientsLeave

-----------------------------------------------------------------------------
TypeOK ==
  /\ pc \in {"wait", "dispatch", "accept", "flush", "read", "exited", "killed"}
  /\ running \in BOOLEAN
  /\ DOMAIN batch \subseteq OwnFds \union ClientFds
  /\ \A fd \in DOMAIN batch : batch[fd] \subseteq {"IN", "OUT", "HUP", "ERR"}
  /\ cur \in ClientFds \union {0}
  /\ curEvents \subseteq {"IN", "OUT", "HUP", "ERR"}
  /\ callbacks \subseteq ClientFds
  /\ DOMAIN sessions \subseteq ClientFds
  /\ \A fd \in DOMAIN sessions : sessions[fd] \in Seq(Message)
  /\ modem \in {"Ready", "SearchingNetwork", "Registered"}
  /\ DOMAIN files \subseteq ClientFds
  /\ \A fd \in DOMAIN files : files[fd] \in Conns
  /\ DOMAIN interest \subseteq ClientFds
  /\ \A fd \in DOMAIN interest : interest[fd] \subseteq {"IN", "OUT"}
  /\ backlog \in Seq(Conns)
  /\ timer \in {"off", "armed", "expired"}
  /\ signal \in BOOLEAN
  /\ client \in [Conns -> {"idle", "open", "half", "closed"}]
  /\ asked \in [Conns -> 0..MaxRequests]
  /\ taken \in [Conns -> 0..MaxRequests]
  /\ unread \in [Conns -> 0..Room]
  /\ wire \in [Conns -> Seq(Message)]
  /\ about \in [ClientFds -> Conns \union {NoConn}]

\* The four tables that name a client by its descriptor agree whenever the
\* daemon makes a system call: the kernel's files and epoll set, the loop's
\* callbacks and the server's sessions (server.cpp acceptClients, removeClient).
TablesAgree ==
  ~Ended =>
    /\ DOMAIN sessions = DOMAIN files
    /\ DOMAIN interest = DOMAIN files
    /\ callbacks = DOMAIN files

\* An event is handled by the session it was reported for.  Descriptors are
\* reused at once, sessions come and go while a batch is dispatched and the
\* callback knows the descriptor only, but an event left in the batch or being
\* handled is never another connection's (event_loop.cpp run).
EventForRightSession ==
  ~Ended =>
    \A fd \in ClientFds :
      fd \in DOMAIN batch \/ (pc \in {"flush", "read"} /\ fd = cur) =>
        /\ fd \in DOMAIN sessions
        /\ about[fd] # NoConn
        /\ files[fd] = about[fd]

\* Everything the daemon wrote to a session and still holds for it, in order.
Stream(fd) == wire[files[fd]] \o sessions[fd]

IsAnswer(m) == m.txn # 0

\* Every request the daemon read is answered once and in order, whatever
\* indications come between and however the writes are cut by EAGAIN.
AnswersInOrder ==
  \A fd \in DOMAIN sessions :
    LET m == Stream(fd)
    IN  /\ {m[i].txn : i \in DOMAIN m} \ {0} = 1..taken[files[fd]]
        /\ \A i, j \in DOMAIN m :
             i < j /\ IsAnswer(m[i]) /\ IsAnswer(m[j]) => m[i].txn < m[j].txn

\* The registration news is consistent on each connection: after the indication
\* no answer says "not registered", before it none says "registered", it comes
\* once, and a client that was told "not registered" gets it once the modem
\* registers (session.cpp onEvent, dispatcher.cpp handleGetRegistration).
NewsIsConsistent ==
  \A fd \in DOMAIN sessions :
    LET m == Stream(fd)
    IN  /\ \A i, j \in DOMAIN m : i =< j /\ m[i].registered => m[j].registered
        /\ \A i, j \in DOMAIN m : i < j /\ m[j] = Indication => ~m[i].registered
        /\ modem = "Registered" /\ (\E i \in DOMAIN m : ~m[i].registered)
             => \E i \in DOMAIN m : m[i] = Indication

\* When the daemon waits, EPOLLOUT is watched for a session only if it has
\* something to write (it would spin otherwise), and a session that has an
\* answer to write is watched: only an indication can lie unwatched.
WatchedIfNeeded ==
  pc = "wait" =>
    \A fd \in DOMAIN sessions :
      LET out == sessions[fd]
      IN  /\ "OUT" \in interest[fd] => out # <<>>
          /\ (\E i \in DOMAIN out : IsAnswer(out[i])) => "OUT" \in interest[fd]

Served(c) == c \in Range(files)

\* A request on an accepted connection is answered on the wire, if the client
\* reads and keeps both directions open and the daemon lives.
RequestsAnswered ==
  \A c \in Conns, k \in 1..MaxRequests :
    Served(c) /\ asked[c] >= k
      ~> \/ \E i \in DOMAIN wire[c] : wire[c][i].txn = k
         \/ client[c] \in {"half", "closed"}
         \/ Ended

\* A connection is accepted in the end, or the daemon ends and closes it: if
\* clients leave, even when there are more clients than descriptors.
ConnectionsAccepted ==
  \A c \in Conns : c \in Range(backlog) ~> c \notin Range(backlog)

\* The daemon is the service of QmiService to each of its clients.
Service == INSTANCE QmiService WITH registered <- modem = "Registered"

ImplementsService == Service!Spec

\* SIGINT and SIGTERM end the daemon, provided that each client sends a finite
\* number of requests, MaxRequests here: onReadable() reads until EAGAIN, and a
\* client that sends as fast as it reads keeps the loop in that handler.
SignalStops == signal ~> Ended

\* main.cpp: the loop "blocks until SIGINT/SIGTERM"; nothing else ends it.
OnlySignalsEnd == pc # "killed"

\* epoll.hpp: EPOLLOUT is switched on when data appears in the TX queue, so an
\* indication that is queued is written, if the client reads and stays.
IndicationDelivered ==
  \A c \in Conns :
    (\E fd \in DOMAIN sessions :
       files[fd] = c /\ \E i \in DOMAIN sessions[fd] : sessions[fd][i] = Indication)
      ~> \/ \E i \in DOMAIN wire[c] : wire[c][i] = Indication
         \/ client[c] \in {"half", "closed"}
         \/ Ended
=============================================================================
