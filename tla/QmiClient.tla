------------------------------ MODULE QmiClient -----------------------------
(***************************************************************************)
(* A call of the command line client (src/client/qmi-client.cpp): connect  *)
(* to the socket file, write one request, read() once, decode and print    *)
(* what came.  It meets daemons that start, end and crash (SocketPath) and *)
(* the session that answers it (src/qmi/session.cpp), byte for byte as     *)
(* Codec encodes.                                                          *)
(*                                                                         *)
(* The client sends GetSignal with transaction id 42 and no TLV; Requests  *)
(* may hold what other programs send in its place.  The daemon takes a     *)
(* request in one read(); module FrameParser has the pieces.               *)
(***************************************************************************)
EXTENDS SocketPath, Codec

CONSTANT Requests   \* the messages a client may send

ASSUME RequestsAssumption == Requests \subseteq Message

VARIABLES
  request,      \* the message of this call
  call,         \* "start", "connected", "sent", "printed", "failed"
  peer,         \* the daemon connected to
  packet,       \* the bytes of the request
  accepted,     \* the peer has a session for the client
  handled,      \* the session has read the request
  registered,   \* daemon -> Modem::isRegistered()
  outbox,       \* the messages the session has queued
  stream,       \* the bytes written to the client
  written,      \* history: the messages they are of
  printed,      \* the message printed, as a set of one
  news          \* history: the modem registered while the session lived

clientVars == <<request, call, peer, packet, printed>>
sessionVars == <<accepted, handled, registered, outbox, stream, written, news>>
vars == <<pathVars, clientVars, sessionVars>>

CallInit ==
  /\ Init
  /\ request \in Requests
  /\ call = "start"
  /\ peer = NoDaemon
  /\ packet = <<>>
  /\ accepted = FALSE
  /\ handled = FALSE
  /\ registered = [d \in Daemons |-> FALSE]
  /\ outbox = <<>>
  /\ stream = <<>>
  /\ written = <<>>
  /\ printed = {}
  /\ news = FALSE

\* The peer runs its event loop and has not closed the connection.
PeerThere == peer # NoDaemon /\ stage[peer] = "serving"

\* The connection is open: the kernel made it, maybe before the peer got that far.
PeerOpen == peer # NoDaemon /\ Listens(peer)

-----------------------------------------------------------------------------
\* Faulty variant, rejected by a property below: a message taken from the queue
\* and not written.
FlushLoses ==
  /\ PeerThere /\ handled /\ outbox # <<>>
  /\ outbox' = Tail(outbox)
  /\ UNCHANGED <<pathVars, clientVars, accepted, handled, registered, stream, written, news>>
-----------------------------------------------------------------------------
\* The client.

\* connect() finds the socket the file names, if somebody listens on it; the
\* request is encoded.
Connect ==
  /\ call = "start"
  /\ packet' = EncodeMessage(request)
  /\ IF file # NoDaemon /\ Listens(file)
     THEN call' = "connected" /\ peer' = file
     ELSE call' = "failed" /\ UNCHANGED peer
  /\ UNCHANGED <<pathVars, request, printed, sessionVars>>

\* write() takes the request, or the peer is gone and SIGPIPE ends the client.
Write ==
  /\ call = "connected"
  /\ call' = IF PeerOpen THEN "sent" ELSE "failed"
  /\ UNCHANGED <<pathVars, request, peer, packet, printed, sessionVars>>

\* The first n bytes the daemon wrote.
Received(n) == SubSeq(stream, 1, n)

\* read() returns what has come, which may end anywhere (Outbox::flush writes
\* in parts); what decodes is printed, the rest of it ignored.
Read ==
  /\ call = "sent"
  /\ \E n \in 1..Len(stream) :
       /\ printed' = DecodeMessage(Received(n))
       /\ call' = IF printed' = {} THEN "failed" ELSE "printed"
  /\ UNCHANGED <<pathVars, request, peer, packet, sessionVars>>

\* End of file: the daemon has gone and nothing is left to read.
ReadFails ==
  /\ call = "sent"
  /\ ~PeerOpen
  /\ stream = <<>>
  /\ call' = "failed"
  /\ UNCHANGED <<pathVars, request, peer, packet, printed, sessionVars>>

-----------------------------------------------------------------------------
\* The daemon.

\* acceptClients()
Accept ==
  /\ PeerThere
  /\ ~accepted
  /\ accepted' = TRUE
  /\ UNCHANGED <<pathVars, clientVars, handled, registered, outbox, stream, written, news>>

\* networkSearchComplete(): a session of the daemon queues the indication.
Register(d) ==
  /\ stage[d] = "serving"
  /\ ~registered[d]
  /\ registered' = [registered EXCEPT ![d] = TRUE]
  /\ IF d = peer /\ accepted
     THEN outbox' = Append(outbox, Indication) /\ news' = TRUE
     ELSE UNCHANGED <<outbox, news>>
  /\ UNCHANGED <<pathVars, clientVars, accepted, handled, stream, written>>

\* Session::onReadable(): every message found in the bytes is answered.
Handle ==
  /\ PeerThere /\ accepted
  /\ call = "sent" /\ ~handled
  /\ handled' = TRUE
  /\ LET found == Messages(packet)
     IN  outbox' = outbox \o [i \in DOMAIN found |-> Dispatch(found[i], registered[peer])]
  /\ UNCHANGED <<pathVars, clientVars, accepted, registered, stream, written, news>>

\* Session::onWritable().  EPOLLOUT is watched from the end of the handler that
\* read the request (module QmiServer).
Flush ==
  /\ PeerThere /\ handled
  /\ outbox # <<>>
  /\ stream' = stream \o EncodeMessage(Head(outbox))
  /\ written' = Append(written, Head(outbox))
  /\ outbox' = Tail(outbox)
  /\ UNCHANGED <<pathVars, clientVars, accepted, handled, registered, news>>

PathStep(d) == DaemonNext(d) /\ UNCHANGED <<clientVars, sessionVars>>

ClientStep == Connect \/ Write \/ Read \/ ReadFails

SessionStep == Accept \/ Handle \/ Flush

CallNext ==
  \/ ClientStep
  \/ SessionStep
  \/ \E d \in Daemons : Register(d) \/ PathStep(d)

\* The client runs on once it is connected, a daemon that listens gets to its
\* event loop or fails, and the event loop to its session (RequestsAnswered of
\* QmiServer).
CallSpec ==
  /\ CallInit /\ [][CallNext]_vars
  /\ WF_vars(Write \/ Read \/ ReadFails)
  /\ WF_vars(SessionStep)
  /\ WF_vars(\E d \in Daemons : AddFd(d) /\ UNCHANGED <<clientVars, sessionVars>>)

-----------------------------------------------------------------------------
TypeOK ==
  /\ PathTypeOK
  /\ request \in Message
  /\ call \in {"start", "connected", "sent", "printed", "failed"}
  /\ peer \in Daemons \union {NoDaemon}
  /\ accepted \in BOOLEAN
  /\ handled \in BOOLEAN
  /\ registered \in [Daemons -> BOOLEAN]
  /\ outbox \in Seq(Message)
  /\ packet \in Seq(Byte)
  /\ stream \in Seq(Byte)
  /\ written \in Seq(Message)
  /\ printed \subseteq Message
  /\ news \in BOOLEAN

\* A message comes through the codec as it was, and is found as the one frame
\* of its bytes, if and only if its payload's length fits in the length field;
\* then no part of its bytes is taken for a message either.  The lengths of the
\* TLVs never overflow before that one (codec.cpp encodeMessage, decodeMessage).
RoundTrip ==
  call = "connected" =>
    /\ Fits(request) <=> DecodeMessage(packet) = {AsSent(request)}
    /\ Fits(request) =>
         /\ Messages(packet) = <<AsSent(request)>>
         /\ \A n \in 0..(Len(packet) - 1) : DecodeMessage(SubSeq(packet, 1, n)) = {}

\* What the client prints is the first message that the daemon wrote, complete
\* and unchanged, wherever its only read() was cut.  It is the answer to the
\* request, or the indication of a registration that happened while the session
\* lived: then the answer was not first.  The flags tell the two apart; the
\* transaction id does not if the request carries 0 (qmi-client.cpp, session.cpp
\* onEvent).
PrintsAnswerOrNews ==
  call = "printed" =>
    /\ printed = {AsSent(written[1])}
    /\ Fits(request) =>
         \/ /\ written[1].header.flags = ResponseFlag
            /\ written[1].header.transactionId = request.header.transactionId
            /\ written[1].header.serviceId = request.header.serviceId
            /\ written[1].header.messageId = request.header.messageId
         \/ news /\ written[1] = Indication

\* A call that has connected ends, also when the daemon crashes, ends or fails to
\* start under it, if the request is one that can be framed and a daemon that
\* lives answers: there is no timeout.
CallEnds ==
  call = "connected" /\ Fits(request) ~> call \in {"printed", "failed"}
=============================================================================
