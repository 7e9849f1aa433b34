---------------------------- MODULE FrameParser -----------------------------
(***************************************************************************)
(* qmi::FrameParser with the read loop of qmi::Session that drives it      *)
(* (src/qmi/frame_parser.cpp, session.cpp): bytes arrive in pieces of any  *)
(* size, and next() cuts them into frames by the length in each header.    *)
(*                                                                         *)
(* The bytes a client sends are numbered from 0 and a byte stands for its  *)
(* number: the buffer is the interval start..received-1.  What the bytes   *)
(* say is given by two functions of the position at which a header is      *)
(* read: the payload length, and whether decodeMessage() accepts a frame   *)
(* of that length there.  Any pair of functions is a stream some client    *)
(* may send.                                                               *)
(***************************************************************************)
EXTENDS Integers, Sequences

CONSTANTS
  HeaderSize,   \* 10 in the code
  MaxPayload,   \* 2^16 - 1 in the code: the length field has 16 bits
  MaxBytes      \* bound: bytes a behaviour sends

ASSUME HeaderSizeAssumption == HeaderSize \in Nat \ {0}
ASSUME MaxPayloadAssumption == MaxPayload \in Nat
ASSUME MaxBytesAssumption == MaxBytes \in Nat

VARIABLES
  payload,    \* position -> the payload length a header there gives
  decodes,    \* position -> decodeMessage() accepts the frame there
  pc,         \* "read": in read(); "parse": in the loop around next()
  received,   \* number of bytes read() returned
  start,      \* position of the first byte of buffer_
  messages,   \* history: where the messages returned by next() began
  broken      \* history: a frame did not decode

vars == <<payload, decodes, pc, received, start, messages, broken>>
content == <<payload, decodes>>

Positions == 0..MaxBytes

Init ==
  /\ payload \in [Positions -> 0..MaxPayload]
  /\ decodes \in [Positions -> BOOLEAN]
  /\ pc = "read"
  /\ received = 0
  /\ start = 0
  /\ messages = <<>>
  /\ broken = FALSE

-----------------------------------------------------------------------------
\* Faulty variants, each rejected by a property below: everything erased with a
\* frame, or its payload only; a bad frame left in the buffer; a frame taken as
\* complete once its payload would fit.
AfterFrameCleared == received

AfterFrameKeepsHeader == start + payload[start]

AfterBadKept == start

CompleteTooEarly(p, end) ==
  /\ end - p >= HeaderSize
  /\ end >= p + payload[p]
-----------------------------------------------------------------------------

\* Where the frame that begins at p ends.
FrameEnd(p) == p + HeaderSize + payload[p]

\* The bytes from p to `end' hold the header of a frame, and all of it.
Complete(p, end) ==
  /\ end - p >= HeaderSize
  /\ end >= FrameEnd(p)

\* After a frame that decodes: erase() of its bytes.
AfterFrame == FrameEnd(start)

\* After a frame that does not decode: buffer_.clear().
AfterBad == received

\* read() returns n bytes, which push() appends to the buffer.
Push(n) ==
  /\ pc = "read"
  /\ received + n =< MaxBytes
  /\ received' = received + n
  /\ pc' = "parse"
  /\ UNCHANGED <<content, start, messages, broken>>

\* next() returns the frame at the front of the buffer and erases it.
NextFrame ==
  /\ pc = "parse"
  /\ Complete(start, received)
  /\ decodes[start]
  /\ messages' = Append(messages, start)
  /\ start' = AfterFrame
  /\ UNCHANGED <<content, pc, received, broken>>

\* next() finds a frame that does not decode: it clears the buffer and returns
\* nothing, which ends the loop.
NextBad ==
  /\ pc = "parse"
  /\ Complete(start, received)
  /\ ~decodes[start]
  /\ start' = AfterBad
  /\ broken' = TRUE
  /\ pc' = "read"
  /\ UNCHANGED <<content, received, messages>>

\* next() finds no complete frame.
NextNone ==
  /\ pc = "parse"
  /\ ~Complete(start, received)
  /\ pc' = "read"
  /\ UNCHANGED <<content, received, start, messages, broken>>

Next ==
  \/ \E n \in 1..MaxBytes : Push(n)
  \/ NextFrame
  \/ NextBad
  \/ NextNone

Spec == Init /\ [][Next]_vars

-----------------------------------------------------------------------------
TypeOK ==
  /\ payload \in [Positions -> 0..MaxPayload]
  /\ decodes \in [Positions -> BOOLEAN]
  /\ pc \in {"read", "parse"}
  /\ received \in Positions
  /\ start \in Positions
  /\ messages \in Seq(Positions)
  /\ broken \in BOOLEAN

\* Until a frame does not decode, the messages are the frames the client sent,
\* however read() cuts the stream: the first begins at the first byte, each
\* begins where the one before ends, none is left out or found twice, and the
\* buffer begins where the last one ends (frame_parser.cpp next).
InStep ==
  ~broken =>
    LET begins == Append(messages, start)
    IN  /\ begins[1] = 0
        /\ \A i \in 1..Len(messages) : begins[i + 1] = FrameEnd(begins[i])

\* Also after a bad frame a byte belongs to one message at most, and only to
\* one that was received completely.
NoByteTwice ==
  /\ \A i \in 1..Len(messages) : FrameEnd(messages[i]) =< start
  /\ \A i, j \in 1..Len(messages) : i < j => FrameEnd(messages[i]) =< messages[j]
  /\ start =< received

\* When the session goes back to read(), no complete frame waits in the buffer:
\* a request is never answered only when the next one comes, a bad frame is not
\* looked at again, and the buffer is smaller than the largest frame.
NothingComplete ==
  pc = "read" =>
    /\ ~Complete(start, received)
    /\ received - start < HeaderSize + MaxPayload
=============================================================================
