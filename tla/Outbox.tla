------------------------------- MODULE Outbox -------------------------------
(***************************************************************************)
(* transport::Outbox, the queue of outgoing chunks of one session          *)
(* (src/transport/outbox.cpp), with the handler that flushes it and the    *)
(* write() calls of the kernel.                                            *)
(*                                                                         *)
(* The bytes pushed are numbered 1, 2, 3, ... in the order of the pushes,  *)
(* and a byte stands for its number: a chunk is the interval               *)
(* start+1 .. start+size of the stream, of which the first `offset' bytes  *)
(* are written.                                                            *)
(***************************************************************************)
EXTENDS Naturals, Sequences

CONSTANTS
  Sizes,      \* the sizes a pushed span may have, zero included
  MaxBytes    \* bound: how many bytes a behaviour pushes

ASSUME SizesAssumption == Sizes \subseteq Nat
ASSUME MaxBytesAssumption == MaxBytes \in Nat

VARIABLES
  queue,      \* queue_: the chunks not completely written
  pc,         \* "idle", "flush" (inside flush), "closed" (it returned false and
              \* the session was removed)
  pushed,     \* history: number of bytes pushed
  wire        \* history: the bytes write() accepted, in order

vars == <<queue, pc, pushed, wire>>

Chunk == [start : Nat, size : Nat, offset : Nat]

Remaining(chunk) == chunk.size - chunk.offset

\* hasPendingOutput() of the sessions
Pending == queue # <<>>

Init ==
  /\ queue = <<>>
  /\ pc = "idle"
  /\ pushed = 0
  /\ wire = <<>>

-----------------------------------------------------------------------------
\* Faulty variants of Enqueue and Advance, each rejected by a property below:
\* push() without its test for an empty span, push() at the wrong end; flush()
\* popping a chunk on any write, dropping the offset, moving it the wrong way.
EnqueueEmptyToo(q, start, n) ==
  Append(q, [start |-> start, size |-> n, offset |-> 0])

EnqueueInFront(q, start, n) ==
  IF n = 0 THEN q ELSE <<[start |-> start, size |-> n, offset |-> 0]>> \o q

AdvancePopAlways(q, n) == Tail(q)

AdvanceForgetOffset(q, n) ==
  IF q[1].offset + n = q[1].size THEN Tail(q) ELSE q

AdvanceBackwards(q, n) ==
  IF q[1].offset + n = q[1].size
  THEN Tail(q)
  ELSE [q EXCEPT ![1] = [start |-> @.start, size |-> @.size, offset |-> @.offset - n]]
-----------------------------------------------------------------------------

\* The queue after push(): an empty span leaves it as it is.
Enqueue(q, start, n) ==
  IF n = 0
  THEN q
  ELSE Append(q, [start |-> start, size |-> n, offset |-> 0])

\* The queue after write() took n bytes of the front chunk: the offset moves,
\* and a chunk written to its end is popped.
Advance(q, n) ==
  IF q[1].offset + n = q[1].size
  THEN Tail(q)
  ELSE LET c == q[1]
       IN  [q EXCEPT ![1] = [start |-> c.start, size |-> c.size, offset |-> c.offset + n]]

\* The n bytes from position `from' on.
Bytes(from, n) == [i \in 1..n |-> from + i]

Push(n) ==
  /\ pc = "idle"
  /\ pushed + n =< MaxBytes
  /\ queue' = Enqueue(queue, pushed, n)
  /\ pushed' = pushed + n
  /\ UNCHANGED <<pc, wire>>

\* onWritable(): EPOLLOUT was reported, so flush() is called.
CallFlush ==
  /\ pc = "idle"
  /\ pc' = "flush"
  /\ UNCHANGED <<queue, pushed, wire>>

\* write() took n bytes; the loop goes on.  (An EINTR goes on as well and
\* changes nothing: it is a stuttering step.)
WriteSome(n) ==
  /\ pc = "flush"
  /\ Pending
  /\ n =< Remaining(Head(queue))
  /\ wire' = wire \o Bytes(Head(queue).start + Head(queue).offset, n)
  /\ queue' = Advance(queue, n)
  /\ UNCHANGED <<pc, pushed>>

\* EAGAIN or EWOULDBLOCK: return true, although the queue is not empty.
WriteWouldBlock ==
  /\ pc = "flush"
  /\ Pending
  /\ pc' = "idle"
  /\ UNCHANGED <<queue, pushed, wire>>

\* Any other outcome of write(), the 0 it returns when asked for 0 bytes
\* included: return false, on which the server removes the session.
WriteFails ==
  /\ pc = "flush"
  /\ Pending
  /\ pc' = "closed"
  /\ UNCHANGED <<queue, pushed, wire>>

\* The queue is empty: return true.
FlushDone ==
  /\ pc = "flush"
  /\ ~Pending
  /\ pc' = "idle"
  /\ UNCHANGED <<queue, pushed, wire>>

Next ==
  \/ \E n \in Sizes : Push(n)
  \/ CallFlush
  \/ \E n \in 1..MaxBytes : WriteSome(n)
  \/ WriteWouldBlock
  \/ WriteFails
  \/ FlushDone

Spec == Init /\ [][Next]_vars

(***************************************************************************)
(* Assumed of the owner: while the queue is not empty it keeps EPOLLOUT    *)
(* armed, so the loop calls flush() again.  (A session does this for what  *)
(* its own handler queues; module QmiServer shows where it does not.)      *)
(* epoll reports EPOLLOUT only when the kernel has room, so the first      *)
(* write() of a call finds some again and again, although any single write *)
(* may find none.                                                          *)
(***************************************************************************)
Fairness ==
  /\ WF_vars(Pending /\ CallFlush)
  /\ WF_vars(FlushDone)
  /\ SF_vars(\E n \in 1..MaxBytes : WriteSome(n))

FairSpec == Spec /\ Fairness

-----------------------------------------------------------------------------
TypeOK ==
  /\ queue \in Seq(Chunk)
  /\ pc \in {"idle", "flush", "closed"}
  /\ pushed \in Nat
  /\ wire \in Seq(Nat)

\* The receiver sees the bytes in the order of the pushes, none missing and
\* none twice, however write() cuts the chunks (outbox.cpp flush).
WireInOrder == \A i \in 1..Len(wire) : wire[i] = i

\* The queue holds exactly the bytes pushed and not yet written, in order: the
\* offset of the front chunk is where the wire ends, the chunks are adjacent
\* and only the front one is begun (outbox.cpp push and flush).
QueueIsRest ==
  /\ IF Pending
     THEN /\ queue[1].start + queue[1].offset = Len(wire)
          /\ queue[Len(queue)].start + queue[Len(queue)].size = pushed
     ELSE Len(wire) = pushed
  /\ \A i \in 1..Len(queue) : queue[i].start + queue[i].size =< pushed
  /\ \A i \in 1..(Len(queue) - 1) :
       /\ queue[i].start + queue[i].size = queue[i + 1].start
       /\ queue[i + 1].offset = 0

\* No queued chunk is used up, so flush() never asks write() for zero bytes: the
\* 0 it would return counts as an error and would close a healthy session.
NeverWritesNothing ==
  \A i \in 1..Len(queue) : queue[i].offset < queue[i].size

\* Every byte pushed is written in the end, unless the session is closed.
Drains ==
  \A k \in 1..MaxBytes :
    pushed >= k ~> (Len(wire) >= k \/ pc = "closed")

\* The outbox implements the byte stream: nothing that happens inside flush()
\* shows, save that the wire grows by the next bytes of the stream.
Stream == INSTANCE ByteStream WITH accepted <- pushed, open <- pc # "closed"

ImplementsByteStream == Stream!Spec
=============================================================================
