---------------------------- MODULE OutboxProofs ----------------------------
(***************************************************************************)
(* The byte-stream guarantees of transport::Outbox for every set of span   *)
(* sizes and every way the kernel cuts the writes.                         *)
(***************************************************************************)
EXTENDS Outbox, SequenceTheorems, TLAPS

\* The inductive invariant.  QueueIsRest places every chunk on the stream,
\* which is what makes the bytes of the next write() the next bytes of the
\* wire; NeverWritesNothing makes a chunk end exactly when it is popped.
IInv ==
  /\ TypeOK
  /\ WireInOrder
  /\ QueueIsRest
  /\ NeverWritesNothing

LEMMA InitIInv == Init => IInv
BY DEF Init, IInv, TypeOK, WireInOrder, QueueIsRest, NeverWritesNothing,
       Pending, Chunk

LEMMA StutterIInv == IInv /\ UNCHANGED vars => IInv'
BY DEF vars, IInv, TypeOK, WireInOrder, QueueIsRest, NeverWritesNothing, Pending

\* The fields of the chunks are numbers.
LEMMA ChunkFields ==
  ASSUME NEW q \in Seq(Chunk), NEW i \in 1..Len(q)
  PROVE  q[i].start \in Nat /\ q[i].size \in Nat /\ q[i].offset \in Nat
<1>1. q[i] \in Chunk
  OBVIOUS
<1> QED BY <1>1 DEF Chunk

\* push() keeps the chunks adjacent and ends them at the new count of bytes.
LEMMA PushIInv ==
  ASSUME IInv, NEW n \in Sizes, Push(n)
  PROVE  IInv'
<1> USE DEF IInv, Push
<1>1. n \in Nat
  BY SizesAssumption
<1>2. CASE n = 0
  <2>1. UNCHANGED vars
    BY <1>2 DEF vars, Enqueue, TypeOK
  <2> QED BY <2>1, StutterIInv
<1>3. CASE n # 0
  <2> DEFINE c == [start |-> pushed, size |-> n, offset |-> 0]
  <2>1. c \in Chunk /\ queue' = Append(queue, c)
    BY <1>1, <1>3 DEF Chunk, Enqueue, TypeOK
  <2>2. TypeOK'
    BY <1>1, <2>1 DEF TypeOK
  <2>3. /\ Len(queue') = Len(queue) + 1
        /\ \A i \in 1..Len(queue) : queue'[i] = queue[i]
        /\ queue'[Len(queue) + 1] = c
        /\ queue' # <<>>
    BY <2>1 DEF TypeOK
  <2>4. WireInOrder'
    BY DEF WireInOrder
  <2>5. NeverWritesNothing'
    <3>1. ASSUME NEW i \in 1..Len(queue')
          PROVE  queue'[i].offset < queue'[i].size
      <4>1. CASE i \in 1..Len(queue)
        <5>1. queue[i].offset < queue[i].size /\ queue'[i] = queue[i]
          BY <2>3, <4>1 DEF NeverWritesNothing
        <5> QED BY <5>1
      <4>2. CASE i = Len(queue) + 1
        <5>1. queue'[i] = c /\ c.offset = 0 /\ c.size = n
          BY <2>3, <4>2
        <5>2. 0 < n
          BY <1>1, <1>3
        <5> QED BY <5>1, <5>2
      <4>3. Len(queue) \in Nat
        BY DEF TypeOK
      <4> QED BY <2>3, <4>1, <4>2, <4>3
    <3> QED BY <3>1 DEF NeverWritesNothing
  <2>6. QueueIsRest'
    <3>0. /\ Len(queue) \in Nat /\ Len(queue') = Len(queue) + 1
          /\ pushed \in Nat /\ pushed' = pushed + n /\ wire' = wire
          /\ queue = <<>> <=> Len(queue) = 0
      BY <2>3 DEF TypeOK
    <3>1. c.start = pushed /\ c.size = n /\ c.offset = 0
      OBVIOUS
    <3>2. CASE queue = <<>>
      BY <1>1, <2>3, <3>0, <3>1, <3>2 DEF QueueIsRest, Pending
    <3>3. CASE queue # <<>>
      <4>1. Len(queue) \in Nat \ {0}
        BY <3>0, <3>3
      <4>2. queue'[1].start + queue'[1].offset = Len(wire')
        BY <2>3, <3>0, <3>3, <4>1 DEF QueueIsRest, Pending
      <4>3. queue'[Len(queue')].start + queue'[Len(queue')].size = pushed'
        BY <1>1, <2>3, <3>0, <3>1
      <4>4. ASSUME NEW i \in 1..Len(queue')
            PROVE  queue'[i].start + queue'[i].size =< pushed'
        <5>1. CASE i = Len(queue')
          BY <1>1, <3>0, <4>3, <5>1
        <5>2. CASE i # Len(queue')
          <6>1. i \in 1..Len(queue)
            BY <3>0, <5>2
          <6>2. queue[i].start + queue[i].size =< pushed
            BY <6>1 DEF QueueIsRest
          <6>3. queue[i].start \in Nat /\ queue[i].size \in Nat
            BY <6>1, ChunkFields DEF TypeOK
          <6>4. queue'[i] = queue[i]
            BY <2>3, <6>1
          <6>5. queue[i].start + queue[i].size =< pushed + n
            BY <1>1, <3>0, <6>2, <6>3
          <6> QED BY <3>0, <6>4, <6>5
        <5> QED BY <5>1, <5>2
      <4>5. ASSUME NEW i \in 1..(Len(queue') - 1)
            PROVE  /\ queue'[i].start + queue'[i].size = queue'[i + 1].start
                   /\ queue'[i + 1].offset = 0
        <5>1. i \in 1..Len(queue) /\ queue'[i] = queue[i]
          BY <2>3, <3>0
        <5>2. CASE i = Len(queue)
          BY <2>3, <3>1, <3>3, <5>1, <5>2 DEF QueueIsRest, Pending
        <5>3. CASE i # Len(queue)
          <6>1. i \in 1..(Len(queue) - 1) /\ i + 1 \in 1..Len(queue)
            BY <3>0, <5>1, <5>3
          <6> QED BY <2>3, <5>1, <6>1 DEF QueueIsRest
        <5> QED BY <5>2, <5>3
      <4> QED BY <2>3, <4>2, <4>3, <4>4, <4>5 DEF QueueIsRest, Pending
    <3> QED BY <3>2, <3>3
  <2> QED BY <2>2, <2>4, <2>5, <2>6
<1> QED BY <1>2, <1>3

\* The front chunk, and where it lies on the stream.
LEMMA FrontChunk ==
  ASSUME IInv, Pending
  PROVE  /\ Len(queue) \in Nat \ {0}
         /\ Head(queue) = queue[1]
         /\ queue[1].start \in Nat
         /\ queue[1].size \in Nat
         /\ queue[1].offset \in Nat
         /\ queue[1].start + queue[1].offset = Len(wire)
         /\ queue[1].start + queue[1].size =< pushed
         /\ queue[Len(queue)].start + queue[Len(queue)].size = pushed
         /\ pushed \in Nat /\ Len(wire) \in Nat /\ wire \in Seq(Nat)
<1>1. queue \in Seq(Chunk) /\ queue # <<>> /\ pushed \in Nat /\ wire \in Seq(Nat)
  BY DEF IInv, TypeOK, Pending
<1>2. Len(queue) \in Nat \ {0} /\ Head(queue) = queue[1] /\ Len(wire) \in Nat
  BY <1>1
<1>3. 1 \in 1..Len(queue)
  BY <1>2
<1>4. queue[1].start \in Nat /\ queue[1].size \in Nat /\ queue[1].offset \in Nat
  BY <1>1, <1>3, ChunkFields
<1>5. queue[1].start + queue[1].size =< pushed
  BY <1>3 DEF IInv, QueueIsRest
<1> QED BY <1>1, <1>2, <1>4, <1>5 DEF IInv, QueueIsRest

LEMMA FrontArith ==
  ASSUME NEW start \in Nat, NEW size \in Nat, NEW offset \in Nat,
         NEW written \in Nat, NEW total \in Nat, NEW n \in Nat,
         start + offset = written, start + size =< total, n =< size - offset
  PROVE  offset + n =< size /\ written + n =< total
OBVIOUS

\* One write(): the bytes taken are the next ones of the stream.
LEMMA WriteSomeWire ==
  ASSUME IInv, NEW n \in 1..MaxBytes, WriteSome(n)
  PROVE  /\ n \in Nat \ {0}
         /\ queue[1].offset + n =< queue[1].size
         /\ Len(wire) \in Nat
         /\ Len(wire) + n =< pushed
         /\ wire' = wire \o [i \in 1..n |-> Len(wire) + i]
         /\ wire' \in Seq(Nat)
         /\ Len(wire') = Len(wire) + n
         /\ WireInOrder'
<1>0. Pending
  BY DEF WriteSome
<1>1. n \in Nat \ {0}
  BY MaxBytesAssumption
<1>8. /\ queue[1].start \in Nat /\ queue[1].size \in Nat /\ queue[1].offset \in Nat
      /\ queue[1].start + queue[1].offset = Len(wire)
      /\ queue[1].start + queue[1].size =< pushed
      /\ pushed \in Nat /\ Len(wire) \in Nat
  BY <1>0, FrontChunk
<1>2. n =< queue[1].size - queue[1].offset
  BY <1>0, FrontChunk DEF WriteSome, Remaining
<1>3. queue[1].offset + n =< queue[1].size /\ Len(wire) + n =< pushed
  <2> DEFINE start == queue[1].start
             size == queue[1].size
             offset == queue[1].offset
             written == Len(wire)
  <2>1. /\ start \in Nat /\ size \in Nat /\ offset \in Nat
        /\ written \in Nat /\ pushed \in Nat /\ n \in Nat
        /\ start + offset = written /\ start + size =< pushed /\ n =< size - offset
    BY <1>1, <1>2, <1>8
  <2> HIDE DEF start, size, offset, written
  <2>2. offset + n =< size /\ written + n =< pushed
    BY <2>1, FrontArith
  <2> QED BY <2>2 DEF size, offset, written
<1>4. wire' = wire \o [i \in 1..n |-> Len(wire) + i]
  BY <1>0, FrontChunk DEF WriteSome, Bytes
<1> DEFINE t == [i \in 1..n |-> Len(wire) + i]
<1>12. wire \in Seq(Nat) /\ Len(wire) \in Nat
  BY <1>0, FrontChunk
<1>5. wire \in Seq(Nat) /\ t \in Seq(Nat) /\ Len(t) = n /\ Len(wire) \in Nat
  BY <1>1, <1>12
<1> HIDE DEF t
<1>9. wire' = wire \o t
  BY <1>4 DEF t
<1>10. /\ wire' \in Seq(Nat)
       /\ Len(wire') = Len(wire) + n
       /\ \A i \in 1..(Len(wire) + n) :
            wire'[i] = IF i =< Len(wire) THEN wire[i] ELSE t[i - Len(wire)]
  BY <1>5, <1>9, ConcatProperties
<1>11. ASSUME NEW i \in 1..(Len(wire) + n), ~(i =< Len(wire))
       PROVE  t[i - Len(wire)] = i
  <2>1. i - Len(wire) \in 1..n
    BY <1>1, <1>5, <1>11
  <2>2. t[i - Len(wire)] = Len(wire) + (i - Len(wire))
    BY <2>1 DEF t
  <2> QED BY <1>5, <2>2
<1>6. /\ wire' \in Seq(Nat)
      /\ Len(wire') = Len(wire) + n
      /\ \A i \in 1..Len(wire') : wire'[i] = IF i =< Len(wire) THEN wire[i] ELSE i
  BY <1>10, <1>11
<1>7. WireInOrder'
  <2>1. \A i \in 1..Len(wire) : wire[i] = i
    BY DEF IInv, WireInOrder
  <2>2. ASSUME NEW i \in 1..Len(wire') PROVE wire'[i] = i
    <3>1. wire'[i] = IF i =< Len(wire) THEN wire[i] ELSE i
      BY <1>6
    <3>2. i =< Len(wire) => i \in 1..Len(wire)
      BY <1>1, <1>5, <1>6
    <3> QED BY <2>1, <3>1, <3>2
  <2> QED BY <2>2 DEF WireInOrder
<1> QED BY <1>1, <1>3, <1>4, <1>5, <1>6, <1>7

\* A write() that ends the front chunk pops it, and the next one is not begun.
LEMMA WriteSomePops ==
  ASSUME IInv, NEW n \in 1..MaxBytes, WriteSome(n),
         queue[1].offset + n = queue[1].size
  PROVE  queue' \in Seq(Chunk) /\ NeverWritesNothing' /\ QueueIsRest'
<1>0. Pending /\ pushed' = pushed
  BY DEF WriteSome
<1>1. queue' = Tail(queue)
  BY DEF WriteSome, Advance
<1>2. queue \in Seq(Chunk) /\ queue # <<>>
  BY <1>0 DEF IInv, TypeOK, Pending
<1>3. /\ queue' \in Seq(Chunk)
      /\ Len(queue) \in Nat \ {0}
      /\ Len(queue') = Len(queue) - 1
      /\ \A i \in 1..Len(queue') : queue'[i] = queue[i + 1]
      /\ (queue' = <<>> <=> Len(queue') = 0)
  <2>1. queue' \in Seq(Chunk) /\ Len(queue') = Len(queue) - 1
    BY <1>1, <1>2, HeadTailProperties
  <2>2. \A i \in 1..Len(queue') : queue'[i] = queue[i + 1]
    BY <1>1, <1>2, HeadTailProperties
  <2>3. Len(queue) \in Nat \ {0}
    BY <1>0, FrontChunk
  <2>4. queue' = <<>> <=> Len(queue') = 0
    BY <2>1, EmptySeq
  <2> QED BY <2>1, <2>2, <2>3, <2>4
<1>4. \A i \in 1..Len(queue') : i + 1 \in 1..Len(queue)
  BY <1>3
<1>5. NeverWritesNothing'
  BY <1>3, <1>4 DEF IInv, NeverWritesNothing
<1>6. /\ queue[1].start + queue[1].size = Len(wire')
      /\ Len(wire') \in Nat /\ pushed \in Nat
  <2>1. /\ queue[1].start \in Nat /\ queue[1].size \in Nat /\ queue[1].offset \in Nat
        /\ queue[1].start + queue[1].offset = Len(wire)
        /\ Len(wire) \in Nat /\ pushed \in Nat
    BY <1>0, FrontChunk
  <2>2. n \in Nat /\ Len(wire') = Len(wire) + n
    BY WriteSomeWire
  <2> DEFINE start == queue[1].start
             size == queue[1].size
             offset == queue[1].offset
             written == Len(wire)
             after == Len(wire')
  <2>3. /\ start \in Nat /\ offset \in Nat /\ n \in Nat /\ offset + n = size
        /\ start + offset = written /\ after = written + n
    BY <2>1, <2>2
  <2>4. pushed \in Nat
    BY <2>1
  <2> HIDE DEF start, size, offset, written, after
  <2>5. start + size = after /\ after \in Nat
    BY <2>3
  <2> QED BY <2>4, <2>5 DEF start, size, after
<1>7. \A i \in 1..Len(queue') : queue'[i].start + queue'[i].size =< pushed'
  BY <1>0, <1>3, <1>4 DEF IInv, QueueIsRest
<1>8. ASSUME NEW i \in 1..(Len(queue') - 1)
      PROVE  /\ queue'[i].start + queue'[i].size = queue'[i + 1].start
             /\ queue'[i + 1].offset = 0
  <2>1. i \in 1..Len(queue') /\ i + 1 \in 1..Len(queue') /\ i + 1 \in 1..(Len(queue) - 1)
    BY <1>3
  <2>2. queue'[i] = queue[i + 1] /\ queue'[i + 1] = queue[(i + 1) + 1]
    BY <1>3, <2>1
  <2> QED BY <2>1, <2>2 DEF IInv, QueueIsRest
<1>9. CASE Len(queue) = 1
  <2>1. queue' = <<>>
    BY <1>3, <1>9
  <2>2. Len(wire') = pushed'
    BY <1>0, <1>6, <1>9, FrontChunk
  <2> QED BY <1>3, <1>5, <1>7, <1>8, <2>1, <2>2 DEF QueueIsRest, Pending
<1>10. CASE Len(queue) # 1
  <2>1. 1 \in 1..(Len(queue) - 1) /\ 1 \in 1..Len(queue') /\ Len(queue') \in 1..Len(queue')
    BY <1>3, <1>10
  <2>2. queue[1].start + queue[1].size = queue[2].start /\ queue[2].offset = 0
    BY <2>1 DEF IInv, QueueIsRest
  <2>3. queue'[1] = queue[2] /\ queue'[Len(queue')] = queue[Len(queue)]
    BY <1>3, <2>1
  <2>4. queue'[1].start + queue'[1].offset = Len(wire')
    BY <1>6, <2>2, <2>3
  <2>5. queue'[Len(queue')].start + queue'[Len(queue')].size = pushed'
    BY <1>0, <2>3, FrontChunk
  <2> QED BY <1>3, <1>5, <1>7, <1>8, <2>1, <2>4, <2>5 DEF QueueIsRest, Pending
<1> QED BY <1>9, <1>10

\* A write() that leaves part of the front chunk moves its offset only.
LEMMA WriteSomeAdvances ==
  ASSUME IInv, NEW n \in 1..MaxBytes, WriteSome(n),
         queue[1].offset + n # queue[1].size
  PROVE  queue' \in Seq(Chunk) /\ NeverWritesNothing' /\ QueueIsRest'
<1> DEFINE c == [start |-> queue[1].start, size |-> queue[1].size,
                 offset |-> queue[1].offset + n]
<1>0. Pending /\ pushed' = pushed
  BY DEF WriteSome
<1>1. queue \in Seq(Chunk) /\ Len(queue) \in Nat \ {0}
  BY <1>0, FrontChunk DEF IInv, TypeOK
<1>2. c \in Chunk /\ c.start = queue[1].start /\ c.size = queue[1].size
      /\ c.offset = queue[1].offset + n
  <2>1. queue[1].start \in Nat /\ queue[1].size \in Nat /\ queue[1].offset \in Nat
    BY <1>0, FrontChunk
  <2>2. queue[1].offset + n \in Nat
    BY <2>1, MaxBytesAssumption
  <2> QED BY <2>1, <2>2 DEF Chunk
<1>3. queue' = [queue EXCEPT ![1] = c]
  BY DEF WriteSome, Advance
<1> HIDE DEF c
<1>4. /\ queue' \in Seq(Chunk)
      /\ Len(queue') = Len(queue)
      /\ \A i \in 1..Len(queue) : queue'[i] = IF i = 1 THEN c ELSE queue[i]
  BY <1>1, <1>2, <1>3, ExceptSeq
<1>5. \A i \in 1..Len(queue) :
        /\ queue'[i].start = queue[i].start /\ queue'[i].size = queue[i].size
        /\ i # 1 => queue'[i].offset = queue[i].offset
  BY <1>2, <1>4
<1>6. 1 \in 1..Len(queue) /\ Len(queue) \in 1..Len(queue)
      /\ queue'[1] = c
  BY <1>1, <1>4
<1>7. queue[1].offset + n < queue[1].size
  <2>1. queue[1].size \in Nat /\ queue[1].offset \in Nat
    BY <1>0, FrontChunk
  <2>2. n \in Nat /\ queue[1].offset + n =< queue[1].size
    BY WriteSomeWire
  <2>3. queue[1].offset + n # queue[1].size
    OBVIOUS
  <2> DEFINE offset == queue[1].offset
             size == queue[1].size
  <2>4. offset \in Nat /\ size \in Nat /\ offset + n =< size /\ offset + n # size
    BY <2>1, <2>2, <2>3
  <2> HIDE DEF offset, size
  <2>5. offset + n < size
    BY <2>2, <2>4
  <2> QED BY <2>5 DEF offset, size
<1>8. NeverWritesNothing'
  BY <1>2, <1>4, <1>6, <1>7 DEF IInv, NeverWritesNothing
<1>9. queue'[1].start + queue'[1].offset = Len(wire')
  <2>1. /\ queue[1].start \in Nat /\ queue[1].offset \in Nat
        /\ queue[1].start + queue[1].offset = Len(wire) /\ Len(wire) \in Nat
    BY <1>0, FrontChunk
  <2>2. n \in Nat /\ Len(wire') = Len(wire) + n
    BY WriteSomeWire
  <2>3. queue'[1].start = queue[1].start /\ queue'[1].offset = queue[1].offset + n
    BY <1>2, <1>6
  <2> DEFINE start == queue'[1].start
             offset == queue[1].offset
             moved == queue'[1].offset
             written == Len(wire)
             after == Len(wire')
  <2>4. /\ start \in Nat /\ offset \in Nat /\ n \in Nat /\ moved = offset + n
        /\ start + offset = written /\ after = written + n
    BY <2>1, <2>2, <2>3
  <2> HIDE DEF start, offset, moved, written, after
  <2>5. start + moved = after
    BY <2>4
  <2> QED BY <2>5 DEF start, moved, after
<1>10. queue'[Len(queue')].start + queue'[Len(queue')].size = pushed'
  BY <1>0, <1>4, <1>5, <1>6, FrontChunk
<1>11. \A i \in 1..Len(queue') : queue'[i].start + queue'[i].size =< pushed'
  BY <1>0, <1>4, <1>5 DEF IInv, QueueIsRest
<1>12. ASSUME NEW i \in 1..(Len(queue') - 1)
       PROVE  /\ queue'[i].start + queue'[i].size = queue'[i + 1].start
              /\ queue'[i + 1].offset = 0
  <2>1. /\ i \in 1..Len(queue) /\ i + 1 \in 1..Len(queue)
        /\ i \in 1..(Len(queue) - 1) /\ i + 1 # 1
    BY <1>1, <1>4
  <2> QED BY <1>5, <2>1 DEF IInv, QueueIsRest
<1>13. queue' # <<>>
  BY <1>1, <1>4
<1> QED BY <1>4, <1>8, <1>9, <1>10, <1>11, <1>12, <1>13 DEF QueueIsRest, Pending

LEMMA WriteSomeIInv ==
  ASSUME IInv, NEW n \in 1..MaxBytes, WriteSome(n)
  PROVE  IInv'
<1>1. queue' \in Seq(Chunk) /\ NeverWritesNothing' /\ QueueIsRest'
  BY WriteSomePops, WriteSomeAdvances
<1>2. wire' \in Seq(Nat) /\ WireInOrder'
  BY WriteSomeWire
<1>3. TypeOK'
  BY <1>1, <1>2 DEF IInv, TypeOK, WriteSome
<1> QED BY <1>1, <1>2, <1>3 DEF IInv

\* The steps of flush() that write nothing leave the stream alone.
LEMMA OtherIInv ==
  ASSUME IInv, CallFlush \/ WriteWouldBlock \/ WriteFails \/ FlushDone
  PROVE  IInv'
<1>1. UNCHANGED <<queue, pushed, wire>>
  BY DEF CallFlush, WriteWouldBlock, WriteFails, FlushDone
<1>2. pc' \in {"idle", "flush", "closed"}
  BY DEF CallFlush, WriteWouldBlock, WriteFails, FlushDone
<1> QED
  BY <1>1, <1>2
  DEF IInv, TypeOK, WireInOrder, QueueIsRest, NeverWritesNothing, Pending

\* The inductive invariant holds in every reachable state.
THEOREM Inductive == Spec => []IInv
<1>1. IInv /\ [Next]_vars => IInv'
  <2> SUFFICES ASSUME IInv, [Next]_vars PROVE IInv'
    OBVIOUS
  <2>1. ASSUME NEW n \in Sizes, Push(n) PROVE IInv'
    BY <2>1, PushIInv
  <2>2. ASSUME NEW n \in 1..MaxBytes, WriteSome(n) PROVE IInv'
    BY <2>2, WriteSomeIInv
  <2>3. CASE CallFlush \/ WriteWouldBlock \/ WriteFails \/ FlushDone
    BY <2>3, OtherIInv
  <2>4. CASE UNCHANGED vars
    BY <2>4, StutterIInv
  <2> QED BY <2>1, <2>2, <2>3, <2>4 DEF Next
<1> QED BY InitIInv, <1>1, PTL DEF Spec

\* The type invariant of the outbox, for any sizes of chunks and writes
\* (outbox.cpp).
THEOREM TypesAreKept == Spec => []TypeOK
BY Inductive, PTL DEF IInv

\* The receiver sees the bytes in push order, none missing and none twice,
\* for every way the spans are sized and the writes are cut.
THEOREM WireIsOrdered == Spec => []WireInOrder
BY Inductive, PTL DEF IInv

\* What is queued is exactly what was pushed and not yet written.
THEOREM QueueIsExact == Spec => []QueueIsRest
BY Inductive, PTL DEF IInv

\* flush() never asks the kernel for a write of zero bytes.
THEOREM WritesSomething == Spec => []NeverWritesNothing
BY Inductive, PTL DEF IInv

-----------------------------------------------------------------------------
\* The outbox implements the abstract byte stream.
THEOREM Refinement == Spec => ImplementsByteStream
<1>1. Init => Stream!Init
  BY DEF Init, Stream!Init
<1>2. IInv /\ [Next]_vars => [Stream!Next]_(Stream!vars)
  <2> SUFFICES ASSUME IInv, [Next]_vars PROVE [Stream!Next]_(Stream!vars)
    OBVIOUS
  <2> USE DEF Stream!Next, Stream!vars
  <2>1. ASSUME NEW n \in Sizes, Push(n) PROVE Stream!Accept \/ UNCHANGED Stream!vars
    <3>1. n \in Nat /\ pushed \in Nat
      BY SizesAssumption DEF IInv, TypeOK
    <3> QED BY <2>1, <3>1 DEF Push, Stream!Accept
  <2>2. ASSUME NEW n \in 1..MaxBytes, WriteSome(n) PROVE Stream!Transmit
    <3>1. /\ n \in Nat \ {0}
          /\ Len(wire) + n =< pushed
          /\ wire' = wire \o [i \in 1..n |-> Len(wire) + i]
          /\ Len(wire) \in Nat
          /\ Len(wire') = Len(wire) + n
      BY <2>2, WriteSomeWire
    <3> QED BY <2>2, <3>1 DEF WriteSome, Stream!Transmit
  <2>3. CASE CallFlush \/ WriteWouldBlock \/ FlushDone
    BY <2>3 DEF CallFlush, WriteWouldBlock, FlushDone
  <2>4. CASE WriteFails
    BY <2>4 DEF WriteFails, Stream!GiveUp
  <2>5. CASE UNCHANGED vars
    BY <2>5 DEF vars
  <2> QED BY <2>1, <2>2, <2>3, <2>4, <2>5 DEF Next
<1> QED BY <1>1, <1>2, Inductive, PTL DEF Spec, ImplementsByteStream, Stream!Spec
=============================================================================
