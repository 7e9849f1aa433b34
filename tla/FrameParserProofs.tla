------------------------- MODULE FrameParserProofs --------------------------
(***************************************************************************)
(* The framing guarantees of qmi::FrameParser for every stream of bytes,   *)
(* every header size and payload limit and every way read() cuts it.       *)
(***************************************************************************)
EXTENDS FrameParser, SequenceTheorems, TLAPS

\* The inductive invariant: the properties together.  InStep places `start' at
\* a boundary of the sender's frames, NoByteTwice keeps it within the buffer.
IInv ==
  /\ TypeOK
  /\ InStep
  /\ NoByteTwice
  /\ NothingComplete

LEMMA InitIInv == Init => IInv
<1> SUFFICES ASSUME Init PROVE IInv
  OBVIOUS
<1>1. TypeOK
  BY MaxBytesAssumption DEF Init, TypeOK, Positions
<1>2. InStep
  <2>1. Append(messages, start) = <<0>> /\ Len(messages) = 0
    BY DEF Init
  <2> QED BY <2>1 DEF InStep
<1>3. NoByteTwice
  BY DEF Init, NoByteTwice
<1>4. NothingComplete
  BY HeaderSizeAssumption, MaxPayloadAssumption DEF Init, NothingComplete, Complete
<1> QED BY <1>1, <1>2, <1>3, <1>4 DEF IInv

LEMMA StutterIInv == IInv /\ UNCHANGED vars => IInv'
BY DEF vars, content, IInv, TypeOK, InStep, NoByteTwice, NothingComplete, Complete, FrameEnd

\* Where a frame ends is a number past its header.
LEMMA FrameEnds ==
  ASSUME TypeOK, NEW p \in Positions
  PROVE  /\ FrameEnd(p) \in Nat
         /\ p + HeaderSize =< FrameEnd(p)
         /\ FrameEnd(p) =< p + HeaderSize + MaxPayload
<1>1. p \in Nat /\ HeaderSize \in Nat /\ MaxPayload \in Nat
  BY HeaderSizeAssumption, MaxPayloadAssumption, MaxBytesAssumption DEF Positions
<1>2. payload[p] \in 0..MaxPayload
  BY DEF TypeOK
<1>3. payload[p] \in Nat /\ payload[p] =< MaxPayload
  BY <1>1, <1>2
<1> QED BY <1>1, <1>3 DEF FrameEnd

\* A step that changes neither the stream nor the front of the buffer.
LEMMA FrameSteps ==
  ASSUME IInv, UNCHANGED <<content, start, messages, broken>>,
         received' \in Positions, received =< received'
  PROVE  InStep' /\ NoByteTwice'
<1>1. payload' = payload
  BY DEF content
<1>2. InStep'
  BY <1>1 DEF IInv, InStep, FrameEnd
<1>3. start =< received'
  BY MaxBytesAssumption DEF IInv, TypeOK, NoByteTwice, Positions
<1>4. NoByteTwice'
  BY <1>1, <1>3 DEF IInv, NoByteTwice, FrameEnd
<1> QED BY <1>2, <1>4

LEMMA PushIInv == ASSUME IInv, NEW n \in 1..MaxBytes, Push(n) PROVE IInv'
<1>1. received' \in Positions /\ received =< received'
  BY MaxBytesAssumption DEF IInv, Push, TypeOK, Positions
<1>2. InStep' /\ NoByteTwice'
  BY <1>1, FrameSteps DEF Push
<1>3. TypeOK'
  BY <1>1 DEF IInv, Push, TypeOK, content
<1>4. NothingComplete'
  BY DEF Push, NothingComplete
<1> QED BY <1>2, <1>3, <1>4 DEF IInv

LEMMA NextNoneIInv == ASSUME IInv, NextNone PROVE IInv'
<1>1. received' = received /\ received \in Positions /\ start \in Positions
  BY DEF IInv, TypeOK, NextNone
<1>2. InStep' /\ NoByteTwice'
  BY <1>1, FrameSteps, MaxBytesAssumption DEF NextNone, Positions
<1>3. TypeOK'
  BY DEF IInv, NextNone, TypeOK, content
<1>4. received - start < HeaderSize + MaxPayload
  <2>1. FrameEnd(start) \in Nat /\ FrameEnd(start) =< start + HeaderSize + MaxPayload
    BY <1>1, FrameEnds DEF IInv
  <2> DEFINE end == FrameEnd(start)
  <2>2. received - start < HeaderSize \/ received < end
    BY <1>1, <2>1, HeaderSizeAssumption, MaxBytesAssumption DEF NextNone, Complete, Positions
  <2>3. received \in Nat /\ start \in Nat /\ HeaderSize \in Nat /\ MaxPayload \in Nat
    BY <1>1, HeaderSizeAssumption, MaxPayloadAssumption, MaxBytesAssumption DEF Positions
  <2> HIDE DEF end
  <2>4. end \in Nat /\ end =< start + HeaderSize + MaxPayload
    BY <2>1 DEF end
  <2> QED BY <2>2, <2>3, <2>4
<1>5. ~Complete(start, received)' /\ start' = start
  BY DEF NextNone, Complete, FrameEnd, content
<1>6. NothingComplete'
  BY <1>1, <1>4, <1>5 DEF NothingComplete
<1> QED BY <1>2, <1>3, <1>6 DEF IInv

LEMMA NextBadIInv == ASSUME IInv, NextBad PROVE IInv'
<1>1. start' = received /\ received' = received /\ messages' = messages /\ payload' = payload
  BY DEF NextBad, AfterBad, content
<1>2. TypeOK'
  BY <1>1 DEF IInv, NextBad, TypeOK, content
<1>3. InStep'
  BY DEF NextBad, InStep
<1>4. received \in Nat /\ start \in Nat
  BY MaxBytesAssumption DEF IInv, TypeOK, Positions
<1>5. NoByteTwice'
  <2>1. ASSUME NEW i \in 1..Len(messages) PROVE FrameEnd(messages[i]) =< received
    <3>1. messages[i] \in Positions
      BY DEF IInv, TypeOK
    <3>2. FrameEnd(messages[i]) \in Nat
      BY <3>1, FrameEnds DEF IInv
    <3>3. FrameEnd(messages[i]) =< start /\ start =< received
      BY DEF IInv, NoByteTwice
    <3> QED BY <1>4, <3>2, <3>3
  <2>2. \A i, j \in 1..Len(messages) : i < j => FrameEnd(messages[i]) =< messages[j]
    BY DEF IInv, NoByteTwice
  <2> QED BY <1>1, <1>4, <2>1, <2>2 DEF NoByteTwice, FrameEnd
<1>6. NothingComplete'
  BY <1>1, <1>4, HeaderSizeAssumption, MaxPayloadAssumption DEF NothingComplete, Complete
<1> QED BY <1>2, <1>3, <1>5, <1>6 DEF IInv

LEMMA NextFrameIInv == ASSUME IInv, NextFrame PROVE IInv'
<1> DEFINE end == FrameEnd(start)
           len == Len(messages)
<1>1. /\ start' = end /\ received' = received /\ payload' = payload
      /\ messages' = Append(messages, start) /\ broken' = broken
  BY DEF NextFrame, AfterFrame, content
<1>2. messages \in Seq(Positions) /\ start \in Positions /\ received \in Positions
  BY DEF IInv, TypeOK
<1>3. end \in Nat /\ start + HeaderSize =< end
  BY <1>2, FrameEnds DEF IInv
<1>4. end =< received
  BY DEF NextFrame, Complete
<1>5. received \in Nat /\ received =< MaxBytes /\ start \in Nat /\ len \in Nat
  BY <1>2, MaxBytesAssumption DEF Positions
<1>6. end \in Positions
  BY <1>3, <1>4, <1>5, MaxBytesAssumption DEF Positions
<1>7. /\ messages' \in Seq(Positions)
      /\ Len(messages') = len + 1
      /\ \A i \in 1..len : messages'[i] = messages[i]
      /\ messages'[len + 1] = start
  BY <1>1, <1>2
<1>8. \A p : FrameEnd(p)' = FrameEnd(p')
  BY <1>1 DEF FrameEnd
<1> HIDE DEF end, len
<1>9. start =< end
  BY <1>3, <1>5, HeaderSizeAssumption
<1>10. TypeOK'
  BY <1>1, <1>6, <1>7 DEF IInv, NextFrame, TypeOK, content
<1>11. NoByteTwice'
  <2>1. ASSUME NEW i \in 1..(len + 1)
        PROVE  FrameEnd(messages'[i]) =< end
    <3>1. CASE i = len + 1
      BY <1>3, <1>7, <3>1 DEF end
    <3>2. CASE i # len + 1
      <4>1. i \in 1..len
        BY <1>5, <3>2
      <4>2. messages[i] \in Positions /\ messages'[i] = messages[i]
        BY <1>2, <1>7, <4>1 DEF len
      <4>3. FrameEnd(messages[i]) =< start
        BY <4>1 DEF IInv, NoByteTwice, len
      <4>4. FrameEnd(messages[i]) \in Nat
        BY <4>2, FrameEnds DEF IInv
      <4> QED BY <1>3, <1>5, <1>9, <4>2, <4>3, <4>4
    <3> QED BY <3>1, <3>2
  <2>2. ASSUME NEW i \in 1..(len + 1), NEW j \in 1..(len + 1), i < j
        PROVE  FrameEnd(messages'[i]) =< messages'[j]
    <3>1. i \in 1..len /\ messages'[i] = messages[i]
      BY <1>5, <1>7, <2>2
    <3>2. CASE j = len + 1
      BY <1>7, <3>1, <3>2 DEF IInv, NoByteTwice, len
    <3>3. CASE j # len + 1
      <4>1. j \in 1..len /\ messages'[j] = messages[j]
        BY <1>5, <1>7, <3>3
      <4> QED BY <2>2, <3>1, <4>1 DEF IInv, NoByteTwice, len
    <3> QED BY <3>2, <3>3
  <2> QED BY <1>1, <1>4, <1>7, <2>1, <2>2 DEF NoByteTwice, FrameEnd
<1>12. InStep'
  <2> SUFFICES ASSUME ~broken PROVE InStep'
    BY <1>1 DEF InStep
  <2> DEFINE old == Append(messages, start)
             new == Append(messages', end)
  <2>1. /\ old[1] = 0
        /\ \A i \in 1..len : old[i + 1] = FrameEnd(old[i])
    BY DEF IInv, InStep, len
  <2>2. /\ \A i \in 1..(len + 1) : new[i] = old[i]
        /\ new[len + 2] = end
        /\ old[len + 1] = start
    <3>1. new \in Seq(Nat) /\ old = messages'
      BY <1>1, <1>3, <1>7, MaxBytesAssumption DEF Positions
    <3>2. Len(messages') = len + 1 /\ len \in Nat
      BY <1>5, <1>7
    <3> QED BY <1>6, <1>7, <3>1, <3>2
  <2> HIDE DEF old, new
  <2>3. new[1] = 0
    BY <1>5, <2>1, <2>2
  <2>4. ASSUME NEW i \in 1..(len + 1) PROVE new[i + 1] = FrameEnd(new[i])
    <3>1. CASE i = len + 1
      BY <1>5, <2>2, <3>1 DEF end
    <3>2. CASE i # len + 1
      <4>1. i \in 1..len /\ i + 1 \in 1..(len + 1)
        BY <1>5, <3>2
      <4> QED BY <2>1, <2>2, <4>1
    <3> QED BY <3>1, <3>2
  <2> QED BY <1>1, <1>7, <2>3, <2>4 DEF InStep, FrameEnd, new
<1>13. NothingComplete'
  BY DEF NextFrame, NothingComplete
<1> QED BY <1>10, <1>11, <1>12, <1>13 DEF IInv

LEMMA StepIInv == IInv /\ [Next]_vars => IInv'
BY PushIInv, NextFrameIInv, NextBadIInv, NextNoneIInv, StutterIInv DEF Next

THEOREM Inductive == Spec => []IInv
BY InitIInv, StepIInv, PTL DEF Spec

\* The type invariant of the parser, for any stream, header size and payload
\* limit (frame_parser.cpp).
THEOREM TypesAreKept == Spec => []TypeOK
BY Inductive, PTL DEF IInv

\* Until a frame does not decode, the parser finds exactly the sender's frames,
\* however the stream is cut (FrameParser::next).
THEOREM FramingIsExact == Spec => []InStep
BY Inductive, PTL DEF IInv

\* No byte is part of two messages, or of one not received completely.
THEOREM MessagesAreDisjoint == Spec => []NoByteTwice
BY Inductive, PTL DEF IInv

\* No complete frame is left when the session returns to read(), and the buffer
\* is smaller than the largest frame.
THEOREM NothingWaits == Spec => []NothingComplete
BY Inductive, PTL DEF IInv
=============================================================================
