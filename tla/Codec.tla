------------------------------- MODULE Codec --------------------------------
(***************************************************************************)
(* QMI messages and their bytes (src/qmi/codec.cpp, message.hpp), the      *)
(* framing of a received stream (src/qmi/frame_parser.cpp) and the answers *)
(* of qmi::Dispatcher (src/qmi/dispatcher.cpp).                            *)
(*                                                                         *)
(* A byte has Base values instead of 256, so that the length fields of two *)
(* bytes overflow on small messages too.  An operator that may fail in the *)
(* code returns the set of its results here: empty when it fails.          *)
(***************************************************************************)
EXTENDS Integers, Sequences, SequencesExt

CONSTANT Base   \* 256 in the code

\* The flags and the 16-bit codes below need five values.
ASSUME BaseAssumption == Base \in Nat /\ Base >= 5

Byte == 0..(Base - 1)

\* The values of a std::uint16_t, and how many there are.
WordCount == Base * Base
Word == 0..(WordCount - 1)

HeaderSize == 10
TlvHeaderSize == 4

Header == [version : Byte, flags : Byte, transactionId : Word, serviceId : Word,
           messageId : Word, payloadLength : Word]
Tlv == [type : Word, value : Seq(Byte)]
Message == [header : Header, tlvs : Seq(Tlv)]

-----------------------------------------------------------------------------
\* ByteWriter, ByteReader: a word is two bytes, the low one first.

WriteU16(w) == <<w % Base, w \div Base>>

ReadU16(bytes, p) == bytes[p] + Base * bytes[p + 1]

-----------------------------------------------------------------------------
\* Faulty variants of the operators below, each rejected by a property of
\* QmiClient: a length that is not reduced to its field, the length of a TLV
\* with its header, two ids read in the wrong order, the transaction id left 0.
ToU16Wide(n) == n

EncodeTlvWithHeader(tlv) ==
  WriteU16(tlv.type) \o WriteU16((Len(tlv.value) + TlvHeaderSize) % WordCount) \o tlv.value

DecodeHeaderSwapped(bytes) ==
  [version       |-> bytes[1],
   flags         |-> bytes[2],
   transactionId |-> ReadU16(bytes, 3),
   serviceId     |-> ReadU16(bytes, 7),
   messageId     |-> ReadU16(bytes, 5),
   payloadLength |-> ReadU16(bytes, 9)]

ResponseUnnumbered(request, tlvs) ==
  [header |-> [version |-> 1, flags |-> 2, transactionId |-> 0,
               serviceId |-> request.header.serviceId,
               messageId |-> request.header.messageId,
               payloadLength |-> 0],
   tlvs |-> tlvs]
-----------------------------------------------------------------------------
\* encodeMessage().

\* static_cast<std::uint16_t>
ToU16(n) == n % WordCount

EncodeTlv(tlv) ==
  WriteU16(tlv.type) \o WriteU16(ToU16(Len(tlv.value))) \o tlv.value

EncodeHeader(h) ==
  <<h.version, h.flags>> \o WriteU16(h.transactionId) \o WriteU16(h.serviceId)
    \o WriteU16(h.messageId) \o WriteU16(h.payloadLength)

Payload(message) == FlattenSeq([i \in DOMAIN message.tlvs |-> EncodeTlv(message.tlvs[i])])

WithLength(message) ==
  [message.header EXCEPT !.payloadLength = ToU16(Len(Payload(message)))]

EncodeMessage(message) == EncodeHeader(WithLength(message)) \o Payload(message)

\* The message as its receiver has it.
AsSent(message) == [message EXCEPT !.header = WithLength(message)]

\* The payload's length can be written in its field.
Fits(message) == Len(Payload(message)) < WordCount

-----------------------------------------------------------------------------
\* decodeMessage().

DecodeHeader(bytes) ==
  [version       |-> bytes[1],
   flags         |-> bytes[2],
   transactionId |-> ReadU16(bytes, 3),
   serviceId     |-> ReadU16(bytes, 5),
   messageId     |-> ReadU16(bytes, 7),
   payloadLength |-> ReadU16(bytes, 9)]

\* decodeTlv() at position p: how many bytes it takes, and whether it can.
TlvSize(payload, p) == TlvHeaderSize + ReadU16(payload, p + 2)

HasTlv(payload, p) ==
  /\ p + TlvHeaderSize - 1 =< Len(payload)
  /\ p + TlvSize(payload, p) - 1 =< Len(payload)

DecodeTlv(payload, p) ==
  [type  |-> ReadU16(payload, p),
   value |-> SubSeq(payload, p + TlvHeaderSize, p + TlvSize(payload, p) - 1)]

\* The loop over the payload: it has to end with the last byte.
DecodeTlvs(payload) ==
  LET end == Len(payload) + 1
      from[p \in 1..end] ==
        IF p = end THEN {<<>>}
        ELSE IF ~HasTlv(payload, p) THEN {}
        ELSE {<<DecodeTlv(payload, p)>> \o rest : rest \in from[p + TlvSize(payload, p)]}
  IN  from[1]

HasPayload(bytes) ==
  /\ Len(bytes) >= HeaderSize
  /\ Len(bytes) - HeaderSize >= ReadU16(bytes, 9)

\* Bytes behind the payload are ignored.
DecodeMessage(bytes) ==
  IF ~HasPayload(bytes) THEN {}
  ELSE LET header == DecodeHeader(bytes)
           payload == SubSeq(bytes, HeaderSize + 1, HeaderSize + header.payloadLength)
       IN  {[header |-> header, tlvs |-> tlvs] : tlvs \in DecodeTlvs(payload)}

-----------------------------------------------------------------------------
\* FrameParser::next(), called until it returns nothing: the messages found in
\* bytes that arrived together.  A frame that does not decode clears the rest.

FrameSize(bytes, p) == HeaderSize + ReadU16(bytes, p + 8)

HasFrame(bytes, p) ==
  /\ p + HeaderSize - 1 =< Len(bytes)
  /\ p + FrameSize(bytes, p) - 1 =< Len(bytes)

\* The frame that begins at position p, decoded.
FoundAt(bytes, p) == DecodeMessage(SubSeq(bytes, p, p + FrameSize(bytes, p) - 1))

Messages(bytes) ==
  LET from[p \in 1..(Len(bytes) + 1)] ==
        IF HasFrame(bytes, p) /\ FoundAt(bytes, p) # {}
        THEN <<CHOOSE m \in FoundAt(bytes, p) : TRUE>> \o from[p + FrameSize(bytes, p)]
        ELSE <<>>
  IN  from[1]

-----------------------------------------------------------------------------
\* Dispatcher::dispatch(), and the indication of Session::onEvent().

RequestFlag == 1
ResponseFlag == 2
IndicationFlag == 4

Nas == 1
GetSignal == 1
GetRegistration == 2
GetOperator == 3

\* What the modem says of its signal and of its operator: any byte, five bytes.
SignalStrength == Base - 1
OperatorCode == [i \in 1..5 |-> Base - 1]

NasTlvs(messageId, registered) ==
  CASE messageId = GetSignal ->
         <<[type |-> 1, value |-> <<SignalStrength>>]>>
    [] messageId = GetRegistration ->
         <<[type |-> 2, value |-> <<IF registered THEN 1 ELSE 0>>]>>
    [] messageId = GetOperator ->
         <<[type |-> 3, value |-> OperatorCode]>>
    [] OTHER -> <<>>

Response(request, tlvs) ==
  [header |-> [version |-> 1, flags |-> ResponseFlag,
               transactionId |-> request.header.transactionId,
               serviceId |-> request.header.serviceId,
               messageId |-> request.header.messageId,
               payloadLength |-> 0],
   tlvs |-> tlvs]

Dispatch(request, registered) ==
  Response(request,
           IF request.header.serviceId = Nas
           THEN NasTlvs(request.header.messageId, registered)
           ELSE <<>>)

\* The registration state goes out with message id GetRegistration.
Indication ==
  [header |-> [version |-> 1, flags |-> IndicationFlag, transactionId |-> 0,
               serviceId |-> Nas, messageId |-> GetRegistration,
               payloadLength |-> 0],
   tlvs |-> <<[type |-> 2, value |-> <<1>>]>>]
=============================================================================
