----------------------------- MODULE CodecProofs -----------------------------
(***************************************************************************)
(* What the codec and the framing do to words, headers, TLVs, messages and *)
(* streams of messages, for any width of a byte and any number and size of *)
(* TLVs.                                                                   *)
(*                                                                         *)
(* The decoder's loops and FlattenSeq are recursive functions.  That they  *)
(* are defined everywhere is proved from RecursionEnds; what they compute  *)
(* is proved by the least counterexample, in a set of numbers (Climbs).    *)
(***************************************************************************)
EXTENDS Codec, SequenceTheorems, WellFoundedInduction, TLAPS

-----------------------------------------------------------------------------
\* Recursive definitions.

\* A set of numbers has a least one.
LEMMA Least ==
  ASSUME NEW T \in SUBSET Nat, T # {}
  PROVE  \E m \in T : \A k \in T : m =< k
<1>1. PICK m \in T : \A k \in T : ~(<<k, m>> \in OpToRel(<, Nat))
  BY NatLessThanWellFounded, WFMin
<1>2. ASSUME NEW k \in T PROVE m =< k
  <2>1. ~(k < m)
    BY <1>1 DEF OpToRel
  <2> QED BY <2>1
<1> QED BY <1>2

\* A set of numbers that holds 0 and with a number the next one.
LEMMA Climbs ==
  ASSUME NEW n \in Nat, NEW T, 0 \in T, \A k \in 0..(n - 1) : k \in T => k + 1 \in T
  PROVE  0..n \subseteq T
<1> DEFINE U == (0..n) \ T
<1> SUFFICES ASSUME U # {} PROVE FALSE
  OBVIOUS
<1>1. PICK m \in U : \A k \in U : m =< k
  <2>1. U \in SUBSET Nat
    OBVIOUS
  <2> HIDE DEF U
  <2> QED BY <2>1, Least
<1>2. m - 1 \in 0..(n - 1) /\ m - 1 \in 0..n /\ ~(m =< m - 1) /\ (m - 1) + 1 = m
  BY <1>1
<1> QED BY <1>1, <1>2

\* f is at p what a recursive definition says: step applied to its value at
\* next, or last where it goes no further.
Solves(f, p, more, next, step, last) ==
  f[p] = IF p \in more THEN step[p][f[next[p]]] ELSE last[p]

\* A recursion whose argument comes nearer to its end with every call defines
\* a function: then a recursive definition may be used as an equation.
LEMMA RecursionEnds ==
  ASSUME NEW S, NEW X, NEW n \in Nat, NEW rank \in [S -> 0..n],
         NEW more \in SUBSET S, NEW next \in [more -> S],
         \A p \in more : rank[next[p]] < rank[p],
         NEW step \in [more -> [X -> X]], NEW last \in [S -> X]
  PROVE  \E f \in [S -> X] : \A p \in S : Solves(f, p, more, next, step, last)
<1> DEFINE Good(k, f) == \A p \in S : rank[p] < k => Solves(f, p, more, next, step, last)
           T == {k \in Nat : \E f \in [S -> X] : Good(k, f)}
<1>1. \A p \in S : rank[p] \in Nat /\ rank[p] < n + 1
  OBVIOUS
<1>2. 0 \in T
  BY <1>1
<1>3. ASSUME NEW k \in 0..n, k \in T PROVE k + 1 \in T
  <2>1. PICK f \in [S -> X] : Good(k, f)
    BY <1>3
  <2> DEFINE g == [p \in S |-> IF p \in more /\ rank[p] = k THEN step[p][f[next[p]]]
                               ELSE IF rank[p] < k THEN f[p] ELSE last[p]]
  <2>2. g \in [S -> X]
    OBVIOUS
  <2>3. ASSUME NEW p \in S, rank[p] < k + 1 PROVE Solves(g, p, more, next, step, last)
    <3>1. ASSUME p \in more PROVE g[next[p]] = f[next[p]]
      BY <1>1, <2>3, <3>1
    <3>2. CASE rank[p] < k
      <4>1. g[p] = f[p] /\ Solves(f, p, more, next, step, last)
        BY <1>1, <2>1, <3>2
      <4> HIDE DEF g
      <4> QED BY <3>1, <4>1 DEF Solves
    <3>3. CASE rank[p] = k
      <4>1. g[p] = IF p \in more THEN step[p][f[next[p]]] ELSE last[p]
        BY <1>1, <3>3
      <4> HIDE DEF g
      <4> QED BY <3>1, <4>1 DEF Solves
    <3> QED BY <1>1, <2>3, <3>2, <3>3
  <2> HIDE DEF g
  <2> QED BY <2>2, <2>3
<1>4. n + 1 \in T
  <2> HIDE DEF T
  <2>1. 0..(n + 1) \subseteq T
    BY <1>2, <1>3, Climbs
  <2> QED BY <2>1
<1> QED BY <1>1, <1>4

-----------------------------------------------------------------------------
\* Words, headers and TLVs.

\* What a conversion to a narrower integer leaves of a number.
LEMMA Remainders ==
  ASSUME NEW n \in Nat, NEW m \in Nat, m > 0
  PROVE  /\ n % m \in 0..(m - 1)
         /\ n < m => n % m = n
OBVIOUS

\* The two bytes of a word.
LEMMA Words ==
  ASSUME NEW w \in Word
  PROVE  /\ w % Base \in Byte
         /\ w \div Base \in Byte
         /\ (w % Base) + Base * (w \div Base) = w
<1>1. Base \in Nat /\ Base >= 5 /\ w \in Nat /\ w < Base * Base
  BY BaseAssumption DEF Word, WordCount
<1>2. w % Base \in 0..(Base - 1) /\ (w % Base) + Base * (w \div Base) = w
  BY <1>1
<1> DEFINE high == w \div Base
<1>3. high \in Nat
  BY <1>1
<1>4. Base * high =< w
  BY <1>1, <1>2, <1>3
<1>5. high < Base
  <2> HIDE DEF high
  <2>1. ASSUME high >= Base PROVE Base * high >= Base * Base
    BY <1>1, <1>3, <2>1
  <2> QED BY <1>1, <1>3, <1>4, <2>1
<1> QED BY <1>1, <1>2, <1>3, <1>5 DEF Byte

\* A concatenation as the proofs use it: t is s with r behind it.
Join(s, r) == s \o r

Joined(t, s, r) ==
  /\ t \in Seq(Byte)
  /\ Len(t) = Len(s) + Len(r)
  /\ \A i \in 1..Len(s) : t[i] = s[i]
  /\ \A i \in 1..Len(r) : t[Len(s) + i] = r[i]

\* A concatenation is a sequence of bytes, those of the first and then those of
\* the second.
LEMMA Joins ==
  ASSUME NEW s \in Seq(Byte), NEW r \in Seq(Byte)
  PROVE  Joined(Join(s, r), s, r)
<1>1. /\ s \o r \in Seq(Byte)
      /\ Len(s \o r) = Len(s) + Len(r)
      /\ \A i \in 1..Len(s) : (s \o r)[i] = s[i]
      /\ \A i \in 1..Len(r) : (s \o r)[Len(s) + i] = r[i]
  OBVIOUS
<1> QED BY <1>1 DEF Join, Joined

\* Concatenation associates.
LEMMA JoinsAssociate ==
  ASSUME NEW s \in Seq(Byte), NEW r \in Seq(Byte), NEW q \in Seq(Byte)
  PROVE  Join(Join(s, r), q) = Join(s, Join(r, q))
BY ConcatAssociative DEF Join

\* Nothing joined.
LEMMA JoinsNothing ==
  ASSUME NEW s \in Seq(Byte)
  PROVE  Join(s, <<>>) = s
BY DEF Join

\* A word is written as two bytes.
LEMMA WriteWord ==
  ASSUME NEW w \in Word
  PROVE  /\ WriteU16(w) \in Seq(Byte)
         /\ Len(WriteU16(w)) = 2
         /\ WriteU16(w)[1] = w % Base
         /\ WriteU16(w)[2] = w \div Base
BY Words DEF WriteU16

\* t is s with w written behind it.
Extends(t, s, w) ==
  /\ t \in Seq(Byte) /\ Len(t) = Len(s) + 2
  /\ \A i \in 1..Len(s) : t[i] = s[i]
  /\ t[Len(s) + 1] = w % Base /\ t[Len(s) + 2] = w \div Base

\* A word written behind bytes.
LEMMA JoinsWord ==
  ASSUME NEW s \in Seq(Byte), NEW w \in Word
  PROVE  Extends(Join(s, WriteU16(w)), s, w)
<1> DEFINE t == Join(s, WriteU16(w))
<1>1. PICK u \in Seq(Byte) : u = WriteU16(w)
  BY WriteWord
<1>2. Joined(t, s, u)
  BY <1>1, Joins
<1>3. Len(u) = 2 /\ u[1] = w % Base /\ u[2] = w \div Base
  BY <1>1, WriteWord
<1> QED BY <1>2, <1>3 DEF Joined, Extends

\* A header takes ten bytes, and is read back from them.
LEMMA HeaderBytes ==
  ASSUME NEW h \in Header, NEW rest \in Seq(Byte)
  PROVE  /\ EncodeHeader(h) \in Seq(Byte)
         /\ Len(EncodeHeader(h)) = HeaderSize
         /\ DecodeHeader(Join(EncodeHeader(h), rest)) = h
         /\ ReadU16(Join(EncodeHeader(h), rest), 9) = h.payloadLength
<1>1. /\ h.version \in Byte /\ h.flags \in Byte /\ h.transactionId \in Word
      /\ h.serviceId \in Word /\ h.messageId \in Word /\ h.payloadLength \in Word
  BY DEF Header
<1>2. PICK a : a = <<h.version, h.flags>>
  OBVIOUS
<1>3. PICK b : b = Join(a, WriteU16(h.transactionId))
  OBVIOUS
<1>4. PICK c : c = Join(b, WriteU16(h.serviceId))
  OBVIOUS
<1>5. PICK d : d = Join(c, WriteU16(h.messageId))
  OBVIOUS
<1>6. PICK e : e = Join(d, WriteU16(h.payloadLength))
  OBVIOUS
<1>7. PICK f : f = Join(e, rest)
  OBVIOUS
<1>8. f = Join(EncodeHeader(h), rest) /\ e = EncodeHeader(h)
  BY <1>2, <1>3, <1>4, <1>5, <1>6, <1>7 DEF EncodeHeader, Join
<1>9. a \in Seq(Byte) /\ Len(a) = 2 /\ a[1] = h.version /\ a[2] = h.flags
  BY <1>1, <1>2
<1>10. /\ b \in Seq(Byte) /\ Len(b) = 4 /\ \A i \in 1..2 : b[i] = a[i]
       /\ b[3] = h.transactionId % Base /\ b[4] = h.transactionId \div Base
  <2>1. Extends(b, a, h.transactionId)
    BY <1>1, <1>3, <1>9, JoinsWord
  <2>2. Len(a) = 2
    BY <1>9
  <2> QED BY <2>1, <2>2 DEF Extends
<1>11. /\ c \in Seq(Byte) /\ Len(c) = 6 /\ \A i \in 1..4 : c[i] = b[i]
       /\ c[5] = h.serviceId % Base /\ c[6] = h.serviceId \div Base
  <2>1. Extends(c, b, h.serviceId)
    BY <1>1, <1>4, <1>10, JoinsWord
  <2>2. Len(b) = 4
    BY <1>10
  <2> QED BY <2>1, <2>2 DEF Extends
<1>12. /\ d \in Seq(Byte) /\ Len(d) = 8 /\ \A i \in 1..6 : d[i] = c[i]
       /\ d[7] = h.messageId % Base /\ d[8] = h.messageId \div Base
  <2>1. Extends(d, c, h.messageId)
    BY <1>1, <1>5, <1>11, JoinsWord
  <2>2. Len(c) = 6
    BY <1>11
  <2> QED BY <2>1, <2>2 DEF Extends
<1>13. /\ e \in Seq(Byte) /\ Len(e) = 10 /\ \A i \in 1..8 : e[i] = d[i]
       /\ e[9] = h.payloadLength % Base /\ e[10] = h.payloadLength \div Base
  <2>1. Extends(e, d, h.payloadLength)
    BY <1>1, <1>6, <1>12, JoinsWord
  <2>2. Len(d) = 8
    BY <1>12
  <2> QED BY <2>1, <2>2 DEF Extends
<1>14. \A i \in 1..10 : f[i] = e[i]
  <2>1. Joined(f, e, rest)
    BY <1>7, <1>13, Joins
  <2> QED BY <1>13, <2>1 DEF Joined
<1>15. /\ ReadU16(f, 3) = h.transactionId /\ ReadU16(f, 5) = h.serviceId
       /\ ReadU16(f, 7) = h.messageId /\ ReadU16(f, 9) = h.payloadLength
  BY <1>1, <1>10, <1>11, <1>12, <1>13, <1>14, Words DEF ReadU16
<1>16. f[1] = h.version /\ f[2] = h.flags
  BY <1>9, <1>10, <1>11, <1>12, <1>13, <1>14
<1>17. DecodeHeader(f) = h
  BY <1>15, <1>16 DEF DecodeHeader, Header
<1> QED BY <1>8, <1>13, <1>15, <1>17 DEF HeaderSize

\* What a header is encoded to decodes to it, whatever follows: no field of it
\* is mixed up with another (codec.cpp encodeHeader, decodeHeader).
THEOREM HeaderRoundTrip ==
  ASSUME NEW h \in Header, NEW rest \in Seq(Byte)
  PROVE  DecodeHeader(EncodeHeader(h) \o rest) = h
BY HeaderBytes DEF Join

\* The part of f behind p that holds the bytes of v is v.
LEMMA PartOf ==
  ASSUME NEW f, NEW v \in Seq(Byte), NEW p \in Nat, NEW n \in Nat, Len(v) = n,
         \A i \in 1..n : f[p + i] = v[i]
  PROVE  SubSeq(f, p + 1, p + n) = v
<1>1. \A j \in (p + 1)..(p + n) : f[j] \in Byte
  <2>1. ASSUME NEW j \in (p + 1)..(p + n) PROVE f[j] \in Byte
    <3>1. j - p \in 1..n /\ p + (j - p) = j
      OBVIOUS
    <3>2. f[j] = v[j - p]
      BY <3>1
    <3> QED BY <3>1, <3>2
  <2> QED BY <2>1
<1> DEFINE s == SubSeq(f, p + 1, p + n)
<1>2. /\ s \in Seq(Byte)
      /\ Len(s) = IF p + 1 =< p + n THEN p + n - (p + 1) + 1 ELSE 0
      /\ \A i \in 1..(p + n - (p + 1) + 1) : s[i] = f[p + 1 + i - 1]
  <2>1. p + 1 \in Int /\ p + n \in Int
    OBVIOUS
  <2> QED BY <1>1, <2>1, SubSeqProperties
<1> HIDE DEF s
<1>3. Len(s) = n
  BY <1>2
<1>4. \A i \in 1..n : s[i] = v[i]
  <2>1. ASSUME NEW i \in 1..n PROVE s[i] = v[i]
    <3>1. i \in 1..(p + n - (p + 1) + 1) /\ p + 1 + i - 1 = p + i
      OBVIOUS
    <3> QED BY <3>1, <1>2
  <2> QED BY <2>1
<1>5. s = v
  BY <1>2, <1>3, <1>4, SeqEqual
<1> QED BY <1>5 DEF s

\* A TLV in front of anything, as it is written.
TlvWritten(f, type, value, rest) ==
  /\ f \in Seq(Byte)
  /\ Len(f) = 4 + Len(value) + Len(rest)
  /\ ReadU16(f, 1) = type
  /\ ReadU16(f, 3) = Len(value) % WordCount
  /\ \A i \in 1..Len(value) : f[4 + i] = value[i]

\* A TLV as it is written in front of others.
LEMMA TlvBytes ==
  ASSUME NEW type \in Word, NEW value \in Seq(Byte), NEW rest \in Seq(Byte)
  PROVE  TlvWritten(Join(EncodeTlv([type |-> type, value |-> value]), rest), type, value, rest)
<1>1. PICK z \in Word : z = Len(value) % WordCount
  <2>1. WordCount \in Nat /\ WordCount > 0 /\ Len(value) \in Nat
    BY BaseAssumption DEF WordCount
  <2> QED BY <2>1 DEF Word
<1>2. PICK a : a = WriteU16(type)
  OBVIOUS
<1>3. PICK b : b = Join(a, WriteU16(z))
  OBVIOUS
<1>4. PICK c : c = Join(b, value)
  OBVIOUS
<1>5. PICK f : f = Join(c, rest)
  OBVIOUS
<1>6. f = Join(EncodeTlv([type |-> type, value |-> value]), rest)
  BY <1>1, <1>2, <1>3, <1>4, <1>5 DEF Join, EncodeTlv, ToU16
<1>7. a \in Seq(Byte) /\ Len(a) = 2 /\ a[1] = type % Base /\ a[2] = type \div Base
  BY <1>2, WriteWord
<1>8. /\ b \in Seq(Byte) /\ Len(b) = 4 /\ \A i \in 1..2 : b[i] = a[i]
      /\ b[3] = z % Base /\ b[4] = z \div Base
  <2>1. Extends(b, a, z)
    BY <1>3, <1>7, JoinsWord
  <2>2. Len(a) = 2
    BY <1>7
  <2> QED BY <2>1, <2>2 DEF Extends
<1>9. Joined(c, b, value)
  BY <1>4, <1>8, Joins
<1>10. Joined(f, c, rest)
  BY <1>5, <1>9, Joins DEF Joined
<1>11. /\ c \in Seq(Byte) /\ Len(c) = 4 + Len(value)
       /\ \A i \in 1..4 : c[i] = b[i]
       /\ \A i \in 1..Len(value) : c[4 + i] = value[i]
  BY <1>8, <1>9 DEF Joined
<1>12. /\ f \in Seq(Byte) /\ Len(f) = 4 + Len(value) + Len(rest)
       /\ \A i \in 1..(4 + Len(value)) : f[i] = c[i]
  BY <1>10, <1>11 DEF Joined
<1>13. f[1] = a[1] /\ f[2] = a[2] /\ f[3] = b[3] /\ f[4] = b[4]
  BY <1>8, <1>11, <1>12
<1>14. ReadU16(f, 1) = type /\ ReadU16(f, 3) = z
  BY <1>7, <1>8, <1>13, Words DEF ReadU16
<1>15. \A i \in 1..Len(value) : f[4 + i] = value[i]
  <2>1. ASSUME NEW i \in 1..Len(value) PROVE f[4 + i] = value[i]
    <3>1. 4 + i \in 1..(4 + Len(value))
      OBVIOUS
    <3> QED BY <3>1, <1>11, <1>12
  <2> QED BY <2>1
<1> QED BY <1>1, <1>6, <1>12, <1>14, <1>15 DEF TlvWritten

\* A TLV with a value that its length field can count decodes to itself,
\* whatever follows it, and the decoder goes on behind it (codec.cpp encodeTlv,
\* decodeTlv).
THEOREM TlvRoundTrip ==
  ASSUME NEW type \in Word, NEW value \in Seq(Byte), NEW rest \in Seq(Byte),
         Len(value) < WordCount
  PROVE  LET tlv == [type |-> type, value |-> value]
             bytes == EncodeTlv(tlv) \o rest
         IN  /\ HasTlv(bytes, 1)
             /\ DecodeTlv(bytes, 1) = tlv
             /\ Len(bytes) = TlvSize(bytes, 1) + Len(rest)
<1>1. PICK f : f = Join(EncodeTlv([type |-> type, value |-> value]), rest)
  OBVIOUS
<1>2. TlvWritten(f, type, value, rest)
  BY <1>1, TlvBytes
<1>3. PICK n \in Nat, k \in Nat : Len(value) = n /\ Len(rest) = k
  OBVIOUS
<1>4. n % WordCount = n
  <2>1. WordCount \in Nat /\ WordCount > 0 /\ n < WordCount
    BY <1>3, BaseAssumption DEF WordCount
  <2> QED BY <2>1, Remainders
<1>5. TlvSize(f, 1) = 4 + n /\ Len(f) = 4 + n + k
  BY <1>2, <1>3, <1>4 DEF TlvSize, TlvHeaderSize, TlvWritten
<1>6. HasTlv(f, 1)
  BY <1>3, <1>5 DEF HasTlv, TlvHeaderSize
<1>7. SubSeq(f, 4 + 1, 4 + n) = value
  BY <1>2, <1>3, PartOf DEF TlvWritten
<1>8. DecodeTlv(f, 1) = [type |-> type, value |-> value]
  <2>1. 1 + TlvHeaderSize = 4 + 1 /\ 1 + TlvSize(f, 1) - 1 = 4 + n
    BY <1>5 DEF TlvHeaderSize
  <2>2. ReadU16(f, 1) = type
    BY <1>2 DEF TlvWritten
  <2> QED BY <1>7, <2>1, <2>2 DEF DecodeTlv
<1> QED BY <1>1, <1>3, <1>5, <1>6, <1>8 DEF Join

\* What is read from two bytes is a word.
LEMMA WordRead ==
  ASSUME NEW bytes \in Seq(Byte), NEW p \in Nat \ {0}, p + 1 =< Len(bytes)
  PROVE  ReadU16(bytes, p) \in Word
<1>1. bytes[p] \in Byte /\ bytes[p + 1] \in Byte
  OBVIOUS
<1>2. PICK a \in Byte, b \in Byte : a = bytes[p] /\ b = bytes[p + 1]
  BY <1>1
<1>3. Base \in Nat /\ a \in Nat /\ b \in Nat /\ a =< Base - 1 /\ b =< Base - 1
  BY <1>2, BaseAssumption DEF Byte
<1>4. Base * b \in Nat /\ Base * b =< Base * (Base - 1)
  BY <1>3
<1>5. Base * (Base - 1) = Base * Base - Base
  BY <1>3
<1>6. Base * Base \in Nat
  BY <1>3
<1>7. a + Base * b \in 0..(Base * Base - 1)
  BY <1>3, <1>4, <1>5, <1>6
<1> QED BY <1>2, <1>7 DEF ReadU16, Word, WordCount

\* A TLV that the decoder accepts ends within the payload, behind its own
\* header: the loop over the payload moves on.
LEMMA TlvSizes ==
  ASSUME NEW payload \in Seq(Byte), NEW p \in 1..Len(payload), HasTlv(payload, p)
  PROVE  /\ TlvSize(payload, p) \in Nat /\ TlvSize(payload, p) >= 4
         /\ TlvSize(payload, p) =< 4 + WordCount - 1
         /\ p + TlvSize(payload, p) =< Len(payload) + 1
         /\ p + 3 =< Len(payload)
<1>1. Len(payload) \in Nat /\ p \in Nat /\ p + 3 =< Len(payload)
  BY DEF HasTlv, TlvHeaderSize
<1>2. ReadU16(payload, p + 2) \in Word
  <2>1. p + 2 \in Nat \ {0} /\ (p + 2) + 1 =< Len(payload)
    BY <1>1
  <2> QED BY <2>1, WordRead
<1>3. WordCount \in Nat
  BY BaseAssumption DEF WordCount
<1> QED BY <1>1, <1>2, <1>3 DEF HasTlv, TlvSize, TlvHeaderSize, Word

\* The bytes from a to z.
LEMMA Part ==
  ASSUME NEW s, NEW a \in Int, NEW z \in Int, a =< z + 1,
         \A i \in a..z : s[i] \in Byte
  PROVE  /\ SubSeq(s, a, z) \in Seq(Byte)
         /\ Len(SubSeq(s, a, z)) = z - a + 1
         /\ \A i \in 1..(z - a + 1) : SubSeq(s, a, z)[i] = s[a + i - 1]
BY SubSeqProperties

\* What is decoded is a TLV, with the bytes that stand in the payload.
LEMMA TlvDecoded ==
  ASSUME NEW payload \in Seq(Byte), NEW p \in 1..Len(payload), HasTlv(payload, p)
  PROVE  /\ DecodeTlv(payload, p) \in Tlv
         /\ Len(DecodeTlv(payload, p).value) = TlvSize(payload, p) - 4
         /\ \A i \in 1..(TlvSize(payload, p) - 4) :
              DecodeTlv(payload, p).value[i] = payload[p + 3 + i]
<1> DEFINE n == TlvSize(payload, p)
<1>1. /\ n \in Nat /\ n >= 4 /\ p + n =< Len(payload) + 1 /\ p \in Nat
      /\ p + 3 =< Len(payload) /\ Len(payload) \in Nat
  BY TlvSizes
<1>2. ReadU16(payload, p) \in Word
  <2>1. p \in Nat \ {0} /\ p + 1 =< Len(payload)
    BY <1>1
  <2> QED BY <2>1, WordRead
<1> HIDE DEF n
<1> DEFINE z == p + n - 1
           v == SubSeq(payload, p + 4, z)
<1>3. /\ v \in Seq(Byte) /\ Len(v) = z - (p + 4) + 1
      /\ \A i \in 1..(z - (p + 4) + 1) : v[i] = payload[p + 4 + i - 1]
  <2>1. \A i \in (p + 4)..z : payload[i] \in Byte
    BY <1>1
  <2>2. p + 4 \in Int /\ z \in Int /\ p + 4 =< z + 1
    BY <1>1
  <2> HIDE DEF z
  <2> QED BY <2>1, <2>2, Part
<1>4. DecodeTlv(payload, p) = [type |-> ReadU16(payload, p), value |-> v]
  BY DEF DecodeTlv, TlvHeaderSize, n
<1> HIDE DEF v
<1>5. Len(v) = n - 4 /\ \A i \in 1..(n - 4) : v[i] = payload[p + 3 + i]
  BY <1>1, <1>3
<1> QED BY <1>2, <1>3, <1>4, <1>5 DEF Tlv, n

-----------------------------------------------------------------------------
\* The loop over a payload, and FlattenSeq.

\* The loop of DecodeTlvs as equations: what is decoded from each position.
Decodes(from, payload) ==
  \A p \in 1..(Len(payload) + 1) :
    from[p] = IF p = Len(payload) + 1 THEN {<<>>}
              ELSE IF ~HasTlv(payload, p) THEN {}
              ELSE {<<DecodeTlv(payload, p)>> \o rest : rest \in from[p + TlvSize(payload, p)]}

\* The loop of decodeMessage() ends, for any payload.
LEMMA DecodeLoop ==
  ASSUME NEW payload \in Seq(Byte)
  PROVE  \E from : Decodes(from, payload) /\ DecodeTlvs(payload) = from[1]
<1> DEFINE end == Len(payload) + 1
           S == 1..end
           X == SUBSET Seq(Tlv)
           more == {p \in 1..Len(payload) : HasTlv(payload, p)}
           rank == [p \in S |-> end - p]
           next == [p \in more |-> p + TlvSize(payload, p)]
           step == [p \in more |->
                     [r \in X |-> {<<DecodeTlv(payload, p)>> \o rest : rest \in r}]]
           last == [p \in S |-> IF p = end THEN {<<>>} ELSE {}]
           body(f, p) ==
             IF p = end THEN {<<>>}
             ELSE IF ~HasTlv(payload, p) THEN {}
             ELSE {<<DecodeTlv(payload, p)>> \o rest : rest \in f[p + TlvSize(payload, p)]}
<1>1. end \in Nat /\ Len(payload) \in Nat /\ 1 \in S
  OBVIOUS
<1>2. \E f \in [S -> X] : \A p \in S : Solves(f, p, more, next, step, last)
  <2>1. rank \in [S -> 0..end] /\ more \in SUBSET S
    BY <1>1
  <2>2. next \in [more -> S] /\ \A p \in more : rank[next[p]] < rank[p]
    BY <1>1, TlvSizes, SMTT(20)
  <2>3. step \in [more -> [X -> X]]
    <3> SUFFICES ASSUME NEW p \in more, NEW r \in X, NEW rest \in r
                 PROVE  <<DecodeTlv(payload, p)>> \o rest \in Seq(Tlv)
      OBVIOUS
    <3>1. DecodeTlv(payload, p) \in Tlv
      BY TlvDecoded
    <3> QED BY <3>1
  <2>4. last \in [S -> X]
    OBVIOUS
  <2> HIDE DEF S, X, more, rank, next, step, last
  <2> QED BY <1>1, <2>1, <2>2, <2>3, <2>4, RecursionEnds
<1>3. \E f : f = [p \in S |-> body(f, p)]
  <2>1. PICK f \in [S -> X] : \A p \in S : Solves(f, p, more, next, step, last)
    BY <1>2
  <2>2. ASSUME NEW p \in S PROVE f[p] = body(f, p)
    <3>1. Solves(f, p, more, next, step, last)
      BY <2>1
    <3>2. CASE p \in more
      <4>1. f[next[p]] \in X
        BY <1>1, <3>2, TlvSizes
      <4>2. f[p] = step[p][f[next[p]]] /\ next[p] = p + TlvSize(payload, p)
        BY <3>1, <3>2 DEF Solves
      <4>3. step[p][f[next[p]]] = {<<DecodeTlv(payload, p)>> \o rest : rest \in f[next[p]]}
        BY <3>2, <4>1
      <4>4. p # end /\ HasTlv(payload, p)
        BY <1>1, <3>2
      <4> QED BY <4>2, <4>3, <4>4
    <3>3. CASE p \notin more
      BY <1>1, <3>1, <3>3 DEF Solves
    <3> QED BY <3>2, <3>3
  <2>3. f = [p \in S |-> body(f, p)]
    <3> HIDE DEF body
    <3> QED BY <2>2
  <2> QED BY <2>3
<1> DEFINE from[p \in S] ==
             IF p = end THEN {<<>>}
             ELSE IF ~HasTlv(payload, p) THEN {}
             ELSE {<<DecodeTlv(payload, p)>> \o rest : rest \in from[p + TlvSize(payload, p)]}
<1>4. DecodeTlvs(payload) = from[1]
  BY DEF DecodeTlvs
<1>5. from = [p \in S |-> body(from, p)]
  BY <1>3
<1> HIDE DEF from
<1>6. Decodes(from, payload)
  BY <1>5 DEF Decodes
<1> QED BY <1>4, <1>6

\* F[i] is the first i sequences, one behind the other.
Piles(F, seqs) ==
  /\ F \in [0..Len(seqs) -> Seq(Byte)]
  /\ F[0] = <<>>
  /\ \A i \in 1..Len(seqs) : F[i] = Join(F[i - 1], seqs[i])

\* FlattenSeq makes the last pile.
LEMMA Flattens ==
  ASSUME NEW seqs \in Seq(Seq(Byte))
  PROVE  \E F : Piles(F, seqs) /\ FlattenSeq(seqs) = F[Len(seqs)]
<1> DEFINE n == Len(seqs)
           S == 1..n
           X == Seq(Byte)
           more == 2..n
           rank == [i \in S |-> i]
           next == [i \in more |-> i - 1]
           step == [i \in more |-> [s \in X |-> s \o seqs[i]]]
           last == [i \in S |-> seqs[1]]
           body(f, i) == IF i = 1 THEN seqs[i] ELSE f[i - 1] \o seqs[i]
<1>1. n \in Nat /\ \A i \in S : seqs[i] \in X
  OBVIOUS
<1>2. CASE n = 0
  <2>1. seqs = <<>> /\ FlattenSeq(seqs) = seqs
    BY <1>2 DEF FlattenSeq
  <2> DEFINE F == [i \in 0..n |-> <<>>]
  <2>2. F \in [0..n -> Seq(Byte)] /\ F[0] = <<>> /\ F[n] = seqs
    BY <1>1, <2>1
  <2>3. \A i \in 1..n : F[i] = Join(F[i - 1], seqs[i])
    BY <1>2
  <2> HIDE DEF F
  <2> QED BY <2>1, <2>2, <2>3 DEF Piles
<1>3. CASE n # 0
  <2>1. \E f \in [S -> X] : \A i \in S : Solves(f, i, more, next, step, last)
    <3>1. rank \in [S -> 0..n] /\ more \in SUBSET S /\ next \in [more -> S]
      BY <1>1
    <3>2. \A i \in more : rank[next[i]] < rank[i]
      BY <1>1
    <3>3. step \in [more -> [X -> X]]
      <4> SUFFICES ASSUME NEW i \in more, NEW s \in X PROVE s \o seqs[i] \in X
        OBVIOUS
      <4>1. seqs[i] \in X
        BY <1>1
      <4> QED BY <4>1
    <3>4. last \in [S -> X]
      BY <1>1, <1>3
    <3> HIDE DEF S, X, more, rank, next, step, last
    <3> QED BY <1>1, <3>1, <3>2, <3>3, <3>4, RecursionEnds
  <2>2. PICK f \in [S -> X] : \A i \in S : Solves(f, i, more, next, step, last)
    BY <2>1
  <2>3. \A i \in S : f[i] = body(f, i)
    <3> SUFFICES ASSUME NEW i \in S PROVE f[i] = body(f, i)
      OBVIOUS
    <3>1. CASE i = 1
      <4>1. i \notin more /\ last[i] = seqs[i]
        BY <1>1, <3>1
      <4> HIDE DEF n, S, X, more, next, step, last
      <4>2. f[i] = last[i]
        BY <2>2, <4>1 DEF Solves
      <4> QED BY <3>1, <4>1, <4>2
    <3>2. CASE i # 1
      <4>1. i \in more /\ next[i] = i - 1 /\ f[i - 1] \in X
        <5>1. i \in more /\ i - 1 \in S
          <6> HIDE DEF n
          <6> QED BY <1>1, <3>2
        <5> HIDE DEF n, S, X, more
        <5> QED BY <5>1
      <4>2. f[i] = step[i][f[i - 1]]
        BY <2>2, <4>1 DEF Solves
      <4> QED BY <3>2, <4>1, <4>2
    <3> QED BY <3>1, <3>2
  <2>4. f = [i \in S |-> body(f, i)]
    <3> HIDE DEF body
    <3> QED BY <2>3
  <2> DEFINE flatten[i \in S] == IF i = 1 THEN seqs[i] ELSE flatten[i - 1] \o seqs[i]
  <2>5. FlattenSeq(seqs) = flatten[n]
    BY <1>3 DEF FlattenSeq
  <2>6. flatten = [i \in S |-> body(flatten, i)]
    BY <2>4
  <2> HIDE DEF flatten
  <2>7. flatten[1] = seqs[1] /\ \A i \in 2..n : flatten[i] = flatten[i - 1] \o seqs[i]
    <3>1. 1 \in S /\ \A i \in 2..n : i \in S /\ i # 1
      <4> HIDE DEF n
      <4> QED BY <1>1, <1>3
    <3>2. \A i \in S : flatten[i] = body(flatten, i)
      <4> HIDE DEF body, S
      <4> QED BY <2>6
    <3> QED BY <3>1, <3>2
  <2> DEFINE F == [i \in 0..n |-> IF i = 0 THEN <<>> ELSE flatten[i]]
  <2>8. F[0] = <<>> /\ F[n] = flatten[n] /\ \A i \in 1..n : F[i] = flatten[i]
    BY <1>1, <1>3
  <2>9. \A i \in 1..n : F[i] = Join(F[i - 1], seqs[i])
    <3> SUFFICES ASSUME NEW i \in 1..n PROVE F[i] = Join(F[i - 1], seqs[i])
      OBVIOUS
    <3>1. CASE i = 1
      <4>1. <<>> \o seqs[1] = seqs[1]
        BY <1>1, <3>1, ConcatEmptySeq
      <4>2. F[1] = seqs[1] /\ F[1 - 1] = <<>>
        BY <2>7, <2>8, <3>1
      <4> HIDE DEF F
      <4> QED BY <3>1, <4>1, <4>2 DEF Join
    <3>2. CASE i # 1
      <4>1. i \in 2..n /\ i - 1 \in 1..n
        BY <1>1, <3>2
      <4> HIDE DEF F
      <4> QED BY <2>7, <2>8, <4>1 DEF Join
    <3> QED BY <3>1, <3>2
  <2>10. \A i \in 0..n : F[i] \in X
    <3> DEFINE T == {i \in 0..n : F[i] \in X}
    <3>1. 0 \in T
      BY <1>1, <2>8
    <3>2. ASSUME NEW k \in 0..(n - 1), k \in T PROVE k + 1 \in T
      <4>1. k + 1 \in 1..n /\ (k + 1) - 1 = k /\ F[k] \in X
        BY <1>1, <3>2
      <4>2. F[k + 1] = Join(F[k], seqs[k + 1]) /\ seqs[k + 1] \in X
        BY <1>1, <2>9, <4>1
      <4> HIDE DEF F
      <4>3. F[k + 1] \in X
        BY <4>1, <4>2, Joins, ZenonT(60) DEF Joined
      <4> QED BY <4>1, <4>3
    <3> HIDE DEF T, F
    <3>3. 0..n \subseteq T
      BY <1>1, <3>1, <3>2, Climbs
    <3> QED BY <3>3 DEF T
  <2>11. F \in [0..n -> X]
    BY <2>10
  <2> HIDE DEF F
  <2> QED BY <2>5, <2>8, <2>9, <2>11 DEF Piles
<1> QED BY <1>2, <1>3

\* s begins with r.
Begins(s, r) ==
  /\ Len(r) =< Len(s)
  /\ \A j \in 1..Len(r) : s[j] = r[j]

\* What has been piled up stays the beginning.
LEMMA PilesOn ==
  ASSUME NEW seqs \in Seq(Seq(Byte)), NEW F, Piles(F, seqs), NEW i \in 0..Len(seqs)
  PROVE  Begins(F[Len(seqs)], F[i])
<1> DEFINE n == Len(seqs)
           T == {d \in 0..(n - i) : Begins(F[i + d], F[i])}
<1>1. n \in Nat /\ i \in Nat /\ i =< n /\ n - i \in Nat
  OBVIOUS
<1>2. 0 \in T
  <2>1. F[i] \in Seq(Byte)
    BY DEF Piles
  <2> QED BY <1>1, <2>1 DEF Begins
<1>3. ASSUME NEW d \in 0..(n - i - 1), d \in T PROVE d + 1 \in T
  <2>1. i + d \in 0..n /\ i + d + 1 \in 1..n /\ (i + d + 1) - 1 = i + d /\ d + 1 \in 0..(n - i)
    BY <1>1
  <2>2. PICK s, t, e, r : /\ s = F[i + d] /\ t = F[i + d + 1]
                          /\ e = seqs[i + d + 1] /\ r = F[i]
    OBVIOUS
  <2>3. s \in Seq(Byte) /\ r \in Seq(Byte) /\ t = Join(s, e)
    BY <2>1, <2>2 DEF Piles
  <2>4. e \in Seq(Byte)
    BY <2>1, <2>2
  <2>5. Joined(t, s, e)
    BY <2>3, <2>4, Joins
  <2>6. Begins(s, r)
    BY <1>3, <2>2
  <2>7. Begins(t, r)
    <3>1. Len(s) \in Nat /\ Len(e) \in Nat /\ Len(r) \in Nat /\ Len(t) = Len(s) + Len(e)
      BY <2>3, <2>4, <2>5 DEF Joined
    <3>2. \A j \in 1..Len(r) : j \in 1..Len(s) /\ t[j] = s[j] /\ s[j] = r[j]
      BY <2>5, <2>6, <3>1 DEF Joined, Begins
    <3> QED BY <2>6, <3>1, <3>2 DEF Begins
  <2>8. i + (d + 1) = i + d + 1
    BY <1>1
  <2> QED BY <2>1, <2>2, <2>7, <2>8
<1> HIDE DEF T, n
<1>4. 0..(n - i) \subseteq T
  <2>1. PICK m \in Nat : m = n - i
    BY <1>1
  <2>2. \A d \in 0..(m - 1) : d \in T => d + 1 \in T
    BY <1>3, <2>1
  <2> QED BY <1>2, <2>1, <2>2, Climbs
<1>5. n - i \in T /\ i + (n - i) = n
  BY <1>1, <1>4
<1> QED BY <1>5 DEF T, n

-----------------------------------------------------------------------------
\* A payload as encodeMessage() writes it, decoded.

\* F[i] is the payload as it is once the first i TLVs are written.
Grows(F, tlvs) ==
  /\ F \in [0..Len(tlvs) -> Seq(Byte)]
  /\ F[0] = <<>>
  /\ \A i \in 1..Len(tlvs) : F[i] = Join(F[i - 1], EncodeTlv(tlvs[i]))

\* A TLV alone, as it is written.
LEMMA TlvLength ==
  ASSUME NEW tlv \in Tlv
  PROVE  /\ EncodeTlv(tlv) \in Seq(Byte)
         /\ Len(EncodeTlv(tlv)) = 4 + Len(tlv.value)
         /\ ReadU16(EncodeTlv(tlv), 1) = tlv.type
         /\ ReadU16(EncodeTlv(tlv), 3) = Len(tlv.value) % WordCount
         /\ \A i \in 1..Len(tlv.value) : EncodeTlv(tlv)[4 + i] = tlv.value[i]
<1>1. PICK type \in Word, value \in Seq(Byte) : tlv = [type |-> type, value |-> value]
  BY DEF Tlv
<1> DEFINE e == EncodeTlv(tlv)
<1>2. e \in Seq(Byte) /\ Join(e, <<>>) = e
  <2>1. WriteU16(type) \in Seq(Byte)
    BY WriteWord
  <2>2. WriteU16(ToU16(Len(value))) \in Seq(Byte)
    <3>1. WordCount \in Nat /\ WordCount > 0 /\ Len(value) \in Nat
      BY BaseAssumption DEF WordCount
    <3>2. Len(value) % WordCount \in Word
      BY <3>1 DEF Word
    <3> QED BY <3>2, WriteWord DEF ToU16
  <2>3. e = (WriteU16(type) \o WriteU16(ToU16(Len(value)))) \o value
    BY <1>1 DEF EncodeTlv
  <2> HIDE DEF e
  <2>4. e \in Seq(Byte)
    BY <2>1, <2>2, <2>3, ConcatProperties
  <2> QED BY <2>4, ConcatEmptySeq DEF Join
<1>3. <<>> \in Seq(Byte) /\ Len(<<>>) = 0
  OBVIOUS
<1>4. TlvWritten(e, type, value, <<>>)
  <2>1. TlvWritten(Join(e, <<>>), type, value, <<>>)
    BY <1>1, <1>3, TlvBytes
  <2> HIDE DEF e
  <2> QED BY <1>2, <2>1
<1> HIDE DEF e
<1>5. Len(e) = 4 + Len(value)
  BY <1>3, <1>4 DEF TlvWritten
<1>6. tlv.type = type /\ tlv.value = value
  BY <1>1
<1> QED BY <1>4, <1>5, <1>6 DEF TlvWritten, e

\* The payload is what has been written after the last TLV.
LEMMA PayloadGrows ==
  ASSUME NEW message, message.tlvs \in Seq(Tlv)
  PROVE  \E F : Grows(F, message.tlvs) /\ Payload(message) = F[Len(message.tlvs)]
<1> DEFINE tlvs == message.tlvs
           seqs == [i \in 1..Len(tlvs) |-> EncodeTlv(tlvs[i])]
<1>1. Len(tlvs) \in Nat /\ \A i \in 1..Len(tlvs) : tlvs[i] \in Tlv
  OBVIOUS
<1>2. seqs \in Seq(Seq(Byte)) /\ Len(seqs) = Len(tlvs)
  BY <1>1, TlvLength
<1>3. Payload(message) = FlattenSeq(seqs)
  <2>1. DOMAIN tlvs = 1..Len(tlvs)
    OBVIOUS
  <2> QED BY <2>1 DEF Payload
<1>4. \A i \in 1..Len(tlvs) : seqs[i] = EncodeTlv(tlvs[i])
  OBVIOUS
<1> HIDE DEF seqs, tlvs
<1>5. PICK F : Piles(F, seqs) /\ FlattenSeq(seqs) = F[Len(seqs)]
  BY <1>2, Flattens
<1>6. Grows(F, tlvs)
  BY <1>2, <1>4, <1>5 DEF Piles, Grows
<1> QED BY <1>2, <1>3, <1>5, <1>6 DEF tlvs

\* What has been written stays the beginning of the payload.
LEMMA GrowsOn ==
  ASSUME NEW tlvs \in Seq(Tlv), NEW F, Grows(F, tlvs), NEW i \in 0..Len(tlvs)
  PROVE  Begins(F[Len(tlvs)], F[i])
<1> DEFINE seqs == [j \in 1..Len(tlvs) |-> EncodeTlv(tlvs[j])]
<1>1. seqs \in Seq(Seq(Byte)) /\ Len(seqs) = Len(tlvs)
  <2>1. Len(tlvs) \in Nat /\ \A j \in 1..Len(tlvs) : tlvs[j] \in Tlv
    OBVIOUS
  <2> QED BY <2>1, TlvLength
<1>2. \A j \in 1..Len(tlvs) : seqs[j] = EncodeTlv(tlvs[j])
  OBVIOUS
<1> HIDE DEF seqs
<1>3. Piles(F, seqs)
  BY <1>1, <1>2 DEF Grows, Piles
<1> QED BY <1>1, <1>3, PilesOn

\* A TLV that stands in a payload is decoded there.
LEMMA TlvFound ==
  ASSUME NEW payload \in Seq(Byte), NEW tlv \in Tlv, Len(tlv.value) < WordCount,
         NEW s \in Seq(Byte), Begins(payload, Join(s, EncodeTlv(tlv)))
  PROVE  LET p == Len(s) + 1
         IN  /\ p =< Len(payload)
             /\ HasTlv(payload, p)
             /\ DecodeTlv(payload, p) = tlv
             /\ p + TlvSize(payload, p) = Len(Join(s, EncodeTlv(tlv))) + 1
<1>1. PICK e \in Seq(Byte) : e = EncodeTlv(tlv)
  BY TlvLength
<1>2. PICK t : t = Join(s, e)
  OBVIOUS
<1>3. PICK a \in Nat, n \in Nat, v \in Seq(Byte) : a = Len(s) /\ v = tlv.value /\ n = Len(v)
  <2>1. tlv.value \in Seq(Byte) /\ Len(tlv.value) \in Nat /\ Len(s) \in Nat
    BY DEF Tlv
  <2> QED BY <2>1
<1>4. /\ Len(e) = 4 + n /\ ReadU16(e, 1) = tlv.type /\ ReadU16(e, 3) = n
      /\ \A i \in 1..n : e[4 + i] = v[i]
  <2>1. n % WordCount = n
    <3>1. WordCount \in Nat /\ WordCount > 0 /\ n < WordCount
      BY <1>3, BaseAssumption DEF WordCount
    <3> QED BY <3>1, Remainders
  <2> QED BY <1>1, <1>3, <2>1, TlvLength
<1>5. Joined(t, s, e) /\ Begins(payload, t)
  BY <1>1, <1>2, Joins
<1>6. Len(t) = a + 4 + n /\ Len(payload) \in Nat /\ a + 4 + n =< Len(payload)
  <2>1. Len(t) = a + (4 + n)
    BY <1>3, <1>4, <1>5 DEF Joined
  <2>2. Len(t) =< Len(payload) /\ Len(payload) \in Nat
    BY <1>5 DEF Begins
  <2> QED BY <2>1, <2>2
<1>7. \A i \in 1..(4 + n) : payload[a + i] = e[i]
  <2> SUFFICES ASSUME NEW i \in 1..(4 + n) PROVE payload[a + i] = e[i]
    OBVIOUS
  <2>1. a + i \in 1..Len(t)
    BY <1>6
  <2>2. t[a + i] = e[i]
    BY <1>3, <1>4, <1>5 DEF Joined
  <2> QED BY <1>5, <2>1, <2>2 DEF Begins
<1>8. /\ payload[a + 1] = e[1] /\ payload[a + 2] = e[2]
      /\ payload[a + 3] = e[3] /\ payload[a + 4] = e[4]
  BY <1>7
<1> DEFINE p == a + 1
<1>9. ReadU16(payload, p) = tlv.type /\ ReadU16(payload, p + 2) = n
  <2>1. p + 1 = a + 2 /\ p + 2 = a + 3 /\ (p + 2) + 1 = a + 4
    OBVIOUS
  <2>2. ReadU16(payload, p) = ReadU16(e, 1) /\ ReadU16(payload, p + 2) = ReadU16(e, 3)
    BY <1>8, <2>1 DEF ReadU16
  <2> QED BY <1>4, <2>2
<1>10. TlvSize(payload, p) = 4 + n
  BY <1>9 DEF TlvSize, TlvHeaderSize
<1>11. HasTlv(payload, p) /\ p =< Len(payload) /\ p + TlvSize(payload, p) = Len(t) + 1
  BY <1>6, <1>10 DEF HasTlv, TlvHeaderSize
<1>12. PICK b \in Nat : b = a + 4
  OBVIOUS
<1>13. SubSeq(payload, b + 1, b + n) = v
  <2>1. \A i \in 1..n : payload[b + i] = v[i]
    <3> SUFFICES ASSUME NEW i \in 1..n PROVE payload[b + i] = v[i]
      OBVIOUS
    <3>1. 4 + i \in 1..(4 + n) /\ a + (4 + i) = b + i
      BY <1>12
    <3> QED BY <1>4, <1>7, <3>1
  <2> QED BY <1>3, <2>1, PartOf
<1>14. DecodeTlv(payload, p) = tlv
  <2>1. p + TlvHeaderSize = b + 1 /\ p + TlvSize(payload, p) - 1 = b + n
    BY <1>10, <1>12 DEF TlvHeaderSize
  <2>2. DecodeTlv(payload, p) = [type |-> tlv.type, value |-> v]
    BY <1>9, <1>13, <2>1 DEF DecodeTlv
  <2>3. tlv = [type |-> tlv.type, value |-> tlv.value]
    BY DEF Tlv
  <2> QED BY <1>3, <2>2, <2>3
<1> QED BY <1>1, <1>2, <1>3, <1>11, <1>14

\* A payload whose length fits in the length field decodes to the TLVs it was
\* made of, and to nothing else.  By descent: from the place of TLV i the decoder
\* finds the TLVs from i on.
LEMMA PayloadDecodes ==
  ASSUME NEW message, message.tlvs \in Seq(Tlv), Len(Payload(message)) < WordCount
  PROVE  Payload(message) \in Seq(Byte) /\ DecodeTlvs(Payload(message)) = {message.tlvs}
<1>1. PICK tlvs \in Seq(Tlv), n \in Nat : tlvs = message.tlvs /\ n = Len(tlvs)
  OBVIOUS
<1>2. PICK F : Grows(F, tlvs) /\ Payload(message) = F[n]
  BY <1>1, PayloadGrows
<1>3. PICK payload \in Seq(Byte) : payload = F[n]
  BY <1>1, <1>2 DEF Grows
<1>4. PICK from : Decodes(from, payload) /\ DecodeTlvs(payload) = from[1]
  BY DecodeLoop
<1>5. \A i \in 0..n : F[i] \in Seq(Byte) /\ Begins(payload, F[i])
  BY <1>1, <1>2, <1>3, GrowsOn DEF Grows
<1> DEFINE T == {k \in 0..n : from[Len(F[n - k]) + 1] = {SubSeq(tlvs, n - k + 1, n)}}
<1>6. 0 \in T
  <2>1. from[Len(payload) + 1] = {<<>>}
    <3>1. Len(payload) + 1 \in 1..(Len(payload) + 1)
      OBVIOUS
    <3> QED BY <1>4, <3>1 DEF Decodes
  <2>2. SubSeq(tlvs, n + 1, n) = <<>>
    BY SubSeqEmpty
  <2>3. n - 0 = n /\ n - 0 + 1 = n + 1 /\ 0 \in 0..n
    OBVIOUS
  <2>4. from[Len(F[n - 0]) + 1] = {SubSeq(tlvs, n - 0 + 1, n)}
    BY <1>3, <2>1, <2>2, <2>3, Zenon
  <2> QED BY <2>3, <2>4
<1>7. ASSUME NEW k \in 0..(n - 1), k \in T PROVE k + 1 \in T
  <2>1. PICK i \in 1..n : i = n - k
    OBVIOUS
  <2>2. i - 1 = n - (k + 1) /\ i - 1 \in 0..n /\ i \in 0..n /\ k + 1 \in 0..n
    BY <2>1
  <2>3. PICK tlv \in Tlv : tlv = tlvs[i]
    BY <1>1
  <2>4. PICK s \in Seq(Byte) : s = F[i - 1]
    BY <1>5, <2>2
  <2>5. PICK t \in Seq(Byte) : t = F[i] /\ t = Join(s, EncodeTlv(tlv))
    BY <1>1, <1>2, <1>5, <2>2, <2>3, <2>4 DEF Grows
  <2>6. Begins(payload, t)
    BY <1>5, <2>2, <2>5
  <2>7. PICK e \in Seq(Byte) : e = EncodeTlv(tlv) /\ Len(e) = 4 + Len(tlv.value)
    BY TlvLength
  <2>8. Len(tlv.value) < WordCount
    <3>1. Joined(t, s, e)
      BY <2>5, <2>7, Joins
    <3>2. PICK v \in Nat, a \in Nat, l \in Nat :
            v = Len(tlv.value) /\ a = Len(s) /\ l = Len(payload)
      <4>1. tlv.value \in Seq(Byte)
        BY DEF Tlv
      <4> QED BY <4>1
    <3>3. a + (4 + v) =< l
      BY <2>6, <2>7, <3>1, <3>2 DEF Joined, Begins
    <3>4. l < WordCount
      BY <1>2, <1>3, <3>2
    <3> QED BY <3>2, <3>3, <3>4, BaseAssumption DEF WordCount
  <2>9. PICK p \in Nat : p = Len(s) + 1
    OBVIOUS
  <2>10. /\ p =< Len(payload) /\ HasTlv(payload, p) /\ DecodeTlv(payload, p) = tlv
         /\ p + TlvSize(payload, p) = Len(t) + 1
    BY <2>5, <2>6, <2>8, <2>9, TlvFound
  <2>11. from[p] = {<<tlv>> \o rest : rest \in from[Len(t) + 1]}
    <3>1. p \in 1..(Len(payload) + 1) /\ p # Len(payload) + 1
      BY <2>9, <2>10
    <3> QED BY <1>4, <2>10, <3>1 DEF Decodes
  <2>12. from[Len(t) + 1] = {SubSeq(tlvs, i + 1, n)}
    BY <1>7, <2>1, <2>5
  <2>13. <<tlv>> \o SubSeq(tlvs, i + 1, n) = SubSeq(tlvs, i, n)
    <3>1. i \in 1..Len(tlvs) /\ n \in i..Len(tlvs)
      BY <1>1
    <3> QED BY <2>3, <3>1, SubSeqRecursiveFirst
  <2>14. from[p] = {SubSeq(tlvs, i, n)}
    BY <2>11, <2>12, <2>13
  <2>15. n - (k + 1) + 1 = i
    BY <2>1
  <2> QED BY <2>2, <2>4, <2>9, <2>14, <2>15
<1> HIDE DEF T
<1>8. n \in T
  <2>1. 0..n \subseteq T
    BY <1>6, <1>7, Climbs
  <2> QED BY <2>1
<1>9. from[1] = {tlvs}
  <2>1. n - n = 0 /\ n - n + 1 = 1
    OBVIOUS
  <2>2. Len(F[0]) + 1 = 1
    BY <1>2 DEF Grows
  <2>3. SubSeq(tlvs, 1, n) = tlvs
    BY <1>1, SubSeqFull
  <2>4. from[Len(F[n - n]) + 1] = {SubSeq(tlvs, n - n + 1, n)}
    BY <1>8 DEF T
  <2> QED BY <2>1, <2>2, <2>3, <2>4
<1> QED BY <1>1, <1>2, <1>3, <1>4, <1>9

-----------------------------------------------------------------------------
\* What is decoded, encoded again.

\* Different pairs of bytes are different words.
LEMMA WordsDiffer ==
  ASSUME NEW a \in Byte, NEW b \in Byte, NEW c \in Byte, NEW d \in Byte,
         a + Base * b = c + Base * d
  PROVE  a = c /\ b = d
<1>1. /\ Base \in Nat /\ a \in Nat /\ b \in Nat /\ c \in Nat /\ d \in Nat
      /\ a =< Base - 1 /\ c =< Base - 1
  BY BaseAssumption DEF Byte
<1>2. \A x, y \in Nat : x < y => Base * x + Base =< Base * y
  <2> SUFFICES ASSUME NEW x \in Nat, NEW y \in Nat, x < y PROVE Base * x + Base =< Base * y
    OBVIOUS
  <2>1. PICK z \in Nat : y = x + 1 + z
    <3>1. y - x - 1 \in Nat /\ y = x + 1 + (y - x - 1)
      OBVIOUS
    <3> QED BY <3>1
  <2>2. Base * y = Base * x + Base + Base * z
    BY <1>1, <2>1
  <2>3. Base * z \in Nat /\ Base * x \in Nat
    BY <1>1
  <2> QED BY <1>1, <2>2, <2>3
<1>3. Base * b \in Nat /\ Base * d \in Nat
  BY <1>1
<1>4. ~(b < d) /\ ~(d < b)
  <2>1. CASE b < d
    <3>1. Base * b + Base =< Base * d
      BY <1>1, <1>2, <2>1
    <3> QED BY <1>1, <1>3, <3>1
  <2>2. CASE d < b
    <3>1. Base * d + Base =< Base * b
      BY <1>1, <1>2, <2>2
    <3> QED BY <1>1, <1>3, <3>1
  <2> QED BY <1>1, <2>1, <2>2
<1>5. b = d
  BY <1>1, <1>4
<1> QED BY <1>1, <1>3, <1>5

\* Two places that read as the same word hold the same bytes.
LEMMA SameWord ==
  ASSUME NEW s \in Seq(Byte), NEW p \in Nat \ {0}, p + 1 =< Len(s),
         NEW t \in Seq(Byte), NEW q \in Nat \ {0}, q + 1 =< Len(t),
         ReadU16(s, p) = ReadU16(t, q)
  PROVE  s[p] = t[q] /\ s[p + 1] = t[q + 1]
<1>1. s[p] \in Byte /\ s[p + 1] \in Byte /\ t[q] \in Byte /\ t[q + 1] \in Byte
  OBVIOUS
<1>2. s[p] + Base * s[p + 1] = t[q] + Base * t[q + 1]
  BY DEF ReadU16
<1> QED BY <1>1, <1>2, WordsDiffer

\* A TLV that was decoded is encoded to the bytes it stood in.
LEMMA TlvEncodedBack ==
  ASSUME NEW payload \in Seq(Byte), NEW p \in 1..Len(payload), HasTlv(payload, p)
  PROVE  EncodeTlv(DecodeTlv(payload, p)) = SubSeq(payload, p, p + TlvSize(payload, p) - 1)
<1>1. PICK tlv \in Tlv : tlv = DecodeTlv(payload, p)
  BY TlvDecoded
<1>2. PICK n \in Nat, l \in Nat :
        /\ TlvSize(payload, p) = 4 + n /\ l = Len(payload) /\ p + 4 + n =< l + 1
        /\ p + 3 =< l /\ n < WordCount
  <2>1. WordCount \in Nat
    BY BaseAssumption DEF WordCount
  <2>2. PICK m \in Nat : m = TlvSize(payload, p)
    BY TlvSizes
  <2>3. m >= 4 /\ m =< 4 + WordCount - 1 /\ p + m =< Len(payload) + 1 /\ p + 3 =< Len(payload)
    BY <2>2, TlvSizes
  <2>4. m - 4 \in Nat /\ m = 4 + (m - 4) /\ m - 4 < WordCount /\ Len(payload) \in Nat
    BY <2>1, <2>3
  <2> QED BY <2>2, <2>3, <2>4
<1>3. Len(tlv.value) = n /\ \A i \in 1..n : tlv.value[i] = payload[p + 3 + i]
  <2>1. TlvSize(payload, p) - 4 = n
    BY <1>2
  <2> QED BY <1>1, <2>1, TlvDecoded
<1>4. PICK e \in Seq(Byte) : e = EncodeTlv(tlv)
  BY TlvLength
<1>5. /\ Len(e) = 4 + n /\ ReadU16(e, 1) = tlv.type /\ ReadU16(e, 3) = n
      /\ \A i \in 1..n : e[4 + i] = tlv.value[i]
  <2>1. n % WordCount = n
    <3>1. WordCount \in Nat /\ WordCount > 0 /\ n < WordCount
      BY <1>2, BaseAssumption DEF WordCount
    <3> QED BY <3>1, Remainders
  <2> QED BY <1>3, <1>4, <2>1, TlvLength
<1>6. ReadU16(payload, p) = tlv.type /\ ReadU16(payload, p + 2) = n
  <2>1. ReadU16(payload, p) = tlv.type
    BY <1>1 DEF DecodeTlv
  <2>2. 4 + ReadU16(payload, p + 2) = 4 + n
    BY <1>2 DEF TlvSize, TlvHeaderSize
  <2>3. ReadU16(payload, p + 2) \in Nat
    <3>1. p + 2 \in Nat \ {0} /\ (p + 2) + 1 =< Len(payload)
      BY <1>2
    <3> QED BY <3>1, WordRead, BaseAssumption DEF Word
  <2> QED BY <2>1, <2>2, <2>3
<1>7. e[1] = payload[p] /\ e[2] = payload[p + 1]
  <2>1. 1 + 1 =< Len(e) /\ p \in Nat \ {0} /\ p + 1 =< Len(payload)
    BY <1>2, <1>5
  <2>2. ReadU16(e, 1) = ReadU16(payload, p)
    BY <1>5, <1>6
  <2>3. e[1] = payload[p] /\ e[1 + 1] = payload[p + 1]
    BY <2>1, <2>2, SameWord
  <2> QED BY <2>3
<1>8. e[3] = payload[p + 2] /\ e[4] = payload[p + 3]
  <2>1. PICK q \in Nat \ {0} : q = p + 2 /\ q + 1 = p + 3
    BY <1>2
  <2>2. 3 + 1 =< Len(e) /\ q + 1 =< Len(payload)
    BY <1>2, <1>5, <2>1
  <2>3. ReadU16(e, 3) = ReadU16(payload, q)
    BY <1>5, <1>6, <2>1
  <2>4. e[3] = payload[q] /\ e[3 + 1] = payload[q + 1]
    BY <2>2, <2>3, SameWord
  <2> QED BY <2>1, <2>4
<1>9. PICK z \in Nat : z = p + TlvSize(payload, p) - 1
  BY <1>2
<1>10. z = p + 3 + n /\ z =< l
  BY <1>2, <1>9
<1> DEFINE s == SubSeq(payload, p, z)
<1>11. s \in Seq(Byte) /\ Len(s) = 4 + n /\ \A i \in 1..(4 + n) : s[i] = payload[p + i - 1]
  <2>1. z - p + 1 = 4 + n /\ p =< z + 1
    BY <1>10
  <2>2. \A i \in p..z : payload[i] \in Byte
    BY <1>2, <1>10
  <2>3. s \in Seq(Byte) /\ Len(s) = z - p + 1 /\ \A i \in 1..(z - p + 1) : s[i] = payload[p + i - 1]
    BY <2>1, <2>2, Part
  <2> HIDE DEF s
  <2> QED BY <2>1, <2>3
<1> HIDE DEF s
<1>12. \A i \in 1..(4 + n) : e[i] = s[i]
  <2> SUFFICES ASSUME NEW i \in 1..(4 + n) PROVE e[i] = s[i]
    OBVIOUS
  <2>1. s[i] = payload[p + i - 1]
    BY <1>11
  <2>2. CASE i =< 4
    <3>1. i = 1 \/ i = 2 \/ i = 3 \/ i = 4
      BY <2>2
    <3>2. p + 1 - 1 = p /\ p + 2 - 1 = p + 1 /\ p + 3 - 1 = p + 2 /\ p + 4 - 1 = p + 3
      OBVIOUS
    <3> QED BY <1>7, <1>8, <2>1, <3>1, <3>2
  <2>3. CASE i > 4
    <3>1. PICK j \in 1..n : i = 4 + j
      <4>1. i - 4 \in 1..n /\ i = 4 + (i - 4)
        BY <2>3
      <4> QED BY <4>1
    <3>2. e[4 + j] = payload[p + 3 + j]
      BY <1>3, <1>5
    <3>3. p + i - 1 = p + 3 + j
      BY <3>1
    <3> QED BY <2>1, <3>1, <3>2, <3>3
  <2> QED BY <2>2, <2>3
<1>13. e = s
  BY <1>5, <1>11, <1>12, SeqEqual
<1> QED BY <1>1, <1>4, <1>9, <1>13 DEF s

\* A TLV in front of others is written in front of them.
LEMMA GrowsInFront ==
  ASSUME NEW tlv \in Tlv, NEW tlvs \in Seq(Tlv), NEW F, Grows(F, <<tlv>> \o tlvs),
         NEW G, Grows(G, tlvs)
  PROVE  F[Len(tlvs) + 1] = Join(EncodeTlv(tlv), G[Len(tlvs)])
<1>1. PICK n \in Nat, all \in Seq(Tlv) : n = Len(tlvs) /\ all = <<tlv>> \o tlvs
  <2>1. <<tlv>> \in Seq(Tlv) /\ Len(tlvs) \in Nat
    OBVIOUS
  <2>2. <<tlv>> \o tlvs \in Seq(Tlv)
    BY <2>1, ConcatProperties
  <2> QED BY <2>1, <2>2
<1>2. Len(all) = n + 1 /\ all[1] = tlv /\ \A i \in 1..n : all[i + 1] = tlvs[i]
  BY <1>1
<1>3. PICK e \in Seq(Byte) : e = EncodeTlv(tlv)
  BY TlvLength
<1> DEFINE T == {k \in 0..n : F[k + 1] = Join(e, G[k])}
<1>4. 0 \in T
  <2>1. F[1] = Join(F[1 - 1], EncodeTlv(all[1])) /\ F[0] = <<>> /\ G[0] = <<>>
    BY <1>1, <1>2 DEF Grows
  <2>2. F[1] = Join(<<>>, e)
    BY <1>2, <1>3, <2>1
  <2>3. Join(<<>>, e) = e /\ Join(e, <<>>) = e
    BY ConcatEmptySeq DEF Join
  <2>4. F[0 + 1] = Join(e, G[0]) /\ 0 \in 0..n
    BY <2>1, <2>2, <2>3
  <2> QED BY <2>4
<1>5. ASSUME NEW k \in 0..(n - 1), k \in T PROVE k + 1 \in T
  <2>1. PICK i \in 1..n : i = k + 1
    OBVIOUS
  <2>2. i + 1 \in 1..(n + 1) /\ (i + 1) - 1 = i /\ i - 1 = k /\ k \in 0..n
    BY <2>1
  <2>3. F[i + 1] = Join(F[i], EncodeTlv(tlvs[i]))
    <3>1. F[i + 1] = Join(F[(i + 1) - 1], EncodeTlv(all[i + 1]))
      BY <1>1, <1>2, <2>2 DEF Grows
    <3> QED BY <1>2, <2>2, <3>1
  <2>4. F[i] = Join(e, G[k])
    BY <1>5, <2>1
  <2>5. G[i] = Join(G[k], EncodeTlv(tlvs[i])) /\ G[k] \in Seq(Byte)
    BY <1>1, <2>2 DEF Grows
  <2>6. EncodeTlv(tlvs[i]) \in Seq(Byte)
    BY <1>1, TlvLength
  <2>7. F[i + 1] = Join(e, G[i])
    BY <2>3, <2>4, <2>5, <2>6, JoinsAssociate
  <2> QED BY <2>1, <2>7
<1> HIDE DEF T
<1>6. n \in T
  <2>1. 0..n \subseteq T
    BY <1>4, <1>5, Climbs
  <2> QED BY <2>1
<1> QED BY <1>1, <1>3, <1>6 DEF T

\* So are all that were decoded from p on: a counterexample with p as far back
\* as possible has one behind it.
LEMMA LoopEncodedBack ==
  ASSUME NEW payload \in Seq(Byte), NEW from, Decodes(from, payload),
         NEW p \in 1..(Len(payload) + 1), NEW tlvs \in from[p]
  PROVE  /\ tlvs \in Seq(Tlv)
         /\ \A F : Grows(F, tlvs) => F[Len(tlvs)] = SubSeq(payload, p, Len(payload))
<1> DEFINE Back(q, ts) ==
             /\ ts \in Seq(Tlv)
             /\ \A F : Grows(F, ts) => F[Len(ts)] = SubSeq(payload, q, Len(payload))
<1>1. PICK l \in Nat : l = Len(payload)
  OBVIOUS
<1> DEFINE U == {k \in 0..l : \E ts \in from[l + 1 - k] : ~Back(l + 1 - k, ts)}
<1>2. ASSUME U # {} PROVE FALSE
  <2>1. PICK k \in U : \A j \in U : k =< j
    <3>1. U \in SUBSET Nat
      OBVIOUS
    <3> HIDE DEF U
    <3> QED BY <1>2, <3>1, Least
  <2>2. PICK q \in 1..(l + 1) : q = l + 1 - k /\ k \in 0..l
    OBVIOUS
  <2>3. PICK ts \in from[q] : ~Back(q, ts)
    BY <2>1, <2>2
  <2>4. CASE q = l + 1
    <3>1. ts = <<>>
      BY <1>1, <2>3, <2>4 DEF Decodes
    <3>2. ts \in Seq(Tlv) /\ Len(ts) = 0
      BY <3>1
    <3>3. SubSeq(payload, q, Len(payload)) = <<>>
      BY <1>1, <2>4, SubSeqEmpty
    <3>4. \A F : Grows(F, ts) => F[0] = <<>>
      BY DEF Grows
    <3> QED BY <2>3, <3>2, <3>3, <3>4
  <2>5. CASE q # l + 1
    <3>1. q \in 1..Len(payload) /\ q \in 1..(Len(payload) + 1) /\ q # Len(payload) + 1
      BY <1>1, <2>5
    <3>2. HasTlv(payload, q)
      BY <2>3, <3>1 DEF Decodes
    <3>3. PICK r \in Nat : r = q + TlvSize(payload, q) /\ r >= q + 4 /\ r =< l + 1
      BY <1>1, <3>1, <3>2, TlvSizes
    <3>4. PICK rest \in from[r] : ts = <<DecodeTlv(payload, q)>> \o rest
      <4>1. from[q] = {<<DecodeTlv(payload, q)>> \o rest : rest \in from[q + TlvSize(payload, q)]}
        BY <3>1, <3>2 DEF Decodes
      <4>2. q + TlvSize(payload, q) = r
        BY <3>3
      <4> QED BY <2>3, <4>1, <4>2, Zenon
    <3>5. Back(r, rest)
      <4>1. PICK j \in 0..l : r = l + 1 - j /\ j < k
        <5>1. l + 1 - r \in 0..l /\ r = l + 1 - (l + 1 - r) /\ l + 1 - r < k
          BY <2>2, <3>3
        <5> QED BY <5>1
      <4>2. j \notin U
        BY <2>1, <2>2, <4>1
      <4> QED BY <3>4, <4>1, <4>2
    <3>6. PICK tlv \in Tlv : tlv = DecodeTlv(payload, q)
      BY <3>1, <3>2, TlvDecoded
    <3>7. ts \in Seq(Tlv) /\ Len(ts) = Len(rest) + 1
      <4>1. <<tlv>> \in Seq(Tlv) /\ rest \in Seq(Tlv) /\ Len(<<tlv>>) = 1 /\ Len(rest) \in Nat
        BY <3>5
      <4>2. ts = <<tlv>> \o rest
        BY <3>4, <3>6
      <4> QED BY <4>1, <4>2, ConcatProperties
    <3>8. PICK G : Grows(G, rest)
      <4>1. PICK message : message = [tlvs |-> rest]
        OBVIOUS
      <4>2. message.tlvs = rest /\ rest \in Seq(Tlv)
        BY <3>5, <4>1
      <4> QED BY <4>2, PayloadGrows
    <3>9. G[Len(rest)] = SubSeq(payload, r, l)
      BY <1>1, <3>5, <3>8
    <3>10. EncodeTlv(tlv) = SubSeq(payload, q, r - 1)
      <4>1. EncodeTlv(tlv) = SubSeq(payload, q, q + TlvSize(payload, q) - 1)
        BY <3>1, <3>2, <3>6, TlvEncodedBack
      <4>2. q + TlvSize(payload, q) - 1 = r - 1
        <5>1. TlvSize(payload, q) \in Nat
          BY <3>1, <3>2, TlvSizes
        <5> QED BY <3>3, <5>1
      <4> QED BY <4>1, <4>2
    <3>11. Join(EncodeTlv(tlv), G[Len(rest)]) = SubSeq(payload, q, l)
      <4>1. PICK z \in Nat : z = r - 1 /\ z + 1 = r
        BY <3>3
      <4>2. q \in 1..(Len(payload) + 1) /\ z \in (q - 1)..Len(payload) /\ l \in z..Len(payload)
        BY <1>1, <3>1, <3>3, <4>1
      <4>3. SubSeq(payload, q, z) \o SubSeq(payload, z + 1, l) = SubSeq(payload, q, l)
        BY <4>2, ConcatAdjacentSubSeq
      <4> QED BY <3>9, <3>10, <4>1, <4>3 DEF Join
    <3>12. ASSUME NEW F, Grows(F, ts) PROVE F[Len(ts)] = SubSeq(payload, q, l)
      <4>1. Grows(F, <<tlv>> \o rest)
        BY <3>4, <3>6, <3>12
      <4>2. F[Len(rest) + 1] = Join(EncodeTlv(tlv), G[Len(rest)])
        BY <3>5, <3>8, <4>1, GrowsInFront
      <4> QED BY <3>7, <3>11, <4>2
    <3> QED BY <1>1, <2>3, <3>7, <3>12
  <2> QED BY <2>4, <2>5
<1>3. Back(p, tlvs)
  <2>1. l + 1 - p \in 0..l /\ l + 1 - (l + 1 - p) = p
    BY <1>1
  <2>2. l + 1 - p \notin U
    BY <1>2
  <2> QED BY <2>1, <2>2
<1> QED BY <1>3

\* A payload is what its TLVs are encoded to.
LEMMA PayloadEncodedBack ==
  ASSUME NEW payload \in Seq(Byte), NEW message, message.tlvs \in DecodeTlvs(payload)
  PROVE  message.tlvs \in Seq(Tlv) /\ Payload(message) = payload
<1>1. PICK from : Decodes(from, payload) /\ DecodeTlvs(payload) = from[1]
  BY DecodeLoop
<1>2. 1 \in 1..(Len(payload) + 1) /\ message.tlvs \in from[1]
  BY <1>1
<1>3. message.tlvs \in Seq(Tlv)
  BY <1>1, <1>2, LoopEncodedBack
<1>4. PICK F : Grows(F, message.tlvs) /\ Payload(message) = F[Len(message.tlvs)]
  BY <1>3, PayloadGrows
<1>5. F[Len(message.tlvs)] = SubSeq(payload, 1, Len(payload))
  BY <1>1, <1>2, <1>4, LoopEncodedBack
<1>6. SubSeq(payload, 1, Len(payload)) = payload
  BY SubSeqFull
<1> QED BY <1>3, <1>4, <1>5, <1>6

-----------------------------------------------------------------------------
\* Messages.

\* bytes is the encoding of a message with a payload of n bytes, and more.
Encoded(bytes, message, n) ==
  /\ bytes \in Seq(Byte)
  /\ 10 + n =< Len(bytes)
  /\ DecodeHeader(bytes) = WithLength(message)
  /\ ReadU16(bytes, 9) = n % WordCount
  /\ \A i \in 1..n : bytes[10 + i] = Payload(message)[i]

\* A payload is a sequence of bytes.
LEMMA PayloadBytes ==
  ASSUME NEW message \in Message
  PROVE  Payload(message) \in Seq(Byte)
<1>1. message.tlvs \in Seq(Tlv)
  BY DEF Message
<1>2. PICK F : Grows(F, message.tlvs) /\ Payload(message) = F[Len(message.tlvs)]
  BY <1>1, PayloadGrows
<1> QED BY <1>1, <1>2 DEF Grows

\* The length field holds what fits in it of the payload's length.
LEMMA LengthWritten ==
  ASSUME NEW message \in Message
  PROVE  /\ WithLength(message) \in Header
         /\ WithLength(message).payloadLength = Len(Payload(message)) % WordCount
<1>1. PICK n \in Nat : n = Len(Payload(message))
  BY PayloadBytes
<1>2. WordCount \in Nat /\ WordCount > 0
  BY BaseAssumption DEF WordCount
<1>3. message.header \in Header /\ n % WordCount \in Word
  BY <1>1, <1>2 DEF Message, Word
<1>4. WithLength(message) = [message.header EXCEPT !.payloadLength = n % WordCount]
  BY <1>1 DEF WithLength, ToU16
<1> QED BY <1>1, <1>3, <1>4 DEF Header

\* A message as it is encoded, and in front of anything else.
LEMMA EncodedBytes ==
  ASSUME NEW message \in Message, NEW rest \in Seq(Byte)
  PROVE  /\ EncodeMessage(message) \in Seq(Byte)
         /\ Len(EncodeMessage(message)) = 10 + Len(Payload(message))
         /\ Encoded(Join(EncodeMessage(message), rest), message, Len(Payload(message)))
         /\ Len(Join(EncodeMessage(message), rest)) = 10 + Len(Payload(message)) + Len(rest)
<1>1. PICK p \in Seq(Byte), n \in Nat : p = Payload(message) /\ n = Len(p)
  BY PayloadBytes
<1>2. PICK h \in Header : h = WithLength(message) /\ h.payloadLength = n % WordCount
  BY <1>1, LengthWritten
<1>3. PICK e \in Seq(Byte) : e = EncodeHeader(h) /\ Len(e) = 10
  BY HeaderBytes DEF HeaderSize
<1>4. PICK m : m = EncodeMessage(message)
  OBVIOUS
<1>5. m = Join(e, p)
  BY <1>1, <1>2, <1>3, <1>4 DEF EncodeMessage, Join
<1>6. m \in Seq(Byte) /\ Len(m) = 10 + n /\ \A i \in 1..n : m[10 + i] = p[i]
  <2>1. Joined(m, e, p)
    BY <1>5, Joins
  <2> QED BY <2>1, <1>1, <1>3 DEF Joined
<1>7. PICK f : f = Join(m, rest)
  OBVIOUS
<1>8. f \in Seq(Byte) /\ Len(f) = 10 + n + Len(rest) /\ \A i \in 1..(10 + n) : f[i] = m[i]
  <2>1. Joined(f, m, rest)
    BY <1>6, <1>7, Joins
  <2> QED BY <2>1, <1>6 DEF Joined
<1>9. DecodeHeader(f) = h /\ ReadU16(f, 9) = n % WordCount
  <2>1. PICK r \in Seq(Byte) : r = Join(p, rest)
    BY Joins DEF Joined
  <2>2. f = Join(e, r)
    BY <1>5, <1>7, <2>1, JoinsAssociate
  <2> QED BY <2>2, <1>2, <1>3, HeaderBytes
<1>10. \A i \in 1..n : f[10 + i] = p[i]
  <2> SUFFICES ASSUME NEW i \in 1..n PROVE f[10 + i] = p[i]
    OBVIOUS
  <2>1. 10 + i \in 1..(10 + n)
    OBVIOUS
  <2> QED BY <1>6, <1>8, <2>1
<1>11. 10 + n =< Len(f)
  <2>1. Len(rest) \in Nat
    OBVIOUS
  <2> QED BY <1>8, <2>1
<1> QED BY <1>1, <1>2, <1>4, <1>6, <1>7, <1>8, <1>9, <1>10, <1>11 DEF Encoded

\* The bytes of a message.
LEMMA MessageBytes ==
  ASSUME NEW message \in Message
  PROVE  /\ EncodeMessage(message) \in Seq(Byte)
         /\ Len(EncodeMessage(message)) = 10 + Len(Payload(message))
         /\ Len(Payload(message)) \in Nat
<1>1. <<>> \in Seq(Byte)
  OBVIOUS
<1> QED BY <1>1, EncodedBytes, PayloadBytes

\* The payload's length can be read where it is written.
LEMMA FitsAsWritten ==
  ASSUME NEW message \in Message
  PROVE  /\ Fits(message) => Len(Payload(message)) % WordCount = Len(Payload(message))
         /\ ~Fits(message) => Len(Payload(message)) % WordCount < Len(Payload(message))
         /\ Len(Payload(message)) % WordCount \in Nat
<1>1. PICK n \in Nat : n = Len(Payload(message))
  BY PayloadBytes
<1>2. WordCount \in Nat /\ WordCount > 0
  BY BaseAssumption DEF WordCount
<1>3. n % WordCount \in 0..(WordCount - 1) /\ (n < WordCount => n % WordCount = n)
  BY <1>2, Remainders
<1> QED BY <1>1, <1>2, <1>3 DEF Fits

\* A message as it is encoded, alone.
LEMMA EncodedAlone ==
  ASSUME NEW message \in Message
  PROVE  Encoded(EncodeMessage(message), message, Len(Payload(message)))
<1>1. <<>> \in Seq(Byte)
  OBVIOUS
<1>2. /\ EncodeMessage(message) \in Seq(Byte)
      /\ Encoded(Join(EncodeMessage(message), <<>>), message, Len(Payload(message)))
  BY <1>1, EncodedBytes
<1> QED BY <1>2, JoinsNothing

\* Encoded bytes stay encoded when others follow.
LEMMA EncodedOn ==
  ASSUME NEW message \in Message, NEW s \in Seq(Byte), Begins(s, EncodeMessage(message))
  PROVE  Encoded(s, message, Len(Payload(message)))
<1>1. PICK e \in Seq(Byte), n \in Nat :
        e = EncodeMessage(message) /\ n = Len(Payload(message)) /\ Len(e) = 10 + n
  BY MessageBytes
<1>2. Encoded(e, message, n)
  BY <1>1, EncodedAlone
<1>3. Len(s) \in Nat /\ 10 + n =< Len(s) /\ \A i \in 1..(10 + n) : s[i] = e[i]
  BY <1>1 DEF Begins
<1>4. \A i \in 1..10 : s[i] = e[i]
  BY <1>3
<1>5. DecodeHeader(s) = DecodeHeader(e) /\ ReadU16(s, 9) = ReadU16(e, 9)
  <2>1. /\ s[1] = e[1] /\ s[2] = e[2] /\ s[3] = e[3] /\ s[4] = e[4] /\ s[5] = e[5]
        /\ s[6] = e[6] /\ s[7] = e[7] /\ s[8] = e[8] /\ s[9] = e[9] /\ s[10] = e[10]
    BY <1>4
  <2>2. 3 + 1 = 4 /\ 5 + 1 = 6 /\ 7 + 1 = 8 /\ 9 + 1 = 10
    OBVIOUS
  <2>3. /\ ReadU16(s, 3) = ReadU16(e, 3) /\ ReadU16(s, 5) = ReadU16(e, 5)
        /\ ReadU16(s, 7) = ReadU16(e, 7) /\ ReadU16(s, 9) = ReadU16(e, 9)
    BY <2>1, <2>2 DEF ReadU16
  <2> QED BY <2>1, <2>3 DEF DecodeHeader
<1>6. \A i \in 1..n : s[10 + i] = e[10 + i]
  BY <1>3
<1> QED BY <1>1, <1>2, <1>3, <1>5, <1>6 DEF Encoded

\* Bytes that begin with a message that fits decode to it.
LEMMA SentDecodes ==
  ASSUME NEW message \in Message, Fits(message), NEW bytes,
         Encoded(bytes, message, Len(Payload(message)))
  PROVE  DecodeMessage(bytes) = {AsSent(message)}
<1>1. PICK p \in Seq(Byte), n \in Nat : p = Payload(message) /\ n = Len(p)
  BY PayloadBytes
<1>2. /\ bytes \in Seq(Byte) /\ 10 + n =< Len(bytes) /\ ReadU16(bytes, 9) = n
      /\ DecodeHeader(bytes) = WithLength(message)
      /\ \A i \in 1..n : bytes[10 + i] = p[i]
  BY <1>1, FitsAsWritten DEF Encoded
<1>3. HasPayload(bytes)
  <2>1. Len(bytes) \in Nat
    BY <1>2
  <2> QED BY <1>2, <2>1 DEF HasPayload, HeaderSize
<1>4. SubSeq(bytes, HeaderSize + 1, HeaderSize + n) = p
  BY <1>1, <1>2, PartOf DEF HeaderSize
<1>5. WithLength(message).payloadLength = n
  BY <1>1, LengthWritten, FitsAsWritten
<1>6. message.tlvs \in Seq(Tlv) /\ n < WordCount
  BY <1>1 DEF Message, Fits
<1>7. DecodeTlvs(p) = {message.tlvs}
  BY <1>1, <1>6, PayloadDecodes
<1>8. AsSent(message) = [header |-> WithLength(message), tlvs |-> message.tlvs]
  BY DEF AsSent, Message
<1>9. DecodeMessage(bytes) =
        {[header |-> WithLength(message), tlvs |-> tlvs] : tlvs \in DecodeTlvs(p)}
  BY <1>2, <1>3, <1>4, <1>5 DEF DecodeMessage
<1> QED BY <1>7, <1>8, <1>9

\* Fewer than the bytes of a message that fits do not decode.
LEMMA CutDoesNotDecode ==
  ASSUME NEW message \in Message, Fits(message), NEW bytes,
         Encoded(bytes, message, Len(Payload(message))),
         NEW k \in 0..(Len(EncodeMessage(message)) - 1)
  PROVE  DecodeMessage(SubSeq(bytes, 1, k)) = {}
<1>1. PICK n \in Nat : n = Len(Payload(message))
  BY PayloadBytes
<1>2. Len(EncodeMessage(message)) = 10 + n
  BY <1>1, MessageBytes
<1>3. bytes \in Seq(Byte) /\ 10 + n =< Len(bytes) /\ ReadU16(bytes, 9) = n
  BY <1>1, FitsAsWritten DEF Encoded
<1> DEFINE s == SubSeq(bytes, 1, k)
<1>4. k \in Nat /\ k < 10 + n
  BY <1>2
<1>5. Len(s) = k /\ \A i \in 1..k : s[i] = bytes[i]
  <2>1. Len(bytes) \in Nat /\ \A i \in 1..k : bytes[i] \in Byte
    BY <1>3, <1>4
  <2>2. 1 \in Int /\ k \in Int /\ 1 =< k + 1 /\ k - 1 + 1 = k
    BY <1>4
  <2>3. Len(s) = k - 1 + 1 /\ \A i \in 1..(k - 1 + 1) : s[i] = bytes[1 + i - 1]
    BY <2>1, <2>2, Part
  <2>4. \A i \in 1..k : 1 + i - 1 = i
    BY <1>4
  <2> HIDE DEF s
  <2> QED BY <2>2, <2>3, <2>4
<1> HIDE DEF s
<1>6. ~HasPayload(s)
  <2> SUFFICES ASSUME k >= 10, k - 10 >= ReadU16(s, 9) PROVE FALSE
    BY <1>5 DEF HasPayload, HeaderSize
  <2>1. s[9] = bytes[9] /\ s[9 + 1] = bytes[9 + 1]
    BY <1>4, <1>5
  <2>2. ReadU16(s, 9) = n
    BY <1>3, <2>1 DEF ReadU16
  <2> QED BY <1>4, <2>2
<1> QED BY <1>6 DEF DecodeMessage, s

\* Ten bytes decode to a header.
LEMMA HeaderTypes ==
  ASSUME NEW bytes \in Seq(Byte), Len(bytes) >= 10
  PROVE  DecodeHeader(bytes) \in Header
<1>1. bytes[1] \in Byte /\ bytes[2] \in Byte /\ Len(bytes) \in Nat
  OBVIOUS
<1>2. \A p \in {3, 5, 7, 9} : ReadU16(bytes, p) \in Word
  <2> SUFFICES ASSUME NEW p \in {3, 5, 7, 9} PROVE ReadU16(bytes, p) \in Word
    OBVIOUS
  <2>1. p \in Nat \ {0} /\ p + 1 =< Len(bytes)
    BY <1>1
  <2> QED BY <2>1, WordRead
<1> QED BY <1>1, <1>2 DEF DecodeHeader, Header

\* The header's bytes are those it is encoded to.
LEMMA HeaderEncodedBack ==
  ASSUME NEW bytes \in Seq(Byte), Len(bytes) >= 10, NEW i \in 1..10
  PROVE  EncodeHeader(DecodeHeader(bytes))[i] = bytes[i]
<1>1. PICK h \in Header : h = DecodeHeader(bytes)
  BY HeaderTypes
<1>2. PICK e \in Seq(Byte) : e = EncodeHeader(h) /\ Len(e) = 10
  BY HeaderBytes DEF HeaderSize
<1>3. DecodeHeader(e) = DecodeHeader(bytes)
  <2>1. <<>> \in Seq(Byte)
    OBVIOUS
  <2>2. DecodeHeader(Join(e, <<>>)) = h
    BY <1>2, <2>1, HeaderBytes
  <2>3. Join(e, <<>>) = e
    BY <1>2, ConcatEmptySeq DEF Join
  <2> QED BY <1>1, <2>2, <2>3
<1>4. e[1] = bytes[1] /\ e[2] = bytes[2]
  <2>1. /\ DecodeHeader(e).version = DecodeHeader(bytes).version
        /\ DecodeHeader(e).flags = DecodeHeader(bytes).flags
    BY <1>3
  <2> QED BY <2>1 DEF DecodeHeader
<1>5. \A p \in {3, 5, 7, 9} : ReadU16(e, p) = ReadU16(bytes, p)
  <2>1. /\ DecodeHeader(e).transactionId = DecodeHeader(bytes).transactionId
        /\ DecodeHeader(e).serviceId = DecodeHeader(bytes).serviceId
        /\ DecodeHeader(e).messageId = DecodeHeader(bytes).messageId
        /\ DecodeHeader(e).payloadLength = DecodeHeader(bytes).payloadLength
    BY <1>3
  <2> QED BY <2>1 DEF DecodeHeader
<1>6. \A p \in {3, 5, 7, 9} : e[p] = bytes[p] /\ e[p + 1] = bytes[p + 1]
  <2> SUFFICES ASSUME NEW p \in {3, 5, 7, 9} PROVE e[p] = bytes[p] /\ e[p + 1] = bytes[p + 1]
    OBVIOUS
  <2>1. p \in Nat \ {0} /\ p + 1 =< 10 /\ Len(bytes) \in Nat
    OBVIOUS
  <2>2. p + 1 =< Len(e) /\ p + 1 =< Len(bytes)
    BY <1>2, <2>1
  <2> QED BY <1>5, <2>1, <2>2, SameWord
<1>7. \/ i = 1 \/ i = 2 \/ i = 3 \/ i = 3 + 1 \/ i = 5 \/ i = 5 + 1 \/ i = 7 \/ i = 7 + 1
      \/ i = 9 \/ i = 9 + 1
  OBVIOUS
<1> QED BY <1>1, <1>2, <1>4, <1>6, <1>7

\* What decodes is a message, and it is encoded to the very bytes it came as,
\* the ones behind them left out (codec.cpp decodeMessage, encodeMessage).
THEOREM DecodedIsEncoded ==
  ASSUME NEW bytes \in Seq(Byte), NEW message \in DecodeMessage(bytes)
  PROVE  /\ message \in Message
         /\ EncodeMessage(message) = SubSeq(bytes, 1, FrameSize(bytes, 1))
<1>1. HasPayload(bytes)
  BY DEF DecodeMessage
<1>2. Len(bytes) \in Nat /\ Len(bytes) >= 10 /\ Len(bytes) - 10 >= ReadU16(bytes, 9)
  BY <1>1 DEF HasPayload, HeaderSize
<1>3. PICK n \in Word : n = ReadU16(bytes, 9)
  <2>1. 9 \in Nat \ {0} /\ 9 + 1 =< Len(bytes)
    BY <1>2
  <2> QED BY <2>1, WordRead
<1>4. n \in Nat /\ n < WordCount /\ WordCount \in Nat
  BY BaseAssumption DEF Word, WordCount
<1>5. PICK h \in Header : h = DecodeHeader(bytes) /\ h.payloadLength = n
  BY <1>2, <1>3, HeaderTypes DEF DecodeHeader
<1>6. 10 + n =< Len(bytes)
  BY <1>2, <1>3, <1>4
<1>7. PICK z \in Nat : z = 10 + n
  BY <1>4
<1> DEFINE s == SubSeq(bytes, 11, z)
<1>8. s \in Seq(Byte) /\ Len(s) = n /\ \A i \in 1..n : s[i] = bytes[10 + i]
  <2>1. \A i \in 11..z : bytes[i] \in Byte
    BY <1>2, <1>6, <1>7
  <2>2. 11 \in Int /\ z \in Int /\ 11 =< z + 1 /\ z - 11 + 1 = n
    BY <1>4, <1>7
  <2>3. /\ s \in Seq(Byte) /\ Len(s) = z - 11 + 1
        /\ \A i \in 1..(z - 11 + 1) : s[i] = bytes[11 + i - 1]
    BY <2>1, <2>2, Part
  <2>4. \A i \in 1..n : 11 + i - 1 = 10 + i
    BY <1>4
  <2> HIDE DEF s
  <2> QED BY <2>2, <2>3, <2>4
<1>9. PICK tlvs \in DecodeTlvs(s) : message = [header |-> h, tlvs |-> tlvs]
  <2>1. HeaderSize + 1 = 11 /\ HeaderSize + h.payloadLength = z
    BY <1>5, <1>7 DEF HeaderSize
  <2>2. DecodeMessage(bytes) = {[header |-> h, tlvs |-> tlvs] : tlvs \in DecodeTlvs(s)}
    BY <1>1, <1>5, <2>1 DEF DecodeMessage
  <2> HIDE DEF s
  <2> QED BY <2>2
<1> HIDE DEF s
<1>10. message.tlvs \in DecodeTlvs(s) /\ message.header = h
  BY <1>9
<1>11. message.tlvs \in Seq(Tlv) /\ Payload(message) = s
  BY <1>8, <1>10, PayloadEncodedBack
<1>12. message \in Message
  BY <1>9, <1>10, <1>11 DEF Message
<1>13. WithLength(message) = h
  <2>1. n % WordCount = n
    BY <1>4, Remainders
  <2>2. WithLength(message) = [h EXCEPT !.payloadLength = n]
    BY <1>8, <1>10, <1>11, <2>1 DEF WithLength, ToU16
  <2> QED BY <1>5, <2>2 DEF Header
<1>14. PICK e \in Seq(Byte) : e = EncodeHeader(h) /\ Len(e) = 10
  BY HeaderBytes DEF HeaderSize
<1>15. PICK m : m = EncodeMessage(message) /\ m = Join(e, s)
  BY <1>11, <1>13, <1>14 DEF EncodeMessage, Join
<1>16. m \in Seq(Byte) /\ Len(m) = z /\ \A i \in 1..z : m[i] = bytes[i]
  <2>1. Joined(m, e, s)
    BY <1>8, <1>14, <1>15, Joins
  <2>2. m \in Seq(Byte) /\ Len(m) = z
    BY <1>7, <1>8, <1>14, <2>1 DEF Joined
  <2>3. \A i \in 1..10 : m[i] = bytes[i]
    BY <1>2, <1>5, <1>14, <2>1, HeaderEncodedBack DEF Joined
  <2>4. \A i \in 1..n : m[10 + i] = bytes[10 + i]
    BY <1>8, <1>14, <2>1 DEF Joined
  <2>5. \A i \in 1..z : i \in 1..10 \/ \E j \in 1..n : i = 10 + j
    <3> SUFFICES ASSUME NEW i \in 1..z, i > 10 PROVE \E j \in 1..n : i = 10 + j
      BY <1>7
    <3>1. i - 10 \in 1..n /\ i = 10 + (i - 10)
      BY <1>4, <1>7
    <3> QED BY <3>1
  <2> QED BY <2>2, <2>3, <2>4, <2>5
<1> DEFINE b == SubSeq(bytes, 1, z)
<1>17. b \in Seq(Byte) /\ Len(b) = z /\ \A i \in 1..z : b[i] = bytes[i]
  <2>1. \A i \in 1..z : bytes[i] \in Byte
    BY <1>2, <1>6, <1>7
  <2>2. 1 \in Int /\ z \in Int /\ 1 =< z + 1 /\ z - 1 + 1 = z
    OBVIOUS
  <2>3. b \in Seq(Byte) /\ Len(b) = z - 1 + 1 /\ \A i \in 1..(z - 1 + 1) : b[i] = bytes[1 + i - 1]
    BY <2>1, <2>2, Part
  <2>4. \A i \in 1..z : 1 + i - 1 = i
    OBVIOUS
  <2> HIDE DEF b
  <2> QED BY <2>2, <2>3, <2>4
<1> HIDE DEF b
<1>18. m = b
  BY <1>16, <1>17, SeqEqual
<1>19. FrameSize(bytes, 1) = z
  BY <1>3, <1>7 DEF FrameSize, HeaderSize
<1> QED BY <1>12, <1>15, <1>18, <1>19 DEF b

\* What decodes is a message.
LEMMA DecodedAreMessages ==
  ASSUME NEW bytes \in Seq(Byte)
  PROVE  DecodeMessage(bytes) \subseteq Message
BY DecodedIsEncoded

\* A message that cannot be written as it is does not come back.
LEMMA MisfitIsLost ==
  ASSUME NEW message \in Message, ~Fits(message)
  PROVE  AsSent(message) \notin DecodeMessage(EncodeMessage(message))
<1>1. PICK b \in Seq(Byte), n \in Nat :
        /\ b = EncodeMessage(message) /\ n = Len(Payload(message)) /\ Len(b) = 10 + n
  BY MessageBytes
<1>2. PICK q \in Nat : q = n % WordCount /\ q < n /\ q = ReadU16(b, 9)
  <2>1. n % WordCount \in Nat /\ n % WordCount < n
    BY <1>1, FitsAsWritten
  <2>2. ReadU16(b, 9) = n % WordCount
    BY <1>1, EncodedAlone DEF Encoded
  <2> QED BY <2>1, <2>2
<1>3. FrameSize(b, 1) = 10 + q
  BY <1>2 DEF FrameSize, HeaderSize
<1> DEFINE back == AsSent(message)
<1>4. back.tlvs = message.tlvs /\ Payload(back) = Payload(message)
  BY DEF AsSent, Payload, Message
<1> SUFFICES ASSUME back \in DecodeMessage(b) PROVE FALSE
  BY <1>1
<1> HIDE DEF back
<1>5. back \in Message /\ EncodeMessage(back) = SubSeq(b, 1, 10 + q)
  BY <1>1, <1>3, DecodedIsEncoded
<1>6. Len(EncodeMessage(back)) = 10 + n
  BY <1>1, <1>4, <1>5, MessageBytes
<1>7. Len(SubSeq(b, 1, 10 + q)) = 10 + q
  <2>1. \A i \in 1..(10 + q) : b[i] \in Byte
    BY <1>1, <1>2
  <2>2. 1 \in Int /\ 10 + q \in Int /\ 1 =< 10 + q + 1
    OBVIOUS
  <2>3. PICK z \in Int : z = 10 + q
    OBVIOUS
  <2>4. Len(SubSeq(b, 1, z)) = z - 1 + 1
    BY <2>1, <2>2, <2>3, Part
  <2> QED BY <2>3, <2>4
<1> QED BY <1>2, <1>5, <1>6, <1>7

\* A message comes back if and only if its length field can count its payload,
\* and then nothing else does (codec.cpp encodeMessage, decodeMessage).
THEOREM MessageRoundTrip ==
  ASSUME NEW message \in Message
  PROVE  Fits(message) <=> DecodeMessage(EncodeMessage(message)) = {AsSent(message)}
<1>1. Encoded(EncodeMessage(message), message, Len(Payload(message)))
  BY EncodedAlone
<1>2. Fits(message) => DecodeMessage(EncodeMessage(message)) = {AsSent(message)}
  BY <1>1, SentDecodes
<1>3. ~Fits(message) => DecodeMessage(EncodeMessage(message)) # {AsSent(message)}
  BY MisfitIsLost
<1> QED BY <1>2, <1>3

\* What decodes of the first n bytes of a stream that begins with a message.
LEMMA FirstDecodes ==
  ASSUME NEW message \in Message, Fits(message),
         NEW s \in Seq(Byte), Begins(s, EncodeMessage(message)), NEW n \in 1..Len(s)
  PROVE  DecodeMessage(SubSeq(s, 1, n)) \in {{}, {AsSent(message)}}
<1>1. PICK e \in Seq(Byte), l \in Nat : e = EncodeMessage(message) /\ l = Len(e)
  BY MessageBytes
<1>2. CASE n < l
  <2>1. n \in 0..(Len(EncodeMessage(message)) - 1)
    BY <1>1, <1>2
  <2>2. Encoded(s, message, Len(Payload(message)))
    BY EncodedOn
  <2> QED BY <2>1, <2>2, CutDoesNotDecode
<1>3. CASE n >= l
  <2>1. PICK b : b = SubSeq(s, 1, n)
    OBVIOUS
  <2>2. b \in Seq(Byte) /\ Len(b) = n /\ \A i \in 1..n : b[i] = s[i]
    <3>1. \A i \in 1..n : s[i] \in Byte
      OBVIOUS
    <3>2. 1 \in Int /\ n \in Int /\ 1 =< n + 1 /\ n - 1 + 1 = n
      OBVIOUS
    <3>3. b \in Seq(Byte) /\ Len(b) = n - 1 + 1 /\ \A i \in 1..(n - 1 + 1) : b[i] = s[1 + i - 1]
      BY <2>1, <3>1, <3>2, Part
    <3>4. \A i \in 1..n : 1 + i - 1 = i
      OBVIOUS
    <3> QED BY <3>2, <3>3, <3>4
  <2>3. Begins(b, e)
    BY <1>1, <1>3, <2>2 DEF Begins
  <2>4. Encoded(b, message, Len(Payload(message)))
    BY <1>1, <2>2, <2>3, EncodedOn
  <2> QED BY <2>1, <2>4, SentDecodes
<1> QED BY <1>1, <1>2, <1>3

\* A message is framed by its own length if and only if the length field can
\* count its payload, whatever comes behind it in the stream: then FrameParser
\* finds its end, otherwise it takes the end to be somewhere within (codec.cpp
\* encodeMessage, frame_parser.cpp next).
THEOREM FramedIfItFits ==
  ASSUME NEW message \in Message, NEW rest \in Seq(Byte)
  PROVE  LET bytes == EncodeMessage(message)
             end == FrameSize(bytes \o rest, 1)
         IN  /\ Fits(message) => end = Len(bytes) /\ HasFrame(bytes \o rest, 1)
             /\ ~Fits(message) => end < Len(bytes)
<1>1. PICK n \in Nat, k \in Nat, q \in Nat :
        /\ n = Len(Payload(message)) /\ k = Len(rest) /\ q = n % WordCount
        /\ Fits(message) => q = n
        /\ ~Fits(message) => q < n
  BY PayloadBytes, FitsAsWritten
<1>2. PICK f : f = Join(EncodeMessage(message), rest)
  OBVIOUS
<1>3. Len(EncodeMessage(message)) = 10 + n /\ Len(f) = 10 + n + k
  BY <1>1, <1>2, EncodedBytes
<1>4. FrameSize(f, 1) = 10 + q
  <2>1. Encoded(f, message, n)
    BY <1>1, <1>2, EncodedBytes
  <2>2. 1 + 8 = 9
    OBVIOUS
  <2> QED BY <1>1, <2>1, <2>2 DEF Encoded, FrameSize, HeaderSize
<1>5. Fits(message) => HasFrame(f, 1)
  BY <1>1, <1>3, <1>4 DEF HasFrame, HeaderSize
<1> QED BY <1>1, <1>2, <1>3, <1>4, <1>5 DEF Join

-----------------------------------------------------------------------------
\* The messages found in a stream.

\* A frame that is there ends within the bytes, behind its own header: the loop
\* over the bytes moves on.
LEMMA FrameSizes ==
  ASSUME NEW bytes \in Seq(Byte), NEW p \in 1..(Len(bytes) + 1), HasFrame(bytes, p)
  PROVE  /\ FrameSize(bytes, p) \in Nat /\ FrameSize(bytes, p) >= 10
         /\ p + FrameSize(bytes, p) =< Len(bytes) + 1
<1>1. Len(bytes) \in Nat /\ p \in Nat /\ p + 9 =< Len(bytes)
  BY DEF HasFrame, HeaderSize
<1>2. ReadU16(bytes, p + 8) \in Word
  <2>1. p + 8 \in Nat \ {0} /\ (p + 8) + 1 =< Len(bytes)
    BY <1>1
  <2> QED BY <2>1, WordRead
<1>3. WordCount \in Nat
  BY BaseAssumption DEF WordCount
<1> QED BY <1>1, <1>2, <1>3 DEF HasFrame, FrameSize, HeaderSize, Word

\* What a frame decodes to is a message.
LEMMA FoundTypes ==
  ASSUME NEW bytes \in Seq(Byte), NEW p \in 1..(Len(bytes) + 1), HasFrame(bytes, p)
  PROVE  FoundAt(bytes, p) \subseteq Message
<1>1. PICK n \in Nat : n = FrameSize(bytes, p) /\ n >= 10 /\ p + n =< Len(bytes) + 1
  BY FrameSizes
<1>2. PICK z \in Nat : z = p + FrameSize(bytes, p) - 1 /\ p =< z + 1 /\ z =< Len(bytes)
  BY <1>1
<1>3. \A i \in p..z : bytes[i] \in Byte
  BY <1>2
<1>4. SubSeq(bytes, p, z) \in Seq(Byte)
  BY <1>2, <1>3, Part
<1> QED BY <1>2, <1>4, DecodedAreMessages DEF FoundAt

\* The loop of Messages as equations: what is found from each position.
Finds(from, bytes) ==
  \A p \in 1..(Len(bytes) + 1) :
    from[p] = IF HasFrame(bytes, p) /\ FoundAt(bytes, p) # {}
              THEN <<CHOOSE m \in FoundAt(bytes, p) : TRUE>> \o from[p + FrameSize(bytes, p)]
              ELSE <<>>

\* The calls of next() for the bytes of one read end, for any bytes.
LEMMA FrameLoop ==
  ASSUME NEW bytes \in Seq(Byte)
  PROVE  \E from : Finds(from, bytes) /\ Messages(bytes) = from[1]
<1> DEFINE end == Len(bytes) + 1
           S == 1..end
           X == Seq(Message)
           more == {p \in S : HasFrame(bytes, p) /\ FoundAt(bytes, p) # {}}
           rank == [p \in S |-> end - p]
           next == [p \in more |-> p + FrameSize(bytes, p)]
           first(p) == CHOOSE m \in FoundAt(bytes, p) : TRUE
           step == [p \in more |-> [r \in X |-> <<first(p)>> \o r]]
           last == [p \in S |-> <<>>]
           body(f, p) ==
             IF HasFrame(bytes, p) /\ FoundAt(bytes, p) # {}
             THEN <<first(p)>> \o f[p + FrameSize(bytes, p)]
             ELSE <<>>
<1>1. end \in Nat /\ Len(bytes) \in Nat /\ 1 \in S
  OBVIOUS
<1>2. \A p \in more : p + FrameSize(bytes, p) \in S /\ first(p) \in Message
  <2> SUFFICES ASSUME NEW p \in more
               PROVE  p + FrameSize(bytes, p) \in S /\ first(p) \in Message
    OBVIOUS
  <2>1. p \in 1..(Len(bytes) + 1) /\ HasFrame(bytes, p) /\ FoundAt(bytes, p) # {}
    OBVIOUS
  <2>2. first(p) \in FoundAt(bytes, p)
    BY <2>1
  <2>3. p + FrameSize(bytes, p) \in S
    BY <1>1, <2>1, FrameSizes
  <2> HIDE DEF first, S
  <2> QED BY <2>1, <2>2, <2>3, FoundTypes
<1>3. \E f \in [S -> X] : \A p \in S : Solves(f, p, more, next, step, last)
  <2>1. rank \in [S -> 0..end] /\ more \in SUBSET S
    BY <1>1
  <2>2. next \in [more -> S]
    BY <1>2
  <2>3. \A p \in more : rank[next[p]] < rank[p]
    BY <1>1, <1>2, FrameSizes
  <2>4. step \in [more -> [X -> X]]
    <3> SUFFICES ASSUME NEW p \in more, NEW r \in X PROVE <<first(p)>> \o r \in X
      OBVIOUS
    <3>1. first(p) \in Message
      BY <1>2
    <3> HIDE DEF first
    <3>2. <<first(p)>> \in Seq(Message)
      BY <3>1
    <3> QED BY <3>2
  <2>5. last \in [S -> X]
    OBVIOUS
  <2> HIDE DEF S, X, more, rank, next, step, last
  <2> QED BY <1>1, <2>1, <2>2, <2>3, <2>4, <2>5, RecursionEnds
<1>4. \E f : f = [p \in S |-> body(f, p)]
  <2>1. PICK f \in [S -> X] : \A p \in S : Solves(f, p, more, next, step, last)
    BY <1>3
  <2>2. ASSUME NEW p \in S PROVE f[p] = body(f, p)
    <3>1. Solves(f, p, more, next, step, last)
      BY <2>1
    <3>2. CASE p \in more
      <4>1. next[p] = p + FrameSize(bytes, p) /\ f[next[p]] \in X
        BY <1>2, <3>2
      <4>2. f[p] = step[p][f[next[p]]]
        BY <3>1, <3>2 DEF Solves
      <4>3. step[p][f[next[p]]] = <<first(p)>> \o f[next[p]]
        BY <3>2, <4>1
      <4> HIDE DEF first, step
      <4> QED BY <3>2, <4>1, <4>2, <4>3
    <3>3. CASE p \notin more
      <4>1. f[p] = <<>>
        BY <3>1, <3>3 DEF Solves
      <4> HIDE DEF first
      <4> QED BY <3>3, <4>1
    <3> QED BY <3>2, <3>3
  <2>3. f = [p \in S |-> body(f, p)]
    <3> HIDE DEF body
    <3> QED BY <2>2
  <2> QED BY <2>3
<1> DEFINE from[p \in S] ==
             IF HasFrame(bytes, p) /\ FoundAt(bytes, p) # {}
             THEN <<CHOOSE m \in FoundAt(bytes, p) : TRUE>> \o from[p + FrameSize(bytes, p)]
             ELSE <<>>
<1>5. Messages(bytes) = from[1]
  BY DEF Messages
<1>6. from = [p \in S |-> body(from, p)]
  BY <1>4
<1> HIDE DEF from
<1>7. Finds(from, bytes)
  BY <1>6 DEF Finds
<1> QED BY <1>5, <1>7

\* Whatever arrives, what is found in it are messages.
LEMMA MessagesFound ==
  ASSUME NEW bytes \in Seq(Byte)
  PROVE  Messages(bytes) \in Seq(Message)
<1>1. PICK from : Finds(from, bytes) /\ Messages(bytes) = from[1]
  BY FrameLoop
<1>2. PICK l \in Nat : l = Len(bytes)
  OBVIOUS
<1> DEFINE U == {k \in 0..l : from[l + 1 - k] \notin Seq(Message)}
<1>3. ASSUME U # {} PROVE FALSE
  <2>1. PICK k \in U : \A j \in U : k =< j
    <3>1. U \in SUBSET Nat
      OBVIOUS
    <3> HIDE DEF U
    <3> QED BY <1>3, <3>1, Least
  <2>2. PICK p \in 1..(Len(bytes) + 1) : p = l + 1 - k /\ k \in 0..l
    BY <1>2
  <2>3. from[p] # <<>> /\ from[p] \notin Seq(Message)
    <3>1. from[p] \notin Seq(Message)
      BY <2>1, <2>2
    <3>2. <<>> \in Seq(Message)
      OBVIOUS
    <3> QED BY <3>1, <3>2
  <2>4. /\ HasFrame(bytes, p) /\ FoundAt(bytes, p) # {}
        /\ from[p] = <<(CHOOSE x \in FoundAt(bytes, p) : TRUE)>> \o from[p + FrameSize(bytes, p)]
    BY <1>1, <2>3 DEF Finds
  <2>5. PICK m \in Message : from[p] = <<m>> \o from[p + FrameSize(bytes, p)]
    <3>1. FoundAt(bytes, p) \subseteq Message
      BY <2>4, FoundTypes
    <3>2. (CHOOSE x \in FoundAt(bytes, p) : TRUE) \in Message
      BY <2>4, <3>1
    <3> QED BY <2>4, <3>2
  <2>6. PICK j \in 0..l : p + FrameSize(bytes, p) = l + 1 - j /\ j < k
    <3>1. PICK n \in Nat : n = FrameSize(bytes, p) /\ n >= 10 /\ p + n =< l + 1
      BY <1>2, <2>4, FrameSizes
    <3>2. l + 1 - (p + n) \in 0..l /\ p + n = l + 1 - (l + 1 - (p + n)) /\ l + 1 - (p + n) < k
      BY <2>2, <3>1
    <3> QED BY <3>1, <3>2
  <2>7. from[p + FrameSize(bytes, p)] \in Seq(Message)
    <3>1. j \notin U
      BY <2>1, <2>2, <2>6
    <3> QED BY <2>6, <3>1
  <2>8. <<m>> \in Seq(Message)
    OBVIOUS
  <2> QED BY <2>3, <2>5, <2>7, <2>8, ConcatProperties
<1>4. l \notin U /\ l \in 0..l /\ l + 1 - l = 1
  <2> HIDE DEF U
  <2> QED BY <1>2, <1>3
<1>5. from[l + 1 - l] \in Seq(Message)
  BY <1>4
<1> QED BY <1>1, <1>4, <1>5

\* Where the bytes of a message that fits stand, next() finds that message and
\* its end.
LEMMA FrameFound ==
  ASSUME NEW bytes \in Seq(Byte), NEW p \in Nat, NEW message \in Message, Fits(message),
         NEW e, e = EncodeMessage(message), p + Len(e) =< Len(bytes),
         \A i \in 1..Len(e) : bytes[p + i] = e[i]
  PROVE  /\ HasFrame(bytes, p + 1)
         /\ FrameSize(bytes, p + 1) = Len(e)
         /\ FoundAt(bytes, p + 1) = {AsSent(message)}
<1>1. PICK n \in Nat : n = Len(Payload(message)) /\ e \in Seq(Byte) /\ Len(e) = 10 + n
  BY MessageBytes
<1>2. Encoded(e, message, n)
  BY <1>1, EncodedAlone
<1>3. ReadU16(bytes, (p + 1) + 8) = n
  <2>1. n % WordCount = n
    BY <1>1, FitsAsWritten
  <2>2. ReadU16(e, 9) = n
    BY <1>2, <2>1 DEF Encoded
  <2>3. bytes[p + 9] = e[9] /\ bytes[p + 10] = e[10]
    BY <1>1
  <2>4. (p + 1) + 8 = p + 9 /\ (p + 9) + 1 = p + 10
    OBVIOUS
  <2> QED BY <2>2, <2>3, <2>4 DEF ReadU16
<1>4. FrameSize(bytes, p + 1) = Len(e)
  BY <1>1, <1>3 DEF FrameSize, HeaderSize
<1>5. HasFrame(bytes, p + 1)
  BY <1>1, <1>4 DEF HasFrame, HeaderSize
<1>6. SubSeq(bytes, p + 1, p + Len(e)) = e
  BY <1>1, PartOf
<1>7. (p + 1) + Len(e) - 1 = p + Len(e)
  BY <1>1
<1>8. DecodeMessage(e) = {AsSent(message)}
  BY <1>1, <1>2, SentDecodes
<1> QED BY <1>4, <1>5, <1>6, <1>7, <1>8 DEF FoundAt

\* Messages that were encoded one behind the other are found as they were sent,
\* all of them, in that order and nothing else, if the length field of each can
\* count its payload (codec.cpp encodeMessage, frame_parser.cpp next).
THEOREM StreamFound ==
  ASSUME NEW ms \in Seq(Message), \A i \in 1..Len(ms) : Fits(ms[i])
  PROVE  Messages(FlattenSeq([i \in 1..Len(ms) |-> EncodeMessage(ms[i])]))
           = [i \in 1..Len(ms) |-> AsSent(ms[i])]
<1> DEFINE seqs == [i \in 1..Len(ms) |-> EncodeMessage(ms[i])]
           sent == [i \in 1..Len(ms) |-> AsSent(ms[i])]
<1>1. PICK n \in Nat : n = Len(ms) /\ \A i \in 1..n : ms[i] \in Message /\ Fits(ms[i])
  OBVIOUS
<1>2. seqs \in Seq(Seq(Byte)) /\ Len(seqs) = n
  <2>1. \A i \in 1..n : EncodeMessage(ms[i]) \in Seq(Byte)
    BY <1>1, MessageBytes
  <2> QED BY <1>1, <2>1
<1>3. sent \in Seq({sent[i] : i \in 1..n}) /\ Len(sent) = n
  BY <1>1
<1>4. \A i \in 1..n : seqs[i] = EncodeMessage(ms[i]) /\ sent[i] = AsSent(ms[i])
  BY <1>1
<1> HIDE DEF seqs, sent
<1>5. PICK F : Piles(F, seqs) /\ FlattenSeq(seqs) = F[n]
  BY <1>2, Flattens
<1>6. PICK bytes \in Seq(Byte) : bytes = F[n]
  BY <1>2, <1>5 DEF Piles
<1>7. PICK from : Finds(from, bytes) /\ Messages(bytes) = from[1]
  BY FrameLoop
<1>8. \A i \in 0..n : F[i] \in Seq(Byte) /\ Begins(bytes, F[i])
  BY <1>2, <1>5, <1>6, PilesOn DEF Piles
<1> DEFINE T == {k \in 0..n : from[Len(F[n - k]) + 1] = SubSeq(sent, n - k + 1, n)}
<1>9. 0 \in T
  <2>1. from[Len(bytes) + 1] = <<>>
    <3>1. Len(bytes) + 1 \in 1..(Len(bytes) + 1)
      OBVIOUS
    <3>2. ~HasFrame(bytes, Len(bytes) + 1)
      BY DEF HasFrame, HeaderSize
    <3> QED BY <1>7, <3>1, <3>2 DEF Finds
  <2>2. SubSeq(sent, n + 1, n) = <<>>
    BY SubSeqEmpty
  <2>3. n - 0 = n /\ n - 0 + 1 = n + 1 /\ 0 \in 0..n
    OBVIOUS
  <2>4. from[Len(F[n - 0]) + 1] = SubSeq(sent, n - 0 + 1, n)
    BY <1>6, <2>1, <2>2, <2>3, Zenon
  <2> QED BY <2>3, <2>4
<1>10. ASSUME NEW k \in 0..(n - 1), k \in T PROVE k + 1 \in T
  <2>1. PICK i \in 1..n : i = n - k
    OBVIOUS
  <2>2. i - 1 = n - (k + 1) /\ i - 1 \in 0..n /\ i \in 0..n /\ k + 1 \in 0..n
    BY <2>1
  <2>3. PICK message \in Message : message = ms[i] /\ Fits(message)
    BY <1>1
  <2>4. PICK s \in Seq(Byte) : s = F[i - 1]
    BY <1>8, <2>2
  <2>5. PICK e \in Seq(Byte) : e = EncodeMessage(message) /\ e = seqs[i]
    BY <1>4, <2>3, MessageBytes
  <2>6. PICK t \in Seq(Byte) : t = F[i] /\ t = Join(s, e)
    BY <1>2, <1>5, <1>8, <2>2, <2>4, <2>5 DEF Piles
  <2>7. PICK p \in Nat, z \in Nat, l \in Nat : p = Len(s) /\ z = Len(e) /\ l = Len(bytes)
    OBVIOUS
  <2>8. Joined(t, s, e) /\ Begins(bytes, t)
    BY <1>8, <2>2, <2>6, Joins
  <2>9. Len(t) = p + z /\ p + z =< l
    BY <2>7, <2>8 DEF Joined, Begins
  <2>10. \A j \in 1..z : bytes[p + j] = e[j]
    <3> SUFFICES ASSUME NEW j \in 1..z PROVE bytes[p + j] = e[j]
      OBVIOUS
    <3>1. p + j \in 1..Len(t)
      BY <2>9
    <3>2. t[p + j] = e[j]
      BY <2>7, <2>8 DEF Joined
    <3> QED BY <2>8, <3>1, <3>2 DEF Begins
  <2>11. /\ HasFrame(bytes, p + 1) /\ FrameSize(bytes, p + 1) = z
         /\ FoundAt(bytes, p + 1) = {AsSent(message)}
    <3>1. p + Len(e) =< Len(bytes) /\ \A j \in 1..Len(e) : bytes[p + j] = e[j]
      BY <2>7, <2>9, <2>10
    <3> HIDE DEF T
    <3>2. HasFrame(bytes, p + 1) /\ FrameSize(bytes, p + 1) = Len(e)
      BY <2>3, <2>5, <3>1, FrameFound, ZenonT(60)
    <3>3. FoundAt(bytes, p + 1) = {AsSent(message)}
      BY <2>3, <2>5, <3>1, FrameFound
    <3> QED BY <2>7, <3>2, <3>3
  <2>12. from[p + 1] = <<CHOOSE m \in FoundAt(bytes, p + 1) : TRUE>>
                         \o from[(p + 1) + FrameSize(bytes, p + 1)]
    <3>1. p + 1 \in 1..(Len(bytes) + 1)
      BY <2>7, <2>9
    <3>2. FoundAt(bytes, p + 1) # {}
      BY <2>11, Zenon
    <3> QED BY <1>7, <2>11, <3>1, <3>2 DEF Finds
  <2>13. (CHOOSE m \in FoundAt(bytes, p + 1) : TRUE) = sent[i]
    BY <1>4, <2>3, <2>11
  <2>14. (p + 1) + FrameSize(bytes, p + 1) = Len(t) + 1
    BY <2>9, <2>11
  <2>15. from[Len(t) + 1] = SubSeq(sent, i + 1, n)
    BY <1>10, <2>1, <2>6
  <2>16. from[p + 1] = <<sent[i]>> \o SubSeq(sent, i + 1, n)
    BY <2>12, <2>13, <2>14, <2>15, Zenon
  <2>17. <<sent[i]>> \o SubSeq(sent, i + 1, n) = SubSeq(sent, i, n)
    <3>1. i \in 1..Len(sent) /\ n \in i..Len(sent)
      BY <1>3
    <3> QED BY <1>3, <3>1, SubSeqRecursiveFirst
  <2>18. n - (k + 1) + 1 = i
    BY <2>1
  <2> QED BY <2>2, <2>4, <2>7, <2>16, <2>17, <2>18
<1> HIDE DEF T
<1>11. n \in T
  <2>1. 0..n \subseteq T
    BY <1>9, <1>10, Climbs
  <2> QED BY <2>1
<1>12. from[1] = sent
  <2>1. n - n = 0 /\ n - n + 1 = 1
    OBVIOUS
  <2>2. Len(F[0]) + 1 = 1
    BY <1>5 DEF Piles
  <2>3. SubSeq(sent, 1, n) = sent
    BY <1>3, SubSeqFull
  <2>4. from[Len(F[n - n]) + 1] = SubSeq(sent, n - n + 1, n)
    BY <1>11 DEF T
  <2> QED BY <2>1, <2>2, <2>3, <2>4
<1> QED BY <1>5, <1>6, <1>7, <1>12 DEF seqs, sent

\* The bytes of one message that fits are one frame.
LEMMA FoundAlone ==
  ASSUME NEW message \in Message, Fits(message)
  PROVE  Messages(EncodeMessage(message)) = <<AsSent(message)>>
<1>1. PICK e \in Seq(Byte), m \in Message : e = EncodeMessage(message) /\ m = message
  BY MessageBytes
<1>2. PICK seqs \in Seq(Seq(Byte)) : seqs = <<e>>
  <2>1. <<e>> \in Seq(Seq(Byte))
    OBVIOUS
  <2> QED BY <2>1
<1>3. FlattenSeq(seqs) = e
  <2>1. PICK F : Piles(F, seqs) /\ FlattenSeq(seqs) = F[Len(seqs)]
    BY Flattens
  <2>2. Len(seqs) = 1 /\ seqs[1] = e /\ 1 - 1 = 0
    BY <1>2
  <2>3. F[1] = Join(<<>>, e)
    BY <2>1, <2>2 DEF Piles
  <2> QED BY <2>1, <2>2, <2>3, ConcatEmptySeq DEF Join
<1>4. PICK ms \in Seq(Message) : ms = <<m>> /\ Len(ms) = 1 /\ ms[1] = m
  <2>1. <<m>> \in Seq(Message) /\ Len(<<m>>) = 1 /\ <<m>>[1] = m
    OBVIOUS
  <2> QED BY <2>1
<1>5. /\ [i \in 1..Len(ms) |-> EncodeMessage(ms[i])] = seqs
      /\ [i \in 1..Len(ms) |-> AsSent(ms[i])] = <<AsSent(message)>>
  <2>1. 1..Len(ms) = {1} /\ DOMAIN seqs = {1} /\ DOMAIN <<AsSent(message)>> = {1}
    BY <1>2, <1>4
  <2> QED BY <1>1, <1>2, <1>4, <2>1
<1>6. \A i \in 1..Len(ms) : Fits(ms[i])
  BY <1>1, <1>4
<1> QED BY <1>1, <1>3, <1>5, <1>6, StreamFound

-----------------------------------------------------------------------------
\* What the dispatcher answers and what the session announces can be encoded.

\* A message of at most one TLV of at most five bytes fits.
LEMMA ShortFits ==
  ASSUME NEW message \in Message,
         \/ message.tlvs = <<>>
         \/ \E tlv \in Tlv : message.tlvs = <<tlv>> /\ Len(tlv.value) =< 5
  PROVE  Fits(message)
<1>1. PICK tlvs \in Seq(Tlv), n \in Nat : tlvs = message.tlvs /\ n = Len(tlvs)
  BY DEF Message
<1>2. PICK F : Grows(F, tlvs) /\ Payload(message) = F[n]
  BY <1>1, PayloadGrows
<1>3. F[0] = <<>> /\ Len(F[0]) = 0
  BY <1>2 DEF Grows
<1>4. WordCount \in Nat /\ WordCount >= 25
  <2>1. Base \in Nat /\ Base >= 5
    BY BaseAssumption
  <2>2. Base * Base >= 5 * Base
    BY <2>1
  <2> QED BY <2>1, <2>2 DEF WordCount
<1>5. CASE tlvs = <<>>
  <2>1. Len(Payload(message)) = 0
    BY <1>1, <1>2, <1>3, <1>5
  <2> QED BY <1>4, <2>1 DEF Fits
<1>6. CASE \E tlv \in Tlv : tlvs = <<tlv>> /\ Len(tlv.value) =< 5
  <2>1. PICK tlv \in Tlv : tlvs = <<tlv>> /\ Len(tlv.value) =< 5
    BY <1>6
  <2>2. PICK e \in Seq(Byte) : e = EncodeTlv(tlv) /\ Len(e) = 4 + Len(tlv.value)
    BY TlvLength
  <2>3. n = 1 /\ tlvs[1] = tlv /\ 1 - 1 = 0
    BY <1>1, <2>1
  <2>4. F[1] = Join(F[0], e)
    BY <1>1, <1>2, <2>2, <2>3 DEF Grows
  <2>5. Joined(F[1], <<>>, e)
    <3>1. <<>> \in Seq(Byte)
      OBVIOUS
    <3> QED BY <1>3, <2>4, <3>1, Joins
  <2>6. Len(tlv.value) \in Nat
    BY DEF Tlv
  <2>7. Len(Payload(message)) = 4 + Len(tlv.value)
    BY <1>2, <2>2, <2>3, <2>5, <2>6 DEF Joined
  <2> QED BY <1>4, <2>1, <2>6, <2>7 DEF Fits
<1> QED BY <1>1, <1>5, <1>6

\* The codes of the protocol are words and bytes: Base is 5 or more.
LEMMA Codes ==
  /\ {0, 1, 2, 3, 4} \subseteq Word
  /\ {0, 1, 2, 3, 4, Base - 1} \subseteq Byte
<1>1. Base \in Nat /\ Base >= 5
  BY BaseAssumption
<1>2. Base * Base >= 5 * Base
  BY <1>1
<1> QED BY <1>1, <1>2 DEF Word, WordCount, Byte

\* What the dispatcher answers and what the session announces can be written.
LEMMA NasTlvsShort ==
  ASSUME NEW id \in Word, NEW r \in BOOLEAN
  PROVE  \/ NasTlvs(id, r) = <<>>
         \/ \E tlv \in Tlv : NasTlvs(id, r) = <<tlv>> /\ Len(tlv.value) =< 5
<1>1. CASE id = GetSignal
  <2> DEFINE tlv == [type |-> 1, value |-> <<SignalStrength>>]
  <2>1. <<SignalStrength>> \in Seq(Byte) /\ Len(<<SignalStrength>>) = 1
    BY Codes DEF SignalStrength
  <2>2. tlv \in Tlv /\ Len(tlv.value) =< 5
    BY <2>1, Codes DEF Tlv
  <2>3. NasTlvs(id, r) = <<tlv>>
    BY <1>1 DEF NasTlvs, GetSignal, GetRegistration, GetOperator
  <2> HIDE DEF tlv
  <2> QED BY <2>2, <2>3
<1>2. CASE id = GetRegistration
  <2> DEFINE tlv == [type |-> 2, value |-> <<IF r THEN 1 ELSE 0>>]
  <2>1. <<IF r THEN 1 ELSE 0>> \in Seq(Byte) /\ Len(<<IF r THEN 1 ELSE 0>>) = 1
    BY Codes
  <2>2. tlv \in Tlv /\ Len(tlv.value) =< 5
    BY <2>1, Codes DEF Tlv
  <2>3. NasTlvs(id, r) = <<tlv>>
    BY <1>2 DEF NasTlvs, GetSignal, GetRegistration, GetOperator
  <2> HIDE DEF tlv
  <2> QED BY <2>2, <2>3
<1>3. CASE id = GetOperator
  <2>1. PICK v \in Seq(Byte) : v = OperatorCode /\ Len(v) = 5
    <3>1. OperatorCode \in Seq(Byte) /\ Len(OperatorCode) = 5
      BY Codes DEF OperatorCode
    <3> QED BY <3>1
  <2> DEFINE tlv == [type |-> 3, value |-> v]
  <2>2. tlv \in Tlv
    BY Codes DEF Tlv
  <2>3. Len(tlv.value) =< 5
    <3>1. PICK n \in Nat : n = Len(v)
      OBVIOUS
    <3>2. tlv.value = v /\ n = 5
      BY <2>1, <3>1
    <3> HIDE DEF tlv
    <3> QED BY <3>1, <3>2
  <2>4. NasTlvs(id, r) = <<tlv>>
    BY <1>3, <2>1 DEF NasTlvs, GetSignal, GetRegistration, GetOperator
  <2> HIDE DEF tlv
  <2> QED BY <2>2, <2>3, <2>4
<1>4. CASE id \notin {GetSignal, GetRegistration, GetOperator}
  BY <1>4 DEF NasTlvs
<1> QED BY <1>1, <1>2, <1>3, <1>4

\* Every answer is a message that can be encoded, whatever the request was
\* (dispatcher.cpp dispatch).
LEMMA AnswersFit ==
  ASSUME NEW message \in Message, NEW r \in BOOLEAN
  PROVE  Dispatch(message, r) \in Message /\ Fits(Dispatch(message, r))
<1>1. PICK tlvs : Dispatch(message, r) = Response(message, tlvs)
                  /\ (tlvs = <<>> \/ \E tlv \in Tlv : tlvs = <<tlv>> /\ Len(tlv.value) =< 5)
  <2>1. message.header.messageId \in Word
    BY DEF Message, Header
  <2> QED BY <2>1, NasTlvsShort DEF Dispatch
<1>2. tlvs \in Seq(Tlv)
  <2>1. CASE tlvs = <<>>
    BY <2>1
  <2>2. CASE \E tlv \in Tlv : tlvs = <<tlv>>
    BY <2>2
  <2> QED BY <1>1, <2>1, <2>2
<1>3. Response(message, tlvs) \in Message /\ Response(message, tlvs).tlvs = tlvs
  BY <1>2, Codes DEF Response, ResponseFlag, Message, Header
<1> QED BY <1>1, <1>3, ShortFits

\* So is the indication (session.cpp onEvent).
LEMMA IndicationFits == Indication \in Message /\ Fits(Indication)
<1> DEFINE tlv == [type |-> 2, value |-> <<1>>]
<1>1. <<1>> \in Seq(Byte) /\ Len(<<1>>) = 1
  BY Codes
<1>2. tlv \in Tlv /\ Len(tlv.value) =< 5
  BY <1>1, Codes DEF Tlv
<1>3. Indication \in Message /\ Indication.tlvs = <<tlv>>
  BY <1>2, Codes DEF Indication, IndicationFlag, Nas, GetRegistration, Message, Header
<1> HIDE DEF tlv
<1> QED BY <1>2, <1>3, ShortFits
=============================================================================
