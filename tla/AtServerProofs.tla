--------------------------- MODULE AtServerProofs ----------------------------
(***************************************************************************)
(* Which lines the AT session finds in its input and what epoll watches    *)
(* for it, for any characters, number of bytes typed, places where read()  *)
(* returns and number of times the terminal is opened.                     *)
(***************************************************************************)
EXTENDS AtServer, SequenceTheorems, WellFoundedInduction, TLAPS

-----------------------------------------------------------------------------
\* The line reader.

\* A set of numbers has a least one.
LEMMA Least ==
  ASSUME NEW T \in SUBSET Nat, T # {}
  PROVE  \E m \in T : \A k \in T : m =< k
<1>1. PICK m \in T : \A k \in T : ~(<<k, m>> \in OpToRel(<, Nat))
  BY NatLessThanWellFounded, WFMin
<1>2. ASSUME NEW k \in T PROVE m =< k
  <2>1. ~(k < m)
    BY <1>1 DEF OpToRel
  <2> QED BY <2>1
<1> QED BY <1>2

\* Separators are places of the bytes.
LEMMA SeparatorPlaces ==
  ASSUME NEW bytes \in Seq(Byte)
  PROVE  Separators(bytes) \subseteq 1..Len(bytes) /\ Len(bytes) \in Nat
BY DEF Separators

\* The first separator.
LEMMA LineEndIsFirst ==
  ASSUME NEW bytes \in Seq(Byte), HasLine(bytes)
  PROVE  /\ LineEnd(bytes) \in Separators(bytes)
         /\ \A j \in Separators(bytes) : LineEnd(bytes) =< j
<1>1. Separators(bytes) \subseteq Nat
  BY SeparatorPlaces
<1>2. \E i \in Separators(bytes) : \A j \in Separators(bytes) : i =< j
  BY <1>1, Least DEF HasLine
<1> QED BY <1>2 DEF LineEnd

\* The last of the separators that follow it without a break.
LEMMA ConsumedAreSeparators ==
  ASSUME NEW bytes \in Seq(Byte), HasLine(bytes)
  PROVE  /\ Consumed(bytes) \in Separators(bytes)
         /\ LineEnd(bytes)..Consumed(bytes) \subseteq Separators(bytes)
         /\ Consumed(bytes) + 1 \notin Separators(bytes)
<1> DEFINE seps == Separators(bytes)
           e == LineEnd(bytes)
           after == {j \in Nat : j > e /\ j \notin seps}
<1>1. e \in seps /\ seps \subseteq 1..Len(bytes) /\ Len(bytes) \in Nat
  BY LineEndIsFirst, SeparatorPlaces
<1> HIDE DEF seps, e
<1>2. Len(bytes) + 1 \in after
  BY <1>1
<1>3. PICK j \in after : \A k \in after : j =< k
  BY <1>2, Least
<1>4. /\ j - 1 \in seps /\ e..(j - 1) \subseteq seps /\ (j - 1) + 1 \notin seps
  <2>1. \A k \in e..(j - 1) : k \in seps
    <3> TAKE k \in e..(j - 1)
    <3>1. k \in Nat /\ ~(j =< k)
      BY <1>1
    <3>2. k = e \/ k > e
      BY <1>1
    <3> QED BY <1>1, <1>3, <3>1, <3>2
  <2>2. j - 1 \in e..(j - 1) /\ (j - 1) + 1 = j
    BY <1>1
  <2> QED BY <2>1, <2>2
<1>5. \E k \in seps : e..k \subseteq seps /\ k + 1 \notin seps
  BY <1>4
<1> QED BY <1>5 DEF Consumed, seps, e

\* next() returns a line of characters, and takes at least its end off the
\* buffer.
LEMMA NextTypes ==
  ASSUME NEW bytes \in Seq(Byte), HasLine(bytes)
  PROVE  /\ Line(bytes) \in Seq(Chars)
         /\ Rest(bytes) \in Seq(Byte)
         /\ Len(Rest(bytes)) < Len(bytes)
<1> DEFINE b == bytes
           l == Len(b)
           e == LineEnd(b)
           c == Consumed(b)
<1>1. l \in Nat /\ \A i \in 1..l : b[i] \in Byte
  OBVIOUS
<1>2. e \in 1..l /\ c \in 1..l
  BY LineEndIsFirst, ConsumedAreSeparators, SeparatorPlaces
<1>3. \A i \in 1..(e - 1) : b[i] \in Chars
  <2> TAKE i \in 1..(e - 1)
  <2>1. i \in 1..l /\ ~(e =< i)
    BY <1>1, <1>2
  <2>2. i \notin Separators(b)
    BY <2>1, LineEndIsFirst
  <2>3. ~IsSeparator(b[i])
    BY <2>1, <2>2 DEF Separators
  <2> QED BY <1>1, <2>1, <2>3 DEF IsSeparator, Byte
<1>4. \A i \in (c + 1)..l : b[i] \in Byte
  BY <1>1, <1>2
<1>5. e - 1 \in Int /\ c + 1 \in Int /\ 1 \in Int /\ l \in Int
  BY <1>1, <1>2
<1> HIDE DEF b, l, e, c
<1>6. SubSeq(b, 1, e - 1) \in Seq(Chars)
  BY <1>3, <1>5, SubSeqProperties
<1>7. /\ SubSeq(b, c + 1, l) \in Seq(Byte)
      /\ Len(SubSeq(b, c + 1, l)) = IF c + 1 =< l THEN l - (c + 1) + 1 ELSE 0
  BY <1>4, <1>5, SubSeqProperties
<1>8. Len(SubSeq(b, c + 1, l)) < l
  BY <1>1, <1>2, <1>7
<1> QED BY <1>6, <1>7, <1>8 DEF Line, Rest, b, l, e, c

-----------------------------------------------------------------------------
\* The types.  What was found and what waits are no more than what was read.

Counted == Len(lines) + Len(buffer) =< taken

TypeInv == TypeOK /\ Counted /\ Len(typed) =< MaxBytes

LEMMA Lengths ==
  ASSUME TypeInv
  PROVE  /\ Len(lines) \in Nat /\ Len(buffer) \in Nat /\ Len(typed) \in Nat
         /\ taken \in Nat /\ MaxBytes \in Nat
         /\ taken =< Len(typed) /\ Len(typed) =< MaxBytes
<1>1. Len(typed) \in Nat /\ taken \in 0..Len(typed)
  BY DEF TypeInv, TypeOK
<1>2. Len(lines) \in Nat /\ Len(buffer) \in Nat
  BY DEF TypeInv, TypeOK
<1> QED BY <1>1, <1>2, MaxBytesAssumption DEF TypeInv

LEMMA InitTypes == Init => TypeInv
<1> SUFFICES ASSUME Init PROVE TypeInv
  OBVIOUS
<1>1. /\ <<>> \in Seq(Byte) /\ <<>> \in Seq(Text) /\ <<>> \in Seq(Seq(Chars))
      /\ Len(<<>>) = 0 /\ {} \subseteq 1..0
  OBVIOUS
<1>2. 0 \in 0..MaxOpens /\ 0 \in 0..0 /\ 0 =< MaxBytes /\ 0 + 0 =< 0
  BY MaxOpensAssumption, MaxBytesAssumption
<1> QED BY <1>1, <1>2 DEF Init, Empty, TypeInv, TypeOK, Counted

LEMMA EnvironmentTypes == ASSUME TypeInv, Environment PROVE TypeInv'
<1> USE DEF TypeInv, TypeOK, Counted
<1>1. CASE TerminalOpens
  <2>1. opens' \in 0..MaxOpens
    BY <1>1, MaxOpensAssumption DEF TerminalOpens
  <2> QED BY <1>1, <2>1 DEF TerminalOpens, daemonVars
<1>2. CASE TerminalTypes
  <2> HIDE DEF TypeInv, TypeOK, Counted
  <2>1. PICK byte \in Byte : typed' = Append(typed, byte)
    BY <1>2 DEF TerminalTypes
  <2>2. typed \in Seq(Byte)
    BY DEF TypeInv, TypeOK
  <2>3. typed' \in Seq(Byte) /\ Len(typed') = Len(typed) + 1
    BY <2>1, <2>2
  <2>4. Len(typed) < MaxBytes
    BY <1>2 DEF TerminalTypes
  <2>5. Len(typed') =< MaxBytes /\ taken \in 0..Len(typed')
    BY <2>3, <2>4, Lengths
  <2> QED BY <1>2, <2>3, <2>5 DEF TerminalTypes, daemonVars, TypeInv, TypeOK, Counted
<1>3. CASE TerminalCloses
  BY <1>3 DEF TerminalCloses, daemonVars
<1>4. CASE TimerExpires
  BY <1>4 DEF TimerExpires, daemonVars, terminalVars
<1>5. CASE SignalArrives
  BY <1>5 DEF SignalArrives, daemonVars, terminalVars
<1>6. CASE SearchStarts
  BY <1>6 DEF SearchStarts, terminalVars
<1> QED BY <1>1, <1>2, <1>3, <1>4, <1>5, <1>6 DEF Environment

\* The rest of a batch.
LEMMA TakeTypes ==
  ASSUME TypeOK, NEW fd, Take(fd)
  PROVE  /\ DOMAIN batch' \subseteq Descriptors
         /\ \A other \in DOMAIN batch' : batch'[other] \subseteq {"IN", "OUT", "HUP"}
         /\ batch[fd] \subseteq {"IN", "OUT", "HUP"}
BY DEF Take, Restrict, TypeOK

\* The two ends of the session's handler.
LEMMA EndTypes ==
  ASSUME TypeInv, EndHandler \/ RemoveSession
  PROVE  /\ pc' = "dispatch" /\ session' \in BOOLEAN
         /\ buffer' \in Seq(Byte) /\ outbox' \in Seq(Text)
         /\ watched' \subseteq {"IN", "OUT"}
         /\ Len(lines) + Len(buffer') =< taken
<1>1. CASE EndHandler
  BY <1>1 DEF EndHandler, Watched, TypeInv, TypeOK, Counted
<1>2. CASE RemoveSession
  <2>1. Len(<<>>) = 0 /\ <<>> \in Seq(Byte) /\ <<>> \in Seq(Text)
    OBVIOUS
  <2>2. Len(lines) + 0 =< taken
    BY Lengths DEF TypeInv, Counted
  <2> QED BY <1>2, <2>1, <2>2 DEF RemoveSession
<1> QED BY <1>1, <1>2

LEMMA LoopTypes ==
  ASSUME TypeInv, Wait \/ BatchDone \/ HandleSignal \/ HandleTimer
  PROVE  TypeInv'
<1>1. CASE Wait
  <2>1. \A fd \in Descriptors : Events(fd) \subseteq {"IN", "OUT", "HUP"}
    BY DEF Descriptors, Events, Level
  <2>2. /\ DOMAIN batch' \subseteq Descriptors
        /\ \A fd \in DOMAIN batch' : batch'[fd] \subseteq {"IN", "OUT", "HUP"}
    BY <1>1, <2>1 DEF Wait
  <2> QED BY <1>1, <2>2 DEF Wait, TypeInv, TypeOK, Counted, terminalVars
<1>2. CASE BatchDone
  <2>1. CASE UNCHANGED <<session, buffer, outbox, watched>> /\ pc' = "wait"
    BY <1>2, <2>1 DEF BatchDone, TypeInv, TypeOK, Counted, terminalVars
  <2>2. CASE /\ pc' = "exited" /\ session' = FALSE /\ buffer' = <<>> /\ outbox' = <<>>
             /\ watched' = {}
    <3>1. Len(<<>>) = 0 /\ <<>> \in Seq(Byte) /\ <<>> \in Seq(Text)
      OBVIOUS
    <3>2. Len(lines) + Len(buffer') =< taken
      BY <2>2, <3>1, Lengths DEF TypeInv, Counted
    <3> QED
      BY <1>2, <2>2, <3>1, <3>2 DEF BatchDone, TypeInv, TypeOK, Counted, terminalVars
  <2> QED BY <1>2, <2>1, <2>2 DEF BatchDone
<1>3. CASE HandleSignal
  BY <1>3, TakeTypes DEF HandleSignal, TypeInv, TypeOK, Counted, terminalVars
<1>4. CASE HandleTimer
  <2>1. outbox' \in Seq(Text) /\ modem' \in {"Ready", "SearchingNetwork", "Registered"}
    <3>1. Append(outbox, "+COPS") \in Seq(Text)
      BY DEF Text, TypeInv, TypeOK
    <3> QED BY <1>4, <3>1 DEF HandleTimer, TypeInv, TypeOK
  <2> QED
    BY <1>4, <2>1, TakeTypes DEF HandleTimer, TypeInv, TypeOK, Counted, terminalVars
<1> QED BY <1>1, <1>2, <1>3, <1>4

LEMMA MasterTypes ==
  ASSUME TypeInv, HandleMaster \/ FlushText \/ FlushEnds \/ ReadFails \/ LinesDone
  PROVE  TypeInv'
<1>1. CASE HandleMaster
  <2>1. /\ DOMAIN batch' \subseteq Descriptors
        /\ \A other \in DOMAIN batch' : batch'[other] \subseteq {"IN", "OUT", "HUP"}
        /\ batch["master"] \subseteq {"IN", "OUT", "HUP"}
    BY <1>1, TakeTypes DEF HandleMaster, TypeInv
  <2>2. /\ UNCHANGED <<running, modem, timer, signal, terminalVars, taken, lines, cuts>>
        /\ \/ UNCHANGED <<pc, events, session, buffer, outbox, watched>>
           \/ EndHandler /\ UNCHANGED events
           \/ RemoveSession /\ UNCHANGED events
           \/ /\ pc' = IF "OUT" \in batch["master"] THEN "flush" ELSE "read"
              /\ events' = batch["master"]
              /\ UNCHANGED <<session, buffer, outbox, watched>>
    BY <1>1 DEF HandleMaster
  <2>3. CASE EndHandler \/ RemoveSession
    BY <2>1, <2>2, <2>3, EndTypes DEF TypeInv, TypeOK, Counted, terminalVars
  <2>4. CASE UNCHANGED <<pc, events, session, buffer, outbox, watched>>
    BY <2>1, <2>2, <2>4 DEF TypeInv, TypeOK, Counted, terminalVars
  <2>5. CASE /\ pc' = IF "OUT" \in batch["master"] THEN "flush" ELSE "read"
             /\ events' = batch["master"]
             /\ UNCHANGED <<session, buffer, outbox, watched>>
    <3>1. pc' \in {"flush", "read"} /\ events' \subseteq {"IN", "OUT", "HUP"}
      BY <2>1, <2>5
    <3> QED BY <2>1, <2>2, <2>5, <3>1 DEF TypeInv, TypeOK, Counted, terminalVars
  <2> QED BY <2>2, <2>3, <2>4, <2>5
<1>2. CASE FlushText
  <2>1. outbox' \in Seq(Text)
    BY <1>2 DEF FlushText, TypeInv, TypeOK
  <2> QED BY <1>2, <2>1 DEF FlushText, TypeInv, TypeOK, Counted, terminalVars
<1>3. CASE FlushEnds
  <2>1. CASE EndHandler \/ RemoveSession
    BY <1>3, <2>1, EndTypes DEF FlushEnds, TypeInv, TypeOK, Counted, terminalVars
  <2>2. CASE pc' = "read" /\ UNCHANGED <<session, buffer, outbox, watched>>
    BY <1>3, <2>2 DEF FlushEnds, TypeInv, TypeOK, Counted, terminalVars
  <2> QED BY <1>3, <2>1, <2>2 DEF FlushEnds
<1>4. CASE ReadFails
  BY <1>4, EndTypes DEF ReadFails, TypeInv, TypeOK, Counted, terminalVars
<1>5. CASE LinesDone
  BY <1>5 DEF LinesDone, TypeInv, TypeOK, Counted, terminalVars
<1> QED BY <1>1, <1>2, <1>3, <1>4, <1>5

LEMMA ReadTypes ==
  ASSUME TypeInv, NEW n \in 1..MaxBytes, ReadBytes(n)
  PROVE  TypeInv'
<1> DEFINE r == SubSeq(typed, taken + 1, taken + n)
           b == buffer
<1>1. n \in Nat /\ taken + n =< Len(typed) /\ taken' = taken + n
  BY MaxBytesAssumption DEF ReadBytes
<1>2. r \in Seq(Byte) /\ Len(r) = n
  <2>1. \A i \in (taken + 1)..(taken + n) : typed[i] \in Byte
    <3>1. \A i \in (taken + 1)..(taken + n) : i \in 1..Len(typed)
      BY <1>1, Lengths
    <3>2. typed \in Seq(Byte)
      BY DEF TypeInv, TypeOK
    <3> QED BY <3>1, <3>2
  <2>2. taken + 1 \in Int /\ taken + n \in Int
    BY <1>1, Lengths
  <2>3. /\ r \in Seq(Byte)
        /\ Len(r) = IF taken + 1 =< taken + n THEN (taken + n) - (taken + 1) + 1 ELSE 0
    BY <2>1, <2>2, SubSeqProperties
  <2> HIDE DEF r
  <2> QED BY <1>1, <2>3, Lengths
<1>3. buffer' = b \o r
  BY DEF ReadBytes, Push
<1>4. b \in Seq(Byte)
  BY DEF TypeInv, TypeOK
<1> HIDE DEF r, b
<1>5. buffer' \in Seq(Byte) /\ Len(buffer') = Len(b) + n
  BY <1>2, <1>3, <1>4, ConcatProperties
<1>6. Len(lines) + Len(buffer') =< taken' /\ taken' \in 0..Len(typed)
  BY <1>1, <1>5, Lengths DEF TypeInv, Counted, b
<1>7. cuts' \subseteq 1..taken'
  <2>1. cuts \subseteq 1..taken /\ cuts' = cuts \union {taken'}
    BY DEF ReadBytes, TypeInv, TypeOK
  <2>2. taken' \in 1..taken' /\ 1..taken \subseteq 1..taken'
    BY <1>1, Lengths, MaxBytesAssumption
  <2> QED BY <2>1, <2>2
<1> QED BY <1>5, <1>6, <1>7 DEF ReadBytes, TypeInv, TypeOK, Counted, terminalVars

LEMMA LineTypes == ASSUME TypeInv, AnswerLine PROVE TypeInv'
<1> DEFINE b == buffer
<1>1. /\ HasLine(b) /\ b \in Seq(Byte)
      /\ lines' = Append(lines, Line(b)) /\ buffer' = Rest(b)
      /\ outbox' \in {outbox, Append(outbox, "answer")}
  BY DEF AnswerLine, Answered, TypeInv, TypeOK
<1>2. Line(b) \in Seq(Chars) /\ Rest(b) \in Seq(Byte) /\ Len(Rest(b)) < Len(b)
  BY <1>1, NextTypes
<1>3. Len(Rest(b)) \in Nat
  BY <1>2
<1>4. lines' \in Seq(Seq(Chars)) /\ Len(lines') = Len(lines) + 1
  BY <1>1, <1>2 DEF TypeInv, TypeOK
<1>5. Len(lines') + Len(buffer') =< taken
  BY <1>1, <1>2, <1>3, <1>4, Lengths DEF TypeInv, Counted
<1>6. outbox' \in Seq(Text)
  <2>1. outbox \in Seq(Text) /\ "answer" \in Text
    BY DEF TypeInv, TypeOK, Text
  <2>2. Append(outbox, "answer") \in Seq(Text)
    BY <2>1
  <2> QED BY <1>1, <2>1, <2>2
<1>7. buffer' \in Seq(Byte)
  BY <1>1, <1>2
<1> QED BY <1>4, <1>5, <1>6, <1>7 DEF AnswerLine, TypeInv, TypeOK, Counted, terminalVars

LEMMA StepTypes == TypeInv /\ [Next]_vars => TypeInv'
<1> SUFFICES ASSUME TypeInv, [Next]_vars PROVE TypeInv'
  OBVIOUS
<1>1. CASE UNCHANGED vars
  BY <1>1 DEF vars, daemonVars, terminalVars, TypeInv, TypeOK, Counted
<1> QED
  BY <1>1, EnvironmentTypes, LoopTypes, MasterTypes, ReadTypes, LineTypes
  DEF Next, DaemonStep

LEMMA TypesHold == Spec => []TypeInv
BY InitTypes, StepTypes, PTL DEF Spec

\* Every variable keeps to its values: a line holds no separator, nothing is read
\* that was not typed (line_reader.cpp, session.cpp).
THEOREM TypesAreKept == Spec => []TypeOK
<1>1. TypeInv => TypeOK
  BY DEF TypeInv
<1> QED BY <1>1, TypesHold, PTL

-----------------------------------------------------------------------------
\* What epoll watches.

\* WatchedForOutput whenever the session's callback does not run.
WatchInv ==
  pc \notin {"flush", "read", "lines"} /\ "OUT" \in watched => outbox # <<>>

LEMMA StepWatch ==
  ASSUME TypeInv, WatchInv, [Next]_vars
  PROVE  WatchInv'
<1>1. CASE /\ pc' \notin {"flush", "read", "lines"} => pc \notin {"flush", "read", "lines"}
           /\ UNCHANGED <<watched, outbox>>
  BY <1>1 DEF WatchInv
<1>2. CASE pc' \in {"flush", "read", "lines"}
  BY <1>2 DEF WatchInv
<1>3. CASE HandleTimer
  <2>1. pc = "dispatch" /\ UNCHANGED <<pc, watched>>
    BY <1>3 DEF HandleTimer, Take
  <2>2. CASE UNCHANGED outbox
    BY <1>1, <2>1, <2>2
  <2>3. CASE outbox' = Append(outbox, "+COPS")
    <3>1. outbox' # <<>>
      BY <2>3 DEF TypeInv, TypeOK
    <3> QED BY <3>1 DEF WatchInv
  <2> QED BY <1>3, <2>2, <2>3 DEF HandleTimer
<1>4. CASE EndHandler \/ RemoveSession
  BY <1>4 DEF WatchInv, EndHandler, RemoveSession, Watched
<1>5. CASE BatchDone
  <2>1. pc = "dispatch"
    BY <1>5 DEF BatchDone
  <2>2. CASE watched' = {}
    BY <2>2 DEF WatchInv
  <2> QED BY <1>1, <1>5, <2>1, <2>2 DEF BatchDone
<1>6. CASE UNCHANGED vars \/ Environment
  BY <1>1, <1>6 DEF vars, daemonVars, Environment, TerminalOpens, TerminalTypes,
     TerminalCloses, TimerExpires, SignalArrives, SearchStarts
<1>7. CASE Wait \/ HandleSignal
  BY <1>1, <1>7 DEF Wait, HandleSignal, Take
<1>8. CASE FlushText \/ AnswerLine \/ LinesDone \/ \E k \in 1..MaxBytes : ReadBytes(k)
  BY <1>2, <1>8 DEF FlushText, AnswerLine, LinesDone, ReadBytes
<1>9. CASE FlushEnds \/ ReadFails
  BY <1>2, <1>4, <1>9 DEF FlushEnds, ReadFails
<1>10. CASE HandleMaster
  <2>1. pc = "dispatch"
    BY <1>10 DEF HandleMaster, Take
  <2> QED BY <1>1, <1>2, <1>4, <1>10, <2>1 DEF HandleMaster
<1> QED BY <1>3, <1>5, <1>6, <1>7, <1>8, <1>9, <1>10 DEF Next, DaemonStep

\* The loop never waits for the terminal to take output when there is none, for
\* any input and any number of times the terminal is opened (server.cpp
\* updateEvents).
THEOREM NothingToWriteIsNotWatched == Spec => []WatchedForOutput
<1>1. Init => WatchInv
  BY DEF Init, WatchInv
<1>2. WatchInv => WatchedForOutput
  BY DEF WatchInv, WatchedForOutput
<1> QED BY <1>1, <1>2, StepWatch, TypesHold, PTL DEF Spec

-----------------------------------------------------------------------------
\* The pieces of an input.

\* The places of bytes from the start or a separator at b to the next one at e.
Free(bytes, b, e) ==
  /\ b \in 0..(e - 1)
  /\ b = 0 \/ b \in Separators(bytes)
  /\ \A k \in (b + 1)..(e - 1) : k \notin Separators(bytes)

\* There is one such place for an end.
LEMMA BeginIs ==
  ASSUME NEW bytes \in Seq(Byte), NEW e \in Nat, NEW b, Free(bytes, b, e)
  PROVE  Begin(bytes, e) = b
<1> DEFINE S == {0} \union {s \in Separators(bytes) : s < e}
<1>1. Separators(bytes) \subseteq Nat
  BY SeparatorPlaces
<1>2. b \in S /\ \A s \in S : s \in Nat /\ b >= s
  BY <1>1 DEF Free
<1> HIDE DEF S
<1>3. \A x \in S : (\A y \in S : x >= y) => x = b
  BY <1>2
<1>4. Max(S) = b
  BY <1>2, <1>3 DEF Max
<1> QED BY <1>4 DEF Begin, S

\* And there always is one.
LEMMA FreeBefore ==
  ASSUME NEW bytes \in Seq(Byte), NEW e \in Nat, e >= 1
  PROVE  \E b \in Nat : Free(bytes, b, e)
<1> DEFINE seps == Separators(bytes)
           T == {k \in 0..(e - 1) : \A j \in (e - k)..(e - 1) : j \notin seps}
           before == {d \in 1..e : e - d = 0 \/ e - d \in seps}
<1>1. seps \subseteq Nat
  BY SeparatorPlaces
<1>2. e \in before /\ before \in SUBSET Nat
  OBVIOUS
<1>3. PICK d \in before : \A k \in before : d =< k
  <2> HIDE DEF before
  <2> QED BY <1>2, Least
<1>4. PICK b \in Nat : b = e - d /\ b \in 0..(e - 1) /\ (b = 0 \/ b \in seps)
  BY <1>3
<1>5. \A k \in (b + 1)..(e - 1) : k \notin seps
  <2> SUFFICES ASSUME NEW k \in (b + 1)..(e - 1), k \in seps PROVE FALSE
    OBVIOUS
  <2>1. e - k \in 1..e /\ e - (e - k) = k /\ e - k < d
    BY <1>3, <1>4
  <2> QED BY <1>3, <2>1
<1> QED BY <1>4, <1>5 DEF Free

\* Inputs that begin with the same n bytes have the same separators there.
LEMMA SeparatorSame ==
  ASSUME NEW s \in Seq(Byte), NEW t \in Seq(Byte), NEW n \in Nat,
         n =< Len(s), n =< Len(t), \A i \in 1..n : s[i] = t[i]
  PROVE  \A i \in 1..n : i \in Separators(s) <=> i \in Separators(t)
BY DEF Separators

\* And the same pieces.
LEMMA PieceSame ==
  ASSUME NEW s \in Seq(Byte), NEW t \in Seq(Byte), NEW n \in Nat,
         n =< Len(s), n =< Len(t), \A i \in 1..n : s[i] = t[i],
         NEW e \in 1..(n + 1)
  PROVE  Piece(s, e) = Piece(t, e)
<1>1. PICK b \in Nat : Free(s, b, e)
  BY FreeBefore
<1>2. Free(t, b, e)
  BY <1>1, SeparatorSame DEF Free
<1>3. Begin(s, e) = b /\ Begin(t, e) = b
  BY <1>1, <1>2, BeginIs
<1>4. SubSeq(s, b + 1, e - 1) = SubSeq(t, b + 1, e - 1)
  <2>1. PICK a \in Nat, z \in Nat : a = b + 1 /\ z = e - 1 /\ a =< z + 1 /\ z =< n /\ a >= 1
    <3>1. b + 1 \in Nat /\ e - 1 \in Nat /\ b + 1 =< (e - 1) + 1 /\ e - 1 =< n /\ b + 1 >= 1
      BY <1>1 DEF Free
    <3> QED BY <3>1
  <2>2. \A i \in a..z : s[i] \in Byte /\ t[i] \in Byte /\ s[i] = t[i]
    BY <2>1
  <2>3. PICK x, y : x = SubSeq(s, a, z) /\ y = SubSeq(t, a, z)
    OBVIOUS
  <2>4. PICK l \in Nat : l = z - a + 1
    BY <2>1
  <2>5. x \in Seq(Byte) /\ Len(x) = l /\ \A i \in 1..l : x[i] = s[a + i - 1]
    BY <2>1, <2>2, <2>3, <2>4, SubSeqProperties
  <2>6. y \in Seq(Byte) /\ Len(y) = l /\ \A i \in 1..l : y[i] = t[a + i - 1]
    BY <2>1, <2>2, <2>3, <2>4, SubSeqProperties
  <2>7. \A i \in 1..l : a + i - 1 \in a..z
    BY <2>1, <2>4
  <2>8. x = y
    BY <2>2, <2>5, <2>6, <2>7, SeqEqual, ZenonT(60)
  <2> QED BY <2>1, <2>3, <2>8
<1> QED BY <1>3, <1>4 DEF Piece

\* The part of s behind p that holds what v holds is v.
LEMMA PartIs ==
  ASSUME NEW s, NEW v \in Seq(Byte), NEW p \in Nat, NEW n \in Nat, Len(v) = n,
         \A i \in 1..n : s[p + i] = v[i]
  PROVE  SubSeq(s, p + 1, p + n) = v
<1>1. \A j \in (p + 1)..(p + n) : s[j] \in Byte
  <2> SUFFICES ASSUME NEW j \in (p + 1)..(p + n) PROVE s[j] \in Byte
    OBVIOUS
  <2>1. j - p \in 1..n /\ j = p + (j - p)
    OBVIOUS
  <2> QED BY <2>1
<1>2. PICK a \in Nat, z \in Nat : a = p + 1 /\ z = p + n /\ z - a + 1 = n /\ a =< z + 1
  OBVIOUS
<1>3. PICK x : x = SubSeq(s, a, z)
  OBVIOUS
<1>4. x \in Seq(Byte) /\ Len(x) = n /\ \A i \in 1..n : x[i] = s[a + i - 1]
  BY <1>1, <1>2, <1>3, SubSeqProperties
<1>5. \A i \in 1..n : a + i - 1 = p + i
  BY <1>2
<1>6. x = v
  BY <1>4, <1>5, SeqEqual
<1> QED BY <1>2, <1>3, <1>6

-----------------------------------------------------------------------------
\* What the reader has found: the bytes read are cut into lines as far as done,
\* those behind wait in the buffer.

\* The first done bytes are cut into the lines found, at the separators that end
\* a line when the reads returned at the places where.
Cut(bytes, done, where, found) ==
  \E at \in [1..Len(found) -> 1..done] :
    /\ \A i \in 1..Len(found) : at[i] \in LineEnds(bytes, where)
    /\ \A i, j \in 1..Len(found) : i < j => at[i] < at[j]
    /\ \A i \in 1..Len(found) : found[i] = Piece(bytes, at[i])
    /\ \A e \in 1..done :
         e \in LineEnds(bytes, where) => \E i \in 1..Len(found) : at[i] = e

\* The bytes rest are those behind the first done ones, which end with a
\* separator.
Waits(bytes, done, rest) ==
  /\ done = 0 \/ done \in Separators(bytes)
  /\ done + Len(rest) =< Len(bytes)
  /\ \A i \in 1..Len(rest) : bytes[done + i] = rest[i]

\* Of the bytes behind the first done ones: no read() returned behind a separator
\* among them, but the last; if the first of them is a separator, one returned
\* before it.
Whole(bytes, done, all, where) ==
  /\ all = 0 \/ all \in where
  /\ \A k \in (done + 1)..(all - 1) : k \in where => k \notin Separators(bytes)
  /\ \/ done = 0
     \/ done \in where
     \/ done + 1 \notin Separators(bytes)

\* The inductive invariant of the reader.
ReaderInv ==
  session =>
    /\ Waits(typed, taken - Len(buffer), buffer)
    /\ Cut(typed, taken - Len(buffer), cuts, lines)
    /\ Whole(typed, taken - Len(buffer), taken, cuts)
    /\ pc # "lines" => Separators(buffer) = {}

\* Done is a number.
LEMMA Done ==
  ASSUME TypeInv
  PROVE  /\ taken - Len(buffer) \in Nat
         /\ (taken - Len(buffer)) + Len(buffer) = taken
         /\ buffer \in Seq(Byte) /\ typed \in Seq(Byte) /\ lines \in Seq(Seq(Chars))
BY Lengths DEF TypeInv, TypeOK, Counted

\* More bytes behind those that were cut.
LEMMA CutLonger ==
  ASSUME NEW s \in Seq(Byte), NEW t \in Seq(Byte), NEW done \in Nat,
         done =< Len(s), done =< Len(t), \A i \in 1..done : s[i] = t[i],
         NEW C, NEW D, \A i \in 1..(done - 1) : i \in C <=> i \in D,
         NEW found, Cut(s, done, C, found)
  PROVE  Cut(t, done, D, found)
<1>1. \A i \in 1..done : i \in Separators(s) <=> i \in Separators(t)
  BY SeparatorSame
<1>2. \A i \in 1..done : Piece(s, i) = Piece(t, i)
  BY PieceSame
<1>3. \A i \in 1..done : i \in LineEnds(s, C) <=> i \in LineEnds(t, D)
  <2> SUFFICES ASSUME NEW i \in 1..done
               PROVE  i \in LineEnds(s, C) <=> i \in LineEnds(t, D)
    OBVIOUS
  <2>1. i = 1 \/ (i - 1 \in 1..done /\ i - 1 \in 1..(done - 1))
    OBVIOUS
  <2> QED BY <1>1, <2>1 DEF LineEnds
<1> DEFINE N == 1..Len(found)
           P == 1..done
<1>4. PICK at \in [N -> P] :
        /\ \A i \in N : at[i] \in LineEnds(s, C)
        /\ \A i, j \in N : i < j => at[i] < at[j]
        /\ \A i \in N : found[i] = Piece(s, at[i])
        /\ \A e \in P : e \in LineEnds(s, C) => \E i \in N : at[i] = e
  BY DEF Cut
<1> HIDE DEF N, P
<1>5. /\ \A i \in N : at[i] \in LineEnds(t, D)
      /\ \A i \in N : found[i] = Piece(t, at[i])
      /\ \A e \in P : e \in LineEnds(t, D) => \E i \in N : at[i] = e
  BY <1>2, <1>3, <1>4 DEF P
<1> QED BY <1>4, <1>5 DEF Cut, N, P

\* read(): the buffer grows.
LEMMA ReadCuts ==
  ASSUME TypeInv, ReaderInv, NEW n \in 1..MaxBytes, ReadBytes(n)
  PROVE  ReaderInv'
<1> SUFFICES ASSUME session PROVE
      /\ Waits(typed, taken' - Len(buffer'), buffer')
      /\ Cut(typed, taken' - Len(buffer'), cuts', lines)
      /\ Whole(typed, taken' - Len(buffer'), taken', cuts')
  BY DEF ReaderInv, ReadBytes, terminalVars
<1>1. PICK done \in Nat, l \in Nat : /\ done = taken - Len(buffer) /\ l = Len(buffer)
                                     /\ done + l = taken
  BY Done, Lengths
<1>2. taken \in Nat /\ Len(typed) \in Nat
  BY Lengths
<1>3. /\ n \in Nat /\ taken' = taken + n /\ taken + n =< Len(typed)
      /\ buffer' = buffer \o SubSeq(typed, taken + 1, taken + n)
  BY MaxBytesAssumption DEF ReadBytes, Push
<1>4. PICK r \in Seq(Byte) : /\ r = SubSeq(typed, taken + 1, taken + n) /\ Len(r) = n
                             /\ \A i \in 1..n : r[i] = typed[taken + i]
  <2>1. PICK a \in Nat, z \in Nat : /\ a = taken + 1 /\ z = taken + n /\ a =< z
                                   /\ z - a + 1 = n /\ z =< Len(typed)
    BY <1>3, <1>2
  <2>2. \A i \in a..z : typed[i] \in Byte
    <3>1. \A i \in a..z : i \in 1..Len(typed)
      BY <2>1, <1>2
    <3> QED BY <3>1, Done
  <2>3. /\ SubSeq(typed, a, z) \in Seq(Byte) /\ Len(SubSeq(typed, a, z)) = n
        /\ \A i \in 1..n : SubSeq(typed, a, z)[i] = typed[a + i - 1]
    BY <2>1, <2>2, SubSeqProperties, SMTT(20)
  <2>4. \A i \in 1..n : a + i - 1 = taken + i
    BY <2>1, <1>2
  <2> QED BY <2>1, <2>3, <2>4
<1>5. /\ Len(buffer') = l + n
      /\ \A i \in 1..l : buffer'[i] = buffer[i]
      /\ \A i \in 1..n : buffer'[l + i] = r[i]
  <2>1. buffer' = buffer \o r /\ buffer \in Seq(Byte)
    BY <1>3, <1>4, Done
  <2>2. /\ Len(buffer \o r) = l + n
        /\ \A i \in 1..(l + n) : (buffer \o r)[i] = IF i =< l THEN buffer[i] ELSE r[i - l]
    <3>1. PICK f \in Seq(Byte) : f = buffer /\ Len(f) = l
      BY <1>1, <2>1
    <3>2. /\ Len(f \o r) = Len(f) + Len(r)
          /\ \A i \in 1..(Len(f) + Len(r)) :
               (f \o r)[i] = IF i =< Len(f) THEN f[i] ELSE r[i - Len(f)]
      BY ConcatProperties
    <3> QED BY <1>4, <3>1, <3>2
  <2>3. \A i \in 1..l : i \in 1..(l + n) /\ i =< l
    BY <1>3
  <2>4. \A i \in 1..n : l + i \in 1..(l + n) /\ ~(l + i =< l) /\ (l + i) - l = i
    BY <1>3
  <2> QED BY <2>1, <2>2, <2>3, <2>4
<1>6. taken' - Len(buffer') = done
  BY <1>1, <1>3, <1>5, <1>2
<1>7. /\ Waits(typed, done, buffer) /\ Cut(typed, done, cuts, lines)
      /\ Whole(typed, done, taken, cuts) /\ Separators(buffer) = {}
  BY <1>1 DEF ReaderInv, ReadBytes
<1>8. Waits(typed, done, buffer')
  <2>1. done + Len(buffer') =< Len(typed)
    BY <1>1, <1>3, <1>5, <1>2, SMTT(20)
  <2>2. ASSUME NEW i \in 1..(l + n) PROVE typed[done + i] = buffer'[i]
    <3>1. CASE i \in 1..l
      BY <1>1, <1>5, <1>7, <3>1 DEF Waits
    <3>2. CASE i \notin 1..l
      <4>1. PICK j \in 1..n : i = l + j /\ done + i = taken + j
        <5>1. i - l \in 1..n /\ i = l + (i - l)
          BY <1>3, <3>2
        <5>2. done + i = taken + (i - l)
          BY <1>2, <1>1, <1>3
        <5> QED BY <5>1, <5>2
      <4> QED BY <1>4, <1>5, <4>1
    <3> QED BY <3>1, <3>2
  <2> QED BY <1>5, <1>7, <2>1, <2>2 DEF Waits
<1>9. cuts \subseteq 1..taken /\ cuts' = cuts \union {taken'}
  BY DEF ReadBytes, TypeInv, TypeOK
<1>10. Cut(typed, done, cuts', lines)
  <2>1. \A i \in 1..(done - 1) : i \in cuts <=> i \in cuts'
    <3>1. \A i \in 1..(done - 1) : i # taken'
      BY <1>1, <1>2, <1>3
    <3> QED BY <1>9, <3>1
  <2>2. done =< Len(typed) /\ typed \in Seq(Byte)
    BY <1>1, <1>2, <1>3, Done
  <2> QED BY <1>7, <2>1, <2>2, CutLonger
<1>11. \A k \in (done + 1)..taken : k \notin Separators(typed)
  <2> SUFFICES ASSUME NEW k \in (done + 1)..taken PROVE k \notin Separators(typed)
    OBVIOUS
  <2>1. k - done \in 1..l /\ done + (k - done) = k
    BY <1>1, <1>2
  <2>2. typed[k] = buffer[k - done]
    BY <1>1, <1>7, <2>1 DEF Waits
  <2>3. k - done \in DOMAIN buffer
    BY <1>1, <2>1, Done
  <2> QED BY <1>7, <2>2, <2>3 DEF Separators
<1>12. Whole(typed, done, taken', cuts')
  <2>1. ASSUME NEW k \in (done + 1)..(taken' - 1), k \in cuts' PROVE k \notin Separators(typed)
    <3>1. k \in (done + 1)..taken
      BY <1>1, <1>2, <1>3, <1>9, <2>1
    <3> QED BY <1>11, <3>1
  <2>2. done = 0 \/ done \in cuts' \/ done + 1 \notin Separators(typed)
    <3>1. CASE done = taken
      BY <1>7, <1>9, <3>1 DEF Whole
    <3>2. CASE done # taken
      <4>1. done + 1 \in (done + 1)..taken
        BY <1>1, <1>2, <3>2
      <4> QED BY <1>11, <4>1
    <3> QED BY <3>1, <3>2
  <2> QED BY <1>9, <2>1, <2>2 DEF Whole
<1> QED BY <1>6, <1>8, <1>10, <1>12

\* next(): what its operators return, in places of the input.
LEMMA NextCuts ==
  ASSUME NEW bytes \in Seq(Byte), HasLine(bytes)
  PROVE  \E e \in 1..Len(bytes), c \in 1..Len(bytes) :
           /\ e =< c /\ e..c \subseteq Separators(bytes)
           /\ c + 1 \notin Separators(bytes)
           /\ \A j \in 1..(e - 1) : j \notin Separators(bytes)
           /\ Line(bytes) = SubSeq(bytes, 1, e - 1)
           /\ Rest(bytes) \in Seq(Byte) /\ Len(Rest(bytes)) = Len(bytes) - c
           /\ \A i \in 1..(Len(bytes) - c) : Rest(bytes)[i] = bytes[c + i]
<1>1. PICK e \in 1..Len(bytes) : e = LineEnd(bytes) /\ \A j \in Separators(bytes) : e =< j
  BY LineEndIsFirst, SeparatorPlaces
<1>2. PICK c \in 1..Len(bytes) : /\ c = Consumed(bytes) /\ c \in Separators(bytes)
                                /\ e..c \subseteq Separators(bytes)
                                /\ c + 1 \notin Separators(bytes)
  BY <1>1, ConsumedAreSeparators, SeparatorPlaces
<1>3. e =< c /\ \A j \in 1..(e - 1) : j \notin Separators(bytes)
  BY <1>1, <1>2
<1>4. PICK l \in Nat, a \in Nat : l = Len(bytes) /\ a = c + 1 /\ a =< l + 1 /\ l - a + 1 = l - c
  OBVIOUS
<1>5. \A i \in a..l : bytes[i] \in Byte
  BY <1>4
<1>6. /\ SubSeq(bytes, a, l) \in Seq(Byte) /\ Len(SubSeq(bytes, a, l)) = l - c
      /\ \A i \in 1..(l - c) : SubSeq(bytes, a, l)[i] = bytes[a + i - 1]
  <2>1. Len(SubSeq(bytes, a, l)) = IF a =< l THEN l - a + 1 ELSE 0
    BY <1>4, <1>5, SubSeqProperties
  <2>2. l - c = IF a =< l THEN l - a + 1 ELSE 0
    BY <1>4
  <2>3. \A i \in 1..(l - c) : i \in 1..(l - a + 1)
    BY <1>4
  <2> QED BY <1>4, <1>5, <2>1, <2>2, <2>3, SubSeqProperties
<1>7. \A i \in 1..(l - c) : a + i - 1 = c + i
  BY <1>4
<1>8. Rest(bytes) = SubSeq(bytes, a, l) /\ Line(bytes) = SubSeq(bytes, 1, e - 1)
  BY <1>1, <1>2, <1>4 DEF Rest, Line
<1>9. /\ Rest(bytes) \in Seq(Byte) /\ Len(Rest(bytes)) = Len(bytes) - c
      /\ \A i \in 1..(Len(bytes) - c) : Rest(bytes)[i] = bytes[c + i]
  BY <1>4, <1>6, <1>7, <1>8
<1> QED BY <1>2, <1>3, <1>8, <1>9

\* The line found, as a piece of the input.
LEMMA LineIsPiece ==
  ASSUME NEW bytes \in Seq(Byte), NEW done \in Nat, NEW rest \in Seq(Byte),
         Waits(bytes, done, rest), NEW e \in 1..Len(rest),
         \A j \in 1..(e - 1) : j \notin Separators(rest)
  PROVE  Piece(bytes, done + e) = SubSeq(rest, 1, e - 1)
<1>1. \A i \in 1..Len(rest) : i \in Separators(rest) <=> done + i \in Separators(bytes)
  BY DEF Waits, Separators
<1>2. Free(bytes, done, done + e)
  <2>1. done \in 0..(done + e - 1)
    OBVIOUS
  <2>2. ASSUME NEW k \in (done + 1)..(done + e - 1) PROVE k \notin Separators(bytes)
    <3>1. k - done \in 1..(e - 1) /\ k - done \in 1..Len(rest) /\ done + (k - done) = k
      OBVIOUS
    <3> QED BY <1>1, <3>1
  <2> QED BY <2>1, <2>2 DEF Free, Waits
<1>3. Begin(bytes, done + e) = done
  BY <1>2, BeginIs
<1>4. PICK n \in Nat : n = e - 1 /\ done + e - 1 = done + n /\ n =< Len(rest)
  OBVIOUS
<1>5. PICK v \in Seq(Byte) : v = SubSeq(rest, 1, n) /\ Len(v) = n /\ \A i \in 1..n : v[i] = rest[i]
  <2>1. \A i \in 1..n : rest[i] \in Byte
    BY <1>4
  <2>2. n - 1 + 1 = n /\ \A i \in 1..n : 1 + i - 1 = i
    OBVIOUS
  <2>3. Len(SubSeq(rest, 1, n)) = n
    BY <1>4, <2>1, SubSeqProperties
  <2>4. /\ SubSeq(rest, 1, n) \in Seq(Byte)
        /\ \A i \in 1..n : SubSeq(rest, 1, n)[i] = rest[i]
    BY <2>1, <2>2, SubSeqProperties
  <2> QED BY <2>3, <2>4
<1>6. SubSeq(bytes, done + 1, done + n) = v
  <2>1. \A i \in 1..n : bytes[done + i] = v[i]
    <3>1. \A i \in 1..n : i \in 1..Len(rest)
      BY <1>4
    <3> QED BY <1>5, <3>1 DEF Waits
  <2> QED BY <1>5, <2>1, PartIs
<1>7. PICK p \in Nat : p = done + e
  OBVIOUS
<1>8. Piece(bytes, p) = SubSeq(bytes, Begin(bytes, p) + 1, p - 1)
  BY DEF Piece
<1>9. Begin(bytes, p) + 1 = done + 1 /\ p - 1 = done + n
  BY <1>3, <1>4, <1>7
<1>10. Piece(bytes, p) = v
  BY <1>6, <1>8, <1>9
<1> QED BY <1>4, <1>5, <1>7, <1>10

\* onReadable() takes a line: the separators that follow its end without a break
\* go with it, and none of them ends a line.
LEMMA AnswerCuts == ASSUME TypeInv, ReaderInv, AnswerLine PROVE ReaderInv'
<1> SUFFICES ASSUME session PROVE
      /\ Waits(typed, taken - Len(buffer'), buffer')
      /\ Cut(typed, taken - Len(buffer'), cuts, lines')
      /\ Whole(typed, taken - Len(buffer'), taken, cuts)
      /\ pc' = "lines"
  BY DEF ReaderInv, AnswerLine, terminalVars
<1>1. PICK done \in Nat, l \in Nat, n \in Nat :
         /\ done = taken - Len(buffer) /\ l = Len(buffer) /\ done + l = taken
         /\ n = Len(lines)
  BY Done, Lengths
<1>2. /\ HasLine(buffer) /\ buffer \in Seq(Byte) /\ lines \in Seq(Seq(Chars)) /\ typed \in Seq(Byte)
      /\ lines' = Append(lines, Line(buffer)) /\ buffer' = Rest(buffer) /\ pc' = "lines"
  BY Done DEF AnswerLine
<1>3. PICK e \in 1..l, c \in 1..l :
         /\ e =< c /\ e..c \subseteq Separators(buffer)
         /\ c + 1 \notin Separators(buffer)
         /\ \A j \in 1..(e - 1) : j \notin Separators(buffer)
         /\ Line(buffer) = SubSeq(buffer, 1, e - 1)
         /\ buffer' \in Seq(Byte) /\ Len(buffer') = l - c
         /\ \A i \in 1..(l - c) : buffer'[i] = buffer[c + i]
  <2>1. \E e \in 1..Len(buffer), c \in 1..Len(buffer) :
           /\ e =< c /\ e..c \subseteq Separators(buffer)
           /\ c + 1 \notin Separators(buffer)
           /\ \A j \in 1..(e - 1) : j \notin Separators(buffer)
           /\ Line(buffer) = SubSeq(buffer, 1, e - 1)
           /\ Rest(buffer) \in Seq(Byte) /\ Len(Rest(buffer)) = Len(buffer) - c
           /\ \A i \in 1..(Len(buffer) - c) : Rest(buffer)[i] = buffer[c + i]
    BY <1>2, NextCuts
  <2> QED BY <1>1, <1>2, <2>1
<1>4. /\ Waits(typed, done, buffer) /\ Cut(typed, done, cuts, lines)
      /\ Whole(typed, done, taken, cuts)
  BY <1>1 DEF ReaderInv
<1>5. \A i \in 1..l :
        typed[done + i] = buffer[i] /\ (i \in Separators(buffer) <=> done + i \in Separators(typed))
  <2>1. \A i \in 1..l :
          typed[done + i] = buffer[i] /\ done + i \in 1..Len(typed) /\ i \in 1..Len(buffer)
    <3> SUFFICES ASSUME NEW i \in 1..l
                 PROVE  /\ typed[done + i] = buffer[i]
                        /\ done + i \in 1..Len(typed) /\ i \in 1..Len(buffer)
      OBVIOUS
    <3>1. i \in 1..Len(buffer) /\ done + i \in 1..Len(typed)
      BY <1>1, Lengths, SMTT(20)
    <3> QED BY <1>4, <3>1 DEF Waits
  <2> QED BY <1>2, <2>1 DEF Separators
<1>6. taken - Len(buffer') = done + c
  BY <1>1, <1>3
<1>7. Waits(typed, done + c, buffer')
  <2>1. done + c \in Separators(typed)
    <3>1. c \in e..c
      BY <1>3
    <3> QED BY <1>3, <1>5, <3>1
  <2>2. (done + c) + Len(buffer') =< Len(typed)
    BY <1>1, <1>3, Lengths
  <2>3. \A i \in 1..(l - c) : typed[(done + c) + i] = buffer'[i]
    <3> SUFFICES ASSUME NEW i \in 1..(l - c) PROVE typed[(done + c) + i] = buffer'[i]
      OBVIOUS
    <3>1. PICK k \in 1..l : k = c + i /\ (done + c) + i = done + k
      OBVIOUS
    <3> QED BY <1>3, <1>5, <3>1
  <2> QED BY <1>3, <2>1, <2>2, <2>3 DEF Waits
<1>8. Line(buffer) = Piece(typed, done + e)
  <2>1. e \in 1..Len(buffer)
    BY <1>1
  <2>2. /\ typed \in Seq(Byte) /\ buffer \in Seq(Byte) /\ done \in Nat
        /\ Waits(typed, done, buffer)
    BY <1>2, <1>4
  <2>3. \A j \in 1..(e - 1) : j \notin Separators(buffer)
    BY <1>3
  <2>4. Piece(typed, done + e) = SubSeq(buffer, 1, e - 1)
    BY <2>1, <2>2, <2>3, LineIsPiece
  <2> QED BY <1>3, <2>4
<1>9. \A k \in (done + 1)..(done + c) : k \in LineEnds(typed, cuts) => k = done + e
  <2> SUFFICES ASSUME NEW k \in (done + 1)..(done + c), k \in LineEnds(typed, cuts),
                      k # done + e
               PROVE  FALSE
    OBVIOUS
  <2>1. PICK i \in 1..c : k = done + i
    <3>1. k - done \in 1..c /\ k = done + (k - done)
      OBVIOUS
    <3> QED BY <3>1
  <2>2. i \in Separators(buffer) /\ i # e
    <3>1. i \in 1..l /\ k \in Separators(typed)
      BY <2>1 DEF LineEnds
    <3> QED BY <1>5, <2>1, <3>1
  <2>3. i > e
    BY <1>3, <2>1, <2>2
  <2>4. i - 1 \in e..c /\ i - 1 \in 1..l /\ done + (i - 1) = k - 1
    BY <1>3, <2>1, <2>3
  <2>5. k - 1 \in Separators(typed)
    BY <1>3, <1>5, <2>4
  <2>6. k - 1 \in (done + 1)..(taken - 1) /\ k # 1
    <3>1. k - 1 \in (done + 1)..(done + l - 1) /\ k # 1
      BY <2>1, <2>3
    <3>2. done + l = taken
      BY <1>1
    <3> QED BY <3>1, <3>2
  <2>7. k - 1 \notin cuts
    BY <1>4, <2>5, <2>6 DEF Whole
  <2> QED BY <2>5, <2>6, <2>7 DEF LineEnds
<1>10. done + e \in LineEnds(typed, cuts)
  <2>1. done + e \in Separators(typed)
    <3>1. e \in e..c
      BY <1>3
    <3> QED BY <1>3, <1>5, <3>1
  <2>2. CASE e = 1
    <3>1. done = 0 \/ done \in cuts
      BY <1>4, <2>1, <2>2 DEF Whole
    <3>2. (done + e) - 1 = done
      BY <2>2
    <3> QED BY <2>1, <2>2, <3>1, <3>2 DEF LineEnds
  <2>3. CASE e # 1
    <3>1. e - 1 \in 1..(e - 1) /\ e - 1 \in 1..l /\ done + (e - 1) = (done + e) - 1
      BY <2>3
    <3>2. (done + e) - 1 \notin Separators(typed)
      BY <1>3, <1>5, <3>1
    <3> QED BY <2>1, <3>2 DEF LineEnds
  <2> QED BY <2>2, <2>3
<1>11. Whole(typed, done + c, taken, cuts)
  <2>1. taken = 0 \/ taken \in cuts
    BY <1>4 DEF Whole
  <2>2. \A k \in ((done + c) + 1)..(taken - 1) : k \in cuts => k \notin Separators(typed)
    <3>1. \A k \in ((done + c) + 1)..(taken - 1) : k \in (done + 1)..(taken - 1)
      OBVIOUS
    <3> QED BY <1>4, <3>1 DEF Whole
  <2>3. done + c \in cuts \/ (done + c) + 1 \notin Separators(typed)
    <3>1. CASE c = l
      BY <1>1, <2>1, <3>1
    <3>2. CASE c # l
      <4>1. c + 1 \in 1..l /\ done + (c + 1) = (done + c) + 1
        BY <3>2
      <4> QED BY <1>3, <1>5, <4>1
    <3> QED BY <3>1, <3>2
  <2> QED BY <2>1, <2>2, <2>3 DEF Whole
<1>12. Cut(typed, done + c, cuts, lines')
  <2> DEFINE D == 1..done
             E == 1..(done + c)
             N == 1..n
             M == 1..(n + 1)
  <2>1. PICK at \in [N -> D] :
         /\ \A i \in N : at[i] \in LineEnds(typed, cuts)
         /\ \A i, j \in N : i < j => at[i] < at[j]
         /\ \A i \in N : lines[i] = Piece(typed, at[i])
         /\ \A k \in D : k \in LineEnds(typed, cuts) => \E i \in N : at[i] = k
    BY <1>1, <1>4, SMTT(20) DEF Cut
  <2>2. PICK f : f = [i \in M |-> IF i = n + 1 THEN done + e ELSE at[i]]
    OBVIOUS
  <2>3. \A i \in M : i = n + 1 \/ i \in N
    OBVIOUS
  <2>4. D \subseteq E /\ done + e \in E /\ n + 1 \in M /\ N \subseteq M /\ n + 1 \notin N
    BY <1>3
  <2>5. f \in [M -> E] /\ f[n + 1] = done + e /\ \A i \in N : f[i] = at[i]
    <3> HIDE DEF M, N, D, E
    <3> QED BY <2>1, <2>2, <2>3, <2>4
  <2>6. Len(lines') = n + 1 /\ lines'[n + 1] = Line(buffer) /\ \A i \in N : lines'[i] = lines[i]
    BY <1>1, <1>2
  <2>7. \A i \in M : f[i] \in LineEnds(typed, cuts)
    BY <1>10, <2>1, <2>3, <2>5
  <2>8. \A i, j \in M : i < j => f[i] < f[j]
    <3> SUFFICES ASSUME NEW i \in M, NEW j \in M, i < j PROVE f[i] < f[j]
      OBVIOUS
    <3>1. i \in N
      OBVIOUS
    <3>2. CASE j \in N
      BY <2>1, <2>5, <3>1, <3>2
    <3>3. CASE j = n + 1
      <4>1. f[i] \in D /\ f[j] = done + e
        BY <2>1, <2>5, <3>1, <3>3
      <4> QED BY <4>1
    <3> QED BY <2>3, <3>2, <3>3
  <2>9. \A i \in M : lines'[i] = Piece(typed, f[i])
    BY <1>8, <2>1, <2>3, <2>5, <2>6
  <2>10. ASSUME NEW k \in E, k \in LineEnds(typed, cuts)
         PROVE  \E i \in M : f[i] = k
    <3>1. CASE k \in D
      BY <2>1, <2>4, <2>5, <2>10, <3>1
    <3>2. CASE k \notin D
      <4>1. k \in (done + 1)..(done + c)
        BY <3>2
      <4>2. k = done + e
        BY <1>9, <2>10, <4>1
      <4> QED BY <2>4, <2>5, <4>2
    <3> QED BY <3>1, <3>2
  <2> HIDE DEF M, N, D, E
  <2>11. /\ f \in [1..Len(lines') -> 1..(done + c)] /\ M = 1..Len(lines')
    BY <2>5, <2>6 DEF M, E
  <2> QED BY <2>7, <2>8, <2>9, <2>10, <2>11 DEF Cut, E
<1> QED BY <1>2, <1>6, <1>7, <1>11, <1>12

\* The terminal types on: nothing that was cut changes.
LEMMA TypedCuts == ASSUME TypeInv, ReaderInv, TerminalTypes PROVE ReaderInv'
<1> SUFFICES ASSUME session PROVE
      /\ Waits(typed', taken - Len(buffer), buffer)
      /\ Cut(typed', taken - Len(buffer), cuts, lines)
      /\ Whole(typed', taken - Len(buffer), taken, cuts)
  BY DEF ReaderInv, TerminalTypes, daemonVars
<1>1. PICK byte \in Byte : typed' = Append(typed, byte)
  BY DEF TerminalTypes
<1>2. PICK done \in Nat, l \in Nat, z \in Nat :
         /\ done = taken - Len(buffer) /\ l = Len(buffer) /\ done + l = taken
         /\ z = Len(typed) /\ done + l =< z
  BY Done, Lengths
<1>3. /\ typed \in Seq(Byte) /\ typed' \in Seq(Byte) /\ Len(typed') = z + 1
      /\ \A i \in 1..z : typed'[i] = typed[i]
  BY <1>1, <1>2, Done
<1>4. /\ Waits(typed, done, buffer) /\ Cut(typed, done, cuts, lines)
      /\ Whole(typed, done, taken, cuts)
  BY <1>2 DEF ReaderInv
<1>5. Cut(typed', done, cuts, lines)
  <2>1. done =< z /\ done =< z + 1 /\ \A i \in 1..done : i \in 1..z
    BY <1>2
  <2> QED BY <1>2, <1>3, <1>4, <2>1, CutLonger
<1>6. \A i \in 1..z : i \in Separators(typed) <=> i \in Separators(typed')
  <2>1. z =< Len(typed) /\ z =< Len(typed') /\ \A i \in 1..z : typed[i] = typed'[i]
    BY <1>2, <1>3
  <2> QED BY <1>3, <2>1, SeparatorSame
<1>7. Waits(typed', done, buffer)
  <2>1. done = 0 \/ done \in 1..z
    BY <1>2
  <2>2. \A i \in 1..l : done + i \in 1..z
    BY <1>2
  <2> QED BY <1>2, <1>3, <1>4, <1>6, <2>1, <2>2 DEF Waits
<1>8. Whole(typed', done, taken, cuts)
  <2>1. taken =< z /\ \A k \in (done + 1)..(taken - 1) : k \in 1..z
    BY <1>2
  <2>2. CASE done = taken
    BY <1>4, <1>6, <2>1, <2>2 DEF Whole
  <2>3. CASE done # taken
    <3>1. done + 1 \in 1..z
      BY <1>2, <2>3
    <3> QED BY <1>4, <1>6, <2>1, <3>1 DEF Whole
  <2> QED BY <2>2, <2>3
<1> QED BY <1>2, <1>5, <1>7, <1>8

\* Initially.
LEMMA InitCuts == Init => ReaderInv
<1> SUFFICES ASSUME Init PROVE ReaderInv
  OBVIOUS
<1>1. /\ typed = <<>> /\ buffer = <<>> /\ lines = <<>> /\ taken = 0 /\ Len(<<>>) = 0
      /\ cuts = {}
      /\ Separators(<<>>) = {}
  BY DEF Init, Separators
<1>2. taken - Len(buffer) = 0
  <2>1. Len(buffer) = 0 /\ taken = 0 /\ 0 - 0 = 0
    BY <1>1
  <2> QED BY <2>1
<1>3. Waits(<<>>, 0, <<>>)
  BY <1>1 DEF Waits
<1>4. Cut(<<>>, 0, {}, <<>>)
  <2>1. [i \in 1..0 |-> i] \in [1..0 -> 1..0]
    OBVIOUS
  <2>2. \A i \in 1..0 : FALSE
    OBVIOUS
  <2> QED BY <1>1, <2>1, <2>2 DEF Cut
<1>5. Whole(<<>>, 0, 0, {})
  BY DEF Whole
<1> QED BY <1>1, <1>2, <1>3, <1>4, <1>5 DEF ReaderInv

\* In every step.
LEMMA StepCuts == TypeInv /\ ReaderInv /\ [Next]_vars => ReaderInv'
<1> SUFFICES ASSUME TypeInv, ReaderInv, [Next]_vars PROVE ReaderInv'
  OBVIOUS
<1>1. CASE /\ session' => session /\ UNCHANGED <<buffer, typed, taken, lines, cuts>>
           /\ session' /\ pc' # "lines" => pc # "lines" \/ Separators(buffer) = {}
  BY <1>1 DEF ReaderInv
<1>2. CASE UNCHANGED vars
  BY <1>1, <1>2 DEF vars, daemonVars, terminalVars
<1>3. CASE TerminalOpens \/ TerminalCloses \/ TimerExpires \/ SignalArrives \/ SearchStarts
  BY <1>1, <1>3 DEF TerminalOpens, TerminalCloses, TimerExpires, SignalArrives, SearchStarts,
     daemonVars, terminalVars
<1>4. CASE Wait \/ BatchDone \/ HandleSignal \/ HandleTimer
  BY <1>1, <1>4 DEF Wait, BatchDone, HandleSignal, HandleTimer, Take, terminalVars
<1>5. CASE HandleMaster
  BY <1>1, <1>5 DEF HandleMaster, Take, EndHandler, RemoveSession, terminalVars
<1>6. CASE FlushText \/ FlushEnds \/ ReadFails
  BY <1>1, <1>6 DEF FlushText, FlushEnds, ReadFails, EndHandler, RemoveSession, terminalVars
<1>7. CASE LinesDone
  BY <1>1, <1>7 DEF LinesDone, HasLine, terminalVars
<1> QED
  BY <1>2, <1>3, <1>4, <1>5, <1>6, <1>7, ReadCuts, AnswerCuts, TypedCuts
  DEF Next, DaemonStep, Environment

\* The lines found are the pieces of the input before the separators that end
\* one, each once, complete and in order, and the buffer keeps what is not ended,
\* for any characters, any number of bytes and any places where read() returned
\* (line_reader.cpp next, session.cpp onReadable).
THEOREM LinesAreFound == Spec => []LinesAsTyped
<1>1. TypeInv /\ ReaderInv => LinesAsTyped
  <2> SUFFICES ASSUME TypeInv, ReaderInv, session, pc # "lines" PROVE LinesAsTyped
    BY DEF LinesAsTyped
  <2>1. PICK done \in Nat, l \in Nat, z \in Nat, n \in Nat :
          /\ done = taken - Len(buffer) /\ l = Len(buffer) /\ done + l = taken
          /\ z = Len(typed) /\ done + l =< z /\ n = Len(lines)
    BY Done, Lengths
  <2>2. typed \in Seq(Byte) /\ buffer \in Seq(Byte) /\ taken \in Nat /\ taken =< z
    BY <2>1, Done, Lengths
  <2>3. /\ Waits(typed, done, buffer) /\ Cut(typed, done, cuts, lines)
        /\ Separators(buffer) = {}
    BY <2>1 DEF ReaderInv
  <2>4. PICK bytes \in Seq(Byte) : /\ bytes = SubSeq(typed, 1, taken) /\ Len(bytes) = taken
                                  /\ \A i \in 1..taken : bytes[i] = typed[i]
    <3>1. \A i \in 1..taken : typed[i] \in Byte
      BY <2>1, <2>2
    <3>2. taken - 1 + 1 = taken /\ \A i \in 1..taken : 1 + i - 1 = i
      BY <2>2
    <3>3. Len(SubSeq(typed, 1, taken)) = taken
      BY <2>2, <3>1, SubSeqProperties
    <3>4. /\ SubSeq(typed, 1, taken) \in Seq(Byte)
          /\ \A i \in 1..taken : SubSeq(typed, 1, taken)[i] = typed[i]
      BY <2>2, <3>1, <3>2, SubSeqProperties
    <3> QED BY <3>3, <3>4
  <2>5. \A i \in 1..l : done + i \notin Separators(bytes)
    <3>1. \A i \in 1..l :
            i \notin Separators(buffer) /\ i \in DOMAIN buffer /\ done + i \in 1..taken
      BY <2>1, <2>2, <2>3
    <3> QED BY <2>1, <2>3, <2>4, <3>1 DEF Separators, Waits
  <2>6. Separators(bytes) \subseteq 1..done
    <3> SUFFICES ASSUME NEW k \in Separators(bytes), k \notin 1..done PROVE FALSE
      OBVIOUS
    <3>1. k \in 1..taken
      BY <2>4, SeparatorPlaces
    <3>2. k - done \in 1..l /\ done + (k - done) = k
      BY <2>1, <2>2, <3>1
    <3> QED BY <2>5, <3>2
  <2>7. Cut(bytes, done, cuts, lines)
    <3>1. \A i \in 1..done : i \in 1..taken
      BY <2>1, <2>2
    <3>2. done =< Len(typed) /\ done =< Len(bytes) /\ \A i \in 1..done : typed[i] = bytes[i]
      BY <2>1, <2>2, <2>4, <3>1
    <3> QED BY <2>2, <2>3, <3>2, CutLonger
  <2>8. buffer = Piece(bytes, taken + 1)
    <3>1. PICK p \in Nat : p = taken + 1 /\ p - 1 = done + l /\ p - 1 = taken
      BY <2>1, <2>2
    <3>2. Free(bytes, done, p)
      <4>1. done \in 0..(p - 1)
        BY <2>1, <2>2, <3>1
      <4>2. done = 0 \/ done \in Separators(bytes)
        <5>1. taken =< Len(typed) /\ taken =< Len(bytes) /\ \A i \in 1..taken : typed[i] = bytes[i]
          BY <2>1, <2>2, <2>4
        <5>2. \A i \in 1..taken : i \in Separators(typed) <=> i \in Separators(bytes)
          BY <2>2, <5>1, SeparatorSame
        <5>3. done = 0 \/ done \in 1..taken
          BY <2>1, <2>2
        <5> QED BY <2>3, <5>2, <5>3 DEF Waits
      <4>3. \A k \in (done + 1)..(p - 1) : k \notin Separators(bytes)
        <5>1. \A k \in (done + 1)..(p - 1) : k \notin 1..done
          OBVIOUS
        <5> QED BY <2>6, <5>1
      <4> QED BY <4>1, <4>2, <4>3 DEF Free
    <3>3. Begin(bytes, p) = done
      BY <3>2, BeginIs
    <3>4. SubSeq(bytes, done + 1, done + l) = buffer
      <4>1. \A i \in 1..l : bytes[done + i] = buffer[i]
        <5>1. \A i \in 1..l : done + i \in 1..taken
          BY <2>1, <2>2
        <5> QED BY <2>1, <2>3, <2>4, <5>1 DEF Waits
      <4>2. PICK v \in Seq(Byte) : v = buffer /\ Len(v) = l
        BY <2>1, <2>2
      <4>3. \A i \in 1..l : bytes[done + i] = v[i]
        BY <4>1, <4>2
      <4>4. SubSeq(bytes, done + 1, done + l) = v
        <5>1. Len(v) = l
          BY <4>2
        <5> QED BY <4>3, <5>1, PartIs
      <4> QED BY <4>2, <4>4
    <3>5. Piece(bytes, p) = SubSeq(bytes, Begin(bytes, p) + 1, p - 1)
      BY DEF Piece
    <3>6. Begin(bytes, p) + 1 = done + 1
      BY <3>3
    <3> QED BY <3>1, <3>4, <3>5, <3>6
  <2> DEFINE ends == LineEnds(bytes, cuts)
             N == 1..Len(lines)
  <2>9. FoundAt(bytes, ends)
    <3>1. PICK at \in [N -> 1..done] :
           /\ \A i \in N : at[i] \in ends
           /\ \A i, j \in N : i < j => at[i] < at[j]
           /\ \A i \in N : lines[i] = Piece(bytes, at[i])
           /\ \A e \in 1..done : e \in ends => \E i \in N : at[i] = e
      BY <2>7 DEF Cut
    <3>2. \A e \in ends : e \in 1..done
      BY <2>6 DEF LineEnds
    <3> HIDE DEF N, ends
    <3>3. at \in [N -> ends]
      BY <3>1
    <3> QED BY <3>1, <3>2, <3>3 DEF FoundAt, N
  <2> QED BY <2>4, <2>8, <2>9 DEF LinesAsTyped
<1> QED BY <1>1, InitCuts, StepCuts, TypesHold, PTL DEF Spec
=============================================================================
