----------------------------- MODULE LineReader -----------------------------
(***************************************************************************)
(* transport::LineReader (src/transport/line_reader.cpp): bytes arrive in  *)
(* pieces, next() cuts them into lines at CR and LF.  A byte is CR, LF or  *)
(* a character of a line; the buffer is the reader's only state and is     *)
(* kept by the module that uses it.                                        *)
(***************************************************************************)
EXTENDS Integers, Sequences

CR == "CR"
LF == "LF"

IsSeparator(byte) == byte \in {CR, LF}

Separators(buffer) == {i \in DOMAIN buffer : IsSeparator(buffer[i])}

-----------------------------------------------------------------------------
\* Faulty variants of the operators below, each rejected by a property of
\* AtServer: what follows a line lost, the line with the separator that ends it.
RestCleared(buffer) == <<>>

LineWithEnd(buffer) ==
  SubSeq(buffer, 1, CHOOSE i \in Separators(buffer) : \A j \in Separators(buffer) : i =< j)
-----------------------------------------------------------------------------

Push(buffer, data) == buffer \o data

HasLine(buffer) == Separators(buffer) # {}

\* find_first_of("\r\n")
LineEnd(buffer) ==
  CHOOSE i \in Separators(buffer) : \A j \in Separators(buffer) : i =< j

\* The separators that follow are skipped, as many as the buffer holds now.
Consumed(buffer) ==
  CHOOSE k \in Separators(buffer) :
    /\ LineEnd(buffer)..k \subseteq Separators(buffer)
    /\ k + 1 \notin Separators(buffer)

\* next(): the line it returns and the buffer it leaves.
Line(buffer) == SubSeq(buffer, 1, LineEnd(buffer) - 1)

Rest(buffer) == SubSeq(buffer, Consumed(buffer) + 1, Len(buffer))
=============================================================================
