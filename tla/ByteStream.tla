----------------------------- MODULE ByteStream -----------------------------
(***************************************************************************)
(* What a sender of bytes promises to the code above it: the bytes handed  *)
(* over are put on the wire once each and in the order they were handed    *)
(* over, until the connection is given up.  A byte is named by its place   *)
(* in the stream: 1 is the first byte handed over.                         *)
(***************************************************************************)
EXTENDS Naturals, Sequences

VARIABLES
  accepted,   \* number of bytes handed over so far
  wire,       \* the bytes on the wire, in order
  open        \* FALSE once the connection is given up

vars == <<accepted, wire, open>>

Init ==
  /\ accepted = 0
  /\ wire = <<>>
  /\ open = TRUE

Accept ==
  /\ open
  /\ accepted' \in Nat
  /\ accepted < accepted'
  /\ UNCHANGED <<wire, open>>

\* The next n bytes of the stream, at least one of them, and none that has
\* not been handed over.
Transmit ==
  /\ open
  /\ Len(wire) < Len(wire')
  /\ Len(wire') =< accepted
  /\ LET n == Len(wire') - Len(wire)
     IN  wire' = wire \o [i \in 1..n |-> Len(wire) + i]
  /\ UNCHANGED <<accepted, open>>

GiveUp ==
  /\ open
  /\ open' = FALSE
  /\ UNCHANGED <<accepted, wire>>

Next == Accept \/ Transmit \/ GiveUp

Spec == Init /\ [][Next]_vars
=============================================================================
