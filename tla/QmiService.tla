----------------------------- MODULE QmiService -----------------------------
(***************************************************************************)
(* What the QMI side of the daemon promises to a client, whatever the      *)
(* other clients do and however its event loop, its queues and the sockets *)
(* delay things: requests are answered once and in order, and the          *)
(* registration of the modem is told consistently.                         *)
(*                                                                         *)
(* An answer is worked out at some time between the request and its        *)
(* writing, so it may say "not registered" after the modem registered, but *)
(* not after the client was told of it.                                    *)
(***************************************************************************)
EXTENDS Naturals, Sequences

CONSTANTS
  Conns,         \* the connections
  MaxRequests    \* bound: requests sent on one

VARIABLES
  asked,        \* conn -> number of requests sent
  registered,   \* the modem is registered
  wire          \* conn -> the messages written to the client

vars == <<asked, registered, wire>>

\* The answer to request number txn, or the indication, which has number 0.
Message == [txn : 0..MaxRequests, registered : BOOLEAN]

Indication == [txn |-> 0, registered |-> TRUE]

Told(c) == \E i \in DOMAIN wire[c] : wire[c][i].registered

Answered(c, k) == \E i \in DOMAIN wire[c] : wire[c][i].txn = k

Init ==
  /\ asked = [c \in Conns |-> 0]
  /\ registered = FALSE
  /\ wire = [c \in Conns |-> <<>>]

Ask(c) ==
  /\ asked[c] < MaxRequests
  /\ asked' = [asked EXCEPT ![c] = @ + 1]
  /\ UNCHANGED <<registered, wire>>

Register ==
  /\ registered' = TRUE
  /\ UNCHANGED <<asked, wire>>

Write(c, m) ==
  /\ wire' = [wire EXCEPT ![c] = Append(@, m)]
  /\ UNCHANGED <<asked, registered>>

\* The next answer, to a request that was sent.
Answer(c, m) ==
  /\ m.txn \in 1..asked[c]
  /\ \A k \in 1..MaxRequests : Answered(c, k) <=> k < m.txn
  /\ m.registered => registered
  /\ Told(c) => m.registered
  /\ Write(c, m)

\* Once, after the registration, to a client that was not told by an answer.
Indicate(c) ==
  /\ registered
  /\ ~Told(c)
  /\ Write(c, Indication)

Next ==
  \/ Register
  \/ \E c \in Conns : Ask(c) \/ Indicate(c) \/ \E m \in Message : Answer(c, m)

Spec == Init /\ [][Next]_vars
=============================================================================
