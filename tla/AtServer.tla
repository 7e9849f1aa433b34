------------------------------ MODULE AtServer ------------------------------
(***************************************************************************)
(* The daemon seen from its AT terminal: the event loop, the one AT        *)
(* session that main() creates (src/at/server.cpp, session.cpp), the       *)
(* modem with its timer, the pseudo-terminal of the kernel and the program *)
(* that opens its slave side.                                              *)
(*                                                                         *)
(* openpty() returns a master in blocking mode and nothing changes that,   *)
(* so read() waits while the slave is open and there is nothing to read;   *)
(* once the slave is shut it returns what is left and then EIO.  While     *)
(* the slave is shut epoll reports EPOLLHUP of the master.                 *)
(*                                                                         *)
(* So the handler that reads gets out of its loop only when the session    *)
(* ends, and no answer is ever written: the only texts that leave the      *)
(* outbox are unsolicited ones.                                            *)
(*                                                                         *)
(* Input comes byte by byte and is cut into lines by LineReader; a text is *)
(* the unit of output: the terminal is taken to have room for what the     *)
(* session writes.                                                         *)
(***************************************************************************)
EXTENDS Integers, Sequences, FiniteSetsExt, Functions, LineReader

CONSTANTS
  Chars,      \* the characters a line is made of
  MaxBytes,   \* bound: bytes typed in a behaviour
  MaxOpens    \* bound: how often the terminal is opened

ASSUME CharsAssumption == CR \notin Chars /\ LF \notin Chars
ASSUME MaxBytesAssumption == MaxBytes \in Nat
ASSUME MaxOpensAssumption == MaxOpens \in Nat

VARIABLES
  \* the daemon
  pc,         \* "wait", "dispatch", "flush", "read", "lines", "exited"
  running,    \* EventLoop::running_
  batch,      \* descriptor -> events: returned by epoll_wait, not dispatched
  events,     \* the events of the AT callback that runs
  session,    \* sessions_ of at::Server has its one session
  buffer,     \* LineReader::buffer_ of the session
  outbox,     \* its outbox
  watched,    \* what epoll watches of the master
  modem,      \* Modem::state_
  \* the kernel
  timer,      \* the timerfd: "off", "armed", "expired"
  signal,     \* a SIGINT or SIGTERM is pending
  \* the terminal
  slave,      \* the slave side: "shut" or "open"
  opens,      \* how often it was opened
  typed,      \* the bytes typed
  taken,      \* how many of them the session has read
  lines,      \* history: the lines the session found
  cuts        \* history: after which bytes typed a read() of them returned

daemonVars == <<pc, running, batch, events, session, buffer, outbox, watched, modem>>
terminalVars == <<slave, opens, typed>>
vars == <<daemonVars, timer, signal, terminalVars, taken, lines, cuts>>

Descriptors == {"signal", "timer", "master"}

Byte == Chars \union {CR, LF}

\* The texts of the outbox: answers, and the unsolicited +COPS.
Text == {"answer", "+COPS"}

Empty == [x \in {} |-> {}]

\* main() before run(): openpty(), and the slave closed at once.
Init ==
  /\ pc = "wait"
  /\ running = TRUE
  /\ batch = Empty
  /\ events = {}
  /\ session = TRUE
  /\ buffer = <<>>
  /\ outbox = <<>>
  /\ watched = {"IN"}
  /\ modem = "Ready"
  /\ timer = "off"
  /\ signal = FALSE
  /\ slave = "shut"
  /\ opens = 0
  /\ typed = <<>>
  /\ taken = 0
  /\ lines = <<>>
  /\ cuts = {}

-----------------------------------------------------------------------------
\* The terminal and the environment.

TerminalOpens ==
  /\ slave = "shut" /\ session
  /\ opens < MaxOpens
  /\ slave' = "open"
  /\ opens' = opens + 1
  /\ UNCHANGED <<daemonVars, timer, signal, typed, taken, lines, cuts>>

TerminalTypes ==
  /\ slave = "open" /\ session
  /\ Len(typed) < MaxBytes
  /\ \E byte \in Byte : typed' = Append(typed, byte)
  /\ UNCHANGED <<daemonVars, timer, signal, slave, opens, taken, lines, cuts>>

TerminalCloses ==
  /\ slave = "open"
  /\ slave' = "shut"
  /\ UNCHANGED <<daemonVars, timer, signal, opens, typed, taken, lines, cuts>>

TimerExpires ==
  /\ timer = "armed"
  /\ timer' = "expired"
  /\ UNCHANGED <<daemonVars, signal, terminalVars, taken, lines, cuts>>

SignalArrives ==
  /\ ~signal
  /\ pc # "exited"
  /\ signal' = TRUE
  /\ UNCHANGED <<daemonVars, timer, terminalVars, taken, lines, cuts>>

\* startNetworkSearch(), called by a callback of the loop.  The one that calls
\* it, Modem::handleAt, is not in the repository: any time the thread runs one.
SearchStarts ==
  /\ pc \in {"dispatch", "lines"}
  /\ modem = "Ready"
  /\ modem' = "SearchingNetwork"
  /\ timer' = "armed"
  /\ UNCHANGED <<pc, running, batch, events, session, buffer, outbox, watched, signal,
                 terminalVars, taken, lines, cuts>>

-----------------------------------------------------------------------------
\* epoll and the loop.

Level ==
  {e \in {"IN", "OUT", "HUP"} :
     CASE e = "IN"  -> taken < Len(typed)
       [] e = "OUT" -> TRUE
       [] e = "HUP" -> slave = "shut"}

Events(fd) ==
  CASE fd = "signal" -> IF signal THEN {"IN"} ELSE {}
    [] fd = "timer"  -> IF timer = "expired" THEN {"IN"} ELSE {}
    [] fd = "master" -> IF session THEN Level \intersect (watched \union {"HUP"}) ELSE {}

Wait ==
  LET ready == {fd \in Descriptors : Events(fd) # {}}
  IN  /\ pc = "wait"
      /\ ready # {}
      /\ batch' = [fd \in ready |-> Events(fd)]
      /\ pc' = "dispatch"
      /\ UNCHANGED <<running, events, session, buffer, outbox, watched, modem, timer, signal,
                     terminalVars, taken, lines, cuts>>

Take(fd) ==
  /\ pc = "dispatch"
  /\ fd \in DOMAIN batch
  /\ batch' = Restrict(batch, DOMAIN batch \ {fd})

\* The end of the batch.  When the loop ends, ~Server removes the session.
BatchDone ==
  /\ pc = "dispatch"
  /\ batch = Empty
  /\ IF running
     THEN pc' = "wait" /\ UNCHANGED <<session, buffer, outbox, watched>>
     ELSE /\ pc' = "exited"
          /\ session' = FALSE
          /\ buffer' = <<>>
          /\ outbox' = <<>>
          /\ watched' = {}
  /\ UNCHANGED <<running, batch, events, modem, timer, signal, terminalVars,
                 taken, lines, cuts>>

HandleSignal ==
  /\ Take("signal")
  /\ signal' = FALSE
  /\ running' = FALSE
  /\ UNCHANGED <<pc, events, session, buffer, outbox, watched, modem, timer, terminalVars,
                 taken, lines, cuts>>

\* networkSearchComplete(): the session, if there is one, queues +COPS.
HandleTimer ==
  /\ Take("timer")
  /\ timer' = "off"
  /\ IF modem = "SearchingNetwork"
     THEN /\ modem' = "Registered"
          /\ outbox' = IF session THEN Append(outbox, "+COPS") ELSE outbox
     ELSE UNCHANGED <<modem, outbox>>
  /\ UNCHANGED <<pc, running, events, session, buffer, watched, signal,
                 terminalVars, taken, lines, cuts>>

-----------------------------------------------------------------------------
\* Faulty variants, each rejected by a property below: EPOLLOUT always watched,
\* never watched, EPOLLIN only together with it; a failed read() tried again.
WatchedAlways(out) == {"IN", "OUT"}

WatchedNever(out) == {"IN"}

WatchedOnlyToWrite(out) == IF out = <<>> THEN {} ELSE {"IN", "OUT"}

RemoveForgotten ==
  /\ pc' = "read"
  /\ UNCHANGED <<session, buffer, outbox, watched>>
-----------------------------------------------------------------------------
\* The callback of the session.

\* updateEvents(): EPOLLOUT is watched while the outbox holds something.
Watched(out) == IF out = <<>> THEN {"IN"} ELSE {"IN", "OUT"}

EndHandler ==
  /\ pc' = "dispatch"
  /\ watched' = Watched(outbox)
  /\ UNCHANGED <<session, buffer, outbox>>

\* removeSession(): there is no other, and nothing makes a new one.
RemoveSession ==
  /\ pc' = "dispatch"
  /\ session' = FALSE
  /\ buffer' = <<>>
  /\ outbox' = <<>>
  /\ watched' = {}

\* An event of a session that is gone is dropped.  EPOLLHUP with something to
\* read or to write ends the session; alone it only wakes the loop.
HandleMaster ==
  /\ Take("master")
  /\ LET e == batch["master"]
     IN  IF ~session
         THEN UNCHANGED <<pc, events, session, buffer, outbox, watched>>
         ELSE IF "HUP" \in e
         THEN /\ IF e = {"HUP"} THEN EndHandler ELSE RemoveSession
              /\ UNCHANGED events
         ELSE /\ pc' = IF "OUT" \in e THEN "flush" ELSE "read"
              /\ events' = e
              /\ UNCHANGED <<session, buffer, outbox, watched>>
  /\ UNCHANGED <<running, modem, timer, signal, terminalVars, taken, lines, cuts>>

FlushText ==
  /\ pc = "flush"
  /\ outbox # <<>>
  /\ slave = "open"
  /\ outbox' = Tail(outbox)
  /\ UNCHANGED <<pc, running, batch, events, session, buffer, watched, modem, timer,
                 signal, terminalVars, taken, lines, cuts>>

\* flush() has written everything, or write() failed because the slave is shut.
FlushEnds ==
  /\ pc = "flush"
  /\ IF outbox = <<>>
     THEN IF "IN" \in events
          THEN pc' = "read" /\ UNCHANGED <<session, buffer, outbox, watched>>
          ELSE EndHandler
     ELSE slave = "shut" /\ RemoveSession
  /\ UNCHANGED <<running, batch, events, modem, timer, signal, terminalVars,
                 taken, lines, cuts>>

\* read() returns n bytes.
ReadBytes(n) ==
  /\ pc = "read"
  /\ taken + n =< Len(typed)
  /\ taken' = taken + n
  /\ cuts' = cuts \union {taken'}
  /\ buffer' = Push(buffer, SubSeq(typed, taken + 1, taken + n))
  /\ pc' = "lines"
  /\ UNCHANGED <<running, batch, events, session, outbox, watched, modem, timer, signal,
                 terminalVars, lines>>

\* The outbox with the answer to a line.  Modem::handleAt, which makes it, is not
\* in the repository: it may be empty, and push() ignores it then.
Answered(out) == {out, Append(out, "answer")}

\* next() returns a line, handleAt() answers it.
AnswerLine ==
  /\ pc = "lines"
  /\ HasLine(buffer)
  /\ lines' = Append(lines, Line(buffer))
  /\ buffer' = Rest(buffer)
  /\ outbox' \in Answered(outbox)
  /\ UNCHANGED <<pc, running, batch, events, session, watched, modem, timer, signal,
                 terminalVars, taken, cuts>>

\* next() returns nothing: back to read().
LinesDone ==
  /\ pc = "lines"
  /\ ~HasLine(buffer)
  /\ pc' = "read"
  /\ UNCHANGED <<running, batch, events, session, buffer, outbox, watched, modem,
                 timer, signal, terminalVars, taken, lines, cuts>>

\* read() fails: nothing is left and the slave is shut.  There is no EAGAIN on
\* a blocking descriptor: while the slave is open the thread waits here.
ReadFails ==
  /\ pc = "read"
  /\ taken = Len(typed)
  /\ slave = "shut"
  /\ RemoveSession
  /\ UNCHANGED <<running, batch, events, modem, timer, signal, terminalVars,
                 taken, lines, cuts>>

-----------------------------------------------------------------------------
Environment ==
  \/ TerminalOpens \/ TerminalTypes \/ TerminalCloses
  \/ TimerExpires \/ SignalArrives \/ SearchStarts

DaemonStep ==
  \/ Wait
  \/ BatchDone
  \/ HandleSignal
  \/ HandleTimer
  \/ HandleMaster
  \/ FlushText
  \/ FlushEnds
  \/ \E n \in 1..MaxBytes : ReadBytes(n)
  \/ AnswerLine
  \/ LinesDone
  \/ ReadFails

Next == Environment \/ DaemonStep

Spec == Init /\ [][Next]_vars

\* The kernel schedules the daemon, and an armed timer expires.
Fairness == WF_vars(DaemonStep) /\ WF_vars(TimerExpires)

FairSpec == Spec /\ Fairness

\* Whoever opens the terminal closes it some day.
ClosingSpec == FairSpec /\ WF_vars(TerminalCloses)

-----------------------------------------------------------------------------
TypeOK ==
  /\ pc \in {"wait", "dispatch", "flush", "read", "lines", "exited"}
  /\ running \in BOOLEAN
  /\ DOMAIN batch \subseteq Descriptors
  /\ \A fd \in DOMAIN batch : batch[fd] \subseteq {"IN", "OUT", "HUP"}
  /\ events \subseteq {"IN", "OUT", "HUP"}
  /\ session \in BOOLEAN
  /\ buffer \in Seq(Byte)
  /\ outbox \in Seq(Text)
  /\ watched \subseteq {"IN", "OUT"}
  /\ modem \in {"Ready", "SearchingNetwork", "Registered"}
  /\ timer \in {"off", "armed", "expired"}
  /\ signal \in BOOLEAN
  /\ slave \in {"shut", "open"}
  /\ opens \in 0..MaxOpens
  /\ typed \in Seq(Byte)
  /\ taken \in 0..Len(typed)
  /\ lines \in Seq(Seq(Chars))
  /\ cuts \subseteq 1..taken

\* What was typed before the separator at e, from the start or after the
\* separator before it.
Begin(bytes, e) == Max({0} \union {s \in Separators(bytes) : s < e})

Piece(bytes, e) == SubSeq(bytes, Begin(bytes, e) + 1, e - 1)

\* The separators that end a line: not those that follow another one, unless a
\* read() returned between the two.
LineEnds(bytes, where) ==
  {e \in Separators(bytes) : e = 1 \/ e - 1 \notin Separators(bytes) \/ e - 1 \in where}

\* The lines found are the pieces that end at ends, in that order.
FoundAt(bytes, ends) ==
  \E at \in [1..Len(lines) -> ends] :
    /\ \A i, j \in 1..Len(lines) : i < j => at[i] < at[j]
    /\ \A i \in 1..Len(lines) : lines[i] = Piece(bytes, at[i])
    /\ \A e \in ends : \E i \in 1..Len(lines) : at[i] = e

\* Whatever the reads make of the input, no byte is lost and no two lines are
\* joined: the lines found are exactly the pieces before the separators that end
\* one, in order, and what waits in the buffer is the line that is not ended.
\* A run of separators ends one line, and one more, an empty one, for every
\* read() that returned inside the run (line_reader.cpp next).
LinesAsTyped ==
  session /\ pc # "lines" =>
    LET bytes == SubSeq(typed, 1, taken)
    IN  /\ FoundAt(bytes, LineEnds(bytes, cuts))
        /\ buffer = Piece(bytes, taken + 1)

\* A terminal that ends its lines with CR LF.
EndsInCrLf(bytes) ==
  \A i \in Separators(bytes) :
    /\ bytes[i] = LF => i > 1 /\ bytes[i - 1] = CR
    /\ bytes[i] = CR /\ i < Len(bytes) => bytes[i + 1] = LF

\* line_reader.hpp: the transport may deliver fragments, and the reader yields
\* the full lines; line_reader.cpp: CR LF is supported.  So the lines found in
\* such an input do not depend on where read() returned: a run of separators
\* that was read ends one line.
CutsDoNotShow ==
  session /\ pc # "lines" =>
    LET bytes == SubSeq(typed, 1, taken)
    IN  EndsInCrLf(bytes) => FoundAt(bytes, LineEnds(bytes, {}))

\* When the loop waits, EPOLLOUT is watched only if there is something to write:
\* a terminal that is open and silent leaves the loop asleep, as it would not if
\* the watch outlived the output, EPOLLOUT being reported as long as it is
\* watched (server.cpp updateEvents).
WatchedForOutput ==
  pc = "wait" /\ "OUT" \in watched => outbox # <<>>

\* What is queued leaves the outbox, written or dropped with its session, also a
\* +COPS that was queued with EPOLLOUT off, provided that the terminal is opened
\* a finite number of times, MaxOpens here, and closed some day: then EPOLLHUP
\* wakes the loop, and the end of the handler turns EPOLLOUT on (server.cpp
\* createPty, updateEvents).
QueueEmpties == outbox # <<>> ~> outbox = <<>>

\* A signal ends the daemon, provided that the terminal is opened a finite number
\* of times and closed some day and what is typed is finite, MaxOpens and
\* MaxBytes here: EPOLLHUP, reported again and again while the slave is shut,
\* does not keep the loop from the signal.
SignalStops == signal ~> pc = "exited"

\* Under the same conditions, again and again everything typed is read and every
\* line taken from the buffer, or the session is gone.
LinesTaken == []<>(~session \/ (taken = Len(typed) /\ ~HasLine(buffer)))

\* session.cpp: "Non-blocking fd: no data now", on which the read loop ends and
\* the handler returns to the event loop, whatever the terminal does.
ReadReturns == pc = "read" ~> pc # "read"
=============================================================================
