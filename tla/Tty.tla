-------------------------------- MODULE Tty ---------------------------------
(***************************************************************************)
(* transport::Tty (src/transport/Tty.cpp, include/transport/tty.hpp), the  *)
(* owner of a descriptor, and the kernel's descriptor table, where close() *)
(* frees a number and the next open() takes the lowest one free: a number  *)
(* closed twice, or kept after close(), would name somebody else's file.   *)
(*                                                                         *)
(* Any code may construct, move, assign and destroy Tty objects, in any    *)
(* order that C++ allows, while the rest of the process opens and closes   *)
(* descriptors of its own.                                                 *)
(***************************************************************************)
EXTENDS Integers, Functions

CONSTANTS
  Objects,    \* storage for Tty objects
  MaxFds,     \* the descriptors a process may have
  MaxFiles    \* bound: how often a behaviour opens a file

ASSUME MaxFdsAssumption == MaxFds \in Nat
ASSUME MaxFilesAssumption == MaxFiles \in Nat

Fds == 0..(MaxFds - 1)
None == -1

VARIABLES
  alive,   \* the objects that are constructed and not destroyed
  fd,      \* object -> fd_
  files,   \* descriptor -> the file it is open on, numbered as opened
  opened,  \* number of files opened so far
  own,     \* the descriptors that code other than Tty has open
  meant    \* history: object -> the file handed to it, 0: none

vars == <<alive, fd, files, opened, own, meant>>

Empty == [x \in {} |-> 0]

Init ==
  /\ alive = {}
  /\ fd = [o \in Objects |-> None]
  /\ files = Empty
  /\ opened = 0
  /\ own = {}
  /\ meant = [o \in Objects |-> 0]

-----------------------------------------------------------------------------
\* open(), accept4(), openpty() ...: the lowest number that is free.
OpenLowest(n) ==
  /\ opened < MaxFiles
  /\ n \in Fds \ DOMAIN files
  /\ \A other \in Fds \ DOMAIN files : n =< other
  /\ opened' = opened + 1
  /\ files' = [m \in DOMAIN files \union {n} |-> IF m = n THEN opened + 1 ELSE files[m]]

\* close(n): EBADF changes nothing.
Closed(n) == Restrict(files, DOMAIN files \ {n})

OthersOpen(n) ==
  /\ OpenLowest(n)
  /\ own' = own \union {n}
  /\ UNCHANGED <<alive, fd, meant>>

OthersClose(n) ==
  /\ n \in own
  /\ own' = own \ {n}
  /\ files' = Closed(n)
  /\ UNCHANGED <<alive, fd, opened, meant>>

-----------------------------------------------------------------------------
\* Faulty variants, each rejected by a property below: the source keeps its
\* descriptor, the old descriptor is not closed, nor one at destruction.
MovedKept(o, p) ==
  /\ files' = Closed(fd[o])
  /\ fd' = [fd EXCEPT ![o] = fd[p]]
  /\ meant' = [meant EXCEPT ![o] = meant[p], ![p] = 0]

MovedNotClosed(o, p) ==
  /\ UNCHANGED files
  /\ fd' = [fd EXCEPT ![o] = fd[p], ![p] = None]
  /\ meant' = [meant EXCEPT ![o] = meant[p], ![p] = 0]

DestroyNotClosed(o) ==
  /\ o \in alive
  /\ alive' = alive \ {o}
  /\ UNCHANGED <<fd, files, opened, own, meant>>
-----------------------------------------------------------------------------

\* Tty o;
ConstructEmpty(o) ==
  /\ o \notin alive
  /\ alive' = alive \union {o}
  /\ UNCHANGED <<fd, files, opened, own, meant>>

\* Tty o(n), n being what the call before it opened.
Construct(o, n) ==
  /\ o \notin alive
  /\ OpenLowest(n)
  /\ alive' = alive \union {o}
  /\ fd' = [fd EXCEPT ![o] = n]
  /\ meant' = [meant EXCEPT ![o] = opened + 1]
  /\ UNCHANGED own

\* Tty o(std::move(p)).
MoveConstruct(o, p) ==
  /\ o \notin alive /\ p \in alive
  /\ alive' = alive \union {o}
  /\ fd' = [fd EXCEPT ![o] = fd[p], ![p] = None]
  /\ meant' = [meant EXCEPT ![o] = meant[p], ![p] = 0]
  /\ UNCHANGED <<files, opened, own>>

\* o closes what it holds and takes what p holds.
Moved(o, p) ==
  /\ files' = Closed(fd[o])
  /\ fd' = [fd EXCEPT ![o] = fd[p], ![p] = None]
  /\ meant' = [meant EXCEPT ![o] = meant[p], ![p] = 0]

\* o = std::move(p): an assignment to itself does nothing.
MoveAssign(o, p) ==
  /\ {o, p} \subseteq alive
  /\ IF o = p THEN UNCHANGED <<files, fd, meant>> ELSE Moved(o, p)
  /\ UNCHANGED <<alive, opened, own>>

\* ~Tty().  The storage may hold a new object later.
Destroy(o) ==
  /\ o \in alive
  /\ alive' = alive \ {o}
  /\ files' = Closed(fd[o])
  /\ fd' = [fd EXCEPT ![o] = None]
  /\ meant' = [meant EXCEPT ![o] = 0]
  /\ UNCHANGED <<opened, own>>

TtyStep ==
  \E o \in Objects :
    \/ ConstructEmpty(o)
    \/ \E n \in Fds : Construct(o, n)
    \/ \E p \in Objects : MoveConstruct(o, p) \/ MoveAssign(o, p)
    \/ Destroy(o)

Next == TtyStep \/ \E n \in Fds : OthersOpen(n) \/ OthersClose(n)

Spec == Init /\ [][Next]_vars

-----------------------------------------------------------------------------
TypeOK ==
  /\ alive \subseteq Objects
  /\ fd \in [Objects -> Fds \union {None}]
  /\ DOMAIN files \subseteq Fds
  /\ \A n \in DOMAIN files : files[n] \in 1..opened
  /\ opened \in 0..MaxFiles
  /\ own \subseteq Fds
  /\ meant \in [Objects -> 0..MaxFiles]
  /\ \A o \in Objects \ alive : fd[o] = None

\* read() and write() through o reach the file the descriptor is open on.
FileOf(o) == IF fd[o] \in DOMAIN files THEN files[fd[o]] ELSE 0

\* An object reaches the file that was handed to it, through any chain of moves
\* and however often the kernel has given the numbers out again; an object that
\* is empty, moved from or destroyed reaches none (Tty.cpp).
ReachesItsFile == \A o \in Objects : FileOf(o) = meant[o]

\* Every open descriptor is held by one living object or by other code, never
\* by two: none leaks and none can be closed twice.
OneOwner ==
  /\ \A n \in DOMAIN files \ own : \E o \in alive : fd[o] = n
  /\ \A o, p \in Objects : fd[o] # None /\ fd[o] = fd[p] => o = p
  /\ \A o \in Objects : fd[o] \notin own
=============================================================================
