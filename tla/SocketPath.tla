----------------------------- MODULE SocketPath -----------------------------
(***************************************************************************)
(* The socket file of the QMI server (src/qmi/server.cpp, the constructor  *)
(* and the destructor of Server) and the processes that share it: daemons  *)
(* that start, end, crash and are started again, each process once.        *)
(*                                                                         *)
(* A process is interleaved with the others between any two system calls.  *)
(* A crash, SIGKILL or SIGPIPE for instance, closes its sockets and leaves *)
(* the file.  A failure of socket(), or of bind() for want of resources,   *)
(* leaves what a crash before bind() leaves, and is not an action here.    *)
(***************************************************************************)
EXTENDS Integers

CONSTANTS
  Daemons,    \* the processes of a behaviour
  NoDaemon    \* not one of them

ASSUME NoDaemonAssumption == NoDaemon \notin Daemons

VARIABLES
  stage,    \* daemon -> how far it is, see Stages
  file,     \* the daemon whose socket the file names, NoDaemon: no file
  shared    \* history: daemon -> another process lived while it did

pathVars == <<stage, file, shared>>

\* "unlinked", "bound", "listening", "serving": after the call of the
\* constructor; "closing": after close() in the destructor.  The process is gone
\* in the others: "failed", bind() found a file; "abandoned", the constructor
\* threw after bind().
Live == {"unlinked", "bound", "listening", "serving", "closing"}
Stages == {"new", "ended", "failed", "abandoned", "crashed"} \union Live

Alive(d) == stage[d] \in Live

\* connect() to its socket succeeds.
Listens(d) == stage[d] \in {"listening", "serving"}

Init ==
  /\ stage = [d \in Daemons |-> "new"]
  /\ file = NoDaemon
  /\ shared = [d \in Daemons |-> FALSE]

-----------------------------------------------------------------------------
\* Faulty variants, each rejected by a property below: the file of an earlier
\* process left where it is, the file not removed at the end.
UnlinkForgotten == file

RemoveForgotten == file
-----------------------------------------------------------------------------

\* unlink() at the start, and at the end, removes the file whosever it is.
FileAfterUnlink == NoDaemon

FileAtEnd == NoDaemon

\* socket(), unlink().
Start(d) ==
  /\ stage[d] = "new"
  /\ stage' = [stage EXCEPT ![d] = "unlinked"]
  /\ file' = FileAfterUnlink
  /\ shared' = [e \in Daemons |->
                  shared[e] \/ IF e = d THEN \E o \in Daemons : Alive(o) ELSE Alive(e)]

\* bind() makes the file, and fails with EADDRINUSE if there is one: the
\* constructor throws and main() returns 1.
Bind(d) ==
  /\ stage[d] = "unlinked"
  /\ IF file = NoDaemon
     THEN /\ file' = d
          /\ stage' = [stage EXCEPT ![d] = "bound"]
     ELSE /\ stage' = [stage EXCEPT ![d] = "failed"]
          /\ UNCHANGED file
  /\ UNCHANGED shared

\* listen().  If it fails the constructor throws: no ~Server runs, and the file
\* stays.
Listen(d) ==
  /\ stage[d] = "bound"
  /\ \E next \in {"listening", "abandoned"} : stage' = [stage EXCEPT ![d] = next]
  /\ UNCHANGED <<file, shared>>

\* addFd() of the event loop, which throws with the same effect.
AddFd(d) ==
  /\ stage[d] = "listening"
  /\ \E next \in {"serving", "abandoned"} : stage' = [stage EXCEPT ![d] = next]
  /\ UNCHANGED <<file, shared>>

\* ~Server, after a signal or an exception of createPty(): it closes the
\* listening socket and the sessions ...
Close(d) ==
  /\ stage[d] = "serving"
  /\ stage' = [stage EXCEPT ![d] = "closing"]
  /\ UNCHANGED <<file, shared>>

\* ... and then removes the file.
RemoveFile(d) ==
  /\ stage[d] = "closing"
  /\ stage' = [stage EXCEPT ![d] = "ended"]
  /\ file' = FileAtEnd
  /\ UNCHANGED shared

Crash(d) ==
  /\ Alive(d)
  /\ stage' = [stage EXCEPT ![d] = "crashed"]
  /\ UNCHANGED <<file, shared>>

DaemonNext(d) ==
  \/ Start(d) \/ Bind(d) \/ Listen(d) \/ AddFd(d)
  \/ Close(d) \/ RemoveFile(d) \/ Crash(d)

PathSpec == Init /\ [][\E d \in Daemons : DaemonNext(d)]_pathVars

-----------------------------------------------------------------------------
PathTypeOK ==
  /\ stage \in [Daemons -> Stages]
  /\ file \in Daemons \union {NoDaemon}
  /\ shared \in [Daemons -> BOOLEAN]

\* A daemon finds its path free, and is reached by it while it listens, whatever
\* earlier processes left there and wherever they crashed, unless another process
\* lived at the same time: a restart while the old daemon runs takes the path
\* over, and the end of the old one then removes the new one's file (server.cpp,
\* constructor and destructor).
Reachable ==
  \A d \in Daemons :
    ~shared[d] => /\ stage[d] # "failed"
                  /\ Listens(d) => file = d

\* A file that leads nowhere, also when processes overlap, is left by a crash or
\* by a constructor that throws after bind(): for its object no destructor runs.
\* A daemon that ends, or finds its path taken, leaves none of its own
\* (server.cpp, constructor and destructor).
StaleFileExplained ==
  file # NoDaemon /\ ~Alive(file) => stage[file] \in {"crashed", "abandoned"}
=============================================================================
