------------------------------ MODULE TtyProofs ------------------------------
(***************************************************************************)
(* Owners of descriptors, for any number of objects and descriptors and    *)
(* however long the process runs.                                          *)
(***************************************************************************)
EXTENDS Tty, TLAPS

\* What is held is open, by Tty objects and by other code.
HeldIsOpen ==
  /\ own \subseteq DOMAIN files
  /\ \A o \in Objects : fd[o] # None => fd[o] \in DOMAIN files

IInv == TypeOK /\ ReachesItsFile /\ OneOwner /\ HeldIsOpen

LEMMA NoneIsNoFd == None \notin Fds
BY MaxFdsAssumption DEF None, Fds

LEMMA InitIInv == Init => IInv
BY MaxFilesAssumption, NoneIsNoFd
DEF Init, Empty, IInv, TypeOK, ReachesItsFile, FileOf, OneOwner, HeldIsOpen

LEMMA StutterIInv == IInv /\ UNCHANGED vars => IInv'
BY DEF vars, IInv, TypeOK, ReachesItsFile, FileOf, OneOwner, HeldIsOpen

\* The kernel's side of open() and close().
Opened(n) ==
  /\ n \in Fds \ DOMAIN files
  /\ opened' = opened + 1 /\ opened' \in 0..MaxFiles
  /\ DOMAIN files' = DOMAIN files \union {n}
  /\ files'[n] = opened + 1
  /\ \A m \in DOMAIN files : files'[m] = files[m]
  /\ \A m \in DOMAIN files' : files'[m] \in 1..opened'

LEMMA Opens == ASSUME IInv, NEW n, OpenLowest(n) PROVE Opened(n)
<1> USE DEF OpenLowest, IInv, TypeOK
<1>1. n \in Fds \ DOMAIN files /\ opened' = opened + 1 /\ opened' \in 0..MaxFiles
  BY MaxFilesAssumption
<1>2. files' = [m \in DOMAIN files \union {n} |-> IF m = n THEN opened + 1 ELSE files[m]]
  OBVIOUS
<1>3. /\ DOMAIN files' = DOMAIN files \union {n}
      /\ files'[n] = opened + 1
      /\ \A m \in DOMAIN files : files'[m] = files[m]
  BY <1>1, <1>2
<1>4. \A m \in DOMAIN files' : files'[m] \in 1..opened'
  BY <1>1, <1>3
<1> QED BY <1>1, <1>3, <1>4 DEF Opened

LEMMA Closes ==
  ASSUME NEW n
  PROVE  /\ DOMAIN Closed(n) = DOMAIN files \ {n}
         /\ \A m \in DOMAIN files \ {n} : Closed(n)[m] = files[m]
BY DEF Closed, Restrict

-----------------------------------------------------------------------------
\* The rest of the process.

LEMMA OthersOpenIInv == ASSUME IInv, NEW n \in Fds, OthersOpen(n) PROVE IInv'
<1>1. Opened(n) /\ own' = own \union {n} /\ UNCHANGED <<alive, fd, meant>>
  BY Opens DEF OthersOpen
<1>2. \A o \in Objects : fd[o] # n
  BY <1>1, NoneIsNoFd DEF IInv, HeldIsOpen, Opened
<1>3. TypeOK'
  BY <1>1 DEF IInv, TypeOK, Opened
<1>4. ReachesItsFile'
  BY <1>1, <1>2 DEF IInv, ReachesItsFile, FileOf, Opened
<1>5. OneOwner'
  BY <1>1, <1>2 DEF IInv, OneOwner, Opened
<1>6. HeldIsOpen'
  BY <1>1 DEF IInv, HeldIsOpen, Opened
<1> QED BY <1>3, <1>4, <1>5, <1>6 DEF IInv

LEMMA OthersCloseIInv == ASSUME IInv, NEW n \in Fds, OthersClose(n) PROVE IInv'
<1> USE DEF OthersClose
<1>1. \A o \in Objects : fd[o] # n
  BY DEF IInv, OneOwner
<1>2. TypeOK'
  BY Closes DEF IInv, TypeOK
<1>3. ReachesItsFile'
  BY <1>1, Closes DEF IInv, ReachesItsFile, FileOf
<1>4. OneOwner' /\ HeldIsOpen'
  BY <1>1, Closes DEF IInv, OneOwner, HeldIsOpen
<1> QED BY <1>2, <1>3, <1>4 DEF IInv

-----------------------------------------------------------------------------
\* The operations of Tty.

LEMMA ConstructEmptyIInv == ASSUME IInv, NEW o \in Objects, ConstructEmpty(o) PROVE IInv'
BY DEF ConstructEmpty, IInv, TypeOK, ReachesItsFile, FileOf, OneOwner, HeldIsOpen

LEMMA ConstructIInv ==
  ASSUME IInv, NEW o \in Objects, NEW n \in Fds, Construct(o, n)
  PROVE  IInv'
<1>1. Opened(n) /\ o \notin alive /\ alive' = alive \union {o} /\ UNCHANGED own
  BY Opens DEF Construct
<1>2. \A p \in Objects : fd'[p] = IF p = o THEN n ELSE fd[p]
  BY DEF Construct, IInv, TypeOK
<1>3. \A p \in Objects : meant'[p] = IF p = o THEN opened + 1 ELSE meant[p]
  BY DEF Construct, IInv, TypeOK
<1>4. \A p \in Objects : fd[p] # n
  BY <1>1, NoneIsNoFd DEF IInv, HeldIsOpen, Opened
<1>5. fd[o] = None
  BY <1>1 DEF IInv, TypeOK
<1>6. TypeOK'
  <2>1. fd' \in [Objects -> Fds \union {None}] /\ meant' \in [Objects -> 0..MaxFiles]
    BY <1>1 DEF Construct, IInv, TypeOK, Opened
  <2> QED BY <1>1, <1>2, <2>1 DEF IInv, TypeOK, Opened
<1>7. ReachesItsFile'
  BY <1>1, <1>2, <1>3, <1>4 DEF IInv, ReachesItsFile, FileOf, Opened
<1>8. OneOwner'
  <2>1. \A p, q \in Objects : fd'[p] # None /\ fd'[p] = fd'[q] => p = q
    BY <1>2, <1>4 DEF IInv, OneOwner
  <2>2. \A p \in Objects : fd'[p] \notin own'
    BY <1>1, <1>2 DEF IInv, OneOwner, HeldIsOpen, Opened
  <2>3. \A m \in DOMAIN files' \ own' : \E p \in alive' : fd'[p] = m
    <3>1. ASSUME NEW m \in DOMAIN files \ own PROVE \E p \in alive' : fd'[p] = m
      <4>1. PICK p \in alive : fd[p] = m
        BY DEF IInv, OneOwner
      <4> QED BY <1>1, <1>2, <4>1 DEF IInv, TypeOK
    <3> QED BY <1>1, <1>2, <3>1 DEF Opened
  <2> QED BY <2>1, <2>2, <2>3 DEF OneOwner
<1>9. HeldIsOpen'
  BY <1>1, <1>2 DEF IInv, HeldIsOpen, Opened
<1> QED BY <1>6, <1>7, <1>8, <1>9 DEF IInv

LEMMA MoveConstructIInv ==
  ASSUME IInv, NEW o \in Objects, NEW p \in Objects, MoveConstruct(o, p)
  PROVE  IInv'
<1> USE DEF MoveConstruct
<1>1. o # p /\ fd[o] = None
  BY DEF IInv, TypeOK
<1>2. fd' = [q \in Objects |-> IF q = o THEN fd[p] ELSE IF q = p THEN None ELSE fd[q]]
  BY <1>1 DEF IInv, TypeOK
<1>3. meant' = [q \in Objects |-> IF q = o THEN meant[p] ELSE IF q = p THEN 0 ELSE meant[q]]
  BY <1>1 DEF IInv, TypeOK
<1>4. TypeOK'
  BY <1>1, <1>2, <1>3, MaxFilesAssumption DEF IInv, TypeOK
<1>5. ReachesItsFile'
  BY <1>2, <1>3, NoneIsNoFd DEF IInv, TypeOK, ReachesItsFile, FileOf
<1>6. OneOwner'
  BY <1>1, <1>2, NoneIsNoFd DEF IInv, TypeOK, OneOwner, HeldIsOpen
<1>7. HeldIsOpen'
  BY <1>2 DEF IInv, HeldIsOpen
<1> QED BY <1>4, <1>5, <1>6, <1>7 DEF IInv

LEMMA MoveAssignIInv ==
  ASSUME IInv, NEW o \in Objects, NEW p \in Objects, MoveAssign(o, p)
  PROVE  IInv'
<1> USE DEF MoveAssign
<1>1. CASE o = p
  BY <1>1, StutterIInv DEF vars
<1>2. CASE o # p
  <2>1. fd' = [q \in Objects |-> IF q = o THEN fd[p] ELSE IF q = p THEN None ELSE fd[q]]
    BY <1>2 DEF Moved, IInv, TypeOK
  <2>2. meant' = [q \in Objects |-> IF q = o THEN meant[p] ELSE IF q = p THEN 0 ELSE meant[q]]
    BY <1>2 DEF Moved, IInv, TypeOK
  <2>3. /\ DOMAIN files' = DOMAIN files \ {fd[o]}
        /\ \A m \in DOMAIN files \ {fd[o]} : files'[m] = files[m]
    BY <1>2, Closes DEF Moved
  \* Nobody else names the descriptor that is closed.
  <2>4. \A q \in Objects \ {o} : fd[q] = None \/ fd[q] # fd[o]
    BY DEF IInv, OneOwner
  <2>5. TypeOK'
    BY <2>1, <2>2, <2>3, MaxFilesAssumption DEF IInv, TypeOK
  <2>6. ReachesItsFile'
    BY <1>2, <2>1, <2>2, <2>3, <2>4, NoneIsNoFd DEF IInv, TypeOK, ReachesItsFile, FileOf
  <2>7. OneOwner'
    BY <1>2, <2>1, <2>3, <2>4, NoneIsNoFd DEF IInv, TypeOK, OneOwner, HeldIsOpen
  <2>8. HeldIsOpen'
    BY <1>2, <2>1, <2>3, <2>4 DEF IInv, TypeOK, OneOwner, HeldIsOpen
  <2> QED BY <2>5, <2>6, <2>7, <2>8 DEF IInv
<1> QED BY <1>1, <1>2

LEMMA DestroyIInv == ASSUME IInv, NEW o \in Objects, Destroy(o) PROVE IInv'
<1> USE DEF Destroy
<1>1. /\ DOMAIN files' = DOMAIN files \ {fd[o]}
      /\ \A m \in DOMAIN files \ {fd[o]} : files'[m] = files[m]
  BY Closes
<1>2. \A q \in Objects \ {o} : fd[q] = None \/ fd[q] # fd[o]
  BY DEF IInv, OneOwner
<1>3. TypeOK'
  BY <1>1, MaxFilesAssumption DEF IInv, TypeOK
<1>4. ReachesItsFile'
  BY <1>1, <1>2, NoneIsNoFd DEF IInv, TypeOK, ReachesItsFile, FileOf
<1>5. OneOwner'
  BY <1>1, <1>2, NoneIsNoFd DEF IInv, TypeOK, OneOwner
<1>6. HeldIsOpen'
  BY <1>1, <1>2 DEF IInv, TypeOK, OneOwner, HeldIsOpen
<1> QED BY <1>3, <1>4, <1>5, <1>6 DEF IInv

-----------------------------------------------------------------------------
LEMMA StepIInv == IInv /\ [Next]_vars => IInv'
<1> SUFFICES ASSUME IInv, [Next]_vars PROVE IInv'
  OBVIOUS
<1>1. CASE TtyStep
  BY <1>1, ConstructEmptyIInv, ConstructIInv, MoveConstructIInv, MoveAssignIInv, DestroyIInv
  DEF TtyStep
<1>2. CASE \E n \in Fds : OthersOpen(n) \/ OthersClose(n)
  BY <1>2, OthersOpenIInv, OthersCloseIInv
<1>3. CASE UNCHANGED vars
  BY <1>3, StutterIInv
<1> QED BY <1>1, <1>2, <1>3 DEF Next

\* IInv holds in every reachable state.
THEOREM Inductive == Spec => []IInv
BY InitIInv, StepIInv, PTL DEF Spec

\* The type invariant of the owners (Tty.cpp).
THEOREM TypesAreKept == Spec => []TypeOK
BY Inductive, PTL DEF IInv

\* An object reaches the file that was handed to it and nothing else, through
\* any chain of moves and however the kernel reuses the numbers (Tty.cpp).
THEOREM FilesAreReached == Spec => []ReachesItsFile
BY Inductive, PTL DEF IInv

\* No descriptor leaks and none has two owners (Tty.cpp).
THEOREM OwnersAreUnique == Spec => []OneOwner
BY Inductive, PTL DEF IInv
=============================================================================
