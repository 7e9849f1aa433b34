SPECIFICATION LeavingSpec
CONSTANTS
  Conns = {c1, c2}
  NoConn = NoConn
  Halves = {}
  MaxFds = 1
  MaxBatch = 3
  Room = 1
  MaxRequests = 2
INVARIANTS
  TypeOK
  TablesAgree
  EventForRightSession
  WatchedIfNeeded
  AnswersInOrder
  NewsIsConsistent
PROPERTIES
  ImplementsService
  ConnectionsAccepted
CHECK_DEADLOCK FALSE
