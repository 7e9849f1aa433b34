SPECIFICATION Spec
CONSTANTS
  Conns = {c1}
  NoConn = NoConn
  Halves = {}
  MaxFds = 1
  MaxBatch = 5
  Room = 1
  MaxRequests = 1
INVARIANTS
  OnlySignalsEnd
CHECK_DEADLOCK FALSE
