SPECIFICATION FairSpec
CONSTANTS
  Conns = {c1, c2}
  NoConn = NoConn
  Halves = {c1}
  MaxFds = 2
  MaxBatch = 5
  Room = 1
  MaxRequests = 1
PROPERTIES
  RequestsAnswered
  SignalStops
CHECK_DEADLOCK FALSE
