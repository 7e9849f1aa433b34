SPECIFICATION FairSpec
CONSTANTS
  Conns = {c1}
  NoConn = NoConn
  Halves = {}
  MaxFds = 1
  MaxBatch = 5
  Room = 1
  MaxRequests = 1
PROPERTIES
  IndicationDelivered
CHECK_DEADLOCK FALSE
