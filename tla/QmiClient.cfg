SPECIFICATION CallSpec
CONSTANTS
  Daemons = {d1, d2}
  NoDaemon = NoDaemon
  Base = 5
  Requests <- SmallRequests
INVARIANTS
  TypeOK
  Reachable
  StaleFileExplained
  RoundTrip
  PrintsAnswerOrNews
PROPERTIES
  CallEnds
CHECK_DEADLOCK FALSE
