SPECIFICATION ClosingSpec
CONSTANTS
  Chars = {"x"}
  MaxBytes = 3
  MaxOpens = 2
INVARIANTS
  TypeOK
  LinesAsTyped
  WatchedForOutput
PROPERTIES
  QueueEmpties
  SignalStops
  LinesTaken
\* the daemon exits, or waits for a terminal
CHECK_DEADLOCK FALSE
