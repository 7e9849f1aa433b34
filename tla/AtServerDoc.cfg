SPECIFICATION FairSpec
CONSTANTS
  Chars = {"x"}
  MaxBytes = 2
  MaxOpens = 1
PROPERTIES
  ReadReturns
\* the daemon exits, or waits for a terminal
CHECK_DEADLOCK FALSE
