SPECIFICATION Spec
CONSTANTS
  Chars = {"x"}
  MaxBytes = 2
  MaxOpens = 1
INVARIANTS
  CutsDoNotShow
\* the daemon exits, or waits for a terminal
CHECK_DEADLOCK FALSE
