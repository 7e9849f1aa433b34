SPECIFICATION Spec
CONSTANTS
  HeaderSize = 2
  MaxPayload = 1
  MaxBytes = 6
INVARIANTS
  TypeOK
  InStep
  NoByteTwice
  NothingComplete
\* the bound on the bytes ends a behaviour
CHECK_DEADLOCK FALSE
