SPECIFICATION FairSpec
CONSTANTS
  Sizes = {0, 1, 3}
  MaxBytes = 7
INVARIANTS
  TypeOK
  WireInOrder
  QueueIsRest
  NeverWritesNothing
PROPERTIES
  Drains
  ImplementsByteStream
\* closed is the end of the session
CHECK_DEADLOCK FALSE
