SPECIFICATION Spec
CONSTANTS
  Handles = {h1, h2, h3}
  MaxId = 3
  MaxDepth = 2
INVARIANTS
  TypeOK
  Ownership
  Delivery
PROPERTIES
  NoCallAfterDestroy
  NewcomersWait
