SPECIFICATION Spec
CONSTANTS
  Objects = {o1, o2, o3}
  MaxFds = 4
  MaxFiles = 5
INVARIANTS
  TypeOK
  ReachesItsFile
  OneOwner
CHECK_DEADLOCK FALSE
