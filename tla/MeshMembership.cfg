SPECIFICATION Spec
CONSTANTS
  Nodes = {n1}
  None = None
  Disciplined = FALSE
  TTL = 2
  MaxTime = 3
  MaxId = 2
  MaxGen = 3
  MaxQueue = 1
  MaxFaults = 1
INVARIANTS
  TypeOK
  SafeIsMember
  CleanedIsFenced
CHECK_DEADLOCK FALSE
