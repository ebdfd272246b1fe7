SPECIFICATION Spec
CONSTANTS
  Instances = {i1, i2}
  NoLock = NoLock
  RetryOnCallbackError = TRUE
  MaxGen = 1
  MaxErrors = 1
SYMMETRY Symmetry
INVARIANTS
  TypeOK
  OneElectionChain
  LeaseNeverStolen
  OneUnlapsedLeader
CHECK_DEADLOCK FALSE
