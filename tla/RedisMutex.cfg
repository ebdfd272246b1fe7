SPECIFICATION FairSpec
CONSTANTS
  Calls = {c1, c2}
  NoLock = NoLock
  RetryCount = 2
  MaxRenewals = 1
  MaxFaults = 1
INVARIANTS
  TypeOK
  ExclusiveUnlessLapsed
  LeavesCleanly
PROPERTIES
  HeldWhileInside
  CallsSettle
CHECK_DEADLOCK FALSE
