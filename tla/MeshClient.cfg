CONSTANTS
    Nodes = {1, 2}
    Conns = {1, 2}
    MaxAttempts = 2
    MaxFaults = 1
    MaxMeta = 1
SPECIFICATION MCSpec
CHECK_DEADLOCK FALSE
INVARIANTS OwnerIsRecorded RecordIsIndexed
PROPERTIES HandoffIsFenced RegistrySettles
