SPECIFICATION Spec
CONSTANTS
    MaxFaults = 2
    MaxCalls = 3
CHECK_DEADLOCK FALSE
PROPERTIES NoRecoveryAfterStop
