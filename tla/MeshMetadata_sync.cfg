SPECIFICATION Spec
CONSTANTS
    Fields = {"x", "y"}
    Updates = {1}
    MaxMutations = 2
    MaxFaults = 0
CHECK_DEADLOCK FALSE
INVARIANT RegistryInSync
