SPECIFICATION SpecLive
CONSTANTS
    NoGeneration = NoGeneration
    NoLock = NoLock
    NoClaim = NoClaim
CHECK_DEADLOCK FALSE
INVARIANTS NothingIsForgotten
PROPERTIES WorkGoesOn LossIsNoticed
