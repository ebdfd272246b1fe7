SPECIFICATION SpecMesh
CONSTANTS
    NoGeneration = NoGeneration
    NoLock = NoLock
    NoClaim = NoClaim
CHECK_DEADLOCK FALSE
INVARIANTS RedisHoldsTheTruth LinksAreSound 
