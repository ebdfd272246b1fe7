SPECIFICATION SpecSrpc
CONSTANTS
    NoGeneration = NoGeneration
    NoLock = NoLock
    NoClaim = NoClaim
CHECK_DEADLOCK FALSE
INVARIANTS BudgetsAreExact OrderIsKept TokenAdmitsOnce NothingIsLeaked
PROPERTIES EverybodyIsTold RecoversFromLeaseLoss
