CONSTANTS
    Clients = {a}
    ClientCalls = {1, 2}
    ServerCalls = {3}
    MaxConns = 2
    MaxFaults = 1
    MaxQueued = 2
    MaxInFlight = 1
    MaxWaiting = 2
    Acks = TRUE
SPECIFICATION Spec
INVARIANTS
    EveryLiveStreamIsCurrent
    ConnectedIsPublished
    NeverStranded
    LateAnswersAreForgiven
PROPERTIES
    ImplementsCallContract
    AttemptsEnd
CHECK_DEADLOCK FALSE
