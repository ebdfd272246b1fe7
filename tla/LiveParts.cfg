SPECIFICATION SpecLive
CONSTANTS
    NoCall = NoCall
    NoTimer = NoTimer
    NoJob = NoJob
CHECK_DEADLOCK FALSE
 
PROPERTIES NobodyWaitsForever 
