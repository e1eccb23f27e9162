SPECIFICATION WatchFairSpec
CONSTANTS
    Retries = 2
    UpdateRoom = 2
    FailureRoom = 2
    StreamFaults = {"stream", "early"}
INVARIANTS
    WatchTypeOK
    StreamInSight
PROPERTIES
    CancelEnds
    PollGoesOn
CHECK_DEADLOCK FALSE
