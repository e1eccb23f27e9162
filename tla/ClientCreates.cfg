SPECIFICATION ClientFairSpec
CONSTANTS
    Requests = {r1, r2, r3}
    Keys = {k1}
    None = None
    Faults = {"create", "cancel", "crash"}
    SerialRetries = FALSE
    MaxCrashes = 1
    Retries = 2
    Losses = {"refuse", "answer", "garbled", "timeout"}
    ReuseIntents = FALSE
INVARIANTS
    GotIsTheRoom
    FailureLeavesNothing
    CompensationComplete
PROPERTIES
    ServesSerially
    CallEnds
    KeyUnlocks
    KeepsPromise
CHECK_DEADLOCK FALSE
