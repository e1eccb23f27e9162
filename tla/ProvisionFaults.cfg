SPECIFICATION OpenSpec
CONSTANTS
    Requests = {r1, r2}
    Keys = {k1}
    None = None
    Faults = {"store", "create", "lost", "undo", "cancel", "crash"}
    SerialRetries = FALSE
    MaxCrashes = 2
    Retries = 1
    Losses = {"refuse", "answer", "garbled", "break", "timeout"}
    ReuseIntents = TRUE
SYMMETRY Symmetry
INVARIANTS
    DeliveredUsable
    DeliveredOutOfReach
CHECK_DEADLOCK FALSE
