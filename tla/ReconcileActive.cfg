SPECIFICATION Spec
CONSTANTS
    Requests = {r1}
    Keys = {k1}
    None = None
    Faults = {"crash"}
    SerialRetries = TRUE
    MaxCrashes = 1
CHECK_DEADLOCK FALSE
PROPERTIES
    ActiveNeverModified
