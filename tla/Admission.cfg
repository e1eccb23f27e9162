SPECIFICATION Spec
CONSTANTS
    Requests = {r1, r2, r3}
    Clients = {c1, c2}
    Limit <- MCLimit
    Window = 2
    Slots = 1
    Lag = 1
    MaxTime = 5
INVARIANTS
    TypeOK
    RateBound
PROPERTIES
    QuotaIsOwn
    BusyIsTrue
SYMMETRY MCSymmetry
CHECK_DEADLOCK FALSE
