SPECIFICATION AccessFairSpec
CONSTANTS
    Rooms = {x1, x2}
    Admins = {d1, d2, d3}
    Guests = {g1}
    None = None
    Faults = {"fail", "lost"}
CHECK_DEADLOCK FALSE
INVARIANTS
    DisabledIsDead
    DeadCodeRefused
PROPERTIES
    NoEntryAfterDisable
    DisableTakesEffect
