SPECIFICATION Spec
CONSTANTS
    Commands = {c1, c2}
    Enrollments = {e1, e2}
    None = None
    Faults = {"api", "daemon", "lost", "file", "crash"}
SYMMETRY Symmetry
INVARIANTS
    OneProfile
    SavedUsable
    ReportedGone
PROPERTIES
    NoPeerStranded
    OneRoomAtATime
