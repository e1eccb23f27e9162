SPECIFICATION FairSpec
CONSTANTS
    Rooms = {r1, r2}
    None = None
    User = user
    Exports = {e1}
    Retries = 1
    MaxVersion = 1
    Faults = {"api", "status", "answer", "command"}
INVARIANTS
    FreshIsTheirs
PROPERTIES
    ViewsEnd
