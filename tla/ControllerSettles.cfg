SPECIFICATION FairSpec
CONSTANTS
    Calls = {c1}
    Kinds = {"enter", "connect", "disconnect", "leave", "switch", "repair"}
    Rooms = {r1, r2}
    None = None
    Broken = Broken
    DaemonPeers = {"idle", "p2p"}
    Faults = {"fail", "daemon", "hang"}
INVARIANTS
    SettledIsTrue
PROPERTIES
    BusyEnds
