SPECIFICATION Spec
CONSTANTS
    ProfileIDs <- MCProfileIDs
    ProfileNames <- MCNames
    Usernames = {"player"}
    Username = "player"
    DaemonVersions = {"0.74.6", "0.74.7"}
    Expected = "0.74.7"
    Nil = Nil
    NewIDs <- MCNewIDs
    UserIDs <- MCUserIDs
    ManagedName = "sogame-room"
    OtherName = "other"
    StatusBodies <- MCStatusBodies
    Faults = {"lost", "user", "replaced"}
INVARIANTS
    ExactVersionOnly
    OneManaged
    PathIsReal
PROPERTIES
    ForeignUntouched
    UserEngineYields
    OkMeansDone
