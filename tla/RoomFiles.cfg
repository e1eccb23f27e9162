SPECIFICATION FairSpec
CONSTANTS
    Callers = {"a", "b"}
    Stores <- MCStores
    Reports <- MCReports
    Values <- MCValues
    None <- MCNone
    Faults = {"io", "kill", "power"}
    MaxStops = 2
PROPERTIES
    WritesAreAtomic
    CallsReturn
