SPECIFICATION Spec
CONSTANTS
    Repairs = {r1, r2}
    Versions = {"0.74.6", "0.74.7"}
    Expected = "0.74.7"
    None = None
    Faults = {"scm", "rpc", "others"}
SYMMETRY Symmetry
INVARIANTS
    ReadyWasTrue
    NeedIsShown
