SPECIFICATION Spec
CONSTANTS
    Procs = {p1, p2}
    Dialers = {d1, d2}
    MaxInode = 3
    MaxCrashes = 1
    NoProc = NoProc
SYMMETRY Symmetry
INVARIANTS AcceptedAreTold
PROPERTIES NarrowWindow
CHECK_DEADLOCK FALSE
