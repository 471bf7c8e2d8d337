CONSTANTS
    Procs = {p1, p2}
    Limit = 1
    Window = 2
    MaxTime = 2
    MaxGrants = 3
    MaxFaults = 0
SPECIFICATION Spec
CHECK_DEADLOCK FALSE
INVARIANTS
    WindowHolds
