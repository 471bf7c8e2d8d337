CONSTANTS
    Limit = 2
    Window = 3
    MaxTime = 9
    MaxGrants = 7
SPECIFICATION Spec
CHECK_DEADLOCK FALSE
INVARIANTS
    WindowHolds
    NoNeedlessWait
PROPERTIES
    KeepsPromise
