CONSTANTS
    Procs = {p1, p2}
    Limit = 2
    Window = 2
    MaxTime = 3
    MaxGrants = 4
    MaxFaults = 1
SPECIFICATION FairSpec
CHECK_DEADLOCK FALSE
PROPERTIES
    EveryCallReturns
    ImplementsLedgerUntilMishap
