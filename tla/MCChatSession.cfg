CONSTANTS
    NumTurns = 2
    MaxDeletes = 0
    MaxBreaks = 0
    InFlight = 2
SPECIFICATION Spec
CHECK_DEADLOCK FALSE
INVARIANT NoTurnLost
