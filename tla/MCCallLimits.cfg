CONSTANTS
    Workers = {w1, w2}
    NumKeys = 3
    Limit = 1
    Window = 2
    BackoffStep = 1
    MaxDelay = 2
    RateCooldown = 1
    FailCooldown = 6
    MaxLate = 1
    LateErrors = 2
    MaxTime = 2
    MaxRequests = 2
    MaxErrors = 6
    Clients = {c1, c2}
    GlobalMax = 2
    HeavyMax = 0
    Second = 2
    RequestWindow = 4
    CleanupEvery = 6
    MaxRequestTime = 9
SPECIFICATION MCSpec
CHECK_DEADLOCK FALSE
SYMMETRY CallSymmetry
INVARIANTS
    CallsKeepWindowUntilBackoff
    GivesUpAfterAllKeys
    LimitIsExact
