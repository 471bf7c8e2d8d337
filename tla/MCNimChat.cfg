CONSTANTS
    Requests = {r1, r2}
    NumKeys = 2
    Limit = 1
    Window = 2
    Backoff = 0
    ChatRateCooldown = 1
    ChatFailCooldown = 4
    MaxChunks = 2
    InFlight = 2
    LastStart = 1
    MaxChatTime = 2
SPECIFICATION ChatSpec
CHECK_DEADLOCK FALSE
INVARIANT RetriesAreClean
PROPERTY EveryRequestEnds
