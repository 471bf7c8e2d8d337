SPECIFICATION Spec
CONSTANTS
    A = A
    B = B
    Tickers = {A, B}
    Asked = {A}
    LastDay = 3
    Trading <- MCTrading
    Close <- MCClose
    Partial <- MCPartial
    Snap <- MCSnap
    Answers = {"BUY"}
    Outlooks <- MCOutlooks
    Horizon = 1
    Horizons <- MCHorizons
    SinceDays = 3
    HistBuffer = 8
    StatDays = 9
    MinSamples = 1
    SimLimit = 3
    BatchLimit = 2
    EndAgo = 1
    EveryDays = 2
    FirstWeekday = 0
    Requests = {1, 2}
    Validators = {loop, manual}
    Loop = loop
    Vectors = TRUE
    MaxRows = 2
CHECK_DEADLOCK FALSE
INVARIANTS
    NoLookAheadUnlessCalendarsDiffer
    OutcomeIsOfTargetCloseUnlessForming
    NoTwinUnlessBlind
PROPERTIES
    OutcomeStandsUnlessForming
    JudgedInTheEndUnlessCrowded
