CONSTANTS
    p1 = p1
    Passages = {p1}
    Tools <- MCTools
    Messages <- MCMessages
    MaxTurns = 0
    ModelRoutes <- MCRoutes
    Sentences <- MCSentences
    MaxSentences = 1
    Pasted <- MCPasted
    s1 = s1
    s2 = s2
    Sections = {s1, s2}
    Lists <- MCLists
    TopN = 2
    Prices = {80, 100, 125}
    Capital = 1000
    Cent = 100
    Risks <- MCRisks
    Placings <- MCPlacings
    Bars = 1
    NumTurns = 0
    MaxDeletes = 0
    MaxBreaks = 0
    InFlight = 1
SPECIFICATION MCSpec
CHECK_DEADLOCK FALSE
INVARIANT CreditIsOfSlices
