CONSTANTS
    p1 = p1
    Passages = {p1}
    Tools <- MCTools
    Messages <- MCMessages
    MaxTurns = 2
    ModelRoutes <- MCRoutes
    Sentences <- MCSentences
    MaxSentences = 2
    Pasted <- MCPasted
    s1 = s1
    s2 = s2
    Sections = {s1, s2}
    Lists <- MCLists
    TopN = 2
    Prices = {80, 100, 125}
    Capital = 1000
    Cent = 100
    Risks <- MCRisks
    Placings <- MCPlacings
    Bars = 5
    NumTurns = 3
    MaxDeletes = 1
    MaxBreaks = 1
    InFlight = 2
SPECIFICATION MCSpec
CHECK_DEADLOCK FALSE
INVARIANTS
    WrittenFromTheRightInputs
    ShownAndStoredAlike
    NoTurnLostUnlessCrossed
    DeletedStaysDeletedUnlessCrossed
    ContextIsOfThisTurn
    ShownSourcesWereFound
    UsedAsSaidUnlessAmbiguous
    SellingHigherKeepsMoreUnlessAtStep
    MoreSignsNeverSofter
    DetailsOfTheirOwn
    MoneyAddsUpToRounding
    NoReentryWithoutCrossing
