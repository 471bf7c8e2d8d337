CONSTANTS
    Files <- OneFile
    Stem <- StemOfOne
    MaxPieces = 2
    MaxUploads = 2
    MaxIngests = 2
    MaxBackfills = 1
    MaxBuilds = 2
    MaxDeletes = 1
    MaxRunning = 2
    MaxFaults = 1
    MaxCleanups = 1
    MaxRetries = 3
    Junk <- JunkOfOne
    Limit = 2
    Names = {n1, n2, n3}
    Chunks = {c1}
    Sessions = {s1, s2}
    MaxFacts = 3
    MaxMerges = 2
    MaxFails = 1
SPECIFICATION MCSpec
CHECK_DEADLOCK FALSE
CONSTRAINT NotOverlapped
SYMMETRY NameSymmetry
INVARIANTS
    BuiltOnce
    EmbeddingIsOfText
    FactsSurviveUnlessLate
