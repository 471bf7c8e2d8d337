CONSTANTS
    MaxCommit = 2
    MaxFaults = 2
    StartBurst = 2
    MaxJobs = 1
    PersistEvery = 2
    Stages = 2
    NumJobs = 2
    MaxLines = 2
    MaxCrashes = 1
    MaxTorn = 1
    LongLines = 1
SPECIFICATION MCSpec
CHECK_DEADLOCK FALSE
INVARIANTS
    RunsCheckedUnlessOvertaken
    VerdictStands
PROPERTIES
    RecoversUnlessMishap
    EveryPollerIsTold
