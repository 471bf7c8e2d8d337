CONSTANTS
    r1 = r1
    r2 = r2
    Requests = {r1, r2}
    Boot = boot
    TTL = 2
    MaxTime = 3
    Interval = 2
    Lookback = 3
    Observed <- MCObserved
    FirstSeen <- MCFirstSeen
    FinalFrom <- MCFinalFrom
    Prompt = 5
    MaxNow = 11
    Readers = {r1, r2}
    Details = {d1, d2}
    PageSize = 2
    MaxRows = 3
    MaxEntries = 1
    PageTTL = 2
    LastTime = 3
    Notices <- MCNotices
    Listings <- MCListings
SPECIFICATION MCSpec
\* The bounded clocks end with every run done.
CHECK_DEADLOCK FALSE
INVARIANTS
    FlagHasUpdate
    FreshUnlessDisturbed
    SettledUnlessGapped
    AnswersAreTrue
PROPERTIES
    OnlyNewerReplacesLive
    FinalStaysUnlessOvertaken
