SPECIFICATION ShadowFairSpec
CONSTANTS
    s1 = s1
    s2 = s2
    Scorers <- MCScorers
    EpochSeconds = 1
    PageLimit = 2
    MaxPages = 2
    OnlyPastEpochs = TRUE
    MaxRows = 3
    MaxTime = 1
    None = None
    MaxScored = 2
    MaxFaults = 1
    Torn = Torn
INVARIANTS
    ShadowTypeOK
    EventsAreAPrefix
    ScorersAgree
    ResultsAreComplete
    FilesAreNeverMixed
PROPERTIES
    RunsEnd
