SPECIFICATION Spec
CHECK_DEADLOCK FALSE
CONSTANTS
    s1 = s1
    s2 = s2
    Scorers <- MCScorers
    EpochSeconds = 2
    PageLimit = 2
    MaxPages = 2
    OnlyPastEpochs = FALSE
    MaxRows = 3
    MaxTime = 3
    None = None
SYMMETRY MCSymmetry
INVARIANTS
    ServedAlike
