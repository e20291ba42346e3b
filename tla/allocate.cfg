SPECIFICATION Spec
CHECK_DEADLOCK FALSE
CONSTANTS
    MaxU128 = 150
    Bps = 10
    Percent = 10
    DomainMap <- MCDomainMap
    TopPayerFullBps = 5
    TopPayerZeroBps = 10
    PayoutCapShareBps = 7
    MaxPoolShareBps = 3
    OrganicMultiplePercent = 20
    ColdStartFloor = 0
    PerIdentityCap = 0
    NoCap = NoCap
    NoHistory = NoHistory
    Entries = 3
    d1 = d1
    d2 = d2
    Domains <- MCDomains
    Scores = {0, 1, 3, 4, 60}
    Budgets = {0, 1, 7, 14, 20, 30}
    IdentityCaps = {NoCap, 4}
INVARIANTS
    TypeOK
    LoopsComputeAllocation
    NeverOverspends
    DomainsAreCapped
    OnlyDustIsLost
    SplittingGainsNothing
