SPECIFICATION Spec
CHECK_DEADLOCK FALSE
CONSTANTS
    a = a
    b = b
    c = c
    p = p
    q = q
    r = r
    Da = Da
    Dp = Dp
    MaxU128 = 10000
    Bps = 10
    Percent = 10
    DomainMap <- MCDomainMap
    TopPayerFullBps = 5
    TopPayerZeroBps = 10
    PayoutCapShareBps = 6
    MaxPoolShareBps = 3
    OrganicMultiplePercent = 20
    ColdStartFloor = 10
    PerIdentityCap = 3
    NoCap = NoCap
    NoHistory = NoHistory
    MaxU64 = 1000
    RateCardVersion = "v0"
    DefaultClass = "default"
    ClassUnits <- MCClassUnits
    Err = Err
    EpochDatas <- MCEpochDatas
    RateCards <- MCRateCards
    ScheduleCaps <- MCScheduleCaps
    KPercents <- MCKPercents
INVARIANTS
    ZeroDemandEmitsTheFloor
