SPECIFICATION FairSpec
CONSTANTS
    FinalityDepth = 3
    MaxHead = 5
    MaxForks = 2
    MaxGap = 1
    Confirmations = 1
    ReorgMargin = 1
    MaxBlocksPerTick = 1
    EpochSeconds = 1
    StartSeqno = 1
    ForksDuringTick = FALSE
    None = None
INVARIANTS
    VerifiedScanIsCanonical
PROPERTIES
    SettledIsScanned
    EpochGetsServed
