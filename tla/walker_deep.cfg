SPECIFICATION Spec
CONSTANTS
    FinalityDepth = 9
    MaxHead = 5
    MaxForks = 3
    MaxGap = 0
    Confirmations = 1
    ReorgMargin = 1
    MaxBlocksPerTick = 2
    EpochSeconds = 2
    StartSeqno = 1
    ForksDuringTick = FALSE
    None = None
INVARIANTS
    ScanIsContiguous
PROPERTIES
    VerifyBoundsStaleData
