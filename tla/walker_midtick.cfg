SPECIFICATION Spec
CONSTANTS
    FinalityDepth = 9
    MaxHead = 4
    MaxForks = 1
    MaxGap = 0
    Confirmations = 1
    ReorgMargin = 1
    MaxBlocksPerTick = 2
    EpochSeconds = 2
    StartSeqno = 1
    ForksDuringTick = TRUE
    None = None
PROPERTIES
    VerifyBoundsStaleData
