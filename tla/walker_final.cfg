SPECIFICATION Spec
CONSTANTS
    FinalityDepth = 2
    MaxHead = 5
    MaxForks = 2
    MaxGap = 2
    Confirmations = 2
    ReorgMargin = 1
    MaxBlocksPerTick = 2
    EpochSeconds = 2
    StartSeqno = 0
    ForksDuringTick = TRUE
    None = None
INVARIANTS
    TypeOK
    ScannedBlocksAreFinal
    CompleteEpochExact
PROPERTIES
    CompleteEpochStable
    ImplementsLog
