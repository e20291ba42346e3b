SPECIFICATION NodesSpec
CONSTANTS
    FinalityDepth = 1
    MaxHead = 4
    MaxForks = 2
    MaxGap = 1
    Confirmations = 2
    ReorgMargin = 1
    MaxBlocksPerTick = 2
    EpochSeconds = 1
    StartSeqno = 0
    ForksDuringTick = TRUE
    None = None
INVARIANTS
    NodesTypeOK
    LagIsCovered
PROPERTIES
    AppendsWhileCovered
