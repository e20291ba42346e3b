SPECIFICATION Spec
CHECK_DEADLOCK FALSE
CONSTANTS
    MaxU128 = 300
    Bps = 10
    Totals <- MCTotals
    ImmediateShares <- MCImmediateShares
    StreamLengths <- MCStreamLengths
INVARIANTS
    TypeOK
    SumsToTotal
    StreamIsEven
