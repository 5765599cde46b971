SPECIFICATION BatchSpec
CONSTANTS
    DP = 2
    PerRank = 4
    Batches <- MCBatches
    MaxTokenLen = 4
    Divisors = {1, 3}
CHECK_DEADLOCK FALSE
INVARIANTS BatchTypeOK Balanced NoneEmpty OutputsInPlace
PROPERTY BatchEnds
