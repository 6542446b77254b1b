SPECIFICATION Spec
CONSTANTS
    g = g
    a1 = a1
    a2 = a2
    a3 = a3
    b2 = b2
    b3 = b3
    c1 = c1
    c2 = c2
    c3 = c3
    None = None
    Blocks <- MCBlocks
    Parent <- MCParent
    Chains <- MCChains
    HasLogs <- MCHasLogs
    FromBlock = 1
    ToBlock = 3
    ToIsHead = TRUE
    Workers = 2
    InitialSpan = 2
    MinSpan = 1
    MaxSpan = 2
    MaxRequests = 9
    VerifyReference = FALSE
    MaxMoves = 2
    MaxFaults = 1
    MaxRuns = 2
INVARIANTS
    CommittedBlocksHaveLogs
CHECK_DEADLOCK FALSE
