SPECIFICATION StartupSpec
CONSTANTS
    g = g
    a1 = a1
    a2 = a2
    a3 = a3
    b2 = b2
    b3 = b3
    m3 = m3
    n4 = n4
    None = None
    CacheSize = 2
    MaxReorgDepth = 2
    MaxWalkBack = 1
    MaxDeaths = 1
    FinalizedHeights = {0, 2}
    Blocks <- MCBlocks
    Parent <- MCParent
    Height <- MCHeight
INVARIANTS
    StartupTypeOK
    ReturnedBatchIsPath
    BatchFitsRows
    TipFollowsDurable
PROPERTIES
    ImplementsLedger
    ReconciliationReplacesTop
