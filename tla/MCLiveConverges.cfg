SPECIFICATION FairLiveSpec
CONSTANTS
    g = g
    a1 = a1
    a2 = a2
    a3 = a3
    b2 = b2
    b3 = b3
    b4 = b4
    m3 = m3
    None = None
    Blocks <- MCBlocks
    Parent <- MCParent
    Height <- MCHeight
    CacheSize = 256
    Heads <- WellFormed
    MaxReorgDepth = 4
    ExplicitStart = 0
    FinalizedHeights = {0}
    Overhang = 0
    MaxMoves = 2
    MaxFaults = 1
PROPERTIES
    Converges
