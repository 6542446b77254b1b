SPECIFICATION FairSpec
CONSTANTS
    x = x
    y = y
    Batch <- MCBatch
    Capacity = 2
    MaxBatches = 5
INVARIANTS
    TypeOK
    NothingSkipped
PROPERTIES
    ImplementsBatchJournal
    EveryAcceptedBatchIsApplied
CHECK_DEADLOCK FALSE
