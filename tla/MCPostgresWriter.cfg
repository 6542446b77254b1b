SPECIFICATION Spec
CONSTANTS
    g = g
    a1 = a1
    a2 = a2
    b1 = b1
    None = None
    MaxOutbox = 6
    Blocks <- MCBlocks
    Height <- MCHeight
    Batches <- MCBatches
CONSTRAINT OutboxBound
INVARIANTS
    TypeOK
    OneCanonicalPerHeight
    CheckpointCanonical
    OutboxIsJournal
PROPERTIES
    ReplayIsSilent
    ImplementsAtomicStore
