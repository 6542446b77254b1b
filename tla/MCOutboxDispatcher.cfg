SPECIFICATION FairSpec
CONSTANTS
    c1 = c1
    c2 = c2
    d1 = d1
    d2 = d2
    None = None
    Chains <- MCChains
    Dispatchers <- MCDispatchers
    MaxMessages = 5
    MaxEvents = 2
    MaxFaults = 3
INVARIANTS
    TypeOK
    DeliveredInChainOrder
    PublishedIsDelivered
    ViewHasNoGap
PROPERTIES
    EveryRowIsPrinted
CHECK_DEADLOCK FALSE
