SPECIFICATION Spec
CONSTANTS
    None = None
    MaxHead = 1
    MaxFaults = 2
INVARIANTS
    ReadyMeansSubscribed
CHECK_DEADLOCK FALSE
