SPECIFICATION FairSpec
CONSTANTS
    None = None
    MaxHead = 1
    MaxFaults = 2
INVARIANTS
    TypeOK
    ReadyIsEarned
    OkOnlyOnRequest
PROPERTIES
    CorrectnessStopIsFinal
    HeadsBecomeDurable
    EveryExitEndsTheProcess
    DegradationHeals
CHECK_DEADLOCK FALSE
