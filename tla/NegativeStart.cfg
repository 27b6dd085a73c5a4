SPECIFICATION Spec
CONSTANTS
    Configs <- MCNegativeStart
    CycleLimit = 3
    IterationLimit = 2
INVARIANTS EventsOnTime
CHECK_DEADLOCK FALSE
