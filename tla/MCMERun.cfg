SPECIFICATION FairSpec
CONSTANTS
    Configs <- MCConfigs
    CycleLimit = 3
    IterationLimit = 2
INVARIANTS EventsOnTime ResultExact SolverInSync ReleasedThenStreamed StopBounded
PROPERTIES Terminates
CHECK_DEADLOCK FALSE
