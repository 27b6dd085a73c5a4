SPECIFICATION FairSpec
CONSTANTS
    N = 3
    Steps = 3
    Stride = 2
    Conns <- MCConns
INVARIANTS
    TypeOK
    CheckpointBarrier
    StopWithinOneStep
    ResultExact
    EveryRuntimeReleased
PROPERTIES
    JacobiStep
    TerminateAllThenClose
    ImplementsGlobalCheckpoint
    Terminates
CHECK_DEADLOCK FALSE
