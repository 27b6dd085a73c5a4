SPECIFICATION NodeSpec
CONSTANTS
    Interfaces <- MCInterfaces
    Step = 5
    Checkpoints = 3
    Schedules <- MCSchedules
    AttemptLimit = 3
INVARIANTS
    CheckpointKept
    ReleasedOnce
CHECK_DEADLOCK FALSE
