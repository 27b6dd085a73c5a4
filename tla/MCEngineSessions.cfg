SPECIFICATION Spec
CONSTANTS
    Fmus <- MCFmus
    Schedule <- MCSchedule
    Step = 2
    Sizes <- MCSizes
    Horizon = 6
    IterationLimit = 2
INVARIANTS
    InStep
    InputsInOrder
    ReleasedOnce
CHECK_DEADLOCK FALSE
