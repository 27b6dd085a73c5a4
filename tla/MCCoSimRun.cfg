SPECIFICATION FairSpec
CONSTANTS
    Configs <- MCConfigs
    AttemptLimit = 3
INVARIANTS StepsMatchTime ResultExact ChunksFaithful InputsOnTime
    StopWithinOneStep SessionReleased
PROPERTIES Terminates
CHECK_DEADLOCK FALSE
