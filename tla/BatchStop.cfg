SPECIFICATION Spec
CONSTANTS
    batch = batch
    editor = editor
    builder = builder
    migrator = migrator
    Actors <- OneBatch
    Role <- OneBatchRole
    Cases <- MCCases
    FirstSchema <- MCFirstSchema
INVARIANTS
    StopKeepsBatch
CHECK_DEADLOCK FALSE
