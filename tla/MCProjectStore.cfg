SPECIFICATION Spec
CONSTANTS
    batch = batch
    editor = editor
    builder = builder
    migrator = migrator
    Actors <- MCActors
    Role <- MCRole
    Cases <- MCCases
    FirstSchema <- MCFirstSchema
INVARIANTS
    HistoryBacked
    BatchFaithful
PROPERTIES
    OnlyTheWindowLoses
CHECK_DEADLOCK FALSE
