SPECIFICATION Spec
CONSTANTS
    a = a
    b = b
    NoNode = NoNode
    Nodes <- MCNodes
    MaxCommands = 2
INVARIANTS InStep NoStaleReply ClosedExactlyOnce
PROPERTIES NeverReplayed EveryCallEnds WorkerEndsWithSession
CHECK_DEADLOCK FALSE
