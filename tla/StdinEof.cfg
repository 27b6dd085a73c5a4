SPECIFICATION Spec
CONSTANTS
    a = a
    b = b
    NoNode = NoNode
    Nodes = {a}
    MaxCommands = 0
PROPERTIES EofStopsWorker
CHECK_DEADLOCK FALSE
