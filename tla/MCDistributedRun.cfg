SPECIFICATION Spec
CONSTANTS
    n1 = n1
    n2 = n2
    w1 = w1
    w2 = w2
    p1 = p1
    p2 = p2
    shared = shared
    NoWorker = NoWorker
    GraphNodes <- MCNodes
    Plans <- MCPlans
    Processes <- MCProcesses
    WorkerIdOf <- MCWorkerIdOf
    RootOf <- MCRootOf
    Launches <- MCLaunches
    MaxEdits = 1
INVARIANT ServedVerified
PROPERTY EverythingReleased
