SPECIFICATION Spec
CONSTANTS
    b1 = b1
    b2 = b2
    Builds <- MCBuilds
    MaxEdits = 2
    MaxTampers = 2
    MaxCrashes = 1
    MaxTogether = 3
SYMMETRY BuildSymmetry
INVARIANTS
    PublishedWhole
    CleanFailure
