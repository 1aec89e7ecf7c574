SPECIFICATION Spec
CONSTANTS
    N = 4
    K = 2
    Parts = 1
    Deps <- FourDeps
    Wanted <- FourWanted
    Archive = {1}
    PlainFile = {2}
    MaxFaults = 2
    MaxCrashes = 1
    MaxRuns = 3
INVARIANTS
    DepsPresent
    CleanStore
PROPERTIES
    SealedImmutable
    StoreLifecycle
    RunEnds
