\* One kill, then a second invocation of the same script.
SPECIFICATION Spec
CONSTANTS
    N = 3
    K = 2
    Parts = 1
    Deps <- ThreeDeps
    Wanted <- ThreeWanted
    Archive = {1}
    PlainFile = {2}
    MaxFaults = 0
    MaxCrashes = 1
    MaxRuns = 2
INVARIANTS
    PlanCoversIncomplete
