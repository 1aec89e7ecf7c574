\* One derivative; one invocation alone, or two at once.
SPECIFICATION RunSpec
CONSTANTS
    N = 1
    K = 2
    Parts = 2
    Proc = {p1, p2}
    MaxFaults = 2
INVARIANTS
    OneCopier
    BuiltWhole
    BuiltExists
