\* Two invocations of the same script at once, and no failing call.
SPECIFICATION RunSpec
CONSTANTS
    N = 1
    K = 1
    Parts = 1
    Proc = {p1, p2}
    MaxFaults = 0
INVARIANTS
    Isolated
