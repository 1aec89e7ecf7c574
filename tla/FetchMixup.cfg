SPECIFICATION RunSpec
CONSTANTS
    N = 2
    K = 2
    Proc = {p1, p2}
    Archive = {1, 2}
    MaxFaults = 0
INVARIANTS
    ArchivePure
