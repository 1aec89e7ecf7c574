\* A file and two archives; one invocation alone, or two at once.
SPECIFICATION RunSpec
CONSTANTS
    N = 3
    K = 2
    Proc = {p1, p2}
    Archive = {2, 3}
    MaxFaults = 1
INVARIANTS
    OneExtractor
    FetchedFileVerified
    ArchivePureAlone
PROPERTIES
    DirOnlyGrows
