SPECIFICATION Spec
CONSTANTS
    MaxDeps = 1
    PipeSize = 1
    MaxOutput = 0
    DirsMounted = FALSE
INVARIANTS
    AllMounted
