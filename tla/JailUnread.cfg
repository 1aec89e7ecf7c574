\* Up to one dependency, a pipe of three chunks and four of output.
\* The jail stops at the full pipe, which is what the run is about.
CHECK_DEADLOCK FALSE
SPECIFICATION Spec
CONSTANTS
    MaxDeps = 1
    PipeSize = 3
    MaxOutput = 4
    DirsMounted = TRUE
PROPERTY BuildReturns
