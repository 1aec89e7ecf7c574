\* Two recipes, no bad file.
SPECIFICATION Spec
CONSTANTS
    N = 2
    MaxDeps = 1
    MaxOpen = 2
    MaxBad = 0
INVARIANT PointerOrNull
