\* Two identical fetches.
SPECIFICATION Spec
CONSTANTS
    Scripts = {s1}
    Files = {f1}
    Malformed = {}
    MaxDeps = 1
    MaxRegistered = 2
INVARIANTS
    NoFalseCollision
