\* Every graph of three derivatives, with others changing the store.
SPECIFICATION FairSpec
CONSTANTS
    N = 3
    MaxDeps = 2
    MaxEnv = 2
INVARIANTS
    TypeOK
    PlanClosed
    PlanOnce
    PlanExact
PROPERTIES
    PlanEnds
