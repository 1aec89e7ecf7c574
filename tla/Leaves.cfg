\* Scripts that register four derivatives, recipes of three files, two
\* invocations with two libraries, scripts of four calls, graphs of three.
SPECIFICATION LeavesSpec
CONSTANTS
    Scripts = {s1, s2}
    Files = {f1, bad}
    Malformed = {bad}
    MaxDeps = 2
    MaxRegistered = 4
    N = 3
    MaxOpen = 3
    MaxBad = 1
    Proc = {p1, p2}
    Entry = {e1, e2}
    MaxUses = 2
    MaxFaults = 2
    Modules = {m1, m2}
    Libraries = {l1, l2}
    Aliases = {}
    Slots = 2
    MaxDepth = 4
    MaxCalls = 4
    Nodes = 3
    MaxEdges = 2
INVARIANTS
    HandleIsRecipe
    PlannerInput
    PathPinsClosure
    RegisteredClosed
    GivesUpForAReason
    TeardownOrder
    PoolBalanced
    RunOnce
    DiagramRight
PROPERTIES
    CompleteForGood
    CallsEnd
