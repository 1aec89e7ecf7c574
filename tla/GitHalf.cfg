\* One invocation that uses one library twice, and one failing call.
SPECIFICATION Spec
CONSTANTS
    Proc = {p1}
    Entry = {e1}
    MaxUses = 2
    MaxFaults = 1
INVARIANT HandedComplete
