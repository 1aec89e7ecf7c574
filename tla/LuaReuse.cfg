\* One library, and scripts that make two calls.
SPECIFICATION Spec
CONSTANTS
    Modules = {m1}
    Libraries = {l1}
    Aliases = {}
    Slots = 2
    MaxDepth = 2
    MaxCalls = 2
INVARIANT ReuseIsReady
