\* Two modules and two libraries that are one file and one directory each,
\* by two paths.
SPECIFICATION Spec
CONSTANTS
    Modules = {m1, m2}
    Libraries = {l1, l2}
    Aliases = {{m1, m2}, {l1, l2}}
    Slots = 2
    MaxDepth = 2
    MaxCalls = 2
INVARIANT RunOncePerFile
