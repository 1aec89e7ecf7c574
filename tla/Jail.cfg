\* The unread pipe of a build whose log cannot be opened may stop the jail.
CHECK_DEADLOCK FALSE
SPECIFICATION Spec
CONSTANTS
    MaxDeps = 2
    PipeSize = 2
    MaxOutput = 4
    DirsMounted = TRUE
INVARIANTS
    LogComplete
    ListOrderDecides
    SuccessIsTheScripts
PROPERTIES
    MonitorReturns
