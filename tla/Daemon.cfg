CONSTANTS
    d1 = d1
    d2 = d2
    None = None
    Procs <- MCProcs
    Platforms = {TRUE, FALSE}
    MaxStarts = 4
    MaxFaults = 2
    MaxCrashes = 1
SPECIFICATION Spec
INVARIANTS TypeOK NotHijacked LeftoversDoNotBlock
PROPERTIES StartSettles SignalEnds
CHECK_DEADLOCK FALSE
