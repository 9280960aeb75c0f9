CONSTANTS
    Rpcs = {r1, r2, r3}
    Callers = {c1, c2}
    Unknown = Unknown
    Windows <- MCWindows
    Configs <- AllConfigs
    Faults = {"redis", "lost_reply", "identity", "no_result", "replica"}
    SecondMs = 2
    MaxTime = 3
SPECIFICATION Spec
CHECK_DEADLOCK FALSE
SYMMETRY Symmetry
INVARIANTS
    TypeOK
    LimitHeldBeforeExpiry
    RefusalJustified
    HandlerGuarded
