CONSTANTS
    Callers = {c1, c2}
    Servers = {s1, s2, s3}
    Modes = {"single", "replicated", "sentinel", "cluster", "balanced"}
    MaxWrites = 2
SPECIFICATION Spec
CHECK_DEADLOCK FALSE
SYMMETRY Symmetry
INVARIANTS
    TypeOK
    PrimaryFresh
    MonotonicReads
