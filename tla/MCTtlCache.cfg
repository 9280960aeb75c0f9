CONSTANTS
    Threads = {t1, t2}
    None = None
    Reads <- MCReads
    a1 = a1
    a2 = a2
    Args = {a1, a2}
    Keys <- MCKeys
    Ops <- MCOps
    Step = 150
    MaxTime = 300
    MaxVersion <- MCMaxVersion
    Faults = {"raise", "lost", "foreign"}
SPECIFICATION Spec
CHECK_DEADLOCK FALSE
SYMMETRY Symmetry
INVARIANTS
    TypeOK
    WritesSeen
