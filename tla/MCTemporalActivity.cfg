CONSTANTS
    MaxAttempts = 3
    MaxCalls = 2
    Processes = {p1, p2}
    Setups <- AllSetups
    Faults = {"lost_ack", "timeout", "death"}
SPECIFICATION Spec
SYMMETRY Symmetry
CHECK_DEADLOCK FALSE
INVARIANTS
    TypeOK
    RowsAsReported
    RetriesWriteOnce
