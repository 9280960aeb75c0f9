CONSTANTS
    Threads = {t1, t2}
    Addresses = {1, 2, 3, 4}
    None = None
    Foreign = Foreign
    Ghost = Ghost
    Enabled = {"metric", "log"}
    Exporters = {"otlp", "pull", "pushgateway"}
    MaxForks = 2
    Faults = {"build", "import", "reuse", "fork_in_init"}
SPECIFICATION Spec
CHECK_DEADLOCK FALSE
SYMMETRY Symmetry
INVARIANTS
    TypeOK
    ShutsItsOwn
    Ready
    WorkerOwned
