CONSTANTS
    Callers = {c1, c2}
    MaxWorkers = 2
    MaxCallsEach = 2
SPECIFICATION WorkersSpec
CHECK_DEADLOCK FALSE
INVARIANTS
    WorkersType
    NoneForgotten
    ShutdownReachesAll
PROPERTIES
    StopEnds
