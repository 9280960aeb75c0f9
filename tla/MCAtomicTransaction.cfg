CONSTANTS
    Scopes = {t1, t2}
    Sessions = {1, 2, 3, 4}
    NoSession = NoSession
    Writes = {w1, w2}
    MaxDepth = 2
    Faults = {"swallow", "lost_ack"}
SPECIFICATION Spec
SYMMETRY Symmetry
INVARIANTS
    TypeOK
    AllOrNothing
    SessionDiscipline
