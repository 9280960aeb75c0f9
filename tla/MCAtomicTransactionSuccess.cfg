CONSTANTS
    Scopes = {t1}
    Sessions = {1, 2, 3}
    NoSession = NoSession
    Writes = {w1, w2}
    MaxDepth = 2
    Faults = {"swallow"}
SPECIFICATION Spec
SYMMETRY Symmetry
INVARIANTS
    CommitOnSuccessAlways
