CONSTANTS
    Scopes = {t1, t2}
    Sessions = {1, 2, 3, 4}
    NoSession = NoSession
    Writes = {w1, w2, w3}
    MaxDepth = 2
    Faults = {}
SPECIFICATION Spec
SYMMETRY Symmetry
PROPERTIES
    ImplementsBlock
