\* Two callers; a login lasts one tick of the clock
SPECIFICATION Spec
CONSTANTS
    p1 = p1
    p2 = p2
    Callers = {p1, p2}
    None = None
    Home = Home
    OtherRealms = {r1}
    Lifetime = 1
    MaxTime = 1
    MaxClients = 3
    MaxRequests = 2
    MaxChildren = 1
SYMMETRY Symmetry
CHECK_DEADLOCK FALSE
INVARIANTS TypeOK ClientHandedOut RightRealm
