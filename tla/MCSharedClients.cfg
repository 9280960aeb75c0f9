CONSTANTS
    Mails = {m1, m2, m3}
    Managers = {c1, c2}
    NoManager = NoManager
    MaxRetries = 2
    Servers = {"none", "usual", "any"}
    None = None
    Tasks = {t1, t2}
    Messages = {x1}
    MaxClients = 2
    Callers = {p1, p2}
    Loader = loader
    Keyspaces = {k1, k2}
    Home = k1
SPECIFICATION EachSpec
CHECK_DEADLOCK FALSE
INVARIANTS
    EachType
    PoolConserved
    TriesJustified
    ClientsKept
    ReadsSubscribed
    CloseFlushes
    Deadlines
    PreparedHere
PROPERTIES
    CallsEnd
