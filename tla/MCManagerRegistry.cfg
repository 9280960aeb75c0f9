CONSTANTS
    Threads = {t1, t2}
    Registries = {postgres, sqlite}
    Unchecked = {sqlite}
    Base = Base
    Customs = {custom}
    None = None
    Unset = Unset
    MaxFailures = 1
SPECIFICATION RegistrySpec
INVARIANTS
    RegistryType
    OneManager
PROPERTIES
    Served
    CustomKept
