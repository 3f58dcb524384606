SPECIFICATION FairSpec
CONSTANTS
    Procs = {p1, p2}
    Users = {u1}
    System = System
    MaxCalls = 3
    RedisFails = TRUE
INVARIANTS
    TypeOK
    HaltsAreScoped
PROPERTIES
    KeepsContract
    HaltPropagates
