SPECIFICATION Spec
CONSTANTS
    Tasks = {t1, t2}
    NoTask = NoTask
    NoSignal = NoSignal
    u1 = u1
    op = op
    a = a
    Users = {u1}
    Operator = op
    System = System
    Symbols = {a}
    Signals <- AllSignals
    Closes <- RecordedUnfilled
    Deployments <- Mixed
    MaxDaily = 1
    LockTTL = 2
    MaxPolls = 2
SYMMETRY Symmetry
INVARIANTS
    TypeOK
    LeaseExclusive
    BookedOnlyIfFilled
    OvershootBounded
    HaltStopsOrders
PROPERTIES
    KeepsContract
    ExecutionAdvances
