SPECIFICATION Spec
CONSTANTS
    Tasks = {t1, t2}
    NoTask = NoTask
    NoSignal = NoSignal
    u1 = u1
    op = op
    a = a
    Users = {u1}
    Operator = op
    System = System
    Symbols = {a}
    Signals <- TenantSignals
    Closes = {}
    Deployments <- RedisLive
    MaxDaily = 2
    LockTTL = 2
    MaxPolls = 4
INVARIANT
    NoParallelSubmits
