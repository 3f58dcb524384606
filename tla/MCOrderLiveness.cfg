SPECIFICATION FairSpec
CONSTANTS
    Tasks = {t1, t2}
    NoTask = NoTask
    NoSignal = NoSignal
    u1 = u1
    op = op
    a = a
    Users = {u1}
    Operator = op
    System = System
    Symbols = {a}
    Signals <- TenantBuys
    Closes = {}
    Deployments <- RedisLive
    MaxDaily = 1
    LockTTL = 1
    MaxPolls = 2
PROPERTIES
    ExecutionEnds
    LockComesFree
