SPECIFICATION FairSpec
CONSTANTS
    Capital = 200
    Limit = 35
    Equities <- Account
    Loops = {l1}
    KillAt = 2
    MLKill = 2
    NoError = NoError
    Risk = Risk
    Operator = Operator
INVARIANTS
    TypeOK
    ExposureFollowsDrawdown
    StopIsFinal
    EmptyCyclesHalt
PROPERTIES
    HaltEndsWithDrawdown
    FailingCyclesHalt
    FailingModelsHalt
