SPECIFICATION FairSpec
CONSTANTS
    Loops = {l1, l2}
    Others = {o1}
    MaxTrades = 1
    Threshold = 2
INVARIANTS
    TypeOK
    BuysPerDay
PROPERTIES
    SignalledSalesInsisted
    InsistedSalesHappen
