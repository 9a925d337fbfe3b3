SPECIFICATION MCSpec
CONSTANTS
    k1 = k1
    k2 = k2
    t1 = t1
    t2 = t2
    t3 = t3
    Threads <- MCThreads
    Keys <- MCKeys
    Capacity = 2
    KeyAvailable = KeyAvailable
    KeyReserved = KeyReserved
CHECK_DEADLOCK FALSE
INVARIANTS MapTypeOK BelowHighWater EntriesIntact ScansComplete
PROPERTY EveryCallReturns
