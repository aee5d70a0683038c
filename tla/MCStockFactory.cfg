SPECIFICATION Spec
CONSTANTS
    t1 = t1  t2 = t2  t3 = t3  k1 = k1  k2 = k2
    NoThread = NoThread
    NoKey = NoKey
    Threads <- MCThreads
    Keys <- MCKeys
    MaxGets = 5
INVARIANTS TypeOK FactoryOutlivesCalls
PROPERTY FactoryIsReclaimed
