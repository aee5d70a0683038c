SPECIFICATION Spec
CONSTANTS
    w1 = w1  w2 = w2  w3 = w3  v1 = v1  v2 = v2
    NoThread = NoThread
    Workers <- MCWorkers
    Waiters <- MCWaiters
    Count = 2
INVARIANTS TypeOK OpenMeansCounted NobodyLeftAsleep
PROPERTY ImplementsGate
CHECK_DEADLOCK FALSE
