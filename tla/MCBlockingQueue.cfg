SPECIFICATION Spec
CONSTANTS
    m = m  n = n  c1 = c1  c2 = c2  c3 = c3  x = x  y = y
    NoThread = NoThread
    Garbage = Garbage
    Producers <- MCProducers
    Consumers <- MCConsumers
    Items <- MCItems
    MaxItems = 4
INVARIANTS TypeOK MutualExclusion FirstInFirstOut NoLostWakeup
PROPERTY ImplementsFifoQueue
