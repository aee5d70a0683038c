SPECIFICATION ThreadsSpec
CONSTANTS
    t1 = t1  t2 = t2  t3 = t3  p1 = p1  p2 = p2  p3 = p3
    NoFoo = NoFoo
    Threads <- MCThreads
    Foos <- MCFoos
    Sum = 1
INVARIANT ExitsNormally
CHECK_DEADLOCK FALSE
