SPECIFICATION Spec
CONSTANTS
    c1 = c1  c2 = c2  c3 = c3
    Failed = Failed
    Clients <- MCClients
INVARIANTS TypeOK NoZombieForgotten NoLeakWhenRestarted
PROPERTY EveryChildIsReaped
CHECK_DEADLOCK FALSE
