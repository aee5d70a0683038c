SPECIFICATION Spec
CONSTANTS
    c1 = c1  c2 = c2  c3 = c3
    None = None
    Clients <- MCClients
    RudeClients <- MCRudeClients
    OpenMax = 3
    MaxChunks <- MCMaxChunks
    SendBuf = 1
INVARIANTS TypeOK TableIsExact EchoIsExact NeverBlocksInRead
PROPERTY EveryClientIsServed
CHECK_DEADLOCK FALSE
