SPECIFICATION Spec
CONSTANTS
    B = 8
    Second = 2
    Header = 5
    pid = 7
    Foreign <- MCForeign
    NoMessage = NoMessage
    MaxSent = 3
    MaxClock = 3
    MaxInbox = 1
INVARIANTS TypeOK ChecksumsAreValid RttIsElapsed
PROPERTY KeepsPinging
CHECK_DEADLOCK FALSE
