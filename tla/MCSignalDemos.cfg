SPECIFICATION Spec
CONSTANT MaxSent = 2
INVARIANTS TypeOK MaskIsRestored
PROPERTY EverySignalIsTaken
CHECK_DEADLOCK FALSE
