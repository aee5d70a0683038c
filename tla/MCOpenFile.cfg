SPECIFICATION Spec
CONSTANTS
    Size = 2
    Errors <- MCErrors
INVARIANTS TypeOK DescriptorArrives NothingLeftOpen
PROPERTY BothEnd
CHECK_DEADLOCK FALSE
