SPECIFICATION Spec
CONSTANTS MaxLines = 3
          ServerBuf = 2
          ClientBuf = 3
INVARIANTS TypeOK InputInOrder EchoInOrder
PROPERTY EveryLineComesBack
CHECK_DEADLOCK FALSE
