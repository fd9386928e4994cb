SPECIFICATION FairSpec
CONSTANTS
    NumWorkers = 3
    StreamBuffer = 2
    Mortal = {1, 2, 3}
    Interrupts = 2
INVARIANTS
    PoolTypeOK
    NothingLeftBehind
    HandsOver
PROPERTIES
    StartReturns
    StoppedChildrenEnd
CHECK_DEADLOCK FALSE
