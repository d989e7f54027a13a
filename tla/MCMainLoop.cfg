SPECIFICATION MainLoopSpec
CONSTANTS
    a = a
    b = b
    Timers = {a, b}
    NoTimer = NoTimer
    Interval <- MCInterval
    Mode <- MCMode
    WORD = 6
    MaxTime = 7
    LoopTime = 2
    N = 3
    HwDepth = 2
    MaxBytes = 5
INVARIANTS
    UartTypeOK
    InOrder
    PromiseKept
    RoomAgrees
PROPERTIES
    EarlyAtMostByCharge
    LateAtMostTwoPasses
    ImplementsQueue
    Drained
    WriteReturns
CHECK_DEADLOCK FALSE
