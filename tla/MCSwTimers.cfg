SPECIFICATION FairSpec
CONSTANTS
    a = a
    b = b
    c = c
    Timers = {a, b, c}
    NoTimer = NoTimer
    Interval <- MCInterval
    Mode <- MCMode
    WORD = 4
    MaxTime = 6
INVARIANTS
    ListInv
    NoDrift
    TimeAccounted
    WaitBounded
PROPERTIES
    ImplementsService
    HandlerReturns
CHECK_DEADLOCK FALSE
