SPECIFICATION Spec
CONSTANTS
    MsgSizes <- MixedSizes
    MaxWords <- SixEach
    MaxSends = 0
    BufSize = 3
    SockCap = 6
    Ways <- NoWays
CHECK_DEADLOCK FALSE
INVARIANT LoopEndsAtTheEnd
