SPECIFICATION Spec
CONSTANTS
    RingSize = 4
    CounterSize = 8
    MaxFds = 2
    SockCap = 3
    MaxWords = 6
    MaxGiven = 6
    MaxSends = 0
INVARIANT FdsPiped
CHECK_DEADLOCK FALSE
