SPECIFICATION Spec
CONSTANTS
    RingSize = 3
    CounterSize = 6
    MaxFds = 2
    SockCap = 3
    MaxWords = 6
    MaxGiven = 4
    MaxSends = 2
INVARIANTS TypeOK WordsInOrder FdsInTime FdsAccounted
CHECK_DEADLOCK FALSE
