SPECIFICATION Spec
CONSTANTS
    MsgSizes <- MixedSizes
    MaxWords <- FiveAndThree
    MaxSends = 2
    BufSize = 3
    SockCap = 4
    Ways <- AllWays
CHECK_DEADLOCK FALSE
INVARIANTS TypeOK Transparent StreamsFramed SendKeepsStream EditInPlace
PROPERTY PipeSpec
