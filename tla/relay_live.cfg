SPECIFICATION FairSpec
CONSTANTS
    MsgSizes <- MixedSizes
    MaxWords <- FiveEach
    MaxSends = 1
    BufSize = 4
    SockCap = 5
    Ways <- SendOnly
CHECK_DEADLOCK FALSE
PROPERTY MessagesArrive
