SPECIFICATION Spec
CONSTANTS
    Conns = {c1}
    NoConn = NoConn
    Modes <- OnlyPasses
INVARIANT ErrorFails
CHECK_DEADLOCK FALSE
