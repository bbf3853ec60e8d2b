SPECIFICATION FairSpec
CONSTANTS
    Wldbgs = {w1, w2, w3}
    MaxStarts = 2
INVARIANTS Redirected CompositorKept DirectExclusive
PROPERTY LeavingRestores
CHECK_DEADLOCK FALSE
