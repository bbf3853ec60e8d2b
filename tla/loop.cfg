SPECIFICATION FairSpec
CONSTANTS
    Conns = {c1, c2}
    NoConn = NoConn
    Modes <- AllModes
INVARIANTS TypeOK AssertionsHold WatchedIsLive LeavesClean
PROPERTIES OthersSurvive LastEnds HangUpReleases InterruptEnds
CHECK_DEADLOCK FALSE
