SPECIFICATION ObjSpec
CONSTANTS
    Protocol <- RecordedProtocol
    Loaded <- RecordedLoaded
    NameWords <- RecordedWords
    Bound <- Beginnings
    MaxClient = 6
    ServerStart = 20
    MaxServer = 20
    MaxRequests = 1
    MaxEvents = 2
    MaxArgs = 20
    Configures = 2
INVARIANTS ObjTypeOK Resolved ResolvedAtRest PrintedAsMeant Recorded ShownAtRest ShowsSafely
CHECK_DEADLOCK FALSE
