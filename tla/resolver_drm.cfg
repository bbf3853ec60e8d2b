SPECIFICATION Spec
CONSTANTS
    Protocol <- DrmProtocol
    Loaded <- DrmLoaded
    NameWords <- DrmNameWords
    MaxClient = 5
    ServerStart = 10
    MaxServer = 10
    Bound <- NothingBound
    MaxRequests = 1
    MaxEvents = 1
INVARIANT NamesObjects
CHECK_DEADLOCK FALSE
