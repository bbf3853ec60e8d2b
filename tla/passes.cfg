SPECIFICATION FairSpec
CONSTANTS
    CommandLines <- Lines
    Where <- FewPlaces
    Once <- OnceOnly
    Fallible <- OnceOnly
    Existing <- FewFiles
    MaxCommands = 4
INVARIANTS TypeOK LoadedAsAsked AllServed LoadedOnce
PROPERTY Settles
CHECK_DEADLOCK FALSE
