CONSTANTS
    Session = {s1}
    NoSession = NoSession
    MaxStreams = 1
    MaxOpens = 2
    MaxChunks = 1
SPECIFICATION FairSpec
INVARIANTS
    SlotsBounded
    DatabaseEndIsAnnounced
    DriverBytesIntact
PROPERTIES
    IdsAreNotReused
    EveryOpenSettles
    DeadSessionGoesOffline
CHECK_DEADLOCK FALSE
