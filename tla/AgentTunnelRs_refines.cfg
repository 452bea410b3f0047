CONSTANTS
    Session = {s1}
    NoSession = NoSession
    MaxStreams = 1
    MaxOpens = 1
    MaxChunks = 2
SPECIFICATION FairSpec
INVARIANT DriverBytesIntact
PROPERTIES
    ImplementsByteStreams
    EndsPropagate
CHECK_DEADLOCK FALSE
