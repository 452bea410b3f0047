CONSTANTS
    Session = {s1}
    NoSession = NoSession
    MaxStreams = 1
    MaxOpens = 1
    MaxChunks = 0
SPECIFICATION Spec
INVARIANT CloseIsMutual
CHECK_DEADLOCK FALSE
