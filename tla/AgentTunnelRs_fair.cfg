CONSTANTS
    Session = {s1}
    NoSession = NoSession
    MaxStreams = 1
    MaxOpens = 2
    MaxChunks = 0
SPECIFICATION FairSpec
PROPERTY EveryOpenSettles
CHECK_DEADLOCK FALSE
