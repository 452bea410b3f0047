CONSTANTS
    Session = {s1, s2}
    NoSession = NoSession
    MaxStreams = 1
    MaxOpens = 1
    MaxChunks = 0
SPECIFICATION Spec
SYMMETRY SessionSymmetry
INVARIANTS
    TypeOK
    LiveIsRegisteredOrDoomed
    SlotsAreHeld
CHECK_DEADLOCK FALSE
