CONSTANTS
    Request = {q1, q2}
    None = None
    MaxTokens = 3
    MaxLinks = 2
    MaxSweeps = 2
    MaxFaults = 1
SPECIFICATION Spec
SYMMETRY RequestSymmetry
INVARIANTS
    TypeOK
    RotatedTokensAreRetired
    ForksComeFromOverlaps
    SurvivorsWereSpared
    LinksAreUsedOnce
CHECK_DEADLOCK FALSE
