CONSTANTS
    Client = {c1, c2}
    Request = {r1, r2, r3}
    None = None
    MaxFailures = 2
SPECIFICATION Spec
SYMMETRY Symmetry
INVARIANTS
    TypeOK
    CurrentStreamIsUsed
    OnlyRivalsAreForgotten
    
    HandlersHaveOwners
CHECK_DEADLOCK FALSE
