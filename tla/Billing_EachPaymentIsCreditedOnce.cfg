CONSTANTS
    Attempt = {a1, a2}
    Handler = {h1, h2}
    NoHandler = NoHandler
    RowLocks = TRUE
    Personal = FALSE
    Period = 1
    Trial = 1
    Grace = 0
    MaxDay = 1
    MaxAborts = 0
SPECIFICATION Spec
PROPERTY EachPaymentIsCreditedOnce
CHECK_DEADLOCK FALSE
