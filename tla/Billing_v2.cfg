CONSTANTS
    Attempt = {a1, a2}
    Handler = {h1, h2}
    NoHandler = NoHandler
    RowLocks = TRUE
    Personal = TRUE
    Period = 1
    Trial = 1
    Grace = 0
    MaxDay = 4
    MaxAborts = 1
SPECIFICATION FairSpec
INVARIANTS
    TypeOK
    OpenPeriodIsEntitled
PROPERTIES
    TerminalIsFinal
    EachPaymentIsCreditedOnce
    PaymentsSettle
CHECK_DEADLOCK FALSE
