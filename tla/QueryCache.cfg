CONSTANTS
    t1 = t1
    t2 = t2
    q1 = q1
    q2 = q2
    Table = {t1, t2}
    Query = {q1, q2}
    Reads <- ReadsOf
    Reader = {r1}
    Writer = {w1, w2}
    TTL = 2
    IndexExtra = 1
    MaxWrites = 2
    MaxFaults = 1
SPECIFICATION FairSpec
INVARIANTS
    TypeOK
    StaleEntriesAreAboutToGo
    EntriesAreIndexed
PROPERTY StaleEntriesExpire
CHECK_DEADLOCK FALSE
