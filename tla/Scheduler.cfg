CONSTANTS
    Cron = {0, 1, 2}
    Cooldown = 2
    Skew = 1
    MaxTime = 3
    MaxExtras = 1
    MaxEdits = 1
    MaxFaults = 1
SPECIFICATION FairSpec
INVARIANTS
    TypeOK
    OccurrenceFiresOnce
    CooldownUnlessOverlapping
    AnEditMisfiresOnce
PROPERTY WhatIsDueFires
CHECK_DEADLOCK FALSE
