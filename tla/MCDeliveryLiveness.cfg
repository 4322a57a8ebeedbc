SPECIFICATION FairSpec
CONSTANTS
    p = p
    q = q
    Runners = {p}
    Nobody = Nobody
    Dead = Dead
    MaxAttempts = 2
    MaxDeliver = 2
    Lapses = FALSE
    FloorHolds = TRUE
PROPERTIES NeverStranded
CHECK_DEADLOCK FALSE
