SPECIFICATION Spec
CONSTANTS
    p = p
    q = q
    Runners = {p, q}
    Nobody = Nobody
    Dead = Dead
    MaxAttempts = 2
    MaxDeliver = 1
    Lapses = TRUE
    FloorHolds = FALSE
SYMMETRY Symmetry
PROPERTIES FencedStepsKeepNewerAttempt CancelOutranksFailure
CHECK_DEADLOCK FALSE
