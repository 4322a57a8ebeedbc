SPECIFICATION Spec
CONSTANTS
    p = p
    q = q
    Runners = {p, q}
    Nobody = Nobody
    Dead = Dead
    MaxAttempts = 2
    MaxDeliver = 2
    Lapses = FALSE
    FloorHolds = TRUE
SYMMETRY Symmetry
INVARIANTS TypeOK OneExecutor StaleDropIsFinal
PROPERTIES FencedStepsKeepNewerAttempt CancelOutranksFailure FinishedIsFinal
CHECK_DEADLOCK FALSE
