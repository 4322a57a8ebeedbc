SPECIFICATION Spec
CONSTANTS
    p = p
    q = q
    Runners = {p, q}
    Nobody = Nobody
    Dead = Dead
    MaxAttempts = 2
    MaxDeliver = 2
    Lapses = FALSE
    FloorHolds = TRUE
SYMMETRY Symmetry
PROPERTIES ParkKeepsNewerAttempt
CHECK_DEADLOCK FALSE
