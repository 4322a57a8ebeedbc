SPECIFICATION Spec
CONSTANTS
    d1 = d1
    d2 = d2
    Daemons = {d1, d2}
    None = None
    Console = Console
    NRuns = 2
    MaxAttempts = 2
    MaxOps = 1
    Lapses = FALSE
    Overlap = TRUE
    Watchdogs = {d1, d2}
SYMMETRY DaemonSymmetry
INVARIANTS TypeOK DispatchOwnsCard
CHECK_DEADLOCK FALSE
