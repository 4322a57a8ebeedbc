SPECIFICATION Spec
CONSTANTS
    d1 = d1
    d2 = d2
    Daemons = {d1, d2}
    None = None
    Console = Console
    NRuns = 3
    MaxAttempts = 1
    MaxOps = 1
    Lapses = TRUE
    Overlap = FALSE
    Watchdogs = {d1, d2}
INVARIANTS OneEngine
PROPERTIES ClaimEndsWithItsDispatch NeverStranded
CHECK_DEADLOCK FALSE
