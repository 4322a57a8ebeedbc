SPECIFICATION Spec
CONSTANTS
    b1 = b1
    b2 = b2
    Branches = {b1, b2}
    None = None
    Saver = Saver
    Prog <- ProgGates
    MaxParallel = 2
    WaitAll = TRUE
    Coalesce = TRUE
    Faults = {"fail", "budget", "panic", "undecided", "invalid", "wedge", "cancel", "crash", "store", "timeout"}
    MaxInvocations = 2
INVARIANTS
    TypeOK
    PausedIsAnswerable
    NoLostSignal
    JoinComplete
PROPERTIES
    DurableNeverRegresses
    UndecidedStops
    EndsFinal
    KeepsJournal
CHECK_DEADLOCK FALSE
