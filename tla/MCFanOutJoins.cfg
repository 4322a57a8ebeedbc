SPECIFICATION AnsweredSpec
CONSTANTS
    b1 = b1
    b2 = b2
    Branches = {b1, b2}
    None = None
    Saver = Saver
    Prog <- ProgSlot
    MaxParallel = 1
    WaitAll = FALSE
    Coalesce = FALSE
    Faults = {"fail", "panic", "cancel", "wedge"}
    MaxInvocations = 3
INVARIANTS
    GateNeedsAnswer
PROPERTIES
    Settles
    Joins
CHECK_DEADLOCK FALSE
