SPECIFICATION Spec
CONSTANTS
    a = a
    b = b
    Candidates = {a, b}
    NoOwner = NoOwner
    TTL = 6
    Retry = 2
    Backoff = 2
    ReleaseTimeout = 1
    Skew <- ThreeAhead
    Unwind = 0
    Faulty = FALSE
    MaxLag = 5
VIEW AgeView
INVARIANTS TypeOK Replaced
PROPERTIES ExpiryNeverMovesBack
CHECK_DEADLOCK FALSE
