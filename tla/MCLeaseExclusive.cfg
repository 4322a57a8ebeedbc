SPECIFICATION Spec
CONSTANTS
    a = a
    b = b
    Candidates = {a, b}
    NoOwner = NoOwner
    TTL = 18
    Retry = 3
    Backoff = 2
    ReleaseTimeout = 2
    Skew <- OneAhead
    Unwind = 1
    Faulty = TRUE
    MaxLag = 2
VIEW AgeView
INVARIANTS Exclusive
CHECK_DEADLOCK FALSE
