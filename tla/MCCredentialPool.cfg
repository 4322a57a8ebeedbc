SPECIFICATION Spec
CONSTANTS
    run1 = run1
    run2 = run2
    donor1 = donor1
    Runs = {run1, run2}
    Pledges = {donor1}
    NoPledge = NoPledge
    Submissions <- ResumedAndLaunched
    MaxSubmissions = 3
    MaxRunsPerDay = 1
    MaxDeliver <- Deliveries
INVARIANTS TypeOK DailyCeiling RenewalHasUnit OneOpenLease ChargedOnceToItsDonor
CHECK_DEADLOCK FALSE
