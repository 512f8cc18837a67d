CONSTANTS
    i1 = i1
    w1 = w1
    w2 = w2
    None = None
    Ids = {i1}
    Worker = {w1, w2}
    HasCallback = {i1}
    Lease = 1
    RunBudget = 2
    PendingOrphan = 1
    MaxAttempts = 2
    MaxFaults = 2
    MaxAge = 2
    RetryBase = 1
    RetryCeiling = 1
SPECIFICATION LiveSpec
INVARIANTS RefinerHoldsLeg LegRetryBudget GroundedIffLegSucceeded
PROPERTIES LegEventuallySettled
