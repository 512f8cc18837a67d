CONSTANTS
    i1 = i1
    w1 = w1
    r1 = r1
    r2 = r2
    None = None
    Ids = {i1}
    Worker = {w1}
    WantsBbox = {i1}
    HasCallback = {i1}
    Lease = 1
    RunBudget = 2
    PollGrace = 1
    PollBatch = 1
    QueuedOrphan = 1
    MaxAttempts = 2
    MaxFaults = 1
    Refiner = {r1, r2}
    RefineLease = 1
    RefineBudget = 2
    PendingOrphan = 1
    RefineAttempts = 1
    RefineFaults = 0
    MaxAge = 2
    RetryBase = 1
    RetryCeiling = 1
SPECIFICATION AsyncSpec
INVARIANTS WebhooksAgree
PROPERTIES ImplementsLifecycle
SYMMETRY Symmetry
