CONSTANTS
    i1 = i1
    w1 = w1
    w2 = w2
    None = None
    Ids = {i1}
    Worker = {w1, w2}
    WantsBbox = {i1}
    HasCallback = {i1}
    Lease = 1
    RunBudget = 2
    PollGrace = 0
    PollBatch = 1
    QueuedOrphan = 1
    MaxAttempts = 2
    MaxFaults = 0
    MaxAge = 2
    RetryBase = 1
    RetryCeiling = 1
SPECIFICATION Spec
PROPERTIES RequeueOnlyOwnRun
