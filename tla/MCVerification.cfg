CONSTANTS
    t1 = t1
    t2 = t2
    f = f
    g = g
    None = None
    Task = {t1, t2}
    FieldsOf <- MCFieldsOf
    StageSets <- MCStageSets
    Concurrency = 1
    FractionNum = 1
    FractionDen = 2
    ThresholdNum = 3
    ThresholdDen = 4
    IncludeFlagged = TRUE
SPECIFICATION Spec
INVARIANTS RepairInfoAddsUp
PROPERTIES RepairIsMonotonic OnlyAcceptedReplaces
SYMMETRY Symmetry
CHECK_DEADLOCK FALSE
