CONSTANTS
    a = a
    b = b
    None = None
    DocTypes = {a, b}
    Requests <- MCRequests
    MaxPages = 2
    Normalised <- MCNormalised
    MaxSegments = 2
    MaxFailures = 1
SPECIFICATION LiveSpec
INVARIANTS SegmentsAccounted PinIsKept SuccessIsComplete RulesSeeFinalGroups GeometryIsGraded
PROPERTIES ResultIsBuilt
CHECK_DEADLOCK FALSE
