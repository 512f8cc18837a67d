CONSTANTS
    q1 = q1
    q2 = q2
    q3 = q3
    k1 = k1
    r1 = r1
    None = None
    Request = {q1, q2, q3}
    Ids = {q1, q2, q3}
    Key = {k1}
    WantsBbox = {q1}
    Reader = {r1}
    MaxPolls = 1
SPECIFICATION ApiSpec
CHECK_DEADLOCK FALSE
INVARIANTS
    SameKeySameExtraction AcceptedIsStored PublishedByInserterOnly
    WaitedResultIsFinal
PROPERTIES EveryRequestAnswered
