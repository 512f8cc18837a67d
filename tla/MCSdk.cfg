CONSTANTS
    i1 = i1
    c1 = c1
    c2 = c2
    Ids = {i1}
    WantsBbox = {i1}
    Reader = {c1, c2}
    MaxPolls = 1
    Delivery = {i1}
    MaxAttempts = 2
    Patient = {c1}
    SdkPolls = 1
SPECIFICATION SdkSpec
CHECK_DEADLOCK FALSE
INVARIANTS GivesUpOnlyWhenSpent ToldIsTrue
PROPERTIES EveryWaitEnds
