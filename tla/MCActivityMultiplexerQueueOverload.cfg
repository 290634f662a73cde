CONSTANTS
    p1 = p1
    p2 = p2
    Producers = {p1, p2}
    Capacity = 4
    MaxCalls = 4
    MaxStarts = 1
SPECIFICATION FairSpec
PROPERTIES OverloadEnds
CHECK_DEADLOCK FALSE
