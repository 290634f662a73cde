CONSTANTS
    p1 = p1
    p2 = p2
    Producers = {p1, p2}
    Capacity = 4
    MaxCalls = 4
    MaxStarts = 2
SPECIFICATION FairSpec
INVARIANTS TypeOK InOrderDelivery LossesAreCounted StopDrains NoAccessAfterDestruction
PROPERTIES ImplementsLossyFifo StopReturns
CHECK_DEADLOCK FALSE
