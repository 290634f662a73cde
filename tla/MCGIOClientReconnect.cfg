CONSTANTS
    MaxThreads = 2
    MaxMessages = 1
    OutsideCalls = 1
SPECIFICATION FairSpec
PROPERTIES ReconnectStarts
CHECK_DEADLOCK FALSE
