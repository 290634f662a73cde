SPECIFICATION FairSpec
CONSTANTS
    Threads = {t1, t2}
    Files = {f, g}
    None = None
    Tokens <- MCTokens
    Watched = {f}
    Positions = {2}
    Sizes = {1}
    seekSizeLimit = 1
    MaxLogs = 1
    MaxRepeats = 2
PROPERTY RetryReturns
CHECK_DEADLOCK FALSE
