CONSTANTS
    Loggers = {t1, t2}
    Listeners = {l1, l2}
    NoFile = NoFile
    Tokens <- MCTokens
    Files = {"f", "g"}
    Watched = {"f"}
    FilePositions = {2}
    Sizes = {1}
    seekSizeLimit = 1
    MaxSurveyed = 4
    ringBufferSize = 2
    max_pending_ops = 1
    MaxForwarded = 4
    MaxErrors = 1
    MaxStarts = 2
    Ucaids = {1}
    Kinds = {{"sync"}, {"sync", "async"}}
    Bound = 1
    MaxLogs = 2
    MaxRegistrations = 3
    MaxListeners = 2
SPECIFICATION MCSpec
SYMMETRY MCSymmetry
INVARIANTS RunningIsRegistered CountedOnce RingIsSentOnce PendingIsExact
    HistoryIsExact
PROPERTIES UnregisterIsExact
CHECK_DEADLOCK FALSE
