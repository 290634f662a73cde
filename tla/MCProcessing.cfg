CONSTANTS
    MaxJobs = 4
    MaxPendingJobs = 2
    MaxFails = 2
    MaxOwnerCalls = 4
    Plugins = {"p1", "p2"}
    Metrics <- MCMetrics
    Listeners = {"l"}
    MaxPolls = 2
    MaxChanges = 5
    Reasoners = {"p", "n"}
    role <- MCRole
    upstream <- MCUpstream
    Adpis <- MCAdpis
    Observed = {"OK", "ABNORMAL_BAD"}
    MaxObservations = 2
    MaxPushes = 1
    MaxStarts = 3
SPECIFICATION MCSpec
INVARIANTS NoJobIsLost ListenersKnow FetchIsConsistent ObservationsAreCounted
    AnomaliesTrigger
PROPERTIES JoinsEnd
CHECK_DEADLOCK FALSE
