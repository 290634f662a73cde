SPECIFICATION Spec
CONSTANTS
    t1 = t1
    t2 = t2
    Threads = {t1, t2}
    Main = t1
    None = None
    Uids = {u1, u2}
    u1 = u1
    u2 = u2
    Overlap = FALSE
    MaxComponents = 3
    MaxActivities = 4
    MaxCalls = 3
INVARIANT OneComponentPerInterface
SYMMETRY LayerSymmetry
CHECK_DEADLOCK FALSE
