CONSTANTS
    Threads = {t1, t2}
    None = None
    Uids = {u1, u2}
    ApiThreads = {main, other}
    Main = main
    MaxComponents = 3
    MaxActivities = 3
    ApiCalls = 3
    ReplayHandles = {1, 3}
    Pointers = {100}
    Inherited = {{}, {1, 100}}
    Files = {"f", "g"}
    ReplaySizes = {1}
    MaxPosition = 1
    ReplayCalls = 5
    Layers = {"posix", "stdio", "mpi", "hdf5", "netcdf"}
    Table <- Headers
    Ints = {"3", "4"}
    Sizes = {"s"}
    Dsets = {"d"}
    Invalid = "invalid"
    MaxCalls <- MCMaxCalls
    MaxSwitches = 1
SPECIFICATION MCSpec
SYMMETRY MCSymmetry
INVARIANTS LinkedToOpener TablesAgree ActivityIdsUnique LayersReturn
    SuggestionsAreSound ReplayFollows
CHECK_DEADLOCK FALSE
