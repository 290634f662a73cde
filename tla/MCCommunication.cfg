CONSTANTS
    MaxThreads = 4
    MaxRequests = 1
    Config <- MCConfig
    Faults = {"missing", "module", "instance", "options", "init"}
    MaxLoads = 4
    MaxForks = 1
    MaxAttempts = 3
    MaxMessages = 2
    OutsideCalls = 2
    Callers = {"t", "u"}
    MaxLives = 2
    MaxNumbers = 3
    MaxAttributes = 2
    MaxMetas = 1
    MaxInstances = 2
    Requests <- MCRequests
    SystemSites <- MCSystemSites
    SystemTorn = {4}
    Attributes <- MCAttributes
    Metas <- MCMetas
    OntologySites <- MCOntologySites
    Instances = {"x", "y"}
    Owners <- MCOwners
    OwnAttributes = {1}
    Values = {1, 2}
    MapperTorn = {1, 2, 3}
SPECIFICATION MCSpec
INVARIANTS RegistryIsExact DeletedOnce DestroyedClean ReferencesResolve
    DestroyedInOrder CatalogsResolve
PROPERTIES WaitsEnd
CHECK_DEADLOCK FALSE
