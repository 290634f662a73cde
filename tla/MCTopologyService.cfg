CONSTANTS
    Processes = {"a", "b"}
    Cached = {"a"}
    Threads <- MCThreads
    ProcessOf <- MCProcessOf
    Locals = {"d"}
    Callers = {"a", "b", "d"}
    Names = {"x", "y"}
    TypeIds = {1, 2}
    RelationIds = {1}
    ChildNames = {"x"}
    AttributeIds = {1}
    Datatypes = {"int", "string"}
    Values = {1, 2}
    Topics = {"types", "objects", "attributes", "values", "paths", "aliases"}
    Paths <- MCPaths
    AliasNames = {"@a", "@b"}
    MaxId = 2
    MaxCalls <- MCMaxCalls
    Breaking <- MCBreaking
    DBProcesses = {"p", "q"}
    DBNames = {"x"}
    DBValues = {1}
    MaxRows = 2
    MaxDBCalls = 2
    Durations = {1, 4, 5}
    Word = 6
    buckets = 3
    extremeBucketCount = 1
    slowFastBucketCount = 1
    learnCount = 2
    MaxActivities = 3
    MaxDeaths = 1
    CatalogUses <- MCUses
    CatalogModule <- MCModule
    CatalogAttributeId <- MCAttributeId
    FirstObject = 4
    MaxObject = 8
    MaxTypes = 2
SPECIFICATION MCFairSpec
INVARIANTS RelationsMirrored AnswersAgree AliasesExpand DatabaseAgrees EntriesResolve
    RatingsAreSound
PROPERTIES CallsReturn ImplementsTopology
CHECK_DEADLOCK FALSE
