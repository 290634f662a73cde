CONSTANTS
    Processes = {"p", "q"}
    Names = {"x"}
    TypeIds = {1}
    RelationIds = {1}
    Domains = {1}
    Datatypes = {"int", "string"}
    Values = {1, 2}
    MaxRows = 2
    MaxCalls = 2
SPECIFICATION Spec
INVARIANTS ReturnedHasParent
CHECK_DEADLOCK FALSE
