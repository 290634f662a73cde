------------------------- MODULE MCTopologyService -------------------------
(* The topologies for TLC.  Either RamTopology with its services is used:  *)
(* process a has two threads and a cache, process b one thread and none;   *)
(* or the database is, or the catalogs or the learned ranges that are kept *)
(* in a topology, by processes that may die.                               *)
EXTENDS TopologyService

CONSTANTS
    DBProcesses, DBNames, DBValues, MaxRows, MaxDBCalls,
    Durations, Word, buckets, extremeBucketCount, slowFastBucketCount, learnCount,
    MaxActivities, MaxDeaths,
    \* The catalogs: calls, numbers of the modules and of attributes, and bounds.
    CatalogUses, CatalogModule, CatalogAttributeId, FirstObject, MaxObject, MaxTypes

VARIABLES
    side,  \* what the behaviour is about
    use, cRelations, cValues, cTypes, nextObject, cPc, cReq, cObj, cTodo, returned, contended,
    dbType, dbObject, dbRelation, dbAttribute, dbValue, dbSerial, dbPc, dbReq, dbMade, dbCalls,
    dbAnswers, dbPart,
    ats, stored, hPc, duration, hTodo, deaths, learned, torn

catVars == <<use, cRelations, cValues, cTypes, nextObject, cPc, cReq, cObj, cTodo, returned,
             contended>>
dbVars == <<dbType, dbObject, dbRelation, dbAttribute, dbValue, dbSerial, dbPc, dbReq, dbMade,
            dbCalls, dbAnswers, dbPart>>
histVars == <<ats, stored, hPc, duration, hTodo, deaths, learned, torn>>

DB == INSTANCE DatabaseTopology WITH
    Processes <- DBProcesses, Names <- DBNames, Domains <- RelationIds, Values <- DBValues,
    MaxCalls <- MaxDBCalls,
    type <- dbType, object <- dbObject, relation <- dbRelation, attribute <- dbAttribute,
    value <- dbValue, serial <- dbSerial, pc <- dbPc, req <- dbReq, made <- dbMade,
    calls <- dbCalls, answers <- dbAnswers, part <- dbPart

MCThreads == {"a1", "a2", "b1"}
MCProcessOf == [t \in MCThreads |-> IF t = "b1" THEN "b" ELSE "a"]

MCMaxCalls == [t \in Topics |-> IF t = "aliases" THEN 3 ELSE 2]

MCBreaking == [t \in Topics |-> IF t = "types" THEN Processes ELSE {}]

C(r, n, t) == [relation |-> r, name |-> n, type |-> t]
MCPaths == {<<C("x", "y", "x"), C("x", "y", AnyName)>>, <<C("x", "y", AnyName)>>,
            <<C("x", "y", "y")>>}

\* The module objects and the attributes of the topology, in numbers that the
\* attributes of the ontology get as well: 4 is the domain, 5 and 6 its attributes.
MCModule == [Ontology |-> 1, AssociationMapper |-> 2, System |-> 3]
MCAttributeId ==
    [Type |-> 5, Name |-> 6, Domain |-> 7, Value |-> 8, NodeName |-> 9, GlobalName |-> 10,
     Interface |-> 11, Implementation |-> 12, Node |-> 13, LocalName |-> 14, UNID |-> 15]

Attribute(n, t) == [op |-> "attribute", domain |-> "d", name |-> n, type |-> t]
Meta(v) == [op |-> "meta", att |-> 5, meta |-> 6, value |-> v]
Value(k, v) == [op |-> k, owner |-> "p", att |-> "5", value |-> v]
Instance(n) == [op |-> "instance", name |-> n]

\* The calls of the ontology, of the association mapper and of the system information.
MCUses ==
    {{Attribute("x", "int"), Attribute("x", "string"), Attribute("y", "int"), Meta("x"), Meta("z")},
     {Value("process", "1"), Value("process", "2"), Value("component", "1")},
     {Value("process", "1"), Instance("x"), Instance("y")},
     {[op |-> "node", name |-> "x"], [op |-> "device", parent |-> 4, name |-> "x"],
      [op |-> "filesystem", name |-> "x"]},
     {[op |-> "interface", name |-> "x", implementation |-> "i"],
      [op |-> "activity", parent |-> 5, name |-> "x"]}}

Cat == INSTANCE TopologyCatalogs WITH
    Threads <- DBProcesses, Uses <- CatalogUses, Module <- CatalogModule,
    AttributeId <- CatalogAttributeId,
    relations <- cRelations, values <- cValues, types <- cTypes, pc <- cPc, req <- cReq,
    obj <- cObj, todo <- cTodo

\* For TLC: ranges that the buckets divide and that they do not, and smaller than them.
Hist == INSTANCE HistogramAdpi WITH
    Processes <- DBProcesses, NoValue <- -1, pc <- hPc, todo <- hTodo

ASSUME RangesAssumption == Hist!HistogramAssumption
ASSUME CatalogsInstance == Cat!CatalogsAssumption

MCInit ==
    /\ side \in {"services", "database", "catalogs", "histogram"}
    /\ Init /\ DB!Init /\ Cat!Init /\ Hist!Init
    /\ side # "services" => topic = "aliases"
    /\ side # "database" => dbPart = "types"
    /\ side # "catalogs" => Instance("x") \in use

MCNext ==
    /\ UNCHANGED side
    /\ \/ side = "services" /\ Next /\ UNCHANGED <<dbVars, catVars, histVars>>
       \/ side = "database" /\ DB!Next /\ UNCHANGED <<vars, catVars, histVars>>
       \/ side = "catalogs" /\ Cat!Next /\ UNCHANGED <<vars, dbVars, histVars>>
       \/ side = "histogram" /\ Hist!Next /\ UNCHANGED <<vars, dbVars, catVars>>

allVars == <<side, vars, dbVars, catVars, histVars>>
InServices(A) == side = "services" /\ A /\ UNCHANGED <<side, dbVars, catVars, histVars>>

MCSpec == MCInit /\ [][MCNext]_allVars

MCFairSpec ==
    /\ MCSpec
    /\ \A t \in Threads : WF_allVars(InServices(ThreadStep(t)))
    /\ \A c \in Callers : WF_allVars(InServices(RamStep(c)))

\* The catalogs that are kept in the topology: see TopologyCatalogs.
EntriesResolve == Cat!EntriesResolve

\* Ranges that are learned, and kept in the topology: see HistogramAdpi.
RatingsAreSound == Hist!RatingsAreSound

\* Registrations in the database agree: see DatabaseTopology.
DatabaseAgrees == DB!DatabaseAgrees
=============================================================================
