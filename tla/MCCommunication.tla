--------------------------- MODULE MCCommunication --------------------------
(* The communication, and what a process does when it starts and ends, for *)
(* TLC, side by side: a behaviour is about one of the components, and the  *)
(* others stay put.                                                        *)
EXTENDS GIOServer

CONSTANTS
    Config, Faults, MaxLoads, MaxForks, MaxAttempts, MaxMessages, OutsideCalls,
    \* The catalogs: threads, bounds, and what is registered in which files.
    Callers, MaxLives, MaxNumbers, MaxAttributes, MaxMetas, MaxInstances,
    Requests, SystemSites, SystemTorn, Attributes, Metas, OntologySites,
    Instances, Owners, OwnAttributes, Values, MapperTorn

Local(i) == [id |-> i, global |-> FALSE]
Global(i) == [id |-> i, global |-> TRUE]
Module(i, r) == [id |-> i, refs |-> r, mandatory |-> i = 3]

\* The sections of a host, the global one and those of two interfaces: numbers
\* with gaps, references of each kind, and one that leads nowhere.
MCConfig ==
    [host   |-> <<Module(1, {}), Module(3, {Local(1)}), Module(4, {Local(1), Local(3)})>>,
     global |-> <<Module(4, {}), Module(1, {}), Module(3, {Local(1)})>>,
     posix  |-> <<Module(1, {Global(1)}), Module(2, {Local(1), Global(3)})>>,
     mpi    |-> <<Module(2, {Global(4)}), Module(1, {Local(5)})>>]

VARIABLES
    part,  \* the component that the behaviour is about
    readyLocked, ongoing, established, shutdownC, errorC, connectionThread, cTpc, cJoined,
    outside, upc, cDpc, sendQueue, connected, status, spc, smsg, sent, pendingResponses,
    deleted, outcome, link, written, atServer, inbox,
    list, maxComponentNumber, registrarMutex, autoConfiguratorOffset, pc, section, next,
    loads, forks, aBroken,
    \* The catalogs take turns in these, as they keep similar things.
    up, lives, site, file, nextID, loaded, entries, index, kMutex, kPc, argument, second,
    returned, kept, damaged

clientVars == <<readyLocked, ongoing, established, shutdownC, errorC, connectionThread,
                cTpc, cJoined, outside, upc, cDpc, sendQueue, connected, status, spc, smsg,
                sent, pendingResponses, deleted, outcome, link, written, atServer, inbox>>
autoVars == <<list, maxComponentNumber, registrarMutex, autoConfiguratorOffset, pc, section,
              next, loads, forks, aBroken>>

catalogVars == <<up, lives, site, file, nextID, loaded, entries, index, kMutex, kPc, argument,
                 second, returned, kept, damaged>>

Peer == INSTANCE GIOClient WITH
    MaxThreads <- MaxAttempts, tpc <- cTpc, joined <- cJoined, dpc <- cDpc

Conf == INSTANCE AutoConfigurator WITH broken <- aBroken

NoSite == [there |-> FALSE]
Only(k, v) == [x \in {k} |-> v]
Nothing == [x \in {} |-> x]

\* The system information of the site: an interface, and an activity of it or none.
SiteSystem(activity) ==
    [maps |-> [interfaceImplMap |-> Only(<<0, "x">>, 1), interfaceImplStrMap |-> Only(1, "x"),
               activityMap |-> IF activity THEN Only(<<1, "x">>, 2) ELSE Nothing,
               activityInterfaceIDMap |-> IF activity THEN Only(2, 1) ELSE Nothing,
               valueStringMap |-> IF activity THEN Only(2, "x") ELSE Nothing,
               deviceNodeMap |-> Nothing, deviceMap |-> Nothing, filesystemMap |-> Nothing,
               nodeMap |-> Nothing],
     nextID |-> IF activity THEN 3 ELSE 2, readable |-> 9]
MCSystemSites == {NoSite, SiteSystem(TRUE), SiteSystem(FALSE)}

Request(k, scope) == [kind |-> k, scope |-> scope, name |-> "x"]
MCRequests == {Request("interface", 0), Request("activity", 1)}

System == INSTANCE FileSystemInformation WITH
    Threads <- Callers, SiteFiles <- SystemSites, TornAfter <- SystemTorn, MaxId <- MaxNumbers,
    loadedNextID <- loaded, maps <- entries, m <- kMutex, pc <- kPc,
    req <- argument, id <- second, issued <- returned

SiteOntology ==
    [map |-> Only(1, [name |-> "x", type |-> "int", metas |-> << >>]), nextID |-> 2, torn |-> FALSE]

MCOntologySites == {NoSite, SiteOntology}

Attribute(n, t) == [name |-> n, type |-> t]
MCAttributes == {Attribute("x", "int"), Attribute("x", "string"), Attribute("y", "int")}
MCMetas == {[att |-> 1, meta |-> 2, value |-> v] : v \in {1, 2}}

Ontology == INSTANCE FileOntology WITH
    Threads <- Callers, SiteFiles <- OntologySites, MaxId <- MaxAttributes,
    loadedID <- loaded, attribute_map <- entries, domain_name_map <- index,
    attributeMutex <- kMutex, pc <- kPc, name <- argument, type <- second, metas <- kept

MCOwners == {[kind |-> "process"], [kind |-> "component"]}

Mapper == INSTANCE FileAssociationMapper WITH
    Attributes <- OwnAttributes, TornAfter <- MapperTorn, MaxId <- MaxInstances,
    lastID <- nextID, vector_aid_str <- entries, map_str_aid <- index, attributes <- argument,
    mapped <- returned, accepted <- kept

-----------------------------------------------------------------------------
MCInit ==
    /\ part \in {"server", "client", "auto", "system", "ontology", "mapper"}
    /\ Init /\ Peer!Init /\ Conf!Init
    /\ \/ part # "ontology" /\ part # "mapper" /\ System!Init /\ index = Nothing
          /\ (part = "system" \/ site = NoSite)
       \/ part = "ontology" /\ Ontology!Init /\ damaged = FALSE
       \/ part = "mapper" /\ Mapper!Init /\ site = 0 /\ loaded = 0 /\ kMutex = 0 /\ kPc = 0
          /\ second = 0

MCNext ==
    /\ UNCHANGED part
    /\ \/ part = "server" /\ Next
          /\ UNCHANGED <<clientVars, autoVars, catalogVars>>
       \/ part = "client" /\ Peer!Next
          /\ UNCHANGED <<vars, autoVars, catalogVars>>
       \/ part = "auto" /\ Conf!Next
          /\ UNCHANGED <<vars, clientVars, catalogVars>>
       \/ part = "system" /\ System!Next
          /\ UNCHANGED <<vars, clientVars, autoVars, index>>
       \/ part = "ontology" /\ Ontology!Next
          /\ UNCHANGED <<vars, clientVars, autoVars, damaged>>
       \/ part = "mapper" /\ Mapper!Next
          /\ UNCHANGED <<vars, clientVars, autoVars, site, loaded, kMutex, kPc, second>>

allVars == <<part, vars, clientVars, autoVars, catalogVars>>

\* A step of one component, with the others as they are.
InServer(A) == part = "server" /\ A /\ UNCHANGED <<part, clientVars, autoVars, catalogVars>>
InClient(A) == part = "client" /\ A /\ UNCHANGED <<part, vars, autoVars, catalogVars>>
InAuto(A) == part = "auto" /\ A /\ UNCHANGED <<part, vars, clientVars, catalogVars>>

Owns(t) == t \in Threads /\ Own(t)
Connects(t) == t \in Peer!Threads /\ Peer!ConnectionOwn(t)

\* The fairness of the components: of their own threads, not of the network (see
\* FairSpec of each).  A behaviour is about one of them, so that fairness of a
\* disjunction over the components is fairness of each.
MCSpec ==
    /\ MCInit /\ [][MCNext]_allVars
    /\ WF_allVars(\/ InServer(Destructor) \/ InClient(Peer!SenderOwn) \/ InAuto(Conf!Load))
    /\ WF_allVars(InServer(Owns(1)) \/ InClient(Peer!Destructor))
    /\ WF_allVars(InServer(Owns(2)) \/ InClient(Peer!OutsideReconnect))
    /\ WF_allVars(InServer(Owns(3)) \/ InClient(Connects(1)))
    /\ WF_allVars(InServer(Owns(4)) \/ InClient(Connects(2)))
    /\ WF_allVars(InClient(Connects(3)))
    /\ \A t \in Threads \ 1 .. 4 : WF_allVars(InServer(Own(t)))
    /\ \A t \in Peer!Threads \ 1 .. 3 : WF_allVars(InClient(Peer!ConnectionOwn(t)))

ASSUME ClientAssumption == Peer!GIOClientAssumption
ASSUME SectionsAssumption == Conf!ConfigAssumption
ASSUME SystemInstance == System!SystemAssumption
ASSUME OntologyInstance == Ontology!OntologyAssumption
ASSUME MapperInstance == Mapper!MapperAssumption

-----------------------------------------------------------------------------
\* GIOClient: a message is deleted once, when a callback said how it ended.
DeletedOnce == part = "client" => Peer!DeletedOnce

\* GIOClient and GIOServer: the destructor leaves no thread and no unwritten
\* message behind.
DestroyedClean ==
    /\ part = "client" => Peer!DestroyedClean
    /\ part = "server" => GoneWhenDestroyed

\* AutoConfigurator: references lead to the component they name.
ReferencesResolve == part = "auto" => Conf!ReferencesResolve

\* AutoConfigurator: a component outlives those that refer to it.
DestroyedInOrder == part = "auto" => Conf!DestroyedInOrder

\* The catalogs kept in files, each for itself, for every thread and over
\* restarts: numbers of FileSystemInformation lead back to what they were issued
\* for, a name of FileOntology is one attribute, and names, numbers and values of
\* FileAssociationMapper belong together.
CatalogsResolve ==
    /\ part = "system" => System!NumbersResolve
    /\ part = "ontology" => Ontology!AttributesAgree
    /\ part = "mapper" => Mapper!AssociationsResolve

\* The network lets go of every thread that it holds: each write and each connection
\* attempt returns, with or without success.  The code does not see to that, as it
\* passes no cancelable and sets no timeout.
NetworkReturns ==
    /\ \A t \in Threads : []<>~Writing(t)
    /\ []<>(spc # "write")
    /\ \A t \in Peer!Threads : []<>(cTpc[t] # "connect")

\* If the network lets go of its threads, every call that waits for other threads
\* returns: DestructorReturns of the server, CallsReturn of the client and LoadReturns
\* of the configurator, as one formula.  A peer that stays connected and does not read
\* blocks a sender and the destructor that waits for it.
WaitsEnd ==
    NetworkReturns =>
       (\/ part = "server" /\ dpc = "lock"
        \/ part = "client" /\ Peer!Waiting
        \/ part = "auto" /\ pc = "call"
        ~>
        \/ part = "server" /\ dpc = "done"
        \/ part = "client" /\ (~Peer!Waiting \/ ~Peer!CalledAsTold)
        \/ part = "auto" /\ Conf!LoadEnded)
=============================================================================
