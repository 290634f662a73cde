-------------------------- MODULE TopologyService --------------------------
(***************************************************************************)
(* A topology shared by processes: RamTopology in the daemon, the network  *)
(* forwarder and its server in front of it (NetworkForwarderTopology.cpp,  *)
(* NetworkForwarderTopologyServer.cpp), in some processes the cache        *)
(* (cacheTopology.cpp, cacheHelper.cpp), and on top the functions that     *)
(* take paths, and aliases (Topology.cpp).                                 *)
(*                                                                         *)
(* A connection delivers in order and its server thread answers one        *)
(* request at a time, so it is the caller named like the process in        *)
(* RamTopology.  The cache writes its maps under a lock taken shared: two  *)
(* writers race, and one may lose its entry; a reader may miss.  Its       *)
(* relations are ordered by the name of the child alone, and the key holds *)
(* a reference to the caller's string, which is gone after the call: a     *)
(* lookup may hit any entry, or none.                                      *)
(*                                                                         *)
(* A connection may break, and is not made again (see GIOClient): requests *)
(* that wait get no callback then, nor those that are sent later, and      *)
(* their callers wait for ever.  An error callback ends the process by a   *)
(* failed assertion.  A caller that wakes up without a notification uses a *)
(* response that nobody has filled in and gives its memory back; what its  *)
(* process does then is undefined, and it leaves the model.                *)
(***************************************************************************)
EXTENDS RamTopology, Integers, FiniteSets

CONSTANTS
    Processes,     \* client processes
    Cached,        \* those that use the cache
    Threads,       \* their threads
    ProcessOf,     \* ProcessOf[t]: the process of thread t
    Locals,        \* threads of the daemon, without cache and network
    Topics,        \* what is studied: sets of calls, paths or aliases
    Paths,         \* sequences of components [relation, name, type]
    AliasNames,
    MaxId,         \* bound: largest identifier passed
    MaxCalls,      \* bound: calls made from outside, for each topic
    Breaking       \* bound: the connections that may break, for each topic

AnyName == "any"       \* a path component without object type
Component == "component"   \* an alias value that is no alias

ASSUME ServiceAssumption ==
    /\ Callers = Processes \cup Locals /\ Processes \cap Locals = {}
    /\ ProcessOf \in [Threads -> Processes] /\ Cached \subseteq Processes
    /\ Topics \subseteq {"types", "objects", "attributes", "values", "paths", "aliases"}
    /\ MaxId \in Nat /\ MaxCalls \in [Topics -> Nat]
    /\ Breaking \in [Topics -> SUBSET Processes]
    /\ IsFiniteSet(AliasNames) /\ Component \notin AliasNames

VARIABLES
    topic,      \* which calls the clients make
    cache,      \* cache[p]: what the CacheHelper of p holds
    broken,     \* the processes whose connection has broken
    channel,    \* channel[p]: threads whose requests are with the server
    tpc,        \* tpc[t]: idle, lookup, wait, waitOnly, store, alias, gone
    treq, tanswer,  \* the call of t and its result
    walk,       \* walk[t]: the path function t executes, or NoWalk
    aliases,    \* aliases[p]: from the names set to their values
    calls,      \* calls made so far
    answered    \* history: the calls that ended

clientVars == <<channel, tpc, treq, tanswer>>
vars == <<ramVars, topic, broken, cache, clientVars, walk, aliases, calls, answered>>

NoWalk == [path |-> << >>]
Record(who, r, a) == answered' = answered \cup {[who |-> who, req |-> r, answer |-> a]}

-----------------------------------------------------------------------------
(* CacheHelper.                                                            *)

EmptyCache == [types |-> {}, objects |-> {}, relations |-> {}, attributes |-> {},
               values |-> {}]

\* Another thread writes the maps of the process.
Racing(t) == \E u \in Threads \ {t} : ProcessOf[u] = ProcessOf[t] /\ tpc[u] = "store"

\* What lookupRelation of the helper may find.
CachedRelations(p) == {{}} \cup {{r} : r \in cache[p].relations}

\* The answers the cache may give to a call; {} is a miss.  A registration is
\* answered by what is cached under the key, whatever else it asks for.
Hits(p, r) ==
    CASE r.op \in {"registerType", "lookupTypeByName"} ->
            {{x \in cache[p].types : x.name = r.name}}
      [] r.op = "lookupTypeById" -> {{x \in cache[p].types : x.id = r.id}}
      [] r.op = "lookupObjectById" -> {{x \in cache[p].objects : x.id = r.id}}
      [] r.op \in {"registerRelation", "lookupRelation"} -> CachedRelations(p)
      [] r.op \in {"registerAttribute", "lookupAttributeByName"} ->
            {{x \in cache[p].attributes :
                 x.attribute.domain = r.domain /\ x.attribute.name = r.name}}
      [] r.op = "lookupAttributeById" -> {{x \in cache[p].attributes : x.id = r.id}}
      [] r.op = "getAttribute" ->
            {{[value |-> x[2]] : x \in {y \in cache[p].values : y[1] = <<r.object, r.attribute>>}}}
      [] r.op = "setAttribute" ->
            {IF <<<<r.object, r.attribute>>, r.value>> \in cache[p].values THEN {Success} ELSE {}}

\* register* of the helper, one for each table: an entry that is there is kept,
\* except a value, which is replaced.
StoredTypes(h, a) == [h EXCEPT !.types = @ \cup {x \in a : \A y \in @ : y.name # x.name}]
StoredObjects(h, a) == [h EXCEPT !.objects = @ \cup {x \in a : \A y \in @ : y.id # x.id}]
StoredRelations(h, a) ==
    [h EXCEPT !.relations = @ \cup {x \in a : \A y \in @ : y.name # x.name}]
StoredAttributes(h, a) ==
    [h EXCEPT !.attributes = @ \cup
        {x \in a : \A y \in @ : \/ y.attribute.domain # x.attribute.domain
                               \/ y.attribute.name # x.attribute.name}]
StoredValue(h, key, v) == [h EXCEPT !.values = {x \in @ : x[1] # key} \cup {<<key, v>>}]

\* The cache after the backend has answered call r with a.
Stored(h, r, a) ==
    CASE r.op \in {"registerType", "lookupTypeByName", "lookupTypeById"} -> StoredTypes(h, a)
      [] r.op \in {"registerAttribute", "lookupAttributeByName", "lookupAttributeById"} ->
            StoredAttributes(h, a)
      [] r.op = "lookupObjectById" -> StoredObjects(h, a)
      [] r.op \in {"registerRelation", "lookupRelation"} -> StoredRelations(h, a)
      [] r.op = "registerObject" ->
            StoredRelations(StoredObjects(h, a),
                {[parent |-> r.parent, type |-> r.relation, name |-> r.name, child |-> o.id] :
                    o \in a})
      [] r.op = "setAttribute" -> StoredValue(h, <<r.object, r.attribute>>, r.value)
      [] r.op = "getAttribute" ->
            StoredValue(h, <<r.object, r.attribute>>, (CHOOSE x \in a : TRUE).value)

-----------------------------------------------------------------------------
(* The messages.  A response has no more than the call cannot know itself; *)
(* -1 stands for a null pointer.                                           *)

Nothing == [id |-> -1]

\* What messageReceivedCB of the server puts into the response for a type or an
\* object ...
TypeOrObjectResponse(r, x) ==
    CASE r.op \in {"registerType", "lookupTypeByName", "registerObject"} -> [id |-> x.id]
      [] r.op = "lookupTypeById" -> [name |-> x.name]
      [] r.op = "lookupObjectById" -> [id |-> x.id, type |-> x.type]

\* ... and for a relation, an attribute or a value.
OtherResponse(r, x) ==
    CASE r.op = "registerRelation" -> [id |-> 0]
      [] r.op = "lookupRelation" -> [id |-> x.child]
      [] r.op = "registerAttribute" -> [id |-> x.id]
      [] r.op = "lookupAttributeByName" -> [id |-> x.id, other |-> x.attribute.datatype]
      [] r.op = "lookupAttributeById" ->
            [id |-> x.attribute.domain, name |-> x.attribute.name,
             other |-> x.attribute.datatype]
      [] r.op = "setAttribute" -> [id |-> 1]
      [] r.op = "getAttribute" -> [id |-> 1, var |-> x.value]

Response(r, a) ==
    LET x == CHOOSE y \in a : TRUE
    IN  IF a = {} THEN Nothing
        ELSE IF r.op \in {"registerType", "lookupTypeByName", "lookupTypeById",
                          "registerObject", "lookupObjectById"}
        THEN TypeOrObjectResponse(r, x) ELSE OtherResponse(r, x)

\* The client rebuilds the result from its call and the response w.
TypeFrom(r, w) ==
    IF r.op = "lookupTypeById" THEN [id |-> r.id, name |-> w.name]
    ELSE [id |-> w.id, name |-> r.name]

ObjectFrom(r, w) ==
    [id |-> w.id, type |-> IF r.op = "registerObject" THEN r.type ELSE w.type]

RelationFrom(r, w) ==
    [parent |-> r.parent, type |-> r.relation, name |-> r.name,
     child |-> IF r.op = "registerRelation" THEN r.child ELSE w.id]

AttributeFrom(r, w) ==
    IF r.op = "lookupAttributeById"
    THEN [id |-> r.id, attribute |-> [domain |-> w.id, name |-> w.name, datatype |-> w.other]]
    ELSE [id |-> w.id,
          attribute |-> [domain |-> r.domain, name |-> r.name,
                         datatype |-> IF r.op = "registerAttribute" THEN r.datatype
                                      ELSE w.other]]

ValueFrom(r, w) == IF r.op = "setAttribute" THEN Success ELSE [value |-> w.var]

Result(r, w) ==
    IF w = Nothing THEN {}
    ELSE {CASE r.op \in {"registerType", "lookupTypeByName", "lookupTypeById"} -> TypeFrom(r, w)
            [] r.op \in {"registerObject", "lookupObjectById"} -> ObjectFrom(r, w)
            [] r.op \in {"registerRelation", "lookupRelation"} -> RelationFrom(r, w)
            [] r.op \in {"setAttribute", "getAttribute"} -> ValueFrom(r, w)
            [] OTHER -> AttributeFrom(r, w)}

-----------------------------------------------------------------------------
(* A call of a client thread: through the cache, if there is one, to the   *)
(* server and back.                                                        *)

\* The caller gets its result; a path function goes on with it.
Finish(t, a) ==
    /\ tanswer' = [tanswer EXCEPT ![t] = IF walk[t] = NoWalk THEN {} ELSE a]
    /\ treq' = [treq EXCEPT ![t] = NoCall]
    /\ tpc' = [tpc EXCEPT ![t] = "idle"]
    /\ Record(t, treq[t], a)

Ask(t, r) ==
    /\ tpc[t] = "idle"
    /\ treq' = [treq EXCEPT ![t] = r]
    /\ tpc' = [tpc EXCEPT ![t] = "lookup"]
    /\ UNCHANGED <<ramVars, topic, broken, cache, channel, tanswer, aliases, answered>>

\* A client calls a plumbing function itself.
Request(t, r) ==
    /\ calls < MaxCalls[topic] /\ walk[t] = NoWalk
    /\ calls' = calls + 1
    /\ Ask(t, r)
    /\ UNCHANGED walk

\* isend: the request queues up on the connection, or for a sender that has ended.
isend(t, l) ==
    /\ channel' = IF ProcessOf[t] \in broken THEN channel
                  ELSE [channel EXCEPT ![ProcessOf[t]] = Append(@, t)]
    /\ tpc' = [tpc EXCEPT ![t] = l]
    /\ UNCHANGED <<treq, tanswer, answered>>

\* The cache is asked.  registerObject finds an object through its relation; if
\* the relation is known and the object is not, the answer of the backend is
\* passed on and not stored.
Lookup(t) ==
    LET p == ProcessOf[t]
        r == treq[t]
    IN  /\ tpc[t] = "lookup" /\ p \in Cached
        /\ IF r.op = "registerObject"
           THEN \E rel \in CachedRelations(p) :
                   LET o == {x \in cache[p].objects : \E y \in rel : x.id = y.child}
                   IN  IF o # {} THEN Finish(t, o) /\ UNCHANGED channel
                       ELSE isend(t, IF rel = {} THEN "wait" ELSE "waitOnly")
           ELSE \E hit \in Hits(p, r) \cup (IF Racing(t) THEN {{}} ELSE {}) :
                   IF hit # {} THEN Finish(t, hit) /\ UNCHANGED channel
                   ELSE isend(t, "wait")
        /\ UNCHANGED <<ramVars, topic, broken, cache, walk, aliases, calls>>

Forward(t) ==
    /\ tpc[t] = "lookup" /\ ProcessOf[t] \notin Cached
    /\ isend(t, "waitOnly")
    /\ UNCHANGED <<ramVars, topic, broken, cache, walk, aliases, calls>>

\* messageReceivedCB of the server calls its topology ...
messageReceivedCB(p) ==
    /\ channel[p] # << >>
    /\ Call(p, treq[Head(channel[p])])
    /\ UNCHANGED <<topic, broken, cache, clientVars, walk, aliases, calls, answered>>

\* Mutant: the client is not woken by the answer that there is nothing.
messageResponseFound(p) ==
    LET t == Head(channel[p])
    IN  /\ channel[p] # << >> /\ pc[p] = "done" /\ p \notin broken
        /\ Taken(p)
        /\ channel' = [channel EXCEPT ![p] = Tail(@)]
        /\ IF answer[p] = {} THEN UNCHANGED <<tpc, treq, tanswer, answered>>
           ELSE Finish(t, answer[p])
        /\ UNCHANGED <<topic, broken, cache, walk, aliases, calls>>

\* ... and sends the result: messageResponseCB of the client wakes the thread.
messageResponseCB(p) ==
    LET t == Head(channel[p])
        a == Result(treq[t], Response(treq[t], answer[p]))
    IN  /\ channel[p] # << >> /\ pc[p] = "done" /\ p \notin broken
        /\ Taken(p)
        /\ channel' = [channel EXCEPT ![p] = Tail(@)]
        /\ IF tpc[t] = "wait" /\ a # {}
           THEN /\ tpc' = [tpc EXCEPT ![t] = "store"]
                /\ tanswer' = [tanswer EXCEPT ![t] = a]
                /\ UNCHANGED <<treq, answered>>
           ELSE Finish(t, a)
        /\ UNCHANGED <<topic, broken, cache, walk, aliases, calls>>

\* The response of the server to a connection that has broken.
ResponseLost(p) ==
    /\ channel[p] # << >> /\ p \in broken
    /\ Taken(p)
    /\ channel' = [channel EXCEPT ![p] = Tail(@)]
    /\ UNCHANGED <<topic, broken, cache, tpc, treq, tanswer, walk, aliases, calls, answered>>

\* The connection ends, and with it what the server has not received.
Disconnects(p) ==
    /\ p \in Breaking[topic]
    /\ broken' = broken \cup {p}
    /\ \E n \in 0 .. Len(channel[p]) :
          /\ pc[p] = "idle" \/ n > 0
          /\ channel' = [channel EXCEPT ![p] = SubSeq(@, 1, n)]
    /\ UNCHANGED <<ramVars, topic, cache, treq, tanswer, walk, aliases, calls, answered>>

\* The receive loop of the client ends, and calls nobody back.
Break(p) == p \notin broken /\ Disconnects(p) /\ UNCHANGED tpc

\* The process is gone, with all of its threads.
Ends(p) ==
    /\ Disconnects(p)
    /\ tpc' = [u \in Threads |-> IF ProcessOf[u] = p THEN "gone" ELSE tpc[u]]

\* An error comes instead of a response: "This should be really critical and kill the
\* caller."
messageTransferErrorCB(p) == channel[p] # << >> /\ p \notin broken /\ Ends(p)

\* cv.wait without a predicate returns without a notification.
SpuriousWakeUp(t) == tpc[t] \in {"wait", "waitOnly"} /\ Ends(ProcessOf[t])

\* The result goes into the cache, unless a racing writer displaces it.
Store(t) ==
    LET p == ProcessOf[t]
        new == Stored(cache[p], treq[t], tanswer[t])
    IN  /\ tpc[t] = "store"
        /\ \/ cache' = [cache EXCEPT ![p] = new]
           \/ Racing(t) /\ UNCHANGED cache
        /\ Finish(t, tanswer[t])
        /\ UNCHANGED <<ramVars, topic, broken, channel, walk, aliases, calls>>

\* A thread of the daemon calls the topology directly.
LocalCall(d, r) ==
    /\ calls < MaxCalls[topic]
    /\ calls' = calls + 1
    /\ Call(d, r)
    /\ UNCHANGED <<topic, broken, cache, clientVars, walk, aliases, answered>>

LocalReturn(d) ==
    /\ Taken(d)
    /\ Record(d, req[d], answer[d])
    /\ UNCHANGED <<topic, broken, cache, clientVars, walk, aliases, calls>>

-----------------------------------------------------------------------------
(* Paths.  A path function makes several calls: for each component the     *)
(* type of the relation, then the object or the relation.                  *)

Walking(t) == tpc[t] = "idle" /\ walk[t] # NoWalk
Here(t) == walk[t].path[walk[t].i]

\* The result of the last call; no null pointer.
TheAnswer(t) == CHOOSE x \in tanswer[t] : TRUE

WalkStart(t, kind, path) ==
    /\ calls < MaxCalls[topic] /\ walk[t] = NoWalk
    /\ calls' = calls + 1
    /\ walk' = [walk EXCEPT ![t] = [path |-> path, kind |-> kind, i |-> 1, stage |-> "type",
                                    parent |-> Root, relation |-> 0]]
    /\ Ask(t, [op |-> IF kind = "register" THEN "registerType" ELSE "lookupTypeByName",
               name |-> path[1].relation])

\* The function returns object o.
WalkEnd(t, o) ==
    /\ Record(t, [op |-> "path", kind |-> walk[t].kind, path |-> walk[t].path], o)
    /\ walk' = [walk EXCEPT ![t] = NoWalk]
    /\ UNCHANGED <<ramVars, topic, broken, cache, clientVars, aliases, calls>>

\* The next call of the function, in the given stage.
WalkCall(t, w, r) ==
    /\ walk' = [walk EXCEPT ![t] = w]
    /\ Ask(t, r)
    /\ UNCHANGED calls

\* On to the next component below object id.
WalkDown(t, id) ==
    LET w == walk[t]
    IN  WalkCall(t, [w EXCEPT !.i = @ + 1, !.parent = id, !.stage = "type"],
                 [op |-> IF w.kind = "register" THEN "registerType" ELSE "lookupTypeByName",
                  name |-> w.path[w.i + 1].relation])

registerObjectByPath(t) ==
    LET w == walk[t]
    IN  /\ Walking(t) /\ w.kind = "register"
        /\ \/ /\ w.stage = "type"
              /\ WalkCall(t, [w EXCEPT !.stage = "child", !.relation = TheAnswer(t).id],
                          [op |-> "registerType",
                           name |-> IF Here(t).type = AnyName THEN Here(t).relation
                                    ELSE Here(t).type])
           \/ /\ w.stage = "child"
              /\ WalkCall(t, [w EXCEPT !.stage = "object"],
                          [op |-> "registerObject", parent |-> w.parent,
                           relation |-> w.relation, name |-> Here(t).name,
                           type |-> TheAnswer(t).id])
           \/ /\ w.stage = "object"
              /\ IF tanswer[t] = {} \/ w.i = Len(w.path) THEN WalkEnd(t, tanswer[t])
                 ELSE WalkDown(t, TheAnswer(t).id)

lookupObjectByPath(t) ==
    LET w == walk[t]
    IN  /\ Walking(t) /\ w.kind = "lookup"
        /\ IF tanswer[t] = {} THEN WalkEnd(t, {})
           ELSE
           \/ /\ w.stage = "type"
              /\ WalkCall(t, [w EXCEPT !.stage = "child"],
                          [op |-> "lookupRelation", parent |-> w.parent,
                           relation |-> TheAnswer(t).id, name |-> Here(t).name])
           \/ /\ w.stage = "child"
              /\ IF Here(t).type = AnyName /\ w.i < Len(w.path)
                 THEN WalkDown(t, TheAnswer(t).child)
                 ELSE WalkCall(t, [w EXCEPT !.stage = "object", !.parent = TheAnswer(t).child],
                               [op |-> "lookupObjectById", id |-> TheAnswer(t).child])
           \/ /\ w.stage = "object"
              /\ IF Here(t).type = AnyName THEN WalkEnd(t, tanswer[t])
                 ELSE WalkCall(t, [w EXCEPT !.stage = "check", !.relation = TheAnswer(t).type],
                               [op |-> "lookupTypeByName", name |-> Here(t).type])
           \/ /\ w.stage = "check"
              /\ IF TheAnswer(t).id # w.relation THEN WalkEnd(t, {})
                 ELSE IF w.i = Len(w.path)
                 THEN WalkEnd(t, {[id |-> w.parent, type |-> w.relation]})
                 ELSE WalkDown(t, w.parent)

-----------------------------------------------------------------------------
(* Aliases.  setAlias checks the value under the shared lock and sets the  *)
(* alias later, under the exclusive one.                                   *)

\* The loop of parsePathComponent, n rounds of it: does value v of process p
\* lead to a component?
Expands(p, v) ==
    LET f[n \in 0 .. Cardinality(AliasNames)] ==
            IF n = 0 THEN v
            ELSE IF f[n - 1] \in DOMAIN aliases[p] THEN aliases[p][f[n - 1]] ELSE f[n - 1]
    IN  f[Cardinality(AliasNames)] = Component

setAliasCheck(t, name, value) ==
    /\ calls < MaxCalls[topic] /\ tpc[t] = "idle" /\ walk[t] = NoWalk
    /\ calls' = calls + 1
    /\ Expands(ProcessOf[t], value)
    /\ treq' = [treq EXCEPT ![t] = [op |-> "setAlias", name |-> name, value |-> value]]
    /\ tpc' = [tpc EXCEPT ![t] = "alias"]
    /\ UNCHANGED <<ramVars, topic, broken, cache, channel, tanswer, walk, aliases, answered>>

\* Mutant: an alias may be set to another value.
setAliasOverwrites(t) ==
    LET p == ProcessOf[t]
        n == treq[t].name
    IN  /\ tpc[t] = "alias"
        /\ aliases' = [aliases EXCEPT ![p] =
               [x \in DOMAIN @ \cup {n} |-> IF x = n THEN treq[t].value ELSE @[x]]]
        /\ Finish(t, {Success})
        /\ UNCHANGED <<ramVars, topic, broken, cache, channel, walk, calls>>

\* "Once set, an alias must not be changed."
setAliasInsert(t) ==
    LET p == ProcessOf[t]
        n == treq[t].name
        allowed == n \in DOMAIN aliases[p] => aliases[p][n] = treq[t].value
    IN  /\ tpc[t] = "alias"
        /\ aliases' = IF ~allowed THEN aliases
                      ELSE [aliases EXCEPT ![p] =
                              [x \in DOMAIN @ \cup {n} |->
                                  IF x = n THEN treq[t].value ELSE @[x]]]
        /\ Finish(t, IF allowed THEN {Success} ELSE {})
        /\ UNCHANGED <<ramVars, topic, broken, cache, channel, walk, calls>>

-----------------------------------------------------------------------------
\* The topology is empty, or the daemon has registered an object below the root.
StoreInit ==
    \/ RamInit
    \/ /\ topic \in {"objects", "values"}
       /\ \E t \in RelationIds, n \in ChildNames, o \in RelationIds :
             LET r == [parent |-> Root, type |-> t, name |-> n, child |-> 1]
             IN  /\ objects = <<o>> /\ childMaps = {r} /\ parentVectors = << <<r>> >>
                 /\ types = << >> /\ attributes = << >>
                 /\ attributeMaps = [k \in {} |-> k]
                 /\ pc = [c \in Callers |-> "idle"]
                 /\ req = [c \in Callers |-> NoCall]
                 /\ answer = [c \in Callers |-> {}]

Init ==
    /\ topic \in Topics
    /\ StoreInit
    /\ cache = [p \in Processes |-> EmptyCache]
    /\ broken = {} /\ channel = [p \in Processes |-> << >>]
    /\ tpc = [t \in Threads |-> "idle"]
    /\ treq = [t \in Threads |-> NoCall]
    /\ tanswer = [t \in Threads |-> {}]
    /\ walk = [t \in Threads |-> NoWalk]
    /\ aliases = [p \in Processes |-> [n \in {} |-> n]]
    /\ calls = 0 /\ answered = {}

Calls ==
    CASE topic = "types" -> TypeCalls(MaxId)
      [] topic = "objects" -> ObjectCalls(MaxId)
      [] topic = "attributes" -> AttributeCalls(MaxId)
      [] topic = "values" -> ValueCalls(MaxId)
      [] OTHER -> {}

\* The network forwarder cannot enumerate.
LocalCalls ==
    CASE topic = "objects" -> EnumerateCalls(MaxId)
      [] topic = "values" -> Calls
            \cup [op : {"enumerateAttributes"}, object : 0 .. MaxId]
      [] OTHER -> Calls

ThreadStep(t) ==
    Lookup(t) \/ Forward(t) \/ Store(t) \/ registerObjectByPath(t) \/ lookupObjectByPath(t)
    \/ setAliasInsert(t)

\* The connection of p delivers; where it is up, a thread is called.
ServerStep(p) == messageReceivedCB(p) \/ messageResponseCB(p) \/ ResponseLost(p)

Failure(p) ==
    Break(p) \/ messageTransferErrorCB(p) \/ \E t \in Threads : ProcessOf[t] = p /\ SpuriousWakeUp(t)

RamStep(c) ==
    Step(c) /\ UNCHANGED <<topic, broken, cache, clientVars, walk, aliases, calls, answered>>

Next ==
    \/ \E t \in Threads : ThreadStep(t)
    \/ \E t \in Threads : \E r \in Calls : Request(t, r)
    \/ topic = "paths" /\ \E t \in Threads, path \in Paths, kind \in {"register", "lookup"} :
          WalkStart(t, kind, path)
    \/ topic = "aliases" /\ \E t \in Threads, n \in AliasNames, v \in AliasNames \cup {Component} :
          setAliasCheck(t, n, v)
    \/ \E p \in Processes : ServerStep(p) \/ Failure(p)
    \/ \E c \in Callers : RamStep(c)
    \/ \E d \in Locals : LocalReturn(d) \/ \E r \in LocalCalls : LocalCall(d, r)

Spec == Init /\ [][Next]_vars

\* Threads inside a function go on, in the clients and in the daemon; nobody has to
\* call anything, and no connection has to deliver.
FairSpec ==
    /\ Spec
    /\ \A t \in Threads : WF_vars(ThreadStep(t))
    /\ \A c \in Callers : WF_vars(RamStep(c))

-----------------------------------------------------------------------------
(* Properties.                                                             *)

\* Answers that did not come from the relation cache.
Direct(x) == x.who \in Locals \/ ProcessOf[x.who] \notin Cached

\* Whatever a call returned is, and remains, an entry of the daemon's topology
\* as it was returned: no answer is made up on the way, nor a relation shown
\* that is not yet in both containers.
AnswersExist ==
    \A x \in answered : \A a \in x.answer :
        CASE x.req.op \in {"registerType", "lookupTypeByName", "lookupTypeById"} ->
                a \in TypesNamed(a.name)
          [] x.req.op \in {"registerObject", "lookupObjectById", "path"} -> a \in ObjectById(a.id)
          [] x.req.op \in {"registerRelation", "lookupRelation", "enumerateChildren",
                           "enumerateParents"} -> a \in Linked
          [] x.req.op \in {"registerAttribute", "lookupAttributeByName",
                           "lookupAttributeById"} ->
                a \in AttributesNamed(a.attribute.domain, a.attribute.name)
          [] OTHER -> TRUE

\* Two completed calls agree: the same type name, the same attribute key and,
\* without the cache, the same child key or path mean the same identifier, and
\* different ones different identifiers (of types and attributes), whatever the
\* processes, threads and caches the calls went through; and what was returned
\* exists (AnswersExist).
AnswersAgree ==
    /\ AnswersExist
    /\ \A x, y \in answered : \A a \in x.answer, b \in y.answer :
        /\ {x.req.op, y.req.op} \subseteq {"registerType", "lookupTypeByName", "lookupTypeById"}
           => (a.id = b.id <=> a.name = b.name)
        /\ {x.req.op, y.req.op} \subseteq
              {"registerAttribute", "lookupAttributeByName", "lookupAttributeById"}
           => (a.id = b.id <=> <<a.attribute.domain, a.attribute.name>>
                               = <<b.attribute.domain, b.attribute.name>>)
        /\ x.req.op = "registerObject" /\ y.req.op = "registerObject" /\ Direct(x) /\ Direct(y)
           => (x.req.parent = y.req.parent /\ x.req.relation = y.req.relation
               /\ x.req.name = y.req.name => a = b)
        /\ x.req.op = "path" /\ y.req.op = "path" /\ Direct(x) /\ Direct(y)
              /\ x.req.path = y.req.path
           => a = b

\* Every alias that is set leads to a component, so the loop of
\* parsePathComponent, which runs under the lock, ends.
AliasesExpand == \A p \in Processes : \A n \in DOMAIN aliases[p] : Expands(p, n)

\* A request or a response is on its way.
InTransit(p) == channel[p] # << >> /\ pc[p] \in {"idle", "done"}

\* A thread that called the topology comes back, from a path function too, unless its
\* connection breaks (or its process is gone with it): provided that requests and
\* responses do not stay on their way for ever.  On a connection that has broken it
\* waits for ever, as nobody calls back the requests that have got no response.
CallsReturn ==
    \A t \in Threads :
        []<>~InTransit(ProcessOf[t]) =>
            []<>(\/ tpc[t] = "idle" /\ walk[t] = NoWalk
                 \/ ProcessOf[t] \in broken)

-----------------------------------------------------------------------------
(* The inductive invariant of the aliases.                                 *)

Places == {"idle", "lookup", "wait", "waitOnly", "store", "alias", "gone"}

\* Values lead downwards, to a component in the end.
Descending(p, rank) ==
    \A n \in DOMAIN aliases[p] :
        \/ aliases[p][n] = Component
        \/ aliases[p][n] \in DOMAIN aliases[p] /\ rank[aliases[p][n]] < rank[n]

AliasInv ==
    /\ tpc \in [Threads -> Places] /\ DOMAIN treq = Threads /\ DOMAIN aliases = Processes
    /\ \A p \in Processes :
          /\ DOMAIN aliases[p] \subseteq AliasNames
          /\ \E rank \in [DOMAIN aliases[p] -> 1 .. Cardinality(DOMAIN aliases[p])] : Descending(p, rank)
    \* What was checked before the insertion is still there.
    /\ \A t \in Threads : tpc[t] = "alias" =>
          /\ treq[t].name \in AliasNames
          /\ treq[t].value \in DOMAIN aliases[ProcessOf[t]] \cup {Component}
=============================================================================
