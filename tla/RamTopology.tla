---------------------------- MODULE RamTopology ----------------------------
(***************************************************************************)
(* The topology in memory (RamTopology.cpp).  Every register function      *)
(* looks under a shared lock ("find"), allocates without a lock and looks  *)
(* again under the exclusive lock ("insert"), so that two callers may race *)
(* for the same key.  registerRelation writes two containers: it keeps the *)
(* lock of the child map until the parent vector has the relation too      *)
(* ("link").  All other critical sections are one step.                    *)
(*                                                                         *)
(* The pointers a call fetches under objectsLock stay valid, as objects    *)
(* are never removed, so the fetch belongs to the step that uses them.  A  *)
(* smart pointer is the set of what it refers to: {} is the null pointer.  *)
(* Identifiers of types are not checked by the code; TypeIds are those the *)
(* callers use.                                                            *)
(***************************************************************************)
EXTENDS Naturals, Sequences

CONSTANTS
    Callers,               \* threads inside the topology
    Names,                 \* names of types, children and attributes
    TypeIds, AttributeIds, \* identifiers passed by callers
    RelationIds,           \* the types used for relations
    ChildNames,            \* the names used for children
    Datatypes, Values

AnyType == 0
Root == 0

ASSUME TopologyAssumption ==
    /\ TypeIds \subseteq Nat \ {AnyType} /\ RelationIds \subseteq TypeIds
    /\ ChildNames \subseteq Names
    /\ AttributeIds \subseteq Nat \ {0}

VARIABLES
    types,          \* typesById; typesByName is its inverse
    objects,        \* objectsById
    childMaps,      \* the entries of all child maps
    parentVectors,  \* parentVectorsById
    attributes,     \* attributesById
    attributeMaps,  \* from <<object, attribute>> to the value
    pc,             \* pc[c]: idle, find, insert, link or done
    req,            \* req[c]: the call, a record with its arguments
    answer          \* answer[c]: the result of the call

store == <<types, objects, childMaps, parentVectors, attributes, attributeMaps>>
ramVars == <<store, pc, req, answer>>

-----------------------------------------------------------------------------
At(c, l, op) == pc[c] = l /\ req[c].op = op

Return(c, a) ==
    /\ pc' = [pc EXCEPT ![c] = "done"]
    /\ answer' = [answer EXCEPT ![c] = a]
    /\ UNCHANGED req

Proceed(c, l) == pc' = [pc EXCEPT ![c] = l] /\ UNCHANGED <<req, answer>>

Id == 1 .. Len(objects)

\* setAttribute returns true; false is {}.
Success == [ok |-> TRUE]

TypesNamed(n) == {[id |-> i, name |-> n] : i \in {j \in DOMAIN types : types[j] = n}}

\* childMap->at( childKey )
RelationsAt(p, t, n) == {r \in childMaps : r.parent = p /\ r.type = t /\ r.name = n}

\* Mutant: the child map is unlocked before the parent vector is written.
MapFreeAlways(p) == TRUE

\* Nobody holds the exclusive lock of p's child map.
MapFree(p) == \A c \in Callers : ~(At(c, "link", "registerRelation") /\ req[c].parent = p)

ObjectById(i) == {[id |-> j, type |-> objects[j]] : j \in {i} \cap Id}

\* The relation that a call of registerRelation is about.
NewRelation(r) ==
    [parent |-> r.parent, type |-> r.relation, name |-> r.name, child |-> r.child]

AttributesNamed(d, n) ==
    {[id |-> i, attribute |-> attributes[i]] :
        i \in {j \in DOMAIN attributes : attributes[j].domain = d /\ attributes[j].name = n}}

ValueOf(o, a) == {[value |-> attributeMaps[k]] : k \in {<<o, a>>} \cap DOMAIN attributeMaps}

-----------------------------------------------------------------------------
(* Types.                                                                  *)

registerTypeFind(c) ==
    /\ At(c, "find", "registerType")
    /\ LET found == TypesNamed(req[c].name)
       IN  IF found # {} THEN Return(c, found) ELSE Proceed(c, "insert")
    /\ UNCHANGED store

\* Mutant: nobody else can have registered the type in the meantime.
registerTypeInsertUnchecked(c) ==
    /\ At(c, "insert", "registerType")
    /\ types' = Append(types, req[c].name)
    /\ Return(c, {[id |-> Len(types) + 1, name |-> req[c].name]})
    /\ UNCHANGED <<objects, childMaps, parentVectors, attributes, attributeMaps>>

registerTypeInsert(c) ==
    /\ At(c, "insert", "registerType")
    /\ LET n == req[c].name
           found == TypesNamed(n)
       IN  IF found # {}
           THEN Return(c, found) /\ UNCHANGED types
           ELSE /\ types' = Append(types, n)
                /\ Return(c, {[id |-> Len(types) + 1, name |-> n]})
    /\ UNCHANGED <<objects, childMaps, parentVectors, attributes, attributeMaps>>

lookupTypeByName(c) ==
    /\ At(c, "find", "lookupTypeByName")
    /\ Return(c, TypesNamed(req[c].name))
    /\ UNCHANGED store

lookupTypeById(c) ==
    /\ At(c, "find", "lookupTypeById")
    /\ Return(c, {[id |-> i, name |-> types[i]] : i \in {req[c].id} \cap DOMAIN types})
    /\ UNCHANGED store

-----------------------------------------------------------------------------
(* Objects and relations.                                                  *)

\* The object behind an existing relation, if it has the type asked for.
Existing(found, t) == {o \in UNION {ObjectById(r.child) : r \in found} : o.type = t}

registerObjectFind(c) ==
    /\ At(c, "find", "registerObject")
    /\ LET r == req[c]
           found == RelationsAt(r.parent, r.relation, r.name)
       IN  IF r.parent \notin Id \cup {Root} THEN Return(c, {})
           ELSE /\ MapFree(r.parent)
                /\ IF found # {} THEN Return(c, Existing(found, r.type))
                   ELSE Proceed(c, "insert")
    /\ UNCHANGED store

registerObjectInsert(c) ==
    /\ At(c, "insert", "registerObject")
    /\ MapFree(req[c].parent)
    /\ LET r == req[c]
           found == RelationsAt(r.parent, r.relation, r.name)
           id == Len(objects) + 1
           new == [parent |-> r.parent, type |-> r.relation, name |-> r.name, child |-> id]
       IN  IF found # {}
           THEN /\ Return(c, Existing(found, r.type))
                /\ UNCHANGED <<objects, childMaps, parentVectors>>
           ELSE /\ objects' = Append(objects, r.type)
                /\ childMaps' = childMaps \cup {new}
                /\ parentVectors' = Append(parentVectors, <<new>>)
                /\ Return(c, {[id |-> id, type |-> r.type]})
    /\ UNCHANGED <<types, attributes, attributeMaps>>

lookupObjectById(c) ==
    /\ At(c, "find", "lookupObjectById")
    /\ Return(c, ObjectById(req[c].id))
    /\ UNCHANGED store

\* An existing relation must lead to the same child.
registerRelationFind(c) ==
    /\ At(c, "find", "registerRelation")
    /\ LET r == req[c]
           found == RelationsAt(r.parent, r.relation, r.name)
       IN  IF r.child \notin Id \/ r.parent \notin Id \cup {Root} THEN Return(c, {})
           ELSE /\ MapFree(r.parent)
                /\ IF found # {} THEN Return(c, {x \in found : x.child = r.child})
                   ELSE Proceed(c, "insert")
    /\ UNCHANGED store

\* The relation enters the child map, whose lock is retained.
registerRelationInsert(c) ==
    /\ At(c, "insert", "registerRelation")
    /\ MapFree(req[c].parent)
    /\ LET r == req[c]
           found == RelationsAt(r.parent, r.relation, r.name)
       IN  IF found # {}
           THEN Return(c, {x \in found : x.child = r.child}) /\ UNCHANGED childMaps
           ELSE /\ childMaps' = childMaps \cup {NewRelation(r)}
                /\ Proceed(c, "link")
    /\ UNCHANGED <<types, objects, parentVectors, attributes, attributeMaps>>

\* It enters the parent vector, and the child map is unlocked.
registerRelationLink(c) ==
    /\ At(c, "link", "registerRelation")
    /\ parentVectors' = [parentVectors EXCEPT ![req[c].child] = Append(@, NewRelation(req[c]))]
    /\ Return(c, {NewRelation(req[c])})
    /\ UNCHANGED <<types, objects, childMaps, attributes, attributeMaps>>

lookupRelation(c) ==
    /\ At(c, "find", "lookupRelation")
    /\ MapFree(req[c].parent)
    /\ Return(c, RelationsAt(req[c].parent, req[c].relation, req[c].name))
    /\ UNCHANGED store

enumerateChildren(c) ==
    /\ At(c, "find", "enumerateChildren")
    /\ MapFree(req[c].id)
    /\ Return(c, {r \in childMaps : /\ r.parent = req[c].id
                                    /\ req[c].relation \in {AnyType, r.type}})
    /\ UNCHANGED store

\* The lock of the parent vector is all it takes.
enumerateParents(c) ==
    /\ At(c, "find", "enumerateParents")
    /\ LET linked == IF req[c].id \in Id
                     THEN {parentVectors[req[c].id][i] : i \in DOMAIN parentVectors[req[c].id]}
                     ELSE {}
       IN  Return(c, {r \in linked : req[c].relation \in {AnyType, r.type}})
    /\ UNCHANGED store

-----------------------------------------------------------------------------
(* Attributes and their values.                                            *)

\* The datatype must be the registered one.
OfDatatype(found, dt) == {x \in found : x.attribute.datatype = dt}

registerAttributeFind(c) ==
    /\ At(c, "find", "registerAttribute")
    /\ LET found == AttributesNamed(req[c].domain, req[c].name)
       IN  IF found # {} THEN Return(c, OfDatatype(found, req[c].datatype))
           ELSE Proceed(c, "insert")
    /\ UNCHANGED store

registerAttributeInsert(c) ==
    /\ At(c, "insert", "registerAttribute")
    /\ LET r == req[c]
           found == AttributesNamed(r.domain, r.name)
           new == [domain |-> r.domain, name |-> r.name, datatype |-> r.datatype]
       IN  IF found # {}
           THEN Return(c, OfDatatype(found, r.datatype)) /\ UNCHANGED attributes
           ELSE /\ attributes' = Append(attributes, new)
                /\ Return(c, {[id |-> Len(attributes) + 1, attribute |-> new]})
    /\ UNCHANGED <<types, objects, childMaps, parentVectors, attributeMaps>>

lookupAttributeByName(c) ==
    /\ At(c, "find", "lookupAttributeByName")
    /\ Return(c, AttributesNamed(req[c].domain, req[c].name))
    /\ UNCHANGED store

lookupAttributeById(c) ==
    /\ At(c, "find", "lookupAttributeById")
    /\ Return(c, {[id |-> i, attribute |-> attributes[i]] :
                     i \in {req[c].id} \cap DOMAIN attributes})
    /\ UNCHANGED store

setAttributeFind(c) ==
    /\ At(c, "find", "setAttribute")
    /\ IF req[c].object \notin Id THEN Return(c, {})
       ELSE IF ValueOf(req[c].object, req[c].attribute) = {[value |-> req[c].value]}
       THEN Return(c, {Success})
       ELSE Proceed(c, "insert")
    /\ UNCHANGED store

setAttributeInsert(c) ==
    /\ At(c, "insert", "setAttribute")
    /\ LET key == <<req[c].object, req[c].attribute>>
       IN  attributeMaps' = [k \in DOMAIN attributeMaps \cup {key} |->
                                IF k = key THEN req[c].value ELSE attributeMaps[k]]
    /\ Return(c, {Success})
    /\ UNCHANGED <<types, objects, childMaps, parentVectors, attributes>>

getAttribute(c) ==
    /\ At(c, "find", "getAttribute")
    /\ Return(c, ValueOf(req[c].object, req[c].attribute))
    /\ UNCHANGED store

enumerateAttributes(c) ==
    /\ At(c, "find", "enumerateAttributes")
    /\ Return(c, {[attribute |-> k[2], value |-> attributeMaps[k]] :
                     k \in {x \in DOMAIN attributeMaps : x[1] = req[c].object}})
    /\ UNCHANGED store

-----------------------------------------------------------------------------
(* A call begins with its arguments and ends when the caller takes the     *)
(* result.                                                                 *)

\* The calls; ids are those up to the bound i.
TypeCalls(i) ==
    [op : {"registerType", "lookupTypeByName"}, name : Names]
    \cup [op : {"lookupTypeById"}, id : 0 .. i]
ObjectCalls(i) ==
    [op : {"registerObject"}, parent : 0 .. i, relation : RelationIds, name : ChildNames, type : TypeIds]
    \cup [op : {"lookupObjectById"}, id : 0 .. i]
    \cup [op : {"registerRelation"}, parent : 0 .. i, relation : RelationIds, name : ChildNames,
          child : 0 .. i]
    \cup [op : {"lookupRelation"}, parent : 0 .. i, relation : RelationIds, name : ChildNames]
EnumerateCalls(i) ==
    [op : {"enumerateChildren", "enumerateParents"}, id : 0 .. i,
     relation : RelationIds \cup {AnyType}]
AttributeCalls(i) ==
    [op : {"registerAttribute"}, domain : RelationIds, name : Names, datatype : Datatypes]
    \cup [op : {"lookupAttributeByName"}, domain : RelationIds, name : Names]
    \cup [op : {"lookupAttributeById"}, id : 0 .. i]
ValueCalls(i) ==
    [op : {"setAttribute"}, object : 0 .. i, attribute : AttributeIds, value : Values]
    \cup [op : {"getAttribute"}, object : 0 .. i, attribute : AttributeIds]

NoCall == [op |-> "none"]

Call(c, r) ==
    /\ pc[c] = "idle"
    /\ pc' = [pc EXCEPT ![c] = "find"]
    /\ req' = [req EXCEPT ![c] = r]
    /\ UNCHANGED <<store, answer>>

Taken(c) ==
    /\ pc[c] = "done"
    /\ pc' = [pc EXCEPT ![c] = "idle"]
    /\ req' = [req EXCEPT ![c] = NoCall]
    /\ answer' = [answer EXCEPT ![c] = {}]
    /\ UNCHANGED store

RamInit ==
    /\ types = << >> /\ objects = << >> /\ parentVectors = << >> /\ attributes = << >>
    /\ childMaps = {}
    /\ attributeMaps = [k \in {} |-> k]
    /\ pc = [c \in Callers |-> "idle"]
    /\ req = [c \in Callers |-> NoCall]
    /\ answer = [c \in Callers |-> {}]

Step(c) ==
    \/ registerTypeFind(c) \/ registerTypeInsert(c)
    \/ lookupTypeByName(c) \/ lookupTypeById(c)
    \/ registerObjectFind(c) \/ registerObjectInsert(c) \/ lookupObjectById(c)
    \/ registerRelationFind(c) \/ registerRelationInsert(c) \/ registerRelationLink(c)
    \/ lookupRelation(c) \/ enumerateChildren(c) \/ enumerateParents(c)
    \/ registerAttributeFind(c) \/ registerAttributeInsert(c)
    \/ lookupAttributeByName(c) \/ lookupAttributeById(c)
    \/ setAttributeFind(c) \/ setAttributeInsert(c) \/ getAttribute(c)
    \/ enumerateAttributes(c)

-----------------------------------------------------------------------------
(* Properties.                                                             *)

In(vectors) == UNION {{vectors[i][j] : j \in DOMAIN vectors[i]} : i \in DOMAIN vectors}
Linked == In(parentVectors)

\* "It is important to retain the childMap lock at this point to ensure that no
\* inconsistent state becomes visible": a relation that some thread may read
\* in a child map is in the parent vector of its child, once, and the other way
\* round; every object has a parent; a key leads to one child.
RelationsMirrored ==
    /\ Len(parentVectors) = Len(objects)
    /\ Linked \subseteq childMaps
    /\ \A r \in childMaps :
          /\ r.child \in Id
          /\ RelationsAt(r.parent, r.type, r.name) = {r}
          /\ MapFree(r.parent) => r \in Linked
    /\ \A i \in Id :
          /\ parentVectors[i] # << >>
          /\ \A j, k \in DOMAIN parentVectors[i] :
                /\ parentVectors[i][j].child = i
                /\ parentVectors[i][j] = parentVectors[i][k] => j = k

\* A relation counts from the moment it is in both containers.
Abstract == INSTANCE Topology WITH relations <- Linked, values <- attributeMaps

\* The locks make every call one step of the abstract topology, which starts
\* where this one does: registered names stay bound to their identifiers and
\* objects to their type and relations.
ImplementsTopology == [][Abstract!Next]_(Abstract!vars)

-----------------------------------------------------------------------------
(* The topology alone, called with every argument, and the inductive       *)
(* strengthening of RelationsMirrored.                                     *)

CallsUpTo(i) ==
    TypeCalls(i) \cup ObjectCalls(i) \cup EnumerateCalls(i) \cup AttributeCalls(i)
    \cup ValueCalls(i) \cup [op : {"enumerateAttributes"}, object : 0 .. i]

RamNext ==
    \E c \in Callers : Step(c) \/ Taken(c) \/ \E i \in Nat : \E r \in CallsUpTo(i) : Call(c, r)

RamSpec == RamInit /\ [][RamNext]_ramVars

\* The containers and the calls have their types, ...
Relation == [parent : Nat, type : TypeIds, name : Names, child : Nat]

StoreOK ==
    /\ types \in Seq(Names) /\ objects \in Seq(TypeIds)
    /\ childMaps \subseteq Relation /\ parentVectors \in Seq(Seq(Relation))
    /\ attributes \in Seq([domain : TypeIds, name : Names, datatype : Datatypes])
    /\ pc \in [Callers -> {"idle", "find", "insert", "link", "done"}]
    /\ req = [c \in Callers |-> req[c]]

\* ... as have the arguments, and what a call found holds when it inserts; one that
\* is between the two containers has its relation in the first one only, ...
ArgumentsOK(r) ==
    /\ r.op = "registerType" => r.name \in Names
    /\ r.op \in {"registerObject", "registerRelation"} =>
          r.parent \in Nat /\ r.relation \in TypeIds /\ r.name \in Names
    /\ r.op = "registerObject" => r.type \in TypeIds
    /\ r.op = "registerRelation" => r.child \in Nat
    /\ r.op = "registerAttribute" =>
          r.domain \in TypeIds /\ r.name \in Names /\ r.datatype \in Datatypes
    /\ r.op = "setAttribute" => r.attribute \in AttributeIds /\ r.value \in Values

CallOK(c) ==
    /\ pc[c] \in {"find", "insert", "link"} => ArgumentsOK(req[c])
    /\ pc[c] \in {"insert", "link"} =>
          /\ req[c].op \in {"registerObject", "registerRelation"} => req[c].parent \in Id \cup {Root}
          /\ req[c].op = "registerRelation" => req[c].child \in Id
          /\ req[c].op = "setAttribute" => req[c].object \in Id
    /\ pc[c] = "link" =>
          req[c].op = "registerRelation" /\ NewRelation(req[c]) \in childMaps \ Linked

\* ... no two of them have the same parent, and nothing else is in one container
\* only.
LinkInv ==
    /\ \A c, d \in Callers :
          pc[c] = "link" /\ pc[d] = "link" /\ req[c].parent = req[d].parent => c = d
    /\ \A r \in childMaps \ Linked : \E c \in Callers : pc[c] = "link" /\ r = NewRelation(req[c])

MirrorInv ==
    /\ Len(parentVectors) = Len(objects) /\ Linked \subseteq childMaps
    /\ \A r, s \in childMaps :
          r.parent = s.parent /\ r.type = s.type /\ r.name = s.name => r = s
    /\ \A r \in childMaps : r.child \in Id
    /\ \A i \in Id :
          /\ parentVectors[i] # << >>
          /\ \A j, k \in DOMAIN parentVectors[i] :
                /\ parentVectors[i][j].child = i
                /\ parentVectors[i][j] = parentVectors[i][k] => j = k

IInv == StoreOK /\ (\A c \in Callers : CallOK(c)) /\ LinkInv /\ MirrorInv
=============================================================================
