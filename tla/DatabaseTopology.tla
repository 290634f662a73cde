-------------------------- MODULE DatabaseTopology --------------------------
(***************************************************************************)
(* The topology in a PostgreSQL database shared by processes               *)
(* (DatabaseTopology.cpp, tables of schema.sql).  A register function      *)
(* selects, and inserts what it did not find.  The transactions are read   *)
(* committed: between the two statements other processes commit.  The      *)
(* UNIQUE constraints refuse a second row for a key: the exception leaves  *)
(* a function declared throw(), which terminates the process.              *)
(* registerObject inserts the object in one transaction and its relation   *)
(* in a second one.  A process may also die at any time.                   *)
(*                                                                         *)
(* Every process calls from one thread, as a connection has one            *)
(* transaction at a time.  A result is the set of what it refers to.       *)
(***************************************************************************)
EXTENDS Naturals, FiniteSets

CONSTANTS
    Processes,
    Names,            \* names of types, children and attributes
    TypeIds, RelationIds, Domains,  \* types of objects, of relations, of attributes' domains
    Datatypes, Values,
    MaxRows,          \* bound: serial numbers of a table
    MaxCalls          \* bound: calls of each process

VARIABLES
    type, object, relation, attribute, value,  \* the tables: sets of rows
    serial,    \* serial[table]: the last number given out
    pc,        \* pc[p]: idle, select, insert, relate, link, dead
    req,       \* req[p]: the call
    made,      \* made[p]: the object registerObject has inserted
    calls,     \* calls[p]: calls made
    answers,   \* history: the registrations that returned
    part       \* which tables the processes use

tables == <<type, object, relation, attribute, value, serial>>
vars == <<tables, pc, req, made, calls, answers, part>>

Registrations == {"registerType", "registerObject", "registerRelation", "registerAttribute"}
Root == 0
NoCall == [op |-> "none"]

-----------------------------------------------------------------------------
Go(p, l) == pc' = [pc EXCEPT ![p] = l] /\ UNCHANGED <<req, made, answers, part>>

\* The call returns a; isNew: it has inserted what it returns.
Return(p, a, isNew) ==
    /\ pc' = [pc EXCEPT ![p] = "idle"]
    /\ req' = [req EXCEPT ![p] = NoCall]
    /\ made' = [made EXCEPT ![p] = 0]
    /\ answers' = IF req[p].op \in Registrations
                  THEN answers \cup {[who |-> p, req |-> req[p], answer |-> a,
                                    inserted |-> isNew]} ELSE answers
    /\ UNCHANGED part

\* A statement fails: std::terminate.
Terminate(p) == Go(p, "dead")

At(p, l, op) == pc[p] = l /\ req[p].op = op

Call(p, r) ==
    /\ pc[p] = "idle" /\ calls[p] < MaxCalls
    /\ calls' = [calls EXCEPT ![p] = @ + 1]
    /\ pc' = [pc EXCEPT ![p] = "select"]
    /\ req' = [req EXCEPT ![p] = r]
    /\ UNCHANGED <<tables, made, answers, part>>

\* A serial number is used up by every insert.
NextId(t) == serial[t] + 1
TakeId(t) == /\ serial[t] < MaxRows
             /\ serial' = [serial EXCEPT ![t] = @ + 1]

-----------------------------------------------------------------------------
(* Types.                                                                  *)

TypesNamed(n) == {x \in type : x.name = n}

registerTypeSelect(p) ==
    /\ At(p, "select", "registerType")
    /\ LET found == TypesNamed(req[p].name)
       IN  IF found # {} THEN Return(p, found, FALSE) ELSE Go(p, "insert")
    /\ UNCHANGED <<tables, calls>>

registerTypeInsert(p) ==
    /\ At(p, "insert", "registerType")
    /\ TakeId("type")
    /\ LET new == [id |-> NextId("type"), name |-> req[p].name]
       IN  IF TypesNamed(new.name) # {} THEN Terminate(p) /\ UNCHANGED type
           ELSE type' = type \cup {new} /\ Return(p, {new}, TRUE)
    /\ UNCHANGED <<object, relation, attribute, value, calls>>

lookupType(p) ==
    /\ \/ At(p, "select", "lookupTypeByName") /\ Return(p, TypesNamed(req[p].name), FALSE)
       \/ At(p, "select", "lookupTypeById") /\ Return(p, {x \in type : x.id = req[p].id}, FALSE)
    /\ UNCHANGED <<tables, calls>>

-----------------------------------------------------------------------------
(* Objects and relations.                                                  *)

RelationsAt(r) ==
    {x \in relation : x.parent = r.parent /\ x.type = r.relation /\ x.name = r.name}

\* A known child is returned with the type asked for, which is not compared.
registerObjectSelect(p) ==
    /\ At(p, "select", "registerObject")
    /\ LET found == RelationsAt(req[p])
       IN  IF found # {}
           THEN Return(p, {[id |-> x.child, type |-> req[p].type] : x \in found}, FALSE)
           ELSE Go(p, "insert")
    /\ UNCHANGED <<tables, calls>>

\* The object is inserted and committed ...
registerObjectInsert(p) ==
    /\ At(p, "insert", "registerObject")
    /\ TakeId("object")
    /\ object' = object \cup {[id |-> NextId("object"), type |-> req[p].type]}
    /\ made' = [made EXCEPT ![p] = NextId("object")]
    /\ pc' = [pc EXCEPT ![p] = "relate"]
    /\ UNCHANGED <<type, relation, attribute, value, req, calls, answers, part>>

\* The child a relation is registered for.
TheChild(p) == IF req[p].op = "registerObject" THEN made[p] ELSE req[p].child

\* The result of the call, whose relation is in the table by now; it is built
\* from the arguments.
Related(p) ==
    IF req[p].op = "registerObject" THEN {[id |-> made[p], type |-> req[p].type]}
    ELSE {[parent |-> req[p].parent, type |-> req[p].relation, name |-> req[p].name,
           child |-> req[p].child]}

\* ... before registerRelation looks for the relation, in another transaction:
\* one that leads to another child will do.
registerRelationSelect(p) ==
    /\ At(p, "relate", "registerObject") \/ At(p, "select", "registerRelation")
    /\ IF RelationsAt(req[p]) # {}
       THEN Return(p, Related(p), req[p].op = "registerObject") ELSE Go(p, "link")
    /\ UNCHANGED <<tables, calls>>

\* Mutant: the relation is inserted without the key's constraint.
registerRelationUnconstrained(p) ==
    /\ pc[p] = "link"
    /\ relation' = relation \cup
          {[parent |-> req[p].parent, type |-> req[p].relation, name |-> req[p].name,
            child |-> TheChild(p)]}
    /\ Return(p, Related(p), TRUE)
    /\ UNCHANGED <<type, object, attribute, value, serial, calls>>

registerRelationInsert(p) ==
    /\ pc[p] = "link"
    /\ IF RelationsAt(req[p]) # {} THEN Terminate(p) /\ UNCHANGED relation
       ELSE /\ relation' = relation \cup
                  {[parent |-> req[p].parent, type |-> req[p].relation, name |-> req[p].name,
                    child |-> TheChild(p)]}
            /\ Return(p, Related(p), TRUE)
    /\ UNCHANGED <<type, object, attribute, value, serial, calls>>

lookupObjectById(p) ==
    /\ At(p, "select", "lookupObjectById")
    /\ Return(p, {x \in object : x.id = req[p].id}, FALSE)
    /\ UNCHANGED <<tables, calls>>

lookupRelation(p) ==
    /\ At(p, "select", "lookupRelation")
    /\ Return(p, RelationsAt(req[p]), FALSE)
    /\ UNCHANGED <<tables, calls>>

-----------------------------------------------------------------------------
(* Attributes and values.                                                  *)

AttributesNamed(d, n) == {x \in attribute : x.domain = d /\ x.name = n}

\* A known attribute is returned whatever its datatype.
registerAttributeSelect(p) ==
    /\ At(p, "select", "registerAttribute")
    /\ LET found == AttributesNamed(req[p].domain, req[p].name)
       IN  IF found # {} THEN Return(p, found, FALSE) ELSE Go(p, "insert")
    /\ UNCHANGED <<tables, calls>>

registerAttributeInsert(p) ==
    /\ At(p, "insert", "registerAttribute")
    /\ TakeId("attribute")
    /\ LET new == [id |-> NextId("attribute"), domain |-> req[p].domain, name |-> req[p].name,
                   datatype |-> req[p].datatype]
       IN  IF AttributesNamed(new.domain, new.name) # {} THEN Terminate(p) /\ UNCHANGED attribute
           ELSE attribute' = attribute \cup {new} /\ Return(p, {new}, TRUE)
    /\ UNCHANGED <<type, object, relation, value, calls>>

lookupAttribute(p) ==
    /\ \/ /\ At(p, "select", "lookupAttributeByName")
          /\ Return(p, AttributesNamed(req[p].domain, req[p].name), FALSE)
       \/ /\ At(p, "select", "lookupAttributeById")
          /\ Return(p, {x \in attribute : x.id = req[p].id}, FALSE)
    /\ UNCHANGED <<tables, calls>>

Key(x) == <<x.object, x.attribute>>

\* UPDATE finds the row ...
setAttributeUpdate(p) ==
    /\ At(p, "select", "setAttribute")
    /\ IF \E x \in value : Key(x) = Key(req[p])
       THEN /\ value' = {x \in value : Key(x) # Key(req[p])} \cup
                  {[object |-> req[p].object, attribute |-> req[p].attribute,
                    value |-> req[p].value]}
            /\ Return(p, {[ok |-> TRUE]}, FALSE)
       ELSE Go(p, "insert") /\ UNCHANGED value
    /\ UNCHANGED <<type, object, relation, attribute, serial, calls>>

\* ... or there is none yet.
setAttributeInsert(p) ==
    /\ At(p, "insert", "setAttribute")
    /\ IF \E x \in value : Key(x) = Key(req[p]) THEN Terminate(p) /\ UNCHANGED value
       ELSE /\ value' = value \cup {[object |-> req[p].object, attribute |-> req[p].attribute,
                                     value |-> req[p].value]}
            /\ Return(p, {[ok |-> TRUE]}, FALSE)
    /\ UNCHANGED <<type, object, relation, attribute, serial, calls>>

getAttribute(p) ==
    /\ At(p, "select", "getAttribute")
    /\ Return(p, {x \in value : Key(x) = Key(req[p])}, FALSE)
    /\ UNCHANGED <<tables, calls>>

-----------------------------------------------------------------------------
\* The process dies; its open transaction is rolled back.
Die(p) ==
    /\ pc[p] # "dead"
    /\ Terminate(p)
    /\ UNCHANGED <<tables, calls>>

Init ==
    /\ type = {} /\ object = {} /\ relation = {} /\ attribute = {} /\ value = {}
    /\ serial = [t \in {"type", "object", "attribute"} |-> 0]
    /\ pc = [p \in Processes |-> "idle"]
    /\ req = [p \in Processes |-> NoCall]
    /\ made = [p \in Processes |-> 0]
    /\ calls = [p \in Processes |-> 0]
    /\ answers = {}
    /\ part \in {"types", "objects", "attributes"}

\* Identifiers are passed by those who got them.
ObjectIds == {Root} \cup {a.id : a \in UNION {x.answer : x \in
                 {y \in answers : y.req.op = "registerObject"}}}

\* The calls of the three parts, which share nothing.
TypeCalls ==
    [op : {"registerType", "lookupTypeByName"}, name : Names]
    \cup [op : {"lookupTypeById"}, id : 1 .. MaxRows]
ObjectCalls ==
    [op : {"registerObject"}, parent : ObjectIds, relation : RelationIds, name : Names,
     type : TypeIds]
    \cup [op : {"registerRelation"}, parent : ObjectIds, relation : RelationIds, name : Names,
          child : ObjectIds \ {Root}]
    \cup [op : {"lookupRelation"}, parent : ObjectIds, relation : RelationIds, name : Names]
    \cup [op : {"lookupObjectById"}, id : 1 .. MaxRows]
AttributeCalls ==
    [op : {"registerAttribute"}, domain : Domains, name : Names, datatype : Datatypes]
    \cup [op : {"lookupAttributeByName"}, domain : Domains, name : Names]
    \cup [op : {"lookupAttributeById"}, id : 1 .. MaxRows]
    \cup [op : {"setAttribute"}, object : {1}, attribute : {1}, value : Values]
    \cup [op : {"getAttribute"}, object : {1}, attribute : {1}]

Calls == CASE part = "types" -> TypeCalls
           [] part = "objects" -> ObjectCalls
           [] part = "attributes" -> AttributeCalls

Step(p) ==
    \/ registerTypeSelect(p) \/ registerTypeInsert(p) \/ lookupType(p)
    \/ registerObjectSelect(p) \/ registerObjectInsert(p)
    \/ registerRelationSelect(p) \/ registerRelationInsert(p)
    \/ lookupObjectById(p) \/ lookupRelation(p)
    \/ registerAttributeSelect(p) \/ registerAttributeInsert(p) \/ lookupAttribute(p)
    \/ setAttributeUpdate(p) \/ setAttributeInsert(p) \/ getAttribute(p)

Next ==
    \E p \in Processes :
        \/ \E r \in Calls : Call(p, r)
        \/ Step(p)
        \/ Die(p)

Spec == Init /\ [][Next]_vars

-----------------------------------------------------------------------------
(* Properties.                                                             *)

\* A type or an attribute that was returned is the row of its name.  An object
\* is in its table, and its key has a relation.  It is the row, type included,
\* if the call inserted it; the relation found after that may lead to another
\* child (ReturnedHasParent).  If it was found, a relation of the key leads to
\* it, but its type is the argument's, not the row's, although "Fail if
\* preexisting childType does not match" (Topology.hpp:28).  A relation is the
\* row if the call inserted it; if it was found, it has the argument's child.
Returned(x, a) ==
    CASE x.req.op = "registerType" -> a \in TypesNamed(x.req.name)
      [] x.req.op = "registerAttribute" -> a \in AttributesNamed(x.req.domain, x.req.name)
      [] x.req.op = "registerObject" ->
            /\ RelationsAt(x.req) # {}
            /\ IF x.inserted THEN a \in object
               ELSE /\ \E o \in object : o.id = a.id
                    /\ \E r \in RelationsAt(x.req) : r.child = a.id
      [] x.req.op = "registerRelation" ->
            IF x.inserted THEN a \in relation ELSE RelationsAt(x.req) # {}

\* For all processes, and after any of them has died: what a registration
\* returned is in the tables (as far as Returned says), every type name,
\* attribute key and child key has one row, hence one identifier, and no
\* relation leads to an object that is not there.
DatabaseAgrees ==
    /\ \A x \in answers : \A a \in x.answer : Returned(x, a)
    /\ \A x, y \in type : x.name = y.name => x = y
    /\ \A x, y \in attribute : <<x.domain, x.name>> = <<y.domain, y.name>> => x = y
    /\ \A x, y \in relation :
          <<x.parent, x.type, x.name>> = <<y.parent, y.type, y.name>> => x = y
    /\ \A x \in relation : \E o \in object : o.id = x.child

\* "All objects must have at least one parent" (Topology.hpp:12): an object that
\* registerObject returned is a child of somebody.
ReturnedHasParent ==
    \A x \in answers : x.req.op = "registerObject" =>
        \A a \in x.answer : \E r \in relation : r.child = a.id

-----------------------------------------------------------------------------
\* The inductive strengthening of DatabaseAgrees: what a process has inserted in
\* its first transaction, and the child it was given, are in the table when it
\* gets to the relation.
IsObject(i) == \E o \in object : o.id = i

IInv ==
    /\ DatabaseAgrees /\ \A x \in answers : x.req.op \in Registrations
    /\ part \in {"types", "objects", "attributes"}
    /\ pc = [p \in Processes |-> pc[p]] /\ req = [p \in Processes |-> req[p]]
    /\ made = [p \in Processes |-> made[p]]
    /\ \A p \in Processes :
          /\ pc[p] \in {"relate", "link"} => req[p].op \in {"registerObject", "registerRelation"}
          /\ pc[p] \in {"relate", "link"} /\ req[p].op = "registerObject" =>
                [id |-> made[p], type |-> req[p].type] \in object
          /\ pc[p] \in {"select", "link"} /\ req[p].op = "registerRelation" => IsObject(req[p].child)
=============================================================================
