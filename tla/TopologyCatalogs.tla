-------------------------- MODULE TopologyCatalogs ---------------------------
(***************************************************************************)
(* TopologyOntology, TopologyAssociationMapper and                         *)
(* TopologySystemInformation: the catalogs that keep their entries as      *)
(* objects of one topology, which all processes share.                     *)
(*                                                                         *)
(* A call is several calls of the topology, each of them one step (see     *)
(* Topology): the objects of a path are registered one by one, at times an *)
(* attribute is read, and attributes are set one by one.  Other processes  *)
(* run in between, and the process may die in between.  The registerType   *)
(* calls before each registerObject are left out, as a type is its name    *)
(* here.                                                                   *)
(*                                                                         *)
(* The number of an ontology attribute is that of its object, and as a     *)
(* meta attribute it is used as the number of an attribute of the          *)
(* topology, where it may meet one of the numbers in AttributeId.          *)
(***************************************************************************)
EXTENDS Naturals, Sequences

CONSTANTS
    Threads,      \* of any process
    Uses,         \* sets of calls that may be made together: see Path and Sets
    Module,       \* objects of the three modules, made by their init
    AttributeId,  \* attributes of the topology, registered by their init
    FirstObject,  \* the number of the first object after init
    MaxObject,    \* bound: objects
    MaxTypes      \* bound: types registered for instances

VARIABLES
    use,        \* the calls of this behaviour
    relations,  \* from [parent, type, name] to the child
    values,     \* from <<object, attribute>> to the value
    types,      \* names of the types that stand for remote instances
    nextObject,
    pc, req, obj, todo,  \* of each thread: its step, its call, the object, what is left to set
    returned,   \* history: [req, id] of calls that returned without an exception
    contended   \* history: objects that two calls looked at before either had set them

threadVars == <<pc, req, obj, todo>>
vars == <<use, relations, values, types, nextObject, threadVars, returned, contended>>

NoRequest == [op |-> "none"]
NoObject == 0
Put(f, k, v) == [x \in DOMAIN f \cup {k} |-> IF x = k THEN v ELSE f[x]]

-----------------------------------------------------------------------------
(* What the calls do.                                                      *)

\* The relations from a known object to the one that the call is about.
Path(r) ==
    CASE r.op = "attribute" ->
            [from |-> Module["Ontology"],
             steps |-> <<[type |-> "DomainName", name |-> r.domain],
                         [type |-> "AttributeName", name |-> r.name]>>]
      [] r.op = "meta" -> [from |-> r.att, steps |-> << >>]
      [] r.op = "process" ->
            [from |-> Module["AssociationMapper"],
             steps |-> <<[type |-> "ProcessID", name |-> r.owner],
                         [type |-> "AttributeID", name |-> r.att]>>]
      [] r.op = "component" ->
            [from |-> Module["AssociationMapper"],
             steps |-> <<[type |-> "ComponentID", name |-> r.owner],
                         [type |-> "AttributeID", name |-> r.att]>>]
      [] r.op = "node" ->
            [from |-> Module["System"], steps |-> <<[type |-> "Host", name |-> r.name]>>]
      [] r.op = "filesystem" ->
            [from |-> Module["System"], steps |-> <<[type |-> "Filesystem", name |-> r.name]>>]
      [] r.op = "interface" ->
            [from |-> Module["System"],
             steps |-> <<[type |-> "Interface", name |-> r.name],
                         [type |-> "Implementation", name |-> r.implementation]>>]
      [] r.op = "device" -> [from |-> r.parent, steps |-> <<[type |-> "Device", name |-> r.name]>>]
      [] r.op = "activity" -> [from |-> r.parent, steps |-> <<[type |-> "Activity", name |-> r.name]>>]

A(name, value) == [att |-> AttributeId[name], value |-> value]

\* Mutant: the storage type, which the lookups test, is set first.
AttributeSetsTypeFirst(r) == <<A("Type", r.type), A("Domain", r.domain), A("Name", r.name)>>

AttributeSets(r) == <<A("Domain", r.domain), A("Name", r.name), A("Type", r.type)>>

\* The attributes that the call sets on the object, in this order.
Sets(r) ==
    CASE r.op = "attribute" -> AttributeSets(r)
      [] r.op = "meta" -> <<[att |-> r.meta, value |-> r.value]>>
      [] r.op \in {"process", "component"} -> <<A("Value", r.value)>>
      [] r.op = "node" -> <<A("NodeName", r.name)>>
      [] r.op = "filesystem" -> <<A("GlobalName", r.name)>>
      [] r.op = "interface" -> <<A("Implementation", r.implementation), A("Interface", r.name)>>
      [] r.op = "device" -> <<A("Node", r.parent), A("LocalName", r.name)>>
      [] r.op = "activity" -> <<A("NodeName", r.name), A("UNID", r.parent)>>

\* The calls that first look whether the last of the attributes is set.
Looks(r) == r.op \in {"attribute", "meta", "process", "component"}

CallOps == {"attribute", "meta", "process", "component", "node", "filesystem", "interface",
            "device", "activity"}
AttributeNames == {"Type", "Name", "Domain", "Value", "NodeName", "GlobalName", "Interface",
                   "Implementation", "Node", "LocalName", "UNID"}

\* Objects have numbers, and the attributes of the modules different ones.
CatalogsAssumption ==
    /\ FirstObject \in Nat \ {0}
    /\ \A u \in Uses : \A r \in u : r.op \in CallOps \cup {"instance"}
    /\ \A m, n \in AttributeNames : AttributeId[m] = AttributeId[n] => m = n

-----------------------------------------------------------------------------
Follow(rel, o, s) ==
    LET k == [parent |-> o, type |-> s.type, name |-> s.name]
    IN  IF k \in DOMAIN rel THEN rel[k] ELSE NoObject

\* registerObject: the child, and what the topology is with it.
Child(b, s) ==
    LET c == Follow(b.rel, b.at, s)
    IN  IF c # NoObject THEN [b EXCEPT !.at = c]
        ELSE [at |-> b.next, next |-> b.next + 1,
              rel |-> Put(b.rel, [parent |-> b.at, type |-> s.type, name |-> s.name], b.next)]

\* The call exists: objects that it names were returned to the caller before.
Sensible(r) ==
    /\ r.op \in {"device", "activity"} =>
          \E x \in returned : x.id = r.parent
              /\ x.req.op = IF r.op = "device" THEN "node" ELSE "interface"
    /\ r.op = "meta" =>
          \A i \in {r.att, r.meta} : \E x \in returned : x.req.op = "attribute" /\ x.id = i

\* What a call does once it has its object.
Ready(r) == IF Looks(r) THEN "look" ELSE "set"

Call(t, r) ==
    /\ pc[t] = "idle" /\ Sensible(r)
    /\ obj' = [obj EXCEPT ![t] = Path(r).from]
    /\ req' = [req EXCEPT ![t] = r]
    /\ todo' = [todo EXCEPT ![t] = Sets(r)]
    /\ pc' = [pc EXCEPT ![t] = IF Len(Path(r).steps) = 0 THEN Ready(r) ELSE "first"]
    /\ UNCHANGED <<use, relations, values, types, nextObject, returned, contended>>

\* registerObject, and one component of registerObjectByPath: no path has more than two.
Walk(t) ==
    LET steps == Path(req[t]).steps
        i == IF pc[t] = "first" THEN 1 ELSE 2
        c == Child([at |-> obj[t], rel |-> relations, next |-> nextObject], steps[i])
    IN  /\ pc[t] \in {"first", "second"}
        /\ c.next <= MaxObject + 1
        /\ relations' = c.rel /\ nextObject' = c.next
        /\ obj' = [obj EXCEPT ![t] = c.at]
        /\ pc' = [pc EXCEPT ![t] = IF i < Len(steps) THEN "second" ELSE Ready(req[t])]
        /\ UNCHANGED <<use, req, todo, values, types, returned, contended>>

Leave(t) ==
    /\ pc' = [pc EXCEPT ![t] = "idle"] /\ req' = [req EXCEPT ![t] = NoRequest]
    /\ obj' = [obj EXCEPT ![t] = NoObject] /\ todo' = [todo EXCEPT ![t] = << >>]

Return(t) ==
    /\ Leave(t)
    /\ returned' = returned \cup {[req |-> req[t], id |-> obj[t]]}

\* getAttribute: equal, and the call returns; other, and it is an IllegalStateError.
Look(t) ==
    LET last == todo[t][Len(todo[t])] k == <<obj[t], last.att>>
    IN  /\ pc[t] = "look"
        /\ \/ /\ k \in DOMAIN values
              /\ \/ values[k] = last.value /\ Return(t)
                 \/ values[k] # last.value /\ Leave(t) /\ UNCHANGED returned
              /\ UNCHANGED contended
           \/ /\ k \notin DOMAIN values
              /\ pc' = [pc EXCEPT ![t] = "set"]
              /\ contended' = IF \E u \in Threads \ {t} : pc[u] = "set" /\ obj[u] = obj[t]
                                                       /\ Looks(req[u])
                              THEN contended \cup {obj[t]} ELSE contended
              /\ UNCHANGED <<req, obj, todo, returned>>
        /\ UNCHANGED <<use, relations, values, types, nextObject>>

\* One setAttribute, and the return after the last.
Set(t) ==
    LET a == Head(todo[t])
    IN  /\ pc[t] = "set"
        /\ values' = Put(values, <<obj[t], a.att>>, a.value)
        /\ \/ Len(todo[t]) = 1 /\ Return(t)
           \/ /\ Len(todo[t]) > 1
              /\ todo' = [todo EXCEPT ![t] = Tail(@)]
              /\ UNCHANGED <<pc, req, obj, returned>>
        /\ UNCHANGED <<use, relations, types, nextObject, contended>>

\* The process dies in a call.
Die(t) ==
    /\ pc[t] # "idle" /\ Leave(t)
    /\ UNCHANGED <<use, relations, values, types, nextObject, returned, contended>>

\* create_instance_mapping: the number is that of a type.
create_instance_mapping(n) ==
    LET found == {i \in DOMAIN types : types[i] = n}
        all == IF found = {} THEN Append(types, n) ELSE types
    IN  /\ Len(all) <= MaxTypes
        /\ types' = all
        /\ returned' = returned \cup {[req |-> [op |-> "instance", name |-> n],
                                       id |-> CHOOSE i \in DOMAIN all : all[i] = n]}
        /\ UNCHANGED <<use, relations, values, nextObject, threadVars, contended>>

Init ==
    /\ use \in Uses
    /\ relations = [k \in {} |-> k] /\ values = [k \in {} |-> k] /\ types = << >>
    /\ nextObject = FirstObject
    /\ pc = [t \in Threads |-> "idle"] /\ req = [t \in Threads |-> NoRequest]
    /\ obj = [t \in Threads |-> NoObject] /\ todo = [t \in Threads |-> << >>]
    /\ returned = {} /\ contended = {}

Next ==
    \/ \E t \in Threads : Walk(t) \/ Look(t) \/ Set(t) \/ Die(t)
    \/ \E t \in Threads, r \in use : r.op # "instance" /\ Call(t, r)
    \/ \E r \in use : r.op = "instance" /\ create_instance_mapping(r.name)

Spec == Init /\ [][Next]_vars

-----------------------------------------------------------------------------
\* getAttribute has the value.
Has(o, a) == <<o, a.att>> \in DOMAIN values /\ values[<<o, a.att>>] = a.value

\* lookup_attribute_by_ID takes an attribute with a storage type to have a domain
\* and a name, whose values it uses without a test.
TypeComesLast ==
    \A k \in DOMAIN values :
        k[2] = AttributeId["Type"] =>
            \A n \in {"Domain", "Name"} : <<k[1], AttributeId[n]>> \in DOMAIN values

\* lookup_attribute_by_name takes the object at the end of the path to have a storage
\* type: the assertion fails if it has none.  Nothing is changed, and relations and
\* values only come to be, so that all of the lookup may be taken at the moment of its
\* last read.
lookup_attribute_by_name(r) ==
    LET steps == Path(r).steps
        o == Follow(relations, Follow(relations, Path(r).from, steps[1]), steps[2])
    IN  [id |-> o,
         outcome |-> IF o = NoObject THEN "NotFoundError"
                     ELSE IF <<o, AttributeId["Type"]>> \in DOMAIN values THEN "found"
                     ELSE "assertion fails"]

\* What a call returned can be looked up under its number, whatever processes
\* registered it at the same time or died while they did: the attributes have the
\* values of the call, and equal calls have the same number.  Where two calls
\* found an attribute unset, the last one to set it is looked up.  An entry that
\* is half made does not show under its number (TypeComesLast).  It does under its
\* name, where the assertion of lookup_attribute_by_name fails: what holds of that
\* lookup is that it finds every attribute that a registration has returned, so that
\* it only fails on one whose registration is under way or was cut off by a death.
EntriesResolve ==
    /\ TypeComesLast
    /\ \A x \in returned :
          IF x.req.op = "instance" THEN types[x.id] = x.req.name
          ELSE \A i \in DOMAIN Sets(x.req) :
                  LET a == Sets(x.req)[i]
                  IN  \/ Has(x.id, a)
                      \/ /\ x.id \in contended /\ i = Len(Sets(x.req))
                         /\ <<x.id, a.att>> \in DOMAIN values
    /\ \A x \in returned : x.req.op = "attribute" =>
          lookup_attribute_by_name(x.req) = [id |-> x.id, outcome |-> "found"]
    /\ \A x, y \in returned : x.req = y.req => x.id = y.id

-----------------------------------------------------------------------------
(* The inductive invariant.                                                *)

\* Objects are numbered from FirstObject on, and have one parent, type and name.
Numbered(rel, n) ==
    /\ n \in Nat \ {0}
    /\ \A k \in DOMAIN rel : rel[k] \in 1 .. n - 1
    /\ \A k, l \in DOMAIN rel : rel[k] = rel[l] => k = l

RelationInv == use \in Uses /\ Numbered(relations, nextObject)

\* By the relations rel, the path of r leads to o.
Reaches(rel, r, o) ==
    LET p == Path(r)
    IN  \/ Len(p.steps) = 0 /\ o = p.from
        \/ /\ Len(p.steps) = 1 /\ o # NoObject
           /\ o = Follow(rel, p.from, p.steps[1])
        \/ /\ Len(p.steps) = 2 /\ o # NoObject
           /\ o = Follow(rel, Follow(rel, p.from, p.steps[1]), p.steps[2])
           /\ Follow(rel, p.from, p.steps[1]) # NoObject

\* A call r on object o; meta attributes are those of an attribute that was returned.
Proper(rel, ret, r, o) ==
    /\ r.op \in CallOps /\ Reaches(rel, r, o)
    /\ r.op = "meta" => \E x \in ret : x.req.op = "attribute" /\ x.id = r.att

Own == {AttributeId[n] : n \in {"Type", "Name", "Domain"}}

\* A call that sets the attributes of its object; a meta attribute is none of those of
\* an attribute, even if it has the number of one.
Setter(rel, ret, r, o) == Proper(rel, ret, r, o) /\ (r.op = "meta" => r.meta \notin Own)

Key(r, o, i) == <<o, Sets(r)[i].att>>
LastKey(r, o) == Key(r, o, Len(Sets(r)))

\* What a thread has to set, and what it has set.
Running(rel, ret, set, p, r, o, left) ==
    /\ p \in {"first", "second"} =>
          /\ r.op \in CallOps \ {"meta"} /\ left = Sets(r)
          /\ p = "first" => o = Path(r).from
          /\ p = "second" => /\ Len(Path(r).steps) = 2 /\ o # NoObject
                             /\ o = Follow(rel, Path(r).from, Path(r).steps[1])
    /\ p \in {"look", "set"} => Proper(rel, ret, r, o)
    /\ p = "look" => left = Sets(r) /\ Looks(r)
    /\ p = "set" =>
          /\ Setter(rel, ret, r, o)
          /\ \E n \in DOMAIN Sets(r) :
                /\ left = SubSeq(Sets(r), n, Len(Sets(r)))
                /\ \A i \in 1 .. n - 1 : Key(r, o, i) \in set

ThreadInv ==
    /\ pc \in [Threads -> {"idle", "first", "second", "look", "set"}]
    /\ DOMAIN req = Threads /\ DOMAIN obj = Threads /\ DOMAIN todo = Threads
    /\ \A t \in Threads : pc[t] # "idle" => req[t] \in use
    /\ \A t \in Threads :
          Running(relations, returned, DOMAIN values, pc[t], req[t], obj[t], todo[t])

\* An object that only one thread has found unset is unset until that thread sets it.
ContentionInv ==
    \A t \in Threads : pc[t] = "set" /\ Looks(req[t]) /\ obj[t] \notin contended =>
        /\ LastKey(req[t], obj[t]) \notin DOMAIN values
        /\ \A u \in Threads : pc[u] = "set" /\ Looks(req[u]) /\ obj[u] = obj[t] => u = t

\* A value v was set by a call on the object.
Valued(calls, rel, ret, k, v) ==
    \E r \in {q \in calls : q.op \in CallOps} : \E i \in DOMAIN Sets(r) :
        /\ Setter(rel, ret, r, k[1])
        /\ k = Key(r, k[1], i) /\ v = Sets(r)[i].value

ValueInv == \A k \in DOMAIN values : Valued(use, relations, returned, k, values[k])

\* What a call has set when it returns.
Kept(rel, ret, val, cont, x) ==
    /\ Proper(rel, ret, x.req, x.id)
    /\ \A i \in DOMAIN Sets(x.req) : Key(x.req, x.id, i) \in DOMAIN val
    /\ x.id \notin cont => val[LastKey(x.req, x.id)] = Sets(x.req)[Len(Sets(x.req))].value

ReturnedInv ==
    \A x \in returned :
        IF x.req.op = "instance" THEN x.id \in DOMAIN types /\ types[x.id] = x.req.name
        ELSE Kept(relations, returned, values, contended, x)

TypesInv ==
    /\ types \in Seq({r.name : r \in {q \in use : q.op = "instance"}})
    /\ \A i, j \in DOMAIN types : types[i] = types[j] => i = j

IInv ==
    RelationInv /\ ThreadInv /\ ContentionInv /\ ValueInv /\ ReturnedInv /\ TypesInv /\ TypeComesLast
=============================================================================
