------------------------------ MODULE Topology ------------------------------
(***************************************************************************)
(* What a topology promises (Topology.hpp): four registries that only      *)
(* grow, whose keys stay bound to what they were first bound to, and the   *)
(* values of attributes, which may be overwritten.  Every operation is one *)
(* step.  RamTopology implements this with its locks.                      *)
(***************************************************************************)
EXTENDS Naturals, Sequences

CONSTANTS Names, TypeIds, AttributeIds, Datatypes, Values

VARIABLES
    types,       \* types[id]: the name
    objects,     \* objects[id]: the type of the object
    relations,   \* records [parent, type, name, child]
    attributes,  \* attributes[id]: [domain, name, datatype]
    values       \* from <<object, attribute>> to the value

vars == <<types, objects, relations, attributes, values>>

Root == 0
Id == 1 .. Len(objects)

\* The tuple (parent, relationType, childName) is unique.
Unbound(p, t, n) ==
    ~ \E r \in relations : r.parent = p /\ r.type = t /\ r.name = n

Init ==
    /\ types = << >> /\ objects = << >> /\ attributes = << >>
    /\ relations = {}
    /\ values = [k \in {} |-> k]

RegisterType(n) ==
    /\ \A i \in DOMAIN types : types[i] # n
    /\ types' = Append(types, n)
    /\ UNCHANGED <<objects, relations, attributes, values>>

\* An object comes with its first parent.
RegisterObject(p, t, n, o) ==
    /\ p \in Id \cup {Root} /\ Unbound(p, t, n)
    /\ objects' = Append(objects, o)
    /\ relations' = relations \cup
          {[parent |-> p, type |-> t, name |-> n, child |-> Len(objects) + 1]}
    /\ UNCHANGED <<types, attributes, values>>

RegisterRelation(p, t, n, c) ==
    /\ p \in Id \cup {Root} /\ c \in Id /\ Unbound(p, t, n)
    /\ relations' = relations \cup {[parent |-> p, type |-> t, name |-> n, child |-> c]}
    /\ UNCHANGED <<types, objects, attributes, values>>

RegisterAttribute(d, n, dt) ==
    /\ \A i \in DOMAIN attributes : attributes[i].domain # d \/ attributes[i].name # n
    /\ attributes' = Append(attributes, [domain |-> d, name |-> n, datatype |-> dt])
    /\ UNCHANGED <<types, objects, relations, values>>

SetAttribute(o, a, v) ==
    /\ o \in Id
    /\ values' = [k \in DOMAIN values \cup {<<o, a>>} |->
                     IF k = <<o, a>> THEN v ELSE values[k]]
    /\ UNCHANGED <<types, objects, relations, attributes>>

Next ==
    \/ \E n \in Names : RegisterType(n)
    \/ \E p \in Id \cup {Root}, t, o \in TypeIds, n \in Names : RegisterObject(p, t, n, o)
    \/ \E p \in Id \cup {Root}, t \in TypeIds, n \in Names, c \in Id :
          RegisterRelation(p, t, n, c)
    \/ \E d \in TypeIds, n \in Names, dt \in Datatypes : RegisterAttribute(d, n, dt)
    \/ \E o \in Id, a \in AttributeIds, v \in Values : SetAttribute(o, a, v)

Spec == Init /\ [][Next]_vars
=============================================================================
