------------------------- MODULE Topologies_proofs -------------------------
(***************************************************************************)
(* Proofs about the topology in memory, for every number of callers and of *)
(* entries: the two containers of the relations mirror each other wherever *)
(* a thread may look, and the locks make every call one step of the        *)
(* abstract topology.  Then about the topology in a database, the          *)
(* histogram plugin and the catalogs in a topology, the processes of which *)
(* meet in the topology.  At last, that aliases of paths expand.           *)
(***************************************************************************)
EXTENDS MCTopologyService, FiniteSetTheorems, ListTheorems, TLAPS

-----------------------------------------------------------------------------
(* The parent vectors.                                                     *)

LEMMA InVectors ==
    ASSUME NEW vectors
    PROVE  \A r : r \in In(vectors) <=> \E i \in DOMAIN vectors : \E j \in DOMAIN vectors[i] :
                                           vectors[i][j] = r
BY DEF In

\* A vector for a new object has the relation to its first parent.
LEMMA InNewVector ==
    ASSUME NEW R, NEW vectors \in Seq(Seq(R)), NEW r \in R
    PROVE  In(Append(vectors, <<r>>)) = In(vectors) \cup {r}
<1> DEFINE n == Len(vectors)
           w == Append(vectors, <<r>>)
<1>1. /\ n \in Nat /\ DOMAIN vectors = 1 .. n /\ <<r>> \in Seq(R) /\ DOMAIN <<r>> = {1}
      /\ <<r>>[1] = r
  OBVIOUS
<1>2. DOMAIN w = 1 .. n + 1 /\ w[n + 1] = <<r>> /\ \A i \in 1 .. n : w[i] = vectors[i]
  BY <1>1
<1> HIDE DEF n, w
<1>3. ASSUME NEW x, x \in In(w) PROVE x \in In(vectors) \cup {r}
  <2>i. \E i \in DOMAIN w : \E j \in DOMAIN w[i] : w[i][j] = x
    BY <1>3, InVectors
  <2>1. PICK i \in 1 .. n + 1 : \E j \in DOMAIN w[i] : w[i][j] = x
    BY <1>2, <2>i
  <2>2. CASE i \in 1 .. n
    BY <1>1, <1>2, <2>1, <2>2, InVectors
  <2>3. CASE i = n + 1
    BY <1>1, <1>2, <2>1, <2>3
  <2> QED BY <1>1, <2>2, <2>3
<1>4. ASSUME NEW x, x \in In(vectors) PROVE x \in In(w)
  <2>1. PICK i \in 1 .. n : \E j \in DOMAIN vectors[i] : vectors[i][j] = x
    BY <1>1, <1>4, InVectors
  <2>2. i \in 1 .. n + 1 /\ w[i] = vectors[i]
    BY <1>1, <1>2
  <2> QED BY <1>2, <2>1, <2>2, InVectors
<1>5. r \in In(w)
  <2>1. n + 1 \in DOMAIN w /\ 1 \in DOMAIN w[n + 1] /\ w[n + 1][1] = r
    BY <1>1, <1>2
  <2> QED BY <2>1, InVectors
<1> QED BY <1>3, <1>4, <1>5 DEF w

\* A further relation enters the vector of its child.
LEMMA InLongerVector ==
    ASSUME NEW R, NEW vectors \in Seq(Seq(R)), NEW r \in R, NEW c \in 1 .. Len(vectors)
    PROVE  In([vectors EXCEPT ![c] = Append(@, r)]) = In(vectors) \cup {r}
<1> DEFINE w == [vectors EXCEPT ![c] = Append(@, r)]
           v == vectors[c]
<1>1. v \in Seq(R) /\ DOMAIN vectors = 1 .. Len(vectors) /\ c \in DOMAIN vectors
  OBVIOUS
<1>2. DOMAIN w = DOMAIN vectors /\ w[c] = Append(v, r)
      /\ \A i \in DOMAIN vectors \ {c} : w[i] = vectors[i]
  BY <1>1
<1>3. /\ DOMAIN v = 1 .. Len(v) /\ DOMAIN Append(v, r) = 1 .. Len(v) + 1 /\ Len(v) \in Nat
      /\ Append(v, r)[Len(v) + 1] = r /\ \A j \in 1 .. Len(v) : Append(v, r)[j] = v[j]
  BY <1>1
<1> HIDE DEF w
<1>4. ASSUME NEW x, x \in In(w) PROVE x \in In(vectors) \cup {r}
  <2>1. PICK i \in DOMAIN vectors : \E j \in DOMAIN w[i] : w[i][j] = x
    BY <1>2, <1>4, InVectors
  <2>2. CASE i # c
    BY <1>2, <2>1, <2>2, InVectors
  <2>3. CASE i = c
    <3>1. PICK j \in 1 .. Len(v) + 1 : Append(v, r)[j] = x
      BY <1>2, <1>3, <2>1, <2>3
    <3>2. CASE j = Len(v) + 1
      BY <1>3, <3>1, <3>2
    <3>3. CASE j # Len(v) + 1
      <4>1. j \in DOMAIN vectors[c] /\ vectors[c][j] = x
        BY <1>3, <3>1, <3>3
      <4> QED BY <1>1, <4>1, InVectors
    <3> QED BY <3>2, <3>3
  <2> QED BY <2>2, <2>3
<1>5. ASSUME NEW x, x \in In(vectors) PROVE x \in In(w)
  <2>i. PICK i \in DOMAIN vectors : \E j \in DOMAIN vectors[i] : vectors[i][j] = x
    BY <1>5, InVectors
  <2>1. PICK j \in DOMAIN vectors[i] : vectors[i][j] = x
    BY <2>i
  <2>2. j \in DOMAIN w[i] /\ w[i][j] = x
    <3>1. CASE i # c
      BY <1>2, <2>1, <3>1
    <3>2. CASE i = c
      <4>1. j \in 1 .. Len(v) /\ v[j] = x
        BY <1>3, <2>1, <3>2
      <4>2. j \in 1 .. Len(v) + 1 /\ Append(v, r)[j] = x
        BY <1>3, <4>1
      <4> QED BY <1>2, <1>3, <3>2, <4>2
    <3> QED BY <3>1, <3>2
  <2> QED BY <1>2, <2>2, InVectors
<1>6. r \in In(w)
  <2>1. Len(v) + 1 \in DOMAIN w[c] /\ w[c][Len(v) + 1] = r
    BY <1>2, <1>3
  <2> QED BY <1>1, <1>2, <2>1, InVectors
<1> QED BY <1>4, <1>5, <1>6 DEF w

-----------------------------------------------------------------------------
(* The steps.                                                              *)

\* A call that returns without having written anything.
LEMMA Returns ==
    ASSUME IInv, NEW c \in Callers, pc[c] \in {"find", "insert"}, UNCHANGED <<store, req>>,
           pc' = [pc EXCEPT ![c] = "done"]
    PROVE  IInv'
<1> USE DEF IInv, store
<1>1. StoreOK'
  BY DEF StoreOK
<1>2. \A d \in Callers : CallOK(d)'
  BY DEF StoreOK, CallOK, Linked, Id
<1>3. LinkInv'
  BY DEF StoreOK, LinkInv, Linked
<1>4. MirrorInv'
  BY DEF MirrorInv, Linked, Id
<1> QED BY <1>1, <1>2, <1>3, <1>4

\* A call that found nothing, and inserts next.
LEMMA Proceeds ==
    ASSUME IInv, NEW c \in Callers, pc[c] = "find", UNCHANGED <<store, req>>,
           pc' = [pc EXCEPT ![c] = "insert"],
           req[c].op \in {"registerObject", "registerRelation"} => req[c].parent \in Id \cup {Root},
           req[c].op = "registerRelation" => req[c].child \in Id,
           req[c].op = "setAttribute" => req[c].object \in Id
    PROVE  IInv'
<1> USE DEF IInv, store
<1>1. StoreOK'
  BY DEF StoreOK
<1>2. \A d \in Callers : CallOK(d)'
  BY DEF StoreOK, CallOK, Linked, Id
<1>3. LinkInv'
  BY DEF StoreOK, LinkInv, Linked
<1>4. MirrorInv'
  BY DEF MirrorInv, Linked, Id
<1> QED BY <1>1, <1>2, <1>3, <1>4

\* The parts of the store that the relations are not in.
LEMMA OtherRegistries ==
    ASSUME IInv, NEW c \in Callers, pc[c] = "insert",
           UNCHANGED <<objects, childMaps, parentVectors, req>>,
           pc' = [pc EXCEPT ![c] = "done"],
           types' \in Seq(Names),
           attributes' \in Seq([domain : TypeIds, name : Names, datatype : Datatypes])
    PROVE  IInv'
<1> USE DEF IInv
<1>1. StoreOK'
  BY DEF StoreOK
<1>2. \A d \in Callers : CallOK(d)'
  BY DEF StoreOK, CallOK, Linked, Id
<1>3. LinkInv'
  BY DEF StoreOK, LinkInv, Linked
<1>4. MirrorInv'
  BY DEF MirrorInv, Linked, Id
<1> QED BY <1>1, <1>2, <1>3, <1>4

\* The arguments of a call.
LEMMA Arguments ==
    ASSUME NEW i \in Nat, NEW r \in CallsUpTo(i)
    PROVE  ArgumentsOK(r)
<1> USE TopologyAssumption DEF ArgumentsOK
<1>1. CASE r \in TypeCalls(i)
  BY <1>1 DEF TypeCalls
<1>2. CASE r \in ObjectCalls(i)
  <2>1. CASE r \in [op : {"registerObject"}, parent : 0 .. i, relation : RelationIds,
                    name : ChildNames, type : TypeIds]
    <3>1. /\ r.op = "registerObject" /\ r.parent \in 0 .. i /\ r.relation \in RelationIds
          /\ r.name \in ChildNames /\ r.type \in TypeIds
      BY <2>1
    <3>2. \A n \in 0 .. i : n \in Nat
      OBVIOUS
    <3>3. r.relation \in TypeIds /\ r.name \in Names
      BY <3>1
    <3> QED BY <3>1, <3>2, <3>3, Zenon
  <2>2. CASE r \in [op : {"lookupObjectById"}, id : 0 .. i]
    BY <2>2
  <2>3. CASE r \in [op : {"registerRelation"}, parent : 0 .. i, relation : RelationIds,
                    name : ChildNames, child : 0 .. i]
    <3>1. /\ r.op = "registerRelation" /\ r.parent \in 0 .. i /\ r.relation \in RelationIds
          /\ r.name \in ChildNames /\ r.child \in 0 .. i
      BY <2>3
    <3>2. \A n \in 0 .. i : n \in Nat
      OBVIOUS
    <3>3. r.relation \in TypeIds /\ r.name \in Names
      BY <3>1
    <3> QED BY <3>1, <3>2, <3>3, Zenon
  <2>4. CASE r \in [op : {"lookupRelation"}, parent : 0 .. i, relation : RelationIds,
                    name : ChildNames]
    BY <2>4
  <2> QED BY <1>2, <2>1, <2>2, <2>3, <2>4 DEF ObjectCalls
<1>3. CASE r \in EnumerateCalls(i)
  BY <1>3 DEF EnumerateCalls
<1>4. CASE r \in AttributeCalls(i)
  BY <1>4 DEF AttributeCalls
<1>5. CASE r \in ValueCalls(i)
  BY <1>5 DEF ValueCalls
<1>6. CASE r \in [op : {"enumerateAttributes"}, object : 0 .. i]
  BY <1>6
<1> QED BY <1>1, <1>2, <1>3, <1>4, <1>5, <1>6 DEF CallsUpTo

\* The exclusive lock of a child map is held by a thread that links.
LEMMA FreeMap ==
    ASSUME IInv, NEW p
    PROVE  MapFree(p) <=> \A c \in Callers : pc[c] = "link" => req[c].parent # p
BY DEF IInv, MapFree, At, CallOK

\* An object enters the topology together with its first relation.
LEMMA ObjectEnters ==
    ASSUME IInv, NEW c \in Callers, registerObjectInsert(c), childMaps' # childMaps
    PROVE  /\ IInv' /\ Linked' = Linked \cup (childMaps' \ childMaps)
           /\ \E r \in Relation :
                 /\ r.parent \in Id \cup {Root} /\ r.child = Len(objects) + 1
                 /\ childMaps' = childMaps \cup {r} /\ Linked' = Linked \cup {r}
                 /\ \A x \in childMaps :
                       ~(x.parent = r.parent /\ x.type = r.type /\ x.name = r.name)
                 /\ objects' = Append(objects, req[c].type) /\ req[c].type \in TypeIds
                 /\ UNCHANGED <<types, attributes, attributeMaps>>
<1> USE DEF IInv
<1> DEFINE q == req[c]
           id == Len(objects) + 1
           new == [parent |-> q.parent, type |-> q.relation, name |-> q.name, child |-> id]
<1>1. /\ pc[c] = "insert" /\ q.op = "registerObject" /\ pc' = [pc EXCEPT ![c] = "done"]
      /\ req' = req /\ objects' = Append(objects, q.type) /\ childMaps' = childMaps \cup {new}
      /\ parentVectors' = Append(parentVectors, <<new>>)
      /\ RelationsAt(q.parent, q.relation, q.name) = {}
      /\ UNCHANGED <<types, attributes, attributeMaps>>
  BY DEF registerObjectInsert, At, Return
<1>2. /\ q.parent \in Nat /\ q.parent \in Id \cup {Root} /\ q.relation \in TypeIds
      /\ q.name \in Names /\ q.type \in TypeIds
  BY <1>1 DEF CallOK, ArgumentsOK
<1>3. Len(objects) \in Nat /\ id \in Nat /\ id \notin Id /\ Id' = Id \cup {id}
  <2>1. Len(objects) \in Nat /\ Len(objects') = Len(objects) + 1
    BY <1>1, <1>2 DEF StoreOK
  <2> QED BY <2>1 DEF Id
<1>4. new \in Relation
  BY <1>2, <1>3 DEF Relation
<1>k. /\ new.parent = q.parent /\ new.type = q.relation /\ new.name = q.name /\ new.child = id
  OBVIOUS
<1>5. \A x \in childMaps : ~(x.parent = new.parent /\ x.type = new.type /\ x.name = new.name)
  BY <1>1 DEF RelationsAt
<1> HIDE DEF new, id
<1>6. Linked' = Linked \cup {new}
  BY <1>1, <1>4, InNewVector DEF StoreOK, Linked
<1>7. new \notin childMaps
  BY <1>5
<1>8. StoreOK'
  <2>1. objects' \in Seq(TypeIds)
    BY <1>1, <1>2 DEF StoreOK
  <2>2. parentVectors' \in Seq(Seq(Relation))
    BY <1>1, <1>4 DEF StoreOK
  <2> QED BY <1>1, <1>4, <2>1, <2>2 DEF StoreOK
<1>9. \A d \in Callers : CallOK(d)'
  <2> TAKE d \in Callers
  <2>1. CASE d = c
    BY <1>1, <2>1 DEF StoreOK, CallOK
  <2>2. CASE d # c
    <3>1. pc'[d] = pc[d] /\ req'[d] = req[d]
      BY <1>1, <2>2 DEF StoreOK
    <3>2. pc[d] = "link" => NewRelation(req[d]) # new
      <4>1. pc[d] = "link" => req[d].child \in Id
        BY DEF CallOK
      <4>2. NewRelation(req[d]).child = req[d].child
        BY DEF NewRelation
      <4> QED BY <1>3, <1>k, <4>1, <4>2
    <3> QED BY <1>1, <1>3, <1>6, <3>1, <3>2 DEF CallOK, NewRelation
  <2> QED BY <2>1, <2>2
<1>10. LinkInv'
  BY <1>1, <1>6 DEF StoreOK, LinkInv
<1>11. MirrorInv'
  <2>1. Len(parentVectors') = Len(objects')
    BY <1>1, <1>2, <1>4 DEF MirrorInv, StoreOK
  <2>2. \A r, x \in childMaps' :
           r.parent = x.parent /\ r.type = x.type /\ r.name = x.name => r = x
    BY <1>1, <1>5 DEF MirrorInv
  <2>3. \A r \in childMaps' : r.child \in Id'
    BY <1>1, <1>3, <1>k DEF MirrorInv
  <2>4. ASSUME NEW i \in Id'
        PROVE  /\ parentVectors'[i] # << >>
               /\ \A j, k \in DOMAIN parentVectors'[i] :
                     /\ parentVectors'[i][j].child = i
                     /\ parentVectors'[i][j] = parentVectors'[i][k] => j = k
    <3>1. /\ Len(parentVectors) = Len(objects) /\ parentVectors \in Seq(Seq(Relation))
          /\ parentVectors' = Append(parentVectors, <<new>>)
      BY <1>1 DEF MirrorInv, StoreOK
    <3>2. CASE i \in Id
      <4>1. parentVectors'[i] = parentVectors[i]
        BY <1>4, <3>1, <3>2 DEF Id
      <4> QED BY <3>2, <4>1 DEF MirrorInv
    <3>3. CASE i = id
      <4>1. parentVectors'[i] = <<new>>
        BY <1>4, <3>1, <3>3 DEF id
      <4> QED BY <1>k, <3>3, <4>1
    <3> QED BY <1>3, <3>2, <3>3
  <2> QED BY <1>1, <1>6, <2>1, <2>2, <2>3, <2>4 DEF MirrorInv
<1> QED BY <1>1, <1>2, <1>4, <1>k, <1>5, <1>6, <1>7, <1>8, <1>9, <1>10, <1>11 DEF id

\* A relation enters the child map of its parent, which stays locked.
LEMMA RelationEnters ==
    ASSUME IInv, NEW c \in Callers, registerRelationInsert(c), childMaps' # childMaps
    PROVE  IInv' /\ UNCHANGED <<types, objects, parentVectors, attributes, attributeMaps>>
<1> USE DEF IInv
<1> DEFINE q == req[c]
           new == NewRelation(q)
<1>1. /\ pc[c] = "insert" /\ q.op = "registerRelation" /\ pc' = [pc EXCEPT ![c] = "link"]
      /\ req' = req /\ childMaps' = childMaps \cup {new} /\ MapFree(q.parent)
      /\ RelationsAt(q.parent, q.relation, q.name) = {}
      /\ UNCHANGED <<types, objects, parentVectors, attributes, attributeMaps>>
  BY DEF registerRelationInsert, At, Return, Proceed
<1>2. /\ q.parent \in Nat /\ q.relation \in TypeIds /\ q.name \in Names /\ q.child \in Id
      /\ q.child \in Nat
  BY <1>1 DEF CallOK, ArgumentsOK
<1>k. new.parent = q.parent /\ new.type = q.relation /\ new.name = q.name /\ new.child = q.child
  BY DEF NewRelation
<1>3. new \in Relation
  BY <1>2 DEF Relation, NewRelation
<1>4. \A x \in childMaps : ~(x.parent = new.parent /\ x.type = new.type /\ x.name = new.name)
  BY <1>1, <1>k DEF RelationsAt
<1>5. new \notin childMaps /\ new \notin Linked
  BY <1>4 DEF MirrorInv
<1>6. Linked' = Linked /\ Id' = Id
  BY <1>1 DEF Linked, Id
<1>7. \A d \in Callers : pc[d] = "link" => req[d].parent # q.parent
  BY <1>1, FreeMap
<1>8. StoreOK'
  BY <1>1, <1>3 DEF StoreOK
<1>9. \A d \in Callers : CallOK(d)'
  BY <1>1, <1>5, <1>6 DEF StoreOK, CallOK, NewRelation
<1>10. LinkInv'
  <2>1. \A d, e \in Callers :
           pc'[d] = "link" /\ pc'[e] = "link" /\ req'[d].parent = req'[e].parent => d = e
    BY <1>1, <1>7 DEF StoreOK, LinkInv
  <2>2. ASSUME NEW r \in childMaps' \ Linked'
        PROVE  \E d \in Callers : pc'[d] = "link" /\ r = NewRelation(req'[d])
    <3>1. CASE r = new
      BY <1>1, <3>1 DEF StoreOK
    <3>2. CASE r # new
      <4>1. PICK d \in Callers : pc[d] = "link" /\ r = NewRelation(req[d])
        BY <1>1, <1>6, <2>2, <3>2 DEF LinkInv
      <4> QED BY <1>1, <4>1 DEF StoreOK
    <3> QED BY <3>1, <3>2
  <2> QED BY <2>1, <2>2 DEF LinkInv, NewRelation
<1>11. MirrorInv'
  <2>1. \A r, x \in childMaps' :
           r.parent = x.parent /\ r.type = x.type /\ r.name = x.name => r = x
    BY <1>1, <1>4 DEF MirrorInv
  <2>2. \A r \in childMaps' : r.child \in Id'
    BY <1>1, <1>2, <1>6, <1>k DEF MirrorInv
  <2> QED BY <1>1, <1>6, <2>1, <2>2 DEF MirrorInv
<1> QED BY <1>1, <1>8, <1>9, <1>10, <1>11

\* The relation enters the parent vector of its child, and the lock is released.
LEMMA RelationLinks ==
    ASSUME IInv, NEW c \in Callers, registerRelationLink(c)
    PROVE  LET r == NewRelation(req[c])
           IN  /\ IInv' /\ Linked' = Linked \cup {r} /\ r \in childMaps \ Linked
               /\ r.parent \in Id \cup {Root} /\ r.child \in Id
               /\ r.type \in TypeIds /\ r.name \in Names
               /\ UNCHANGED <<types, objects, childMaps, attributes, attributeMaps>>
<1> USE DEF IInv
<1> DEFINE q == req[c]
           new == NewRelation(q)
<1>1. /\ pc[c] = "link" /\ q.op = "registerRelation" /\ pc' = [pc EXCEPT ![c] = "done"]
      /\ req' = req /\ parentVectors' = [parentVectors EXCEPT ![q.child] = Append(@, new)]
      /\ UNCHANGED <<types, objects, childMaps, attributes, attributeMaps>>
  BY DEF registerRelationLink, At, Return
<1>2. /\ q.parent \in Nat /\ q.parent \in Id \cup {Root} /\ q.relation \in TypeIds
      /\ q.name \in Names /\ q.child \in Id /\ new \in childMaps /\ new \notin Linked
  BY <1>1 DEF CallOK, ArgumentsOK
<1>k. new.parent = q.parent /\ new.type = q.relation /\ new.name = q.name /\ new.child = q.child
  BY DEF NewRelation
<1> HIDE DEF new
<1>3. new \in Relation
  BY <1>2 DEF StoreOK
<1>4. /\ parentVectors \in Seq(Seq(Relation)) /\ Len(parentVectors) = Len(objects)
      /\ q.child \in 1 .. Len(parentVectors)
  BY <1>2 DEF StoreOK, MirrorInv, Id
<1>5. Linked' = Linked \cup {new} /\ Id' = Id
  <2>1. In(parentVectors') = In(parentVectors) \cup {new}
    <3>1. In([parentVectors EXCEPT ![q.child] = Append(@, new)]) = In(parentVectors) \cup {new}
      BY <1>3, <1>4, InLongerVector
    <3> QED BY <1>1, <3>1
  <2> QED BY <1>1, <2>1 DEF Linked, Id
<1>6. StoreOK'
  <2>1. parentVectors' \in Seq(Seq(Relation))
    BY <1>1, <1>3, <1>4
  <2> QED BY <1>1, <2>1 DEF StoreOK
<1>7. \A d \in Callers : CallOK(d)'
  <2> TAKE d \in Callers
  <2>1. CASE d = c
    BY <1>1, <2>1 DEF StoreOK, CallOK
  <2>2. CASE d # c
    <3>1. pc'[d] = pc[d] /\ req'[d] = req[d]
      BY <1>1, <2>2 DEF StoreOK
    <3>2. pc[d] = "link" => NewRelation(req[d]) # new
      <4>1. pc[d] = "link" => req[d].parent # q.parent
        BY <1>1, <2>2 DEF LinkInv
      <4>2. NewRelation(req[d]).parent = req[d].parent
        BY DEF NewRelation
      <4> QED BY <1>k, <4>1, <4>2
    <3> QED BY <1>1, <1>5, <3>1, <3>2 DEF CallOK, NewRelation
  <2> QED BY <2>1, <2>2
<1>8. LinkInv'
  <2>1. \A d, e \in Callers :
           pc'[d] = "link" /\ pc'[e] = "link" /\ req'[d].parent = req'[e].parent => d = e
    BY <1>1 DEF StoreOK, LinkInv
  <2>2. ASSUME NEW r \in childMaps' \ Linked'
        PROVE  \E d \in Callers : pc'[d] = "link" /\ r = NewRelation(req'[d])
    <3>1. r # new /\ r \in childMaps \ Linked
      BY <1>1, <1>5, <2>2
    <3>2. PICK d \in Callers : pc[d] = "link" /\ r = NewRelation(req[d])
      BY <3>1 DEF LinkInv
    <3>3. d # c
      BY <3>1, <3>2 DEF new
    <3> QED BY <1>1, <3>2, <3>3 DEF StoreOK
  <2> QED BY <2>1, <2>2 DEF LinkInv, NewRelation
<1>9. MirrorInv'
  <2>1. Len(parentVectors') = Len(objects')
    BY <1>1, <1>4
  <2>2. ASSUME NEW i \in Id
        PROVE  /\ parentVectors'[i] # << >>
               /\ \A j, k \in DOMAIN parentVectors'[i] :
                     /\ parentVectors'[i][j].child = i
                     /\ parentVectors'[i][j] = parentVectors'[i][k] => j = k
    <3>1. CASE i # q.child
      <4>1. parentVectors'[i] = parentVectors[i]
        BY <1>1, <1>4, <3>1 DEF Id
      <4> QED BY <4>1 DEF MirrorInv
    <3>2. CASE i = q.child
      <4> DEFINE v == parentVectors[i]
                 w == parentVectors'[i]
      <4>1. v \in Seq(Relation) /\ w = Append(v, new)
        BY <1>1, <1>4, <3>2
      <4>2. \A j, k \in DOMAIN v : v[j].child = i /\ (v[j] = v[k] => j = k)
        BY DEF MirrorInv
      <4>3. \A j \in DOMAIN v : v[j] # new
        <5>1. i \in DOMAIN parentVectors
          BY <1>4, <3>2
        <5> QED BY <1>2, <5>1, InVectors DEF Linked
      <4> HIDE DEF v, w
      <4>4. /\ DOMAIN v = 1 .. Len(v) /\ DOMAIN w = 1 .. Len(v) + 1 /\ Len(v) \in Nat
            /\ w[Len(v) + 1] = new /\ \A j \in 1 .. Len(v) : w[j] = v[j]
        BY <1>3, <4>1
      <4>5. w # << >>
        BY <1>3, <4>1
      <4>6. \A j, k \in DOMAIN w : w[j].child = i /\ (w[j] = w[k] => j = k)
        BY <1>k, <3>2, <4>2, <4>3, <4>4
      <4> QED BY <4>5, <4>6 DEF w
    <3> QED BY <3>1, <3>2
  <2>3. Linked' \subseteq childMaps'
    BY <1>1, <1>2, <1>5 DEF MirrorInv
  <2>4. /\ \A r, x \in childMaps' :
              r.parent = x.parent /\ r.type = x.type /\ r.name = x.name => r = x
        /\ \A r \in childMaps' : r.child \in Id'
    BY <1>1, <1>5 DEF MirrorInv
  <2>5. \A i \in Id' :
           /\ parentVectors'[i] # << >>
           /\ \A j, k \in DOMAIN parentVectors'[i] :
                 /\ parentVectors'[i][j].child = i
                 /\ parentVectors'[i][j] = parentVectors'[i][k] => j = k
    BY <1>5, <2>2
  <2> QED BY <2>1, <2>3, <2>4, <2>5 DEF MirrorInv
<1> QED BY <1>1, <1>2, <1>k, <1>5, <1>6, <1>7, <1>8, <1>9 DEF new

\* Every step of a call preserves the inductive invariant, and is a step of the
\* abstract topology or changes nothing that it shows.
LEMMA EveryStep ==
    ASSUME IInv, NEW c \in Callers, Step(c)
    PROVE  IInv' /\ (Abstract!Next \/ UNCHANGED Abstract!vars)
<1> USE DEF store
<1>s. UNCHANGED <<types, objects, parentVectors, attributes, attributeMaps>>
         => UNCHANGED Abstract!vars
  BY DEF Abstract!vars, Linked
<1>1. CASE lookupTypeByName(c) \/ lookupTypeById(c) \/ lookupObjectById(c) \/ lookupRelation(c)
           \/ enumerateChildren(c) \/ enumerateParents(c) \/ lookupAttributeByName(c) \/
           lookupAttributeById(c) \/ getAttribute(c) \/ enumerateAttributes(c)
  <2>1. /\ pc[c] = "find" /\ UNCHANGED <<store, req>> /\ pc' = [pc EXCEPT ![c] = "done"]
    BY <1>1 DEF lookupTypeByName, lookupTypeById, lookupObjectById, lookupRelation, enumerateChildren,
       enumerateParents, lookupAttributeByName, lookupAttributeById, getAttribute,
       enumerateAttributes,
       At, Return
  <2> QED BY <1>s, <2>1, Returns
<1>2. CASE registerTypeFind(c) \/ registerObjectFind(c) \/ registerRelationFind(c) \/
           registerAttributeFind(c) \/ setAttributeFind(c)
  <2>1. /\ pc[c] = "find" /\ UNCHANGED <<store, req>>
        /\ \/ pc' = [pc EXCEPT ![c] = "done"]
           \/ /\ pc' = [pc EXCEPT ![c] = "insert"]
              /\ req[c].op \in {"registerObject", "registerRelation"} =>
                    req[c].parent \in Id \cup {Root}
              /\ req[c].op = "registerRelation" => req[c].child \in Id
              /\ req[c].op = "setAttribute" => req[c].object \in Id
    BY <1>2 DEF registerTypeFind, registerObjectFind, registerRelationFind, registerAttributeFind,
       setAttributeFind,
       At, Return, Proceed
  <2> QED BY <1>s, <2>1, Returns, Proceeds
<1>3. CASE registerTypeInsert(c)
  <2>1. /\ pc[c] = "insert" /\ req[c].op = "registerType" /\ pc' = [pc EXCEPT ![c] = "done"]
        /\ UNCHANGED <<objects, childMaps, parentVectors, attributes, attributeMaps, req>>
        /\ \/ types' = types
           \/ types' = Append(types, req[c].name) /\ TypesNamed(req[c].name) = {}
    BY <1>3 DEF registerTypeInsert, At, Return
  <2>2. req[c].name \in Names
    BY <2>1 DEF IInv, CallOK, ArgumentsOK
  <2>3. types' \in Seq(Names)
    <3>1. types \in Seq(Names)
      BY DEF IInv, StoreOK
    <3> QED BY <2>1, <2>2, <3>1
  <2>4. IInv'
    BY <2>1, <2>3, OtherRegistries DEF IInv, StoreOK
  <2>5. CASE types' # types
    <3>1. \A i \in DOMAIN types : types[i] # req[c].name
      BY <2>1, <2>5 DEF TypesNamed
    <3>2. Abstract!RegisterType(req[c].name)
      BY <2>1, <2>5, <3>1 DEF Abstract!RegisterType, Linked
    <3> QED BY <2>2, <2>4, <3>2 DEF Abstract!Next
  <2> QED BY <1>s, <2>1, <2>4, <2>5
<1>4. CASE registerAttributeInsert(c)
  <2> DEFINE q == req[c]
             new == [domain |-> q.domain, name |-> q.name, datatype |-> q.datatype]
  <2>1. /\ pc[c] = "insert" /\ q.op = "registerAttribute" /\ pc' = [pc EXCEPT ![c] = "done"]
        /\ UNCHANGED <<types, objects, childMaps, parentVectors, attributeMaps, req>>
        /\ \/ attributes' = attributes
           \/ attributes' = Append(attributes, new) /\ AttributesNamed(q.domain, q.name) = {}
    BY <1>4 DEF registerAttributeInsert, At, Return
  <2>2. q.domain \in TypeIds /\ q.name \in Names /\ q.datatype \in Datatypes
    BY <2>1 DEF IInv, CallOK, ArgumentsOK
  <2>3. attributes' \in Seq([domain : TypeIds, name : Names, datatype : Datatypes])
    <3> DEFINE A == [domain : TypeIds, name : Names, datatype : Datatypes]
    <3>1. attributes \in Seq(A)
      BY DEF IInv, StoreOK
    <3>2. new \in A
      BY <2>2
    <3> HIDE DEF new, A
    <3>3. attributes' \in Seq(A)
      BY <2>1, <3>1, <3>2
    <3> QED BY <3>3 DEF A
  <2>4. IInv'
    BY <2>1, <2>3, OtherRegistries DEF IInv, StoreOK
  <2>5. CASE attributes' # attributes
    <3>1. \A i \in DOMAIN attributes :
             attributes[i].domain # q.domain \/ attributes[i].name # q.name
      BY <2>1, <2>5 DEF AttributesNamed
    <3>2. Abstract!RegisterAttribute(q.domain, q.name, q.datatype)
      BY <2>1, <2>5, <3>1 DEF Abstract!RegisterAttribute, Linked
    <3> QED BY <2>2, <2>4, <3>2 DEF Abstract!Next
  <2> QED BY <1>s, <2>1, <2>4, <2>5
<1>5. CASE setAttributeInsert(c)
  <2> DEFINE q == req[c]
  <2>1. /\ pc[c] = "insert" /\ q.op = "setAttribute" /\ pc' = [pc EXCEPT ![c] = "done"]
        /\ UNCHANGED <<types, objects, childMaps, parentVectors, attributes, req>>
        /\ attributeMaps' = [k \in DOMAIN attributeMaps \cup {<<q.object, q.attribute>>} |->
                                IF k = <<q.object, q.attribute>> THEN q.value ELSE attributeMaps[k]]
    BY <1>5 DEF setAttributeInsert, At, Return
  <2>2. q.object \in Id /\ q.attribute \in AttributeIds /\ q.value \in Values
    BY <2>1 DEF IInv, CallOK, ArgumentsOK
  <2>3. IInv'
    BY <2>1, OtherRegistries DEF IInv, StoreOK
  <2>4. Abstract!SetAttribute(q.object, q.attribute, q.value)
    BY <2>1, <2>2 DEF Abstract!SetAttribute, Abstract!Id, Id, Linked
  <2> QED BY <2>2, <2>3, <2>4 DEF Abstract!Next, Abstract!Id, Id
<1>6. CASE registerObjectInsert(c)
  <2>1. CASE childMaps' = childMaps
    <3>1. /\ pc[c] = "insert" /\ UNCHANGED <<store, req>> /\ pc' = [pc EXCEPT ![c] = "done"]
      <4>1. \A r : r \in childMaps => r.child \in Id
        BY DEF IInv, MirrorInv
      <4>2. Len(objects) + 1 \notin Id
        BY DEF IInv, StoreOK, Id
      <4> QED BY <1>6, <2>1, <4>1, <4>2 DEF registerObjectInsert, At, Return
    <3> QED BY <1>s, <3>1, Returns
  <2>2. CASE childMaps' # childMaps
    <3>1. PICK r \in Relation :
             /\ r.parent \in Id \cup {Root} /\ r.child = Len(objects) + 1
             /\ childMaps' = childMaps \cup {r} /\ Linked' = Linked \cup {r}
             /\ \A x \in childMaps :
                   ~(x.parent = r.parent /\ x.type = r.type /\ x.name = r.name)
             /\ objects' = Append(objects, req[c].type) /\ req[c].type \in TypeIds
             /\ UNCHANGED <<types, attributes, attributeMaps>>
      BY <1>6, <2>2, ObjectEnters
    <3>2. /\ r.type \in TypeIds /\ r.name \in Names
          /\ r = [parent |-> r.parent, type |-> r.type, name |-> r.name, child |-> Len(objects) + 1]
      BY <3>1 DEF Relation
    <3>3. Abstract!Unbound(r.parent, r.type, r.name)
      BY <3>1 DEF Abstract!Unbound, IInv, MirrorInv
    <3>4. Abstract!RegisterObject(r.parent, r.type, r.name, req[c].type)
      BY <3>1, <3>2, <3>3 DEF Abstract!RegisterObject, Abstract!Id, Abstract!Root, Id, Root
    <3>5. Abstract!Next
      BY <3>1, <3>2, <3>4 DEF Abstract!Next, Abstract!Id, Abstract!Root, Id, Root
    <3> QED BY <1>6, <2>2, <3>5, ObjectEnters
  <2> QED BY <2>1, <2>2
<1>7. CASE registerRelationInsert(c)
  <2>1. CASE childMaps' = childMaps
    <3>1. NewRelation(req[c]) \in childMaps
             => RelationsAt(req[c].parent, req[c].relation, req[c].name) # {}
      BY DEF RelationsAt, NewRelation
    <3>2. /\ pc[c] = "insert" /\ UNCHANGED <<store, req>> /\ pc' = [pc EXCEPT ![c] = "done"]
      BY <1>7, <2>1, <3>1 DEF registerRelationInsert, At, Return, Proceed
    <3> QED BY <1>s, <3>2, Returns
  <2>2. CASE childMaps' # childMaps
    BY <1>s, <1>7, <2>2, RelationEnters
  <2> QED BY <2>1, <2>2
<1>8. CASE registerRelationLink(c)
  <2> DEFINE r == NewRelation(req[c])
  <2>1. /\ IInv' /\ Linked' = Linked \cup {r} /\ r \in childMaps \ Linked
        /\ r.parent \in Id \cup {Root} /\ r.child \in Id
        /\ r.type \in TypeIds /\ r.name \in Names
        /\ UNCHANGED <<types, objects, childMaps, attributes, attributeMaps>>
    BY <1>8, RelationLinks
  <2>2. r = [parent |-> r.parent, type |-> r.type, name |-> r.name, child |-> r.child]
    BY DEF NewRelation
  <2> HIDE DEF r
  <2>3. Abstract!Unbound(r.parent, r.type, r.name)
    BY <2>1 DEF Abstract!Unbound, IInv, MirrorInv
  <2>4. Abstract!RegisterRelation(r.parent, r.type, r.name, r.child)
    BY <2>1, <2>2, <2>3 DEF Abstract!RegisterRelation, Abstract!Id, Abstract!Root, Id, Root
  <2> QED BY <2>1, <2>4 DEF Abstract!Next, Abstract!Id, Abstract!Root, Id, Root
<1> QED BY <1>1, <1>2, <1>3, <1>4, <1>5, <1>6, <1>7, <1>8 DEF Step

\* So does every step of the topology, calls and their ends included.
LEMMA Inductive ==
    ASSUME IInv, [RamNext]_ramVars
    PROVE  IInv' /\ (Abstract!Next \/ UNCHANGED Abstract!vars)
<1>1. ASSUME NEW c \in Callers, Taken(c) \/ \E i \in Nat : \E r \in CallsUpTo(i) : Call(c, r)
      PROVE  IInv' /\ UNCHANGED Abstract!vars
  <2>1. /\ UNCHANGED store
        /\ \/ /\ pc[c] = "done" /\ pc' = [pc EXCEPT ![c] = "idle"]
              /\ req' = [req EXCEPT ![c] = NoCall]
           \/ \E r : /\ pc[c] = "idle" /\ pc' = [pc EXCEPT ![c] = "find"] /\ ArgumentsOK(r)
                     /\ req' = [req EXCEPT ![c] = r]
    BY <1>1, Arguments DEF Taken, Call
  <2>2. /\ pc'[c] \in {"idle", "find"} /\ (pc'[c] = "find" => ArgumentsOK(req'[c]))
        /\ \A d \in Callers \ {c} : pc'[d] = pc[d] /\ req'[d] = req[d]
        /\ pc[c] \in {"done", "idle"}
        /\ pc' \in [Callers -> {"idle", "find", "insert", "link", "done"}]
        /\ req' = [d \in Callers |-> req'[d]]
    BY <2>1 DEF IInv, StoreOK
  <2>3. UNCHANGED <<types, objects, childMaps, parentVectors, attributes, attributeMaps>>
    BY <2>1 DEF store
  <2>4. StoreOK'
    BY <2>2, <2>3 DEF IInv, StoreOK
  <2>5. ASSUME NEW d \in Callers PROVE CallOK(d)'
    <3>1. CASE d = c
      BY <2>2, <3>1 DEF CallOK, ArgumentsOK
    <3>2. CASE d # c
      BY <2>2, <2>3, <3>2 DEF IInv, CallOK, ArgumentsOK, NewRelation, Linked, Id
    <3> QED BY <3>1, <3>2
  <2>6. LinkInv'
    BY <2>2, <2>3 DEF IInv, LinkInv, NewRelation, Linked
  <2>7. MirrorInv'
    BY <2>3 DEF IInv, MirrorInv, Linked, Id
  <2>8. UNCHANGED Abstract!vars
    BY <2>3 DEF Abstract!vars, Linked
  <2> QED BY <2>4, <2>5, <2>6, <2>7, <2>8 DEF IInv
<1>2. CASE UNCHANGED ramVars
  <2>1. UNCHANGED <<types, objects, childMaps, parentVectors, attributes, attributeMaps, pc, req>>
    BY <1>2 DEF ramVars, store
  <2>2. StoreOK' /\ LinkInv' /\ MirrorInv' /\ \A c \in Callers : CallOK(c)'
    BY <2>1 DEF IInv, StoreOK, LinkInv, MirrorInv, CallOK, Linked, Id
  <2>3. UNCHANGED Abstract!vars
    BY <2>1 DEF Abstract!vars, Linked
  <2> QED BY <2>2, <2>3 DEF IInv
<1> QED BY <1>1, <1>2, EveryStep DEF RamNext

\* The inductive invariant holds in every state.
THEOREM Invariance == RamSpec => []IInv
<1>1. RamInit => IInv
  <2> SUFFICES ASSUME RamInit PROVE IInv
    OBVIOUS
  <2> USE DEF RamInit
  <2>1. Linked = {} /\ Id = {}
    BY DEF Linked, In, Id
  <2>2. StoreOK
    BY DEF StoreOK
  <2>3. LinkInv /\ MirrorInv /\ \A c \in Callers : CallOK(c)
    BY <2>1 DEF LinkInv, MirrorInv, CallOK
  <2> QED BY <2>2, <2>3 DEF IInv
<1> QED BY <1>1, Inductive, PTL DEF RamSpec

\* Whatever the callers do at the same time, a relation that a thread may read in a
\* child map is in the parent vector of its child, and the other way round.
THEOREM Mirrored == RamSpec => []RelationsMirrored
<1>1. IInv => RelationsMirrored
  <2> SUFFICES ASSUME IInv PROVE RelationsMirrored
    OBVIOUS
  <2>1. ASSUME NEW r \in childMaps
        PROVE  /\ r.child \in Id /\ RelationsAt(r.parent, r.type, r.name) = {r}
               /\ MapFree(r.parent) => r \in Linked
    <3>1. r.child \in Id /\ RelationsAt(r.parent, r.type, r.name) = {r}
      BY DEF IInv, MirrorInv, RelationsAt
    <3>2. ASSUME MapFree(r.parent), r \notin Linked PROVE FALSE
      <4>1. PICK c \in Callers : pc[c] = "link" /\ r = NewRelation(req[c])
        BY <3>2 DEF IInv, LinkInv
      <4>2. r.parent = req[c].parent
        BY <4>1 DEF NewRelation
      <4> QED BY <3>2, <4>1, <4>2, FreeMap
    <3> QED BY <3>1, <3>2
  <2> QED BY <2>1 DEF IInv, MirrorInv, RelationsMirrored
<1> QED BY <1>1, Invariance, PTL

\* The locks make the topology linearizable: each call is one step of the abstract
\* topology, in which names, objects and relations stay what they are.
THEOREM Refinement == RamSpec => ImplementsTopology
<1>1. IInv /\ [RamNext]_ramVars => [Abstract!Next]_(Abstract!vars)
  BY Inductive
<1> QED BY <1>1, Invariance, PTL DEF RamSpec, ImplementsTopology

-----------------------------------------------------------------------------
(* DatabaseTopology.                                                       *)

\* The tables only grow, so that what was returned stays right.
LEMMA DBReturned ==
    ASSUME NEW x, x.req.op \in DB!Registrations, NEW a, DB!Returned(x, a),
           dbType \subseteq dbType', dbObject \subseteq dbObject', dbRelation \subseteq dbRelation',
           dbAttribute \subseteq dbAttribute'
    PROVE  DB!Returned(x, a)'
<1> USE DEF DB!Returned, DB!TypesNamed, DB!AttributesNamed, DB!RelationsAt, DB!Registrations
<1>1. CASE x.req.op = "registerType"
  BY <1>1
<1>2. CASE x.req.op = "registerAttribute"
  BY <1>2
<1>3. CASE x.req.op = "registerObject"
  BY <1>3
<1>4. CASE x.req.op = "registerRelation"
  BY <1>4
<1> QED BY <1>1, <1>2, <1>3, <1>4

\* The rows of a table, by key.
DBKeys ==
    /\ \A x, y \in dbType : x.name = y.name => x = y
    /\ \A x, y \in dbAttribute : <<x.domain, x.name>> = <<y.domain, y.name>> => x = y
    /\ \A x, y \in dbRelation : <<x.parent, x.type, x.name>> = <<y.parent, y.type, y.name>> => x = y
    /\ \A x \in dbRelation : DB!IsObject(x.child)

\* What the calls under way have inserted or were given.
DBUnderWay(p) ==
    /\ dbPc[p] \in {"relate", "link"} => dbReq[p].op \in {"registerObject", "registerRelation"}
    /\ dbPc[p] \in {"relate", "link"} /\ dbReq[p].op = "registerObject" =>
          [id |-> dbMade[p], type |-> dbReq[p].type] \in dbObject
    /\ dbPc[p] \in {"select", "link"} /\ dbReq[p].op = "registerRelation" => DB!IsObject(dbReq[p].child)

DBAnswers == \A x \in dbAnswers : x.req.op \in DB!Registrations /\ \A a \in x.answer : DB!Returned(x, a)

DBStates ==
    /\ dbPart \in {"types", "objects", "attributes"} /\ dbPc = [p \in DBProcesses |-> dbPc[p]]
    /\ dbReq = [p \in DBProcesses |-> dbReq[p]] /\ dbMade = [p \in DBProcesses |-> dbMade[p]]

LEMMA DBParts ==
    /\ DB!IInv <=> DBAnswers /\ DBKeys /\ DBStates /\ \A p \in DBProcesses : DBUnderWay(p)
    /\ DB!IInv' <=> DBAnswers' /\ DBKeys' /\ DBStates' /\ \A p \in DBProcesses : DBUnderWay(p)'
BY DEF DB!IInv, DB!DatabaseAgrees, DBAnswers, DBKeys, DBStates, DBUnderWay, DB!IsObject

\* Tables that grow.
DBGrow == /\ dbType \subseteq dbType' /\ dbObject \subseteq dbObject' /\ dbRelation \subseteq dbRelation'
          /\ dbAttribute \subseteq dbAttribute'

\* A call returns what is in the tables.
LEMMA DBReturns ==
    ASSUME DB!IInv, NEW p \in DBProcesses, NEW a, NEW n, DB!Return(p, a, n), DBGrow, DBKeys',
           NEW new, new = [who |-> p, req |-> dbReq[p], answer |-> a, inserted |-> n],
           dbReq[p].op \in DB!Registrations => \A x \in a : DB!Returned(new, x)'
    PROVE  DB!IInv'
<1>2. new.req = dbReq[p] /\ new.answer = a
  OBVIOUS
<1>3. dbAnswers' = IF dbReq[p].op \in DB!Registrations THEN dbAnswers \cup {new} ELSE dbAnswers
  BY DEF DB!Return
<1>4. \A x \in dbAnswers : x.req.op \in DB!Registrations /\ \A y \in x.answer : DB!Returned(x, y)
  BY DBParts DEF DBAnswers
<1>5. \A x \in dbAnswers : \A y \in x.answer : DB!Returned(x, y)'
  BY <1>4, DBReturned DEF DBGrow
<1>6. dbReq[p].op \in DB!Registrations => \A y \in new.answer : DB!Returned(new, y)'
  BY <1>2
<1>7. DBAnswers'
  <2> SUFFICES ASSUME NEW x \in dbAnswers'
               PROVE  x.req.op \in DB!Registrations /\ \A y \in x.answer : DB!Returned(x, y)'
    BY DEF DBAnswers
  <2>1. CASE x \in dbAnswers
    BY <1>4, <1>5, <2>1
  <2>2. CASE x \notin dbAnswers
    BY <1>2, <1>3, <1>6, <2>2
  <2> QED BY <2>1, <2>2
<1>8. DBStates'
  BY DBParts DEF DBStates, DB!Return
<1>9. ASSUME NEW q \in DBProcesses PROVE DBUnderWay(q)'
  <2>1. DBUnderWay(q)
    BY DBParts
  <2>2. CASE q = p
    BY <2>2, DBParts DEF DBStates, DBUnderWay, DB!Return
  <2>3. CASE q # p
    BY <2>1, <2>3, DBParts DEF DBStates, DBUnderWay, DB!Return, DBGrow, DB!IsObject
  <2> QED BY <2>2, <2>3
<1> QED BY <1>7, <1>8, <1>9, DBParts

\* A call that leaves the tables, or fails.
LEMMA DBSame ==
    ASSUME DB!IInv, UNCHANGED <<dbType, dbObject, dbRelation, dbAttribute>>
    PROVE  DBGrow /\ DBKeys' /\ \A x : \A a : DB!Returned(x, a)' <=> DB!Returned(x, a)
BY DBParts DEF DBGrow, DBKeys, DB!IsObject, DB!Returned, DB!TypesNamed, DB!AttributesNamed, DB!RelationsAt

LEMMA DBGoes ==
    ASSUME DB!IInv, NEW p \in DBProcesses, NEW l, DB!Go(p, l),
           UNCHANGED <<dbType, dbObject, dbRelation, dbAttribute>>,
           l \in {"insert", "dead"}
           \/ (l = "link" /\ dbReq[p].op \in {"registerObject", "registerRelation"}
               /\ dbPc[p] = IF dbReq[p].op = "registerObject" THEN "relate" ELSE "select")
    PROVE  DB!IInv'
<1>1. DBKeys'
  BY DBSame
<1>2. DBAnswers'
  BY DBParts, DBSame DEF DBAnswers, DB!Go
<1>3. DBStates'
  BY DBParts DEF DBStates, DB!Go
<1>4. ASSUME NEW q \in DBProcesses PROVE DBUnderWay(q)'
  <2>1. DBUnderWay(q)
    BY DBParts
  <2>2. dbPc'[q] = IF q = p THEN l ELSE dbPc[q]
    BY DBParts DEF DBStates, DB!Go
  <2> QED BY <2>1, <2>2 DEF DBUnderWay, DB!Go, DB!IsObject
<1> QED BY <1>1, <1>2, <1>3, <1>4, DBParts

LEMMA DBCalls ==
    ASSUME DB!IInv, NEW p \in DBProcesses, NEW r \in DB!Calls, DB!Call(p, r)
    PROVE  DB!IInv'
<1>1. r.op = "registerRelation" => DB!IsObject(r.child)
  <2> SUFFICES ASSUME r.op = "registerRelation" PROVE DB!IsObject(r.child)
    OBVIOUS
  <2>1. r \in DB!TypeCalls \/ r \in DB!ObjectCalls \/ r \in DB!AttributeCalls
    BY DBParts DEF DB!Calls, DBStates
  <2>2. r.child \in DB!ObjectIds \ {DB!Root}
    BY <2>1 DEF DB!TypeCalls, DB!ObjectCalls, DB!AttributeCalls
  <2>3. PICK x \in dbAnswers : x.req.op = "registerObject" /\ \E a \in x.answer : a.id = r.child
    BY <2>2 DEF DB!ObjectIds
  <2>0. PICK a \in x.answer : a.id = r.child
    BY <2>3
  <2>4. DB!Returned(x, a)
    BY DBParts DEF DBAnswers
  <2>5. a \in dbObject \/ \E o \in dbObject : o.id = a.id
    BY <2>3, <2>4 DEF DB!Returned
  <2> QED
    BY <2>0, <2>5 DEF DB!IsObject
<1>2. /\ dbPc' = [dbPc EXCEPT ![p] = "select"] /\ dbReq' = [dbReq EXCEPT ![p] = r]
      /\ UNCHANGED <<dbType, dbObject, dbRelation, dbAttribute, dbMade, dbAnswers, dbPart>>
  BY DEF DB!Call, DB!tables
<1>3. DBKeys' /\ DBAnswers'
  BY <1>2, DBParts, DBSame DEF DBAnswers
<1>4. DBStates'
  BY <1>2, DBParts DEF DBStates
<1>5. ASSUME NEW q \in DBProcesses PROVE DBUnderWay(q)'
  <2>1. DBUnderWay(q)
    BY DBParts
  <2>2. dbPc'[q] = (IF q = p THEN "select" ELSE dbPc[q]) /\ dbReq'[q] = IF q = p THEN r ELSE dbReq[q]
    BY <1>2, DBParts DEF DBStates
  <2> QED BY <1>1, <1>2, <2>1, <2>2 DEF DBUnderWay, DB!IsObject
<1> QED BY <1>3, <1>4, <1>5, DBParts

LEMMA DBInserts ==
    ASSUME DB!IInv, NEW p \in DBProcesses,
           \/ DB!registerTypeInsert(p) \/ DB!registerObjectInsert(p)
           \/ DB!registerRelationInsert(p) \/ DB!registerAttributeInsert(p)
           \/ DB!setAttributeUpdate(p) \/ DB!setAttributeInsert(p)
    PROVE  DB!IInv'
<1> USE DEF DB!Terminate, DB!At
<1>1. CASE DB!registerTypeInsert(p)
  <2>1. PICK new : new = [id |-> DB!NextId("type"), name |-> dbReq[p].name]
    OBVIOUS
  <2>2. UNCHANGED <<dbObject, dbRelation, dbAttribute>> /\ dbReq[p].op = "registerType" /\ new.name = dbReq[p].name
    BY <1>1, <2>1 DEF DB!registerTypeInsert
  <2>3. CASE DB!TypesNamed(new.name) # {}
    BY <1>1, <2>1, <2>2, <2>3, DBGoes DEF DB!registerTypeInsert
  <2>4. CASE DB!TypesNamed(new.name) = {}
    <3>1. dbType' = dbType \cup {new} /\ DB!Return(p, {new}, TRUE)
      BY <1>1, <2>1, <2>4 DEF DB!registerTypeInsert
    <3>2. DBGrow /\ DBKeys'
      BY <2>2, <2>4, <3>1, DBParts DEF DBGrow, DBKeys, DB!TypesNamed, DB!IsObject
    <3>3. PICK x : x = [who |-> p, req |-> dbReq[p], answer |-> {new}, inserted |-> TRUE]
      OBVIOUS
    <3>4. x.req = dbReq[p]
      BY <3>3
    <3>5. DB!Returned(x, new)'
      BY <2>2, <3>1, <3>4 DEF DB!Returned, DB!TypesNamed
    <3>6. \A y \in {new} : DB!Returned(x, y)'
      BY <3>5
    <3>7. PICK a : a = {new}
      OBVIOUS
    <3>8. DB!Return(p, a, TRUE) /\ x = [who |-> p, req |-> dbReq[p], answer |-> a, inserted |-> TRUE]
          /\ \A y \in a : DB!Returned(x, y)'
      BY <3>1, <3>3, <3>6, <3>7
    <3> QED BY <3>2, <3>8, DBReturns
  <2> QED BY <2>3, <2>4
<1>2. CASE DB!registerObjectInsert(p)
  <2>1. PICK new : new = [id |-> DB!NextId("object"), type |-> dbReq[p].type]
    OBVIOUS
  <2>2. /\ dbObject' = dbObject \cup {new} /\ dbMade' = [dbMade EXCEPT ![p] = DB!NextId("object")]
        /\ dbPc' = [dbPc EXCEPT ![p] = "relate"] /\ dbReq[p].op = "registerObject"
        /\ UNCHANGED <<dbType, dbRelation, dbAttribute, dbReq, dbAnswers, dbPart>>
    BY <1>2, <2>1 DEF DB!registerObjectInsert
  <2>3. DBGrow /\ DBKeys'
    BY <2>2, DBParts DEF DBGrow, DBKeys, DB!IsObject
  <2>4. DBAnswers'
    BY <2>2, <2>3, DBParts, DBReturned DEF DBAnswers, DBGrow
  <2>5. DBStates'
    BY <2>2, DBParts DEF DBStates
  <2>6. ASSUME NEW q \in DBProcesses PROVE DBUnderWay(q)'
    <3>1. DBUnderWay(q)
      BY DBParts
    <3>2. /\ dbPc'[q] = (IF q = p THEN "relate" ELSE dbPc[q]) /\ dbReq'[q] = dbReq[q]
          /\ dbMade'[q] = IF q = p THEN DB!NextId("object") ELSE dbMade[q]
      BY <2>2, DBParts DEF DBStates
    <3>3. CASE q = p
      BY <2>1, <2>2, <3>2, <3>3 DEF DBUnderWay
    <3>4. CASE q # p
      BY <2>2, <3>1, <3>2, <3>4 DEF DBUnderWay, DB!IsObject
    <3> QED BY <3>3, <3>4
  <2> QED BY <2>3, <2>4, <2>5, <2>6, DBParts
<1>3. CASE DB!registerRelationInsert(p)
  <2>1. UNCHANGED <<dbType, dbObject, dbAttribute>> /\ dbPc[p] = "link"
    BY <1>3 DEF DB!registerRelationInsert
  <2>2. DBUnderWay(p)
    BY DBParts
  <2>3. CASE DB!RelationsAt(dbReq[p]) # {}
    BY <1>3, <2>1, <2>3, DBGoes DEF DB!registerRelationInsert
  <2>4. CASE DB!RelationsAt(dbReq[p]) = {}
    <3>1. PICK new : new = [parent |-> dbReq[p].parent, type |-> dbReq[p].relation,
                            name |-> dbReq[p].name, child |-> DB!TheChild(p)]
      OBVIOUS
    <3>2. /\ dbRelation' = dbRelation \cup {new} /\ DB!Return(p, DB!Related(p), TRUE)
          /\ new.parent = dbReq[p].parent /\ new.type = dbReq[p].relation /\ new.name = dbReq[p].name
          /\ new.child = DB!TheChild(p)
      BY <1>3, <2>4, <3>1 DEF DB!registerRelationInsert
    <3>3. DB!IsObject(DB!TheChild(p))
      <4>1. CASE dbReq[p].op = "registerObject"
        <5>1. PICK o \in dbObject : o = [id |-> dbMade[p], type |-> dbReq[p].type]
          BY <2>1, <2>2, <4>1 DEF DBUnderWay
        <5>2. o.id = dbMade[p]
          BY <5>1
        <5> QED BY <4>1, <5>2 DEF DB!TheChild, DB!IsObject
      <4>2. CASE dbReq[p].op # "registerObject"
        BY <2>1, <2>2, <4>2 DEF DB!TheChild, DBUnderWay
      <4> QED BY <4>1, <4>2
    <3>4. DBGrow /\ DBKeys'
      <4>1. \A x \in dbRelation : <<x.parent, x.type, x.name>> # <<new.parent, new.type, new.name>>
        BY <2>4, <3>2 DEF DB!RelationsAt
      <4>2. \A x, y \in dbRelation' : <<x.parent, x.type, x.name>> = <<y.parent, y.type, y.name>> => x = y
        BY <3>2, <4>1, DBParts DEF DBKeys
      <4>3. \A x \in dbRelation' : DB!IsObject(x.child)'
        BY <2>1, <3>2, <3>3, DBParts DEF DBKeys, DB!IsObject
      <4> QED BY <2>1, <3>2, <4>2, <4>3, DBParts DEF DBGrow, DBKeys
    <3>5. PICK x : x = [who |-> p, req |-> dbReq[p], answer |-> DB!Related(p), inserted |-> TRUE]
      OBVIOUS
    <3>6. x.req = dbReq[p] /\ x.inserted
      BY <3>5
    <3>7. \A a \in DB!Related(p) : DB!Returned(x, a)'
      <4>2. CASE dbReq[p].op = "registerObject"
        <5>1. \A a \in DB!Related(p) : a \in dbObject'
          BY <2>1, <2>2, <4>2 DEF DB!Related, DBUnderWay
        <5>2. DB!RelationsAt(x.req)' # {}
          BY <3>2, <3>6 DEF DB!RelationsAt
        <5> QED BY <3>6, <4>2, <5>1, <5>2 DEF DB!Returned
      <4>3. CASE dbReq[p].op = "registerRelation"
        <5>1. \A a \in DB!Related(p) : a = new
          BY <3>1, <4>3 DEF DB!Related, DB!TheChild
        <5> QED BY <3>2, <3>6, <4>3, <5>1 DEF DB!Returned
      <4> QED BY <2>1, <2>2, <4>2, <4>3 DEF DBUnderWay
    <3> QED BY <3>2, <3>4, <3>5, <3>7, DBReturns
  <2> QED BY <2>3, <2>4
<1>4. CASE DB!registerAttributeInsert(p)
  <2>1. PICK new : new = [id |-> DB!NextId("attribute"), domain |-> dbReq[p].domain, name |-> dbReq[p].name,
                          datatype |-> dbReq[p].datatype]
    OBVIOUS
  <2>2. /\ UNCHANGED <<dbType, dbObject, dbRelation>> /\ dbReq[p].op = "registerAttribute"
        /\ new.name = dbReq[p].name /\ new.domain = dbReq[p].domain
    BY <1>4, <2>1 DEF DB!registerAttributeInsert
  <2>3. CASE DB!AttributesNamed(new.domain, new.name) # {}
    BY <1>4, <2>1, <2>2, <2>3, DBGoes DEF DB!registerAttributeInsert
  <2>4. CASE DB!AttributesNamed(new.domain, new.name) = {}
    <3>1. dbAttribute' = dbAttribute \cup {new} /\ DB!Return(p, {new}, TRUE)
      BY <1>4, <2>1, <2>4 DEF DB!registerAttributeInsert
    <3>2. DBGrow /\ DBKeys'
      BY <2>2, <2>4, <3>1, DBParts DEF DBGrow, DBKeys, DB!AttributesNamed, DB!IsObject
    <3>3. PICK x : x = [who |-> p, req |-> dbReq[p], answer |-> {new}, inserted |-> TRUE]
      OBVIOUS
    <3>4. x.req = dbReq[p]
      BY <3>3
    <3>5. DB!Returned(x, new)'
      BY <2>2, <3>1, <3>4 DEF DB!Returned, DB!AttributesNamed
    <3>6. \A y \in {new} : DB!Returned(x, y)'
      BY <3>5
    <3>7. PICK a : a = {new}
      OBVIOUS
    <3>8. DB!Return(p, a, TRUE) /\ x = [who |-> p, req |-> dbReq[p], answer |-> a, inserted |-> TRUE]
          /\ \A y \in a : DB!Returned(x, y)'
      BY <3>1, <3>3, <3>6, <3>7
    <3> QED BY <3>2, <3>8, DBReturns
  <2> QED BY <2>3, <2>4
<1>5. CASE DB!setAttributeUpdate(p) \/ DB!setAttributeInsert(p)
  <2>1. /\ UNCHANGED <<dbType, dbObject, dbRelation, dbAttribute>> /\ dbReq[p].op \notin DB!Registrations
        /\ \/ DB!Go(p, "insert") \/ DB!Go(p, "dead") \/ DB!Return(p, {[ok |-> TRUE]}, FALSE)
    BY <1>5 DEF DB!setAttributeUpdate, DB!setAttributeInsert, DB!Registrations
  <2>2. PICK x : x = [who |-> p, req |-> dbReq[p], answer |-> {[ok |-> TRUE]}, inserted |-> FALSE]
    OBVIOUS
  <2> QED BY <2>1, <2>2, DBGoes, DBReturns, DBSame
<1> QED
  BY <1>1, <1>2, <1>3, <1>4, <1>5

LEMMA DBSelects ==
    ASSUME DB!IInv, NEW p \in DBProcesses,
           \/ DB!registerTypeSelect(p) \/ DB!lookupType(p) \/ DB!registerObjectSelect(p)
           \/ DB!registerRelationSelect(p) \/ DB!lookupObjectById(p) \/ DB!lookupRelation(p)
           \/ DB!registerAttributeSelect(p) \/ DB!lookupAttribute(p) \/ DB!getAttribute(p)
    PROVE  DB!IInv'
<1> USE DEF DB!At
<1>1. UNCHANGED <<dbType, dbObject, dbRelation, dbAttribute>>
  BY DEF DB!registerTypeSelect, DB!lookupType, DB!registerObjectSelect, DB!registerRelationSelect,
         DB!lookupObjectById, DB!lookupRelation, DB!registerAttributeSelect, DB!lookupAttribute,
         DB!getAttribute, DB!tables
<1>2. DBGrow /\ DBKeys' /\ \A x : \A a : DB!Returned(x, a)' <=> DB!Returned(x, a)
  BY <1>1, DBSame
<1>3. ASSUME NEW a, NEW n, DB!Return(p, a, n),
             dbReq[p].op \in DB!Registrations =>
                \A x : x.req = dbReq[p] /\ x.inserted = n => \A y \in a : DB!Returned(x, y)
      PROVE  DB!IInv'
  <2>1. PICK x : x = [who |-> p, req |-> dbReq[p], answer |-> a, inserted |-> n]
    OBVIOUS
  <2>2. x.req = dbReq[p] /\ x.inserted = n
    BY <2>1
  <2>3. dbReq[p].op \in DB!Registrations => \A y \in a : DB!Returned(x, y)'
    BY <1>2, <1>3, <2>2
  <2> QED BY <1>2, <1>3, <2>1, <2>3, DBReturns
<1>4. ASSUME DB!Go(p, "insert") PROVE DB!IInv'
  BY <1>1, <1>4, DBGoes
<1>5. CASE DB!registerTypeSelect(p)
  <2>1. PICK found : found = DB!TypesNamed(dbReq[p].name)
    OBVIOUS
  <2>2. dbReq[p].op = "registerType" /\ (DB!Return(p, found, FALSE) \/ DB!Go(p, "insert"))
    BY <1>5, <2>1 DEF DB!registerTypeSelect
  <2>3. \A x : x.req = dbReq[p] => \A y \in found : DB!Returned(x, y)
    BY <2>1, <2>2 DEF DB!Returned
  <2> QED BY <1>3, <1>4, <2>2, <2>3
<1>6. CASE DB!registerAttributeSelect(p)
  <2>1. PICK found : found = DB!AttributesNamed(dbReq[p].domain, dbReq[p].name)
    OBVIOUS
  <2>2. dbReq[p].op = "registerAttribute" /\ (DB!Return(p, found, FALSE) \/ DB!Go(p, "insert"))
    BY <1>6, <2>1 DEF DB!registerAttributeSelect
  <2>3. \A x : x.req = dbReq[p] => \A y \in found : DB!Returned(x, y)
    BY <2>1, <2>2 DEF DB!Returned
  <2> QED BY <1>3, <1>4, <2>2, <2>3
<1>7. CASE DB!registerObjectSelect(p)
  <2>1. PICK found : found = DB!RelationsAt(dbReq[p])
    OBVIOUS
  <2>2. PICK a : a = {[id |-> r.child, type |-> dbReq[p].type] : r \in found}
    OBVIOUS
  <2>3. dbReq[p].op = "registerObject" /\ (DB!Return(p, a, FALSE) \/ DB!Go(p, "insert"))
    BY <1>7, <2>1, <2>2 DEF DB!registerObjectSelect
  <2>4. ASSUME NEW y \in a
        PROVE  (\E r \in DB!RelationsAt(dbReq[p]) : r.child = y.id) /\ \E o \in dbObject : o.id = y.id
    <3>1. PICK r \in found : y = [id |-> r.child, type |-> dbReq[p].type]
      BY <2>2
    <3>2. y.id = r.child /\ r \in dbRelation
      BY <2>1, <3>1 DEF DB!RelationsAt
    <3>3. DB!IsObject(r.child)
      BY <3>2, DBParts DEF DBKeys
    <3> QED BY <2>1, <3>2, <3>3 DEF DB!IsObject
  <2>5. ASSUME NEW x, x.req = dbReq[p], x.inserted = FALSE, NEW y \in a PROVE DB!Returned(x, y)
    BY <2>3, <2>4, <2>5 DEF DB!Returned
  <2> QED BY <1>3, <1>4, <2>3, <2>5
<1>8. CASE DB!registerRelationSelect(p)
  <2>1. DBUnderWay(p) /\ (DB!At(p, "relate", "registerObject") \/ DB!At(p, "select", "registerRelation"))
    BY <1>8, DBParts DEF DB!registerRelationSelect
  <2>2. CASE DB!RelationsAt(dbReq[p]) = {}
    <3>1. DB!Go(p, "link")
      BY <1>8, <2>2 DEF DB!registerRelationSelect
    <3> QED BY <1>1, <2>1, <3>1, DBGoes
  <2>3. CASE DB!RelationsAt(dbReq[p]) # {} /\ dbReq[p].op = "registerObject"
    <3>1. DB!Return(p, DB!Related(p), TRUE)
      BY <1>8, <2>3 DEF DB!registerRelationSelect
    <3>2. \A y \in DB!Related(p) : y \in dbObject
      BY <2>1, <2>3 DEF DB!Related, DBUnderWay
    <3>3. ASSUME NEW x, x.req = dbReq[p], x.inserted = TRUE, NEW y \in DB!Related(p) PROVE DB!Returned(x, y)
      BY <2>3, <3>2, <3>3 DEF DB!Returned
    <3> QED BY <1>3, <3>1, <3>3
  <2>4. CASE DB!RelationsAt(dbReq[p]) # {} /\ dbReq[p].op = "registerRelation"
    <3>1. DB!Return(p, DB!Related(p), FALSE)
      BY <1>8, <2>4 DEF DB!registerRelationSelect
    <3>2. ASSUME NEW x, x.req = dbReq[p], x.inserted = FALSE, NEW y \in DB!Related(p) PROVE DB!Returned(x, y)
      BY <2>4, <3>2 DEF DB!Returned
    <3> QED BY <1>3, <3>1, <3>2
  <2> QED BY <2>1, <2>2, <2>3, <2>4
<1>9. CASE \/ DB!lookupType(p) \/ DB!lookupObjectById(p) \/ DB!lookupRelation(p)
           \/ DB!lookupAttribute(p) \/ DB!getAttribute(p)
  <2>1. dbReq[p].op \notin DB!Registrations /\ \E a : DB!Return(p, a, FALSE)
    BY <1>9 DEF DB!lookupType, DB!lookupObjectById, DB!lookupRelation, DB!lookupAttribute,
                DB!getAttribute, DB!Registrations
  <2> QED BY <1>3, <2>1
<1> QED
  BY <1>5, <1>6, <1>7, <1>8, <1>9

LEMMA DBInductive == DB!IInv /\ [MCNext]_allVars => DB!IInv'
<1> SUFFICES ASSUME DB!IInv, [MCNext]_allVars PROVE DB!IInv'
  OBVIOUS
<1>1. CASE DB!Next
  <2>1. PICK p \in DBProcesses :
           (\E r \in DB!Calls : DB!Call(p, r)) \/ DB!Step(p) \/ DB!Die(p)
    BY <1>1 DEF DB!Next
  <2>2. CASE DB!Die(p)
    BY <2>2, DBGoes DEF DB!Die, DB!Terminate, DB!tables
  <2> QED
    BY <2>1, <2>2, DBCalls, DBInserts, DBSelects DEF DB!Step
<1>2. CASE UNCHANGED dbVars
  <2>1. DBAnswers' /\ DBKeys'
    BY <1>2, DBSame, DBParts DEF dbVars, DBAnswers
  <2>2. DBStates' /\ \A p \in DBProcesses : DBUnderWay(p)'
    BY <1>2, DBParts DEF dbVars, DBStates, DBUnderWay, DB!IsObject
  <2> QED BY <2>1, <2>2, DBParts
<1> QED
  BY <1>1, <1>2 DEF MCNext, allVars

\* DatabaseTopology: what registrations returned is in the tables (in which sense
\* for an object or a relation that was found, Returned says), keys have one row
\* and relations lead to objects, whichever processes race between a SELECT and
\* an INSERT, fail at a constraint, or die.
THEOREM DatabaseAgreement == MCSpec => []DatabaseAgrees
<1>1. MCInit => DB!IInv
  BY DEF MCInit, DB!Init, DB!IInv, DB!DatabaseAgrees
<1>2. DB!IInv => DatabaseAgrees
  BY DEF DB!IInv, DatabaseAgrees
<1> QED
  BY <1>1, <1>2, DBInductive, PTL DEF MCSpec

-----------------------------------------------------------------------------
(* HistogramAdpi.                                                          *)

Statistics == [known : BOOLEAN, minTimeS : Nat, maxTimeS : Nat, histogramBucketWidth : Nat,
               totalOperationCount : Nat, histogram : BOOLEAN]

LEMMA QuotientGrows ==
    ASSUME NEW n \in Nat, NEW w \in Nat \ {0}
    PROVE  n \div w \in Nat /\ n \div w <= (n + 1) \div w
BY Z3

\* A width is a natural number, of a range whose minimum is above its maximum too.
LEMMA WidthIsNatural ==
    ASSUME NEW a \in Statistics
    PROVE  Hist!WithHistogram(a) \in Statistics /\ Hist!WithHistogram(a).histogram
<1>1. Word \in Nat \ {0} /\ buckets \in Nat \ {0}
  BY RangesAssumption DEF Hist!HistogramAssumption
<1>2. a.maxTimeS - a.minTimeS \in Int
  BY DEF Statistics
<1>3. PICK m \in Nat : m = (a.maxTimeS - a.minTimeS) % Word
  BY <1>1, <1>2
<1>4. m \div buckets \in Nat
  BY <1>1, <1>3, QuotientGrows
<1> QED
  BY <1>3, <1>4 DEF Statistics, Hist!WithHistogram

\* Goodness follows the buckets, and those of the two ends are the extremes.
LEMMA GoodnessGrows ==
    ASSUME NEW b \in Nat, NEW c \in Nat, b <= c
    PROVE  /\ Hist!goodness(b) <= Hist!goodness(c)
           /\ Hist!goodness(0) <= Hist!goodness(b)
           /\ Hist!goodness(b) <= Hist!goodness(buckets - 1)
BY RangesAssumption DEF Hist!HistogramAssumption, Hist!goodness

LEMMA RatingGrows ==
    ASSUME NEW a \in Statistics, a.histogramBucketWidth > 0, NEW d \in 1 .. Word - 1
    PROVE  Hist!goodness(Hist!bucket(a, d - 1)) <= Hist!goodness(Hist!bucket(a, d))
<1> DEFINE w == a.histogramBucketWidth
           n == d - 1 - a.minTimeS
<1>1. w \in Nat \ {0} /\ a.minTimeS \in Nat /\ a.maxTimeS \in Nat /\ d \in Nat /\ Word \in Nat
      /\ buckets - 1 \in Nat
  BY RangesAssumption DEF Statistics, Hist!HistogramAssumption
<1>2. CASE d - 1 < a.minTimeS
  <2>1. Hist!bucket(a, d - 1) = 0
    BY <1>2 DEF Hist!bucket
  <2>2. Hist!bucket(a, d) \in Nat
    <3>1. ASSUME d >= a.minTimeS PROVE (d - a.minTimeS) \div w \in Nat
      BY <1>1, <3>1, QuotientGrows
    <3> QED
      BY <1>1, <3>1 DEF Hist!bucket
  <2> QED
    BY <2>1, <2>2, GoodnessGrows
<1>3. CASE d - 1 >= a.minTimeS /\ d - 1 >= a.maxTimeS
  <2>1. Hist!bucket(a, d - 1) = buckets - 1 /\ Hist!bucket(a, d) = buckets - 1
    BY <1>1, <1>3 DEF Hist!bucket
  <2> QED
    BY <1>1, <2>1, GoodnessGrows
<1>4. CASE d - 1 >= a.minTimeS /\ d - 1 < a.maxTimeS
  <2>1. n \in Nat /\ n + 1 = d - a.minTimeS
    BY <1>1, <1>4
  <2>2. n \div w \in Nat /\ (n + 1) \div w \in Nat /\ n \div w <= (n + 1) \div w
    BY <1>1, <2>1, QuotientGrows
  <2>3. Hist!bucket(a, d - 1) = n \div w
    BY <1>1, <1>4 DEF Hist!bucket
  <2>4. Hist!bucket(a, d) = IF d < a.maxTimeS THEN (n + 1) \div w ELSE buckets - 1
    BY <1>1, <1>4, <2>1 DEF Hist!bucket
  <2> HIDE DEF w, n
  <2>5. PICK b \in Nat, c \in Nat : b = n \div w /\ c = (n + 1) \div w /\ b <= c
    BY <2>2
  <2> QED
    BY <2>3, <2>4, <2>5, GoodnessGrows
<1> QED
  BY <1>1, <1>2, <1>3, <1>4

\* A step of process p to entry a and place l, with t to store and duration d.
HistMoves(p, a, l, t, d) ==
    /\ a \in Statistics /\ ats' = [ats EXCEPT ![p] = a]
    /\ hPc' = hPc \/ hPc' = [hPc EXCEPT ![p] = l]
    /\ hTodo' = hTodo \/ hTodo' = [hTodo EXCEPT ![p] = t]
    /\ hPc'[p] = l /\ hTodo'[p] = t
    /\ duration' = duration \/ (d \in Nat /\ duration' = [duration EXCEPT ![p] = d])

\* It keeps what was learned and stored, ...
HistKeeps ==
    /\ torn' = torn /\ learned \subseteq learned' /\ learned' \subseteq Nat \X Nat
    /\ stored' \in [object : BOOLEAN, max : Nat \cup {-1}, min : Nat \cup {-1}]
    /\ stored.max # -1 => stored'.max # -1
    /\ stored.min # -1 => stored'.min # -1
    /\ Hist!StoredWasLearned'

\* ... and leaves p with what was learned.
HistHas(a, l, t) ==
    /\ a.histogram => /\ \E r \in learned' : a.minTimeS = r[1]
                      /\ \E r \in learned' : a.maxTimeS = r[2]
    /\ l = "readMax" => stored'.min # -1 /\ \E r \in learned' : a.minTimeS = r[1]
    /\ l \in {"register", "save"} => a.histogram
    /\ l = "register" => t = <<"max", "min">>
    /\ l = "save" => t = <<"max", "min">> \/ (t = <<"min">> /\ stored'.max # -1)

LEMMA HistStep ==
    ASSUME Hist!IInv, NEW p \in DBProcesses, NEW a, NEW l, NEW t, NEW d, HistMoves(p, a, l, t, d),
           HistKeeps, HistHas(a, l, t)
    PROVE  Hist!IInv'
<1> USE DEF HistMoves, HistKeeps, HistHas
<1>1. Hist!TypeOK'
  BY DEF Hist!IInv, Hist!TypeOK, Statistics
<1>2. ASSUME NEW q \in DBProcesses
      PROVE  Hist!HeldWasLearned(ats[q], hPc[q], hTodo[q])'
  <2>1. CASE q = p
    <3>1. ats'[q] = a /\ hPc'[q] = l /\ hTodo'[q] = t
      BY <2>1 DEF Hist!IInv, Hist!TypeOK
    <3> QED
      BY <3>1 DEF Hist!HeldWasLearned, Hist!LearnedMin, Hist!LearnedMax
  <2>2. CASE q # p
    <3>1. ats'[q] = ats[q] /\ hPc'[q] = hPc[q] /\ hTodo'[q] = hTodo[q]
      BY <2>2 DEF Hist!IInv, Hist!TypeOK
    <3>2. Hist!HeldWasLearned(ats[q], hPc[q], hTodo[q])
      BY DEF Hist!IInv
    <3> QED
      BY <3>1, <3>2 DEF Hist!HeldWasLearned, Hist!LearnedMin, Hist!LearnedMax
  <2> QED BY <2>1, <2>2
<1> QED
  BY <1>1, <1>2 DEF Hist!IInv

LEMMA NewStatistics ==
    Hist!ActivityTimeStatistics \in Statistics /\ ~Hist!ActivityTimeStatistics.histogram
BY RangesAssumption DEF Hist!ActivityTimeStatistics, Statistics, Hist!HistogramAssumption

\* The parts of the invariant, about process p.
HistType(p) ==
    /\ ats[p] \in Statistics /\ duration[p] \in Nat /\ torn = FALSE
    /\ ats = [ats EXCEPT ![p] = ats[p]]
    /\ DOMAIN hTodo = DBProcesses /\ DOMAIN hPc = DBProcesses
    /\ stored \in [object : BOOLEAN, max : Nat \cup {-1}, min : Nat \cup {-1}]
    /\ learned \subseteq Nat \X Nat

HistKnows(p) ==
    /\ ats[p].histogram => /\ \E r \in learned : ats[p].minTimeS = r[1]
                           /\ \E r \in learned : ats[p].maxTimeS = r[2]
    /\ hPc[p] = "readMax" =>
         stored.min # -1 /\ stored.max # -1 /\ \E r \in learned : ats[p].minTimeS = r[1]
    /\ hPc[p] \in {"register", "save"} => ats[p].histogram
    /\ hPc[p] = "register" => hTodo[p] = <<"max", "min">>
    /\ hPc[p] = "save" =>
         hTodo[p] = <<"max", "min">> \/ (hTodo[p] = <<"min">> /\ stored.max # -1)
    /\ stored.min # -1 => stored.max # -1 /\ \E r \in learned : stored.min = r[1]
    /\ stored.max # -1 => \E r \in learned : stored.max = r[2]

LEMMA HistHolds ==
    ASSUME Hist!IInv, NEW p \in DBProcesses
    PROVE  HistType(p) /\ HistKnows(p)
<1>1. Hist!TypeOK /\ Hist!StoredWasLearned /\ Hist!HeldWasLearned(ats[p], hPc[p], hTodo[p])
      /\ torn = FALSE
  BY DEF Hist!IInv
<1> QED
  BY <1>1 DEF Hist!TypeOK, Statistics, Hist!StoredWasLearned, Hist!HeldWasLearned,
              Hist!LearnedMin, Hist!LearnedMax, HistType, HistKnows

\* A step that stores nothing.
LEMMA SameStored ==
    ASSUME Hist!IInv, UNCHANGED <<stored, torn>>, learned \subseteq learned',
           learned' \subseteq Nat \X Nat
    PROVE  HistKeeps
BY DEF Hist!IInv, Hist!StoredWasLearned, Hist!LearnedMin, Hist!LearnedMax, Hist!TypeOK, HistKeeps

\* Steps that neither store nor learn.
LEMMA HistReads ==
    ASSUME Hist!IInv, NEW p \in DBProcesses,
           \/ \E d \in Durations : Hist!Notify(p, d)
           \/ Hist!lookupRelation(p) \/ Hist!readMin(p) \/ Hist!readMax(p)
           \/ Hist!rate(p) \/ Hist!Die(p)
    PROVE  Hist!IInv'
<1>t. HistType(p)
  BY HistHolds
<1>k. HistKnows(p)
  BY HistHolds
<1> USE DEF Hist!Goto, Hist!Return
<1>0. ASSUME UNCHANGED <<stored, learned, torn>>
      PROVE  HistKeeps
  BY <1>0, <1>t, SameStored DEF HistType
<1>1. CASE \E d \in Durations : Hist!Notify(p, d)
  <2>1. PICK d \in Durations : Hist!Notify(p, d)
    BY <1>1
  <2>2. d \in Nat
    BY RangesAssumption DEF Hist!HistogramAssumption
  <2> DEFINE a == [ats[p] EXCEPT !.known = TRUE]
             l == IF ats[p].known THEN "count" ELSE "lookup"
  <2>3. a \in Statistics /\ a.histogram = ats[p].histogram /\ a.minTimeS = ats[p].minTimeS
        /\ a.maxTimeS = ats[p].maxTimeS
    BY <1>t DEF Statistics, HistType
  <2>4. /\ ats' = [ats EXCEPT ![p] = a] /\ hPc' = [hPc EXCEPT ![p] = l]
        /\ duration' = [duration EXCEPT ![p] = d] /\ UNCHANGED <<stored, hTodo, learned, torn>>
    BY <2>1 DEF Hist!Notify
  <2>5. l # "readMax" /\ l # "register" /\ l # "save"
    OBVIOUS
  <2> HIDE DEF a, l
  <2>6. HistMoves(p, a, l, hTodo[p], d) /\ HistHas(a, l, hTodo[p])
    BY <1>t, <1>k, <2>2, <2>3, <2>4, <2>5 DEF HistMoves, HistHas, HistType, HistKnows
  <2> QED
    BY <1>0, <2>4, <2>6, HistStep
<1>2. CASE Hist!lookupRelation(p)
  <2> DEFINE l == IF stored.object THEN "readMin" ELSE "count"
  <2>1. hPc' = [hPc EXCEPT ![p] = l] /\ UNCHANGED <<ats, stored, duration, hTodo, learned, torn>>
    BY <1>2 DEF Hist!lookupRelation
  <2>2. l # "readMax" /\ l # "register" /\ l # "save"
    OBVIOUS
  <2> HIDE DEF l
  <2>3. HistMoves(p, ats[p], l, hTodo[p], duration[p]) /\ HistHas(ats[p], l, hTodo[p])
    BY <1>t, <1>k, <2>1, <2>2 DEF HistMoves, HistHas, HistType, HistKnows
  <2> QED
    BY <1>0, <2>1, <2>3, HistStep
<1>3. CASE Hist!readMin(p) /\ stored.min = -1
  <2>1. hPc' = [hPc EXCEPT ![p] = "count"] /\ UNCHANGED <<stored, duration, hTodo, learned, torn>>
    BY <1>3 DEF Hist!readMin
  <2>2. ats' = [ats EXCEPT ![p] = [ats[p] EXCEPT !.minTimeS = ats[p].minTimeS]]
    BY <1>3 DEF Hist!readMin
  <2>3. [ats[p] EXCEPT !.minTimeS = ats[p].minTimeS] = ats[p]
    BY <1>t DEF Statistics, HistType
  <2>4. ats' = [ats EXCEPT ![p] = ats[p]]
    BY <2>2, <2>3
  <2>5. HistMoves(p, ats[p], "count", hTodo[p], duration[p])
    BY <1>t, <2>1, <2>4 DEF HistMoves, HistType
  <2>6. HistHas(ats[p], "count", hTodo[p])
    BY <1>k, <2>1 DEF HistHas, HistKnows
  <2> QED
    BY <1>0, <2>1, <2>5, <2>6, HistStep
<1>4. CASE Hist!readMin(p) /\ stored.min # -1
  <2> DEFINE a == [ats[p] EXCEPT !.minTimeS = stored.min]
  <2>1. a \in Statistics /\ a.histogram = ats[p].histogram /\ a.minTimeS = stored.min
        /\ a.maxTimeS = ats[p].maxTimeS
    BY <1>t, <1>4 DEF Statistics, HistType
  <2>2. /\ hPc' = [hPc EXCEPT ![p] = "readMax"] /\ ats' = [ats EXCEPT ![p] = a]
        /\ UNCHANGED <<stored, duration, hTodo, learned, torn>>
    BY <1>4 DEF Hist!readMin
  <2> HIDE DEF a
  <2>3. HistMoves(p, a, "readMax", hTodo[p], duration[p])
    BY <1>t, <2>1, <2>2 DEF HistMoves, HistType
  <2>4. HistHas(a, "readMax", hTodo[p])
    BY <1>k, <1>4, <2>1, <2>2 DEF HistHas, HistKnows
  <2> QED
    BY <1>0, <2>2, <2>3, <2>4, HistStep
<1>5. CASE Hist!readMax(p)
  <2> DEFINE new == [ats[p] EXCEPT !.maxTimeS = stored.max]
             a == Hist!WithHistogram(new)
  <2>1. stored.max # -1 /\ stored.max \in Nat /\ hPc[p] = "readMax"
    BY <1>t, <1>k, <1>5 DEF Hist!readMax, HistType, HistKnows
  <2>2. new \in Statistics /\ new.minTimeS = ats[p].minTimeS /\ new.maxTimeS = stored.max
    BY <1>t, <2>1 DEF Statistics, HistType
  <2>3. /\ ats' = [ats EXCEPT ![p] = a] /\ hPc' = [hPc EXCEPT ![p] = "count"]
        /\ UNCHANGED <<stored, duration, hTodo, learned>>
    BY <1>5, <2>1 DEF Hist!readMax
  <2>4. torn' = torn
    <3>1. torn' = (torn \/ stored.max = -1)
      BY <1>5 DEF Hist!readMax
    <3> QED
      BY <1>t, <2>1, <3>1 DEF HistType
  <2> HIDE DEF new
  <2>5. a.minTimeS = new.minTimeS /\ a.maxTimeS = new.maxTimeS /\ a \in Statistics
    BY <1>t, <2>2, WidthIsNatural DEF Hist!WithHistogram, Statistics, HistType
  <2> HIDE DEF a
  <2>6. HistMoves(p, a, "count", hTodo[p], duration[p])
    BY <1>t, <2>3, <2>5 DEF HistMoves, HistType
  <2>7. HistHas(a, "count", hTodo[p])
    BY <1>k, <2>1, <2>2, <2>3, <2>5 DEF HistHas, HistKnows
  <2> QED
    BY <1>0, <2>3, <2>4, <2>6, <2>7, HistStep
<1>6. ASSUME Hist!Dies(p), UNCHANGED <<stored, learned, torn>> PROVE Hist!IInv'
  <2>1. HistMoves(p, Hist!ActivityTimeStatistics, "idle", << >>, 0)
    BY <1>t, <1>6, NewStatistics DEF Hist!Dies, HistMoves, HistType
  <2>2. HistHas(Hist!ActivityTimeStatistics, "idle", << >>)
    BY <1>k, NewStatistics DEF HistHas, HistKnows
  <2> QED
    BY <1>0, <1>6, <2>1, <2>2, HistStep
<1>7. CASE Hist!rate(p)
  <2>1. CASE Hist!Dies(p)
    BY <1>6, <1>7, <2>1 DEF Hist!rate
  <2>2. CASE /\ ats' = [ats EXCEPT ![p].totalOperationCount = @ + 1]
             /\ Hist!Return(p) /\ UNCHANGED <<hTodo, deaths>>
    <3> DEFINE a == [ats[p] EXCEPT !.totalOperationCount = @ + 1]
    <3>1. ats[p].totalOperationCount + 1 \in Nat
      BY <1>t DEF Statistics, HistType
    <3>2. a \in Statistics /\ a.histogram = ats[p].histogram /\ a.minTimeS = ats[p].minTimeS
          /\ a.maxTimeS = ats[p].maxTimeS
      BY <1>t, <3>1 DEF Statistics, HistType
    <3>3. /\ ats' = [ats EXCEPT ![p] = a] /\ hPc' = [hPc EXCEPT ![p] = "idle"]
          /\ duration' = [duration EXCEPT ![p] = 0] /\ UNCHANGED <<stored, hTodo, learned, torn>>
      BY <1>7, <2>2 DEF Hist!rate
    <3> HIDE DEF a
    <3>4. HistMoves(p, a, "idle", hTodo[p], 0)
      BY <1>t, <3>2, <3>3 DEF HistMoves, HistType
    <3>5. HistHas(a, "idle", hTodo[p])
      BY <1>k, <3>2, <3>3 DEF HistHas, HistKnows
    <3> QED
      BY <1>0, <3>3, <3>4, <3>5, HistStep
  <2> QED
    BY <1>7, <2>1, <2>2 DEF Hist!rate
<1>8. CASE Hist!Die(p)
  BY <1>6, <1>8 DEF Hist!Die
<1> QED
  BY <1>1, <1>2, <1>3, <1>4, <1>5, <1>7, <1>8

\* A process that learns a range goes on to store it; others keep what they hold.
LEMMA HistLearns ==
    ASSUME Hist!IInv, NEW p \in DBProcesses, Hist!learn(p)
    PROVE  Hist!IInv'
<1>t. HistType(p)
  BY HistHolds
<1>k. HistKnows(p)
  BY HistHolds
<1> DEFINE d == duration[p]
           a == [ats[p] EXCEPT !.totalOperationCount = @ + 1,
                               !.minTimeS = IF @ < d THEN @ ELSE d,
                               !.maxTimeS = IF @ > d THEN @ ELSE d]
           full == a.totalOperationCount = learnCount /\ a.maxTimeS # a.minTimeS
           new == Hist!WithHistogram(a)
<1>1. a \in Statistics /\ ~a.histogram
  <2>1. /\ ats[p].totalOperationCount + 1 \in Nat
        /\ (IF ats[p].minTimeS < d THEN ats[p].minTimeS ELSE d) \in Nat
        /\ (IF ats[p].maxTimeS > d THEN ats[p].maxTimeS ELSE d) \in Nat
    BY <1>t DEF Statistics, HistType
  <2>2. PICK i \in Nat, j \in Nat, k \in Nat :
           /\ i = ats[p].totalOperationCount + 1
           /\ j = IF ats[p].minTimeS < d THEN ats[p].minTimeS ELSE d
           /\ k = IF ats[p].maxTimeS > d THEN ats[p].maxTimeS ELSE d
    BY <2>1
  <2> HIDE DEF d
  <2>3. a = [ats[p] EXCEPT !.totalOperationCount = i, !.minTimeS = j, !.maxTimeS = k]
    BY <2>2
  <2> HIDE DEF a
  <2>4. a \in Statistics /\ a.histogram = ats[p].histogram
    BY <1>t, <2>3 DEF Statistics, HistType
  <2> QED
    BY <2>4 DEF Hist!learn
<1>2. IF full
      THEN /\ ats' = [ats EXCEPT ![p] = new]
           /\ learned' = learned \cup {<<a.minTimeS, a.maxTimeS>>}
           /\ hTodo' = [hTodo EXCEPT ![p] = <<"max", "min">>]
           /\ hPc' = [hPc EXCEPT ![p] = "register"] /\ UNCHANGED duration
      ELSE /\ ats' = [ats EXCEPT ![p] = a] /\ hPc' = [hPc EXCEPT ![p] = "idle"]
           /\ duration' = [duration EXCEPT ![p] = 0] /\ UNCHANGED <<learned, hTodo>>
  BY DEF Hist!learn, Hist!Goto, Hist!Return, Hist!Saves
<1>3. UNCHANGED <<stored, torn>>
  BY DEF Hist!learn
<1> HIDE DEF a, d
<1>4. new \in Statistics /\ new.minTimeS = a.minTimeS /\ new.maxTimeS = a.maxTimeS
      /\ new.histogram
  BY <1>t, <1>1, WidthIsNatural DEF Hist!WithHistogram, Statistics, HistType
<1>5. a.minTimeS \in Nat /\ a.maxTimeS \in Nat
  BY <1>t, <1>1 DEF Statistics, HistType
<1> HIDE DEF new
<1>6. CASE full
  <2> DEFINE pair == <<a.minTimeS, a.maxTimeS>>
  <2>1. pair \in Nat \X Nat /\ pair[1] = new.minTimeS /\ pair[2] = new.maxTimeS
    BY <1>4, <1>5
  <2>2. learned' = learned \cup {pair}
    BY <1>2, <1>6
  <2> HIDE DEF pair
  <2>3. /\ \E r \in learned' : new.minTimeS = r[1]
        /\ \E r \in learned' : new.maxTimeS = r[2]
        /\ learned \subseteq learned' /\ learned' \subseteq Nat \X Nat
    BY <1>t, <2>1, <2>2 DEF HistType
  <2>4. HistKeeps
    BY <1>3, <2>3, SameStored
  <2>5. HistMoves(p, new, "register", <<"max", "min">>, duration[p])
    BY <1>t, <1>2, <1>4, <1>6 DEF HistMoves, HistType
  <2>6. HistHas(new, "register", <<"max", "min">>)
    BY <1>k, <1>4, <2>3 DEF HistHas, HistKnows
  <2> QED
    BY <2>4, <2>5, <2>6, HistStep
<1>7. CASE ~full
  <2>1. /\ ats' = [ats EXCEPT ![p] = a] /\ hPc' = [hPc EXCEPT ![p] = "idle"]
        /\ duration' = [duration EXCEPT ![p] = 0] /\ UNCHANGED <<learned, hTodo>>
    BY <1>2, <1>7
  <2>2. HistKeeps
    BY <1>3, <1>t, <2>1, SameStored DEF HistType
  <2>3. HistMoves(p, a, "idle", hTodo[p], 0)
    BY <1>t, <1>1, <2>1 DEF HistMoves, HistType
  <2>4. HistHas(a, "idle", hTodo[p])
    BY <1>k, <1>1 DEF HistHas, HistKnows
  <2> QED
    BY <2>2, <2>3, <2>4, HistStep
<1> QED
  BY <1>6, <1>7

\* The maximum is stored first, so that the object never has a minimum alone.
LEMMA HistStores ==
    ASSUME Hist!IInv, NEW p \in DBProcesses, Hist!registerObject(p) \/ Hist!setAttribute(p)
    PROVE  Hist!IInv'
<1>t. HistType(p)
  BY HistHolds
<1>k. HistKnows(p)
  BY HistHolds
<1> USE DEF Hist!Goto, Hist!Return
<1>1. CASE Hist!registerObject(p)
  <2>1. /\ stored' = [stored EXCEPT !.object = TRUE] /\ hPc' = [hPc EXCEPT ![p] = "save"]
        /\ hPc[p] = "register" /\ UNCHANGED <<ats, duration, hTodo, learned, torn>>
    BY <1>1 DEF Hist!registerObject
  <2>2. /\ stored' \in [object : BOOLEAN, max : Nat \cup {-1}, min : Nat \cup {-1}]
        /\ stored'.max = stored.max /\ stored'.min = stored.min
    BY <1>t, <2>1 DEF HistType
  <2>3. HistKeeps
    BY <1>t, <1>k, <2>1, <2>2 DEF Hist!StoredWasLearned, Hist!LearnedMin, Hist!LearnedMax,
      HistKeeps, HistType, HistKnows
  <2>4. HistMoves(p, ats[p], "save", hTodo[p], duration[p])
    BY <1>t, <2>1 DEF HistMoves, HistType
  <2>5. HistHas(ats[p], "save", hTodo[p])
    BY <1>k, <2>1, <2>2 DEF HistHas, HistKnows
  <2> QED
    BY <2>3, <2>4, <2>5, HistStep
<1>2. CASE Hist!setAttribute(p) /\ hTodo[p] = <<"max", "min">>
  <2>1. Head(hTodo[p]) = "max" /\ Tail(hTodo[p]) = <<"min">> /\ Len(hTodo[p]) # 1
    BY <1>2
  <2>2. /\ hPc[p] = "save" /\ stored' = [stored EXCEPT !["max"] = ats[p].maxTimeS]
        /\ hTodo' = [hTodo EXCEPT ![p] = <<"min">>]
        /\ UNCHANGED <<hPc, duration, ats, learned, torn>>
    BY <1>2, <2>1 DEF Hist!setAttribute
  <2>3. ats[p].maxTimeS \in Nat
    BY <1>t DEF Statistics, HistType
  <2>4. /\ stored' \in [object : BOOLEAN, max : Nat \cup {-1}, min : Nat \cup {-1}]
        /\ stored'.max = ats[p].maxTimeS /\ stored'.min = stored.min /\ stored'.max # -1
    BY <1>t, <2>2, <2>3 DEF HistType
  <2>5. HistKeeps
    BY <1>t, <1>k, <2>2, <2>4 DEF Hist!StoredWasLearned, Hist!LearnedMin, Hist!LearnedMax,
      HistKeeps, HistType, HistKnows
  <2>6. HistMoves(p, ats[p], "save", <<"min">>, duration[p])
    BY <1>t, <2>2 DEF HistMoves, HistType
  <2>7. HistHas(ats[p], "save", <<"min">>)
    BY <1>k, <2>2, <2>4 DEF HistHas, HistKnows
  <2> QED
    BY <2>5, <2>6, <2>7, HistStep
<1>3. CASE Hist!setAttribute(p) /\ hTodo[p] = <<"min">> /\ stored.max # -1
  <2>1. Head(hTodo[p]) = "min" /\ Tail(hTodo[p]) = << >> /\ Len(hTodo[p]) = 1
    BY <1>3
  <2>2. /\ hPc[p] = "save" /\ stored' = [stored EXCEPT !["min"] = ats[p].minTimeS]
        /\ hTodo' = [hTodo EXCEPT ![p] = << >>]
        /\ hPc' = [hPc EXCEPT ![p] = "idle"] /\ duration' = [duration EXCEPT ![p] = 0]
        /\ UNCHANGED <<ats, learned, torn>>
    BY <1>3, <2>1 DEF Hist!setAttribute
  <2>3. ats[p].minTimeS \in Nat
    BY <1>t DEF Statistics, HistType
  <2>4. /\ stored' \in [object : BOOLEAN, max : Nat \cup {-1}, min : Nat \cup {-1}]
        /\ stored'.min = ats[p].minTimeS /\ stored'.max = stored.max /\ stored'.min # -1
    BY <1>t, <2>2, <2>3 DEF HistType
  <2>5. HistKeeps
    BY <1>t, <1>k, <1>3, <2>2, <2>4 DEF Hist!StoredWasLearned, Hist!LearnedMin, Hist!LearnedMax,
      HistKeeps, HistType, HistKnows
  <2>6. HistMoves(p, ats[p], "idle", << >>, 0)
    BY <1>t, <2>2 DEF HistMoves, HistType
  <2>7. HistHas(ats[p], "idle", << >>)
    BY <1>k, <2>2 DEF HistHas, HistKnows
  <2> QED
    BY <2>5, <2>6, <2>7, HistStep
<1> QED
  BY <1>k, <1>1, <1>2, <1>3 DEF Hist!setAttribute, HistKnows

LEMMA HistInductive == Hist!IInv /\ [MCNext]_allVars => Hist!IInv'
<1> SUFFICES ASSUME Hist!IInv, [MCNext]_allVars PROVE Hist!IInv'
  OBVIOUS
<1>1. CASE Hist!Next
  BY <1>1, HistReads, HistLearns, HistStores DEF Hist!Next
<1>2. CASE UNCHANGED histVars
  BY <1>2 DEF histVars, Hist!IInv, Hist!TypeOK, Hist!StoredWasLearned, Hist!HeldWasLearned,
              Hist!LearnedMin, Hist!LearnedMax
<1> QED
  BY <1>1, <1>2 DEF MCNext, allVars

\* Whichever processes learn, load and store ranges in the topology and die in
\* between, a range that is loaded has both ends, each of them learned, and a
\* slower activity is never rated better.
THEOREM RatingSoundness == MCSpec => []RatingsAreSound
<1>1. MCInit => Hist!IInv
  <2> SUFFICES ASSUME MCInit PROVE Hist!IInv
    OBVIOUS
  <2>1. Hist!TypeOK
    <3>1. ats \in [DBProcesses -> Statistics]
      BY NewStatistics DEF MCInit, Hist!Init
    <3> QED
      BY <3>1 DEF MCInit, Hist!Init, Hist!TypeOK, Statistics
  <2>2. \A p \in DBProcesses : Hist!HeldWasLearned(ats[p], hPc[p], hTodo[p])
    BY NewStatistics DEF MCInit, Hist!Init, Hist!HeldWasLearned
  <2> QED
    BY <2>1, <2>2 DEF MCInit, Hist!Init, Hist!IInv, Hist!StoredWasLearned
<1>2. Hist!IInv => RatingsAreSound
  <2> SUFFICES ASSUME Hist!IInv PROVE Hist!RatingsAreSound
    BY DEF RatingsAreSound
  <2>1. Hist!RangeIsWhole
    <3> SUFFICES ASSUME NEW p \in DBProcesses, ats[p].histogram, NEW r \in learned, learned = {r}
                 PROVE  <<ats[p].minTimeS, ats[p].maxTimeS>> \in learned
      BY DEF Hist!IInv, Hist!RangeIsWhole, Hist!HeldWasLearned, Hist!LearnedMin, Hist!LearnedMax
    <3>1. ats[p].minTimeS = r[1] /\ ats[p].maxTimeS = r[2]
      BY DEF Hist!IInv, Hist!HeldWasLearned, Hist!LearnedMin, Hist!LearnedMax
    <3>2. r = <<r[1], r[2]>>
      BY DEF Hist!IInv, Hist!TypeOK
    <3> QED
      BY <3>1, <3>2
  <2>2. Hist!SlowerIsNotBetter
    BY RatingGrows DEF Hist!SlowerIsNotBetter, Hist!IInv, Hist!TypeOK, Statistics
  <2> QED
    BY <2>1, <2>2 DEF Hist!RatingsAreSound
<1> QED
  BY <1>1, <1>2, HistInductive, PTL DEF MCSpec

-----------------------------------------------------------------------------
(* The catalogs in a topology.                                             *)

\* The attributes that a call sets: three on an attribute, with the type as the last;
\* one that is given on meta attributes; and others than those of an attribute.
LEMMA CatalogSets ==
    ASSUME NEW r, r.op \in Cat!CallOps
    PROVE  /\ Cat!Sets(r) \in Seq({Cat!Sets(r)[i] : i \in DOMAIN Cat!Sets(r)})
           /\ DOMAIN Cat!Sets(r) = 1 .. Len(Cat!Sets(r)) /\ Len(Cat!Sets(r)) \in {1, 2, 3}
           /\ r.op = "attribute" =>
                 /\ Len(Cat!Sets(r)) = 3
                 /\ Cat!Sets(r)[1] = Cat!A("Domain", r.domain) /\ Cat!Sets(r)[2] = Cat!A("Name", r.name)
                 /\ Cat!Sets(r)[3] = Cat!A("Type", r.type)
           /\ r.op = "meta" => Len(Cat!Sets(r)) = 1 /\ Cat!Sets(r)[1].att = r.meta
           /\ r.op \in {"process", "component"} => Len(Cat!Sets(r)) = 1
           /\ r.op \notin {"attribute", "meta"} => \A i \in DOMAIN Cat!Sets(r) : Cat!Sets(r)[i].att \notin Cat!Own
           /\ r.op # "meta" => \A i, j \in DOMAIN Cat!Sets(r) : Cat!Sets(r)[i].att = Cat!Sets(r)[j].att => i = j
<1>a. \A m, n \in Cat!AttributeNames : CatalogAttributeId[m] = CatalogAttributeId[n] => m = n
  BY CatalogsInstance DEF Cat!CatalogsAssumption
<1>b. \A n \in Cat!AttributeNames \ {"Type", "Name", "Domain"} : CatalogAttributeId[n] \notin Cat!Own
  BY <1>a DEF Cat!Own, Cat!AttributeNames
<1>c. \A n, v : Cat!A(n, v).att = CatalogAttributeId[n]
  BY DEF Cat!A
<1>1. CASE r.op = "attribute"
  <2>1. Cat!Sets(r) = <<Cat!A("Domain", r.domain), Cat!A("Name", r.name), Cat!A("Type", r.type)>>
    BY <1>1 DEF Cat!Sets, Cat!AttributeSets
  <2> QED BY <1>1, <1>a, <1>c, <2>1 DEF Cat!AttributeNames
<1>2. CASE r.op = "meta"
  <2>1. Cat!Sets(r) = <<[att |-> r.meta, value |-> r.value]>>
    BY <1>2 DEF Cat!Sets
  <2> QED BY <1>2, <2>1
<1>3. CASE r.op \in {"process", "component", "node", "filesystem"}
  <2>1. PICK n \in {"Value", "NodeName", "GlobalName"} : \E v : Cat!Sets(r) = <<Cat!A(n, v)>>
    BY <1>3 DEF Cat!Sets
  <2>2. PICK v : Cat!Sets(r) = <<Cat!A(n, v)>>
    BY <2>1
  <2> QED BY <1>3, <1>b, <1>c, <2>2 DEF Cat!AttributeNames
<1>4. CASE r.op \in {"interface", "device", "activity"}
  <2>1. PICK p \in {<<"Implementation", "Interface">>, <<"Node", "LocalName">>, <<"NodeName", "UNID">>} :
           \E v, w : Cat!Sets(r) = <<Cat!A(p[1], v), Cat!A(p[2], w)>>
    BY <1>4 DEF Cat!Sets
  <2>2. PICK v, w : Cat!Sets(r) = <<Cat!A(p[1], v), Cat!A(p[2], w)>>
    BY <2>1
  <2>3. p[1] # p[2] /\ {p[1], p[2]} \subseteq Cat!AttributeNames \ {"Type", "Name", "Domain"}
    BY DEF Cat!AttributeNames
  <2>4. /\ CatalogAttributeId[p[1]] # CatalogAttributeId[p[2]]
        /\ CatalogAttributeId[p[1]] \notin Cat!Own /\ CatalogAttributeId[p[2]] \notin Cat!Own
    BY <1>a, <1>b, <2>3
  <2>5. PICK a, b : Cat!Sets(r) = <<a, b>> /\ a.att # b.att /\ a.att \notin Cat!Own /\ b.att \notin Cat!Own
    BY <1>c, <2>2, <2>4
  <2> QED BY <1>4, <2>5
<1> QED BY <1>1, <1>2, <1>3, <1>4 DEF Cat!CallOps

\* The same for the calls on an attribute.
LEMMA CatalogSetsAttribute ==
    ASSUME NEW r, r.op \in {"attribute", "meta"}
    PROVE  /\ r.op = "attribute" =>
                 /\ DOMAIN Cat!Sets(r) = 1 .. 3 /\ Len(Cat!Sets(r)) = 3
                 /\ Cat!Sets(r)[1].att = CatalogAttributeId["Domain"]
                 /\ Cat!Sets(r)[2].att = CatalogAttributeId["Name"]
                 /\ Cat!Sets(r)[3].att = CatalogAttributeId["Type"]
           /\ r.op = "meta" => DOMAIN Cat!Sets(r) = {1} /\ Len(Cat!Sets(r)) = 1 /\ Cat!Sets(r)[1].att = r.meta
<1>1. \A n, v : Cat!A(n, v).att = CatalogAttributeId[n]
  BY DEF Cat!A
<1>2. CASE r.op = "attribute"
  <2>1. Cat!Sets(r) = <<Cat!A("Domain", r.domain), Cat!A("Name", r.name), Cat!A("Type", r.type)>>
    BY <1>2 DEF Cat!Sets, Cat!AttributeSets
  <2> QED BY <1>1, <1>2, <2>1
<1>3. CASE r.op = "meta"
  <2>1. Cat!Sets(r) = <<[att |-> r.meta, value |-> r.value]>>
    BY <1>3 DEF Cat!Sets
  <2> QED BY <1>3, <2>1
<1> QED BY <1>2, <1>3

\* The type of the last relation of a path, for each kind of call.
LastType(op) ==
    CASE op = "attribute" -> "AttributeName" [] op \in {"process", "component"} -> "AttributeID"
      [] op = "node" -> "Host" [] op = "filesystem" -> "Filesystem" [] op = "interface" -> "Implementation"
      [] op = "device" -> "Device" [] op = "activity" -> "Activity"

Related(rel, parent, type, name, child) ==
    LET k == [parent |-> parent, type |-> type, name |-> name]
    IN  k \in DOMAIN rel /\ rel[k] = child

\* Where paths lead, call by call.
LEMMA CatalogPaths ==
    ASSUME NEW rel, NEW r, NEW o, r.op \in Cat!CallOps, Cat!Reaches(rel, r, o)
    PROVE  /\ r.op = "attribute" => \E p : /\ Related(rel, CatalogModule["Ontology"], "DomainName", r.domain, p)
                                           /\ Related(rel, p, "AttributeName", r.name, o)
           /\ r.op = "meta" => o = r.att
           /\ r.op = "process" => \E p : /\ Related(rel, CatalogModule["AssociationMapper"], "ProcessID", r.owner, p)
                                         /\ Related(rel, p, "AttributeID", r.att, o)
           /\ r.op = "component" => \E p : /\ Related(rel, CatalogModule["AssociationMapper"], "ComponentID", r.owner, p)
                                           /\ Related(rel, p, "AttributeID", r.att, o)
           /\ r.op = "node" => Related(rel, CatalogModule["System"], "Host", r.name, o)
           /\ r.op = "filesystem" => Related(rel, CatalogModule["System"], "Filesystem", r.name, o)
           /\ r.op = "interface" => \E p : /\ Related(rel, CatalogModule["System"], "Interface", r.name, p)
                                           /\ Related(rel, p, "Implementation", r.implementation, o)
           /\ r.op = "device" => Related(rel, r.parent, "Device", r.name, o)
           /\ r.op = "activity" => Related(rel, r.parent, "Activity", r.name, o)
<1>1. ASSUME NEW from, NEW type, NEW name, NEW c,
             c = Cat!Follow(rel, from, [type |-> type, name |-> name]), c # Cat!NoObject
      PROVE  Related(rel, from, type, name, c)
  BY <1>1 DEF Cat!Follow, Related
<1>2. ASSUME NEW from, NEW t1, NEW n1, NEW t2, NEW n2,
             Cat!Path(r) = [from |-> from, steps |-> <<[type |-> t1, name |-> n1], [type |-> t2, name |-> n2]>>]
      PROVE  \E p : Related(rel, from, t1, n1, p) /\ Related(rel, p, t2, n2, o)
  <2>1. PICK s1, s2 : s1 = [type |-> t1, name |-> n1] /\ s2 = [type |-> t2, name |-> n2]
    OBVIOUS
  <2>2. PICK path : path = Cat!Path(r)
    OBVIOUS
  <2>3. path.from = from /\ path.steps = <<s1, s2>>
    BY <1>2, <2>1, <2>2
  <2>4. path.steps[1] = s1 /\ path.steps[2] = s2 /\ Len(path.steps) = 2
    BY <2>3
  <2>5. /\ o # Cat!NoObject /\ o = Cat!Follow(rel, Cat!Follow(rel, from, s1), s2)
        /\ Cat!Follow(rel, from, s1) # Cat!NoObject
    BY <2>2, <2>3, <2>4 DEF Cat!Reaches
  <2> QED BY <1>1, <2>1, <2>5
<1>3. ASSUME NEW from, NEW t1, NEW n1, Cat!Path(r) = [from |-> from, steps |-> <<[type |-> t1, name |-> n1]>>]
      PROVE  Related(rel, from, t1, n1, o)
  <2>1. PICK s1 : s1 = [type |-> t1, name |-> n1]
    OBVIOUS
  <2>2. PICK path : path = Cat!Path(r)
    OBVIOUS
  <2>3. path.from = from /\ path.steps = <<s1>>
    BY <1>3, <2>1, <2>2
  <2>4. path.steps[1] = s1 /\ Len(path.steps) = 1
    BY <2>3
  <2>5. o # Cat!NoObject /\ o = Cat!Follow(rel, from, s1)
    BY <2>2, <2>3, <2>4 DEF Cat!Reaches
  <2> QED BY <1>1, <2>1, <2>5
<1>4. CASE r.op \in {"attribute", "process", "component", "interface"}
  BY <1>2, <1>4 DEF Cat!Path
<1>5. CASE r.op \in {"node", "filesystem", "device", "activity"}
  BY <1>3, <1>5 DEF Cat!Path
<1>6. CASE r.op = "meta"
  <2>1. Cat!Path(r).from = r.att /\ Len(Cat!Path(r).steps) = 0
    BY <1>6 DEF Cat!Path
  <2> QED BY <1>6, <2>1 DEF Cat!Reaches
<1> QED BY <1>4, <1>5, <1>6 DEF Cat!CallOps

\* An object belongs to one kind of call, and its path says all that is set on it but
\* for the last attribute of the calls that look first.
LEMMA CatalogSame ==
    ASSUME NEW rel, NEW next, Cat!Numbered(rel, next), NEW r, NEW s, NEW o, r.op \in Cat!CallOps \ {"meta"},
           s.op \in Cat!CallOps \ {"meta"}, Cat!Reaches(rel, r, o), Cat!Reaches(rel, s, o)
    PROVE  /\ r.op = s.op /\ Len(Cat!Sets(r)) = Len(Cat!Sets(s))
           /\ \A i \in DOMAIN Cat!Sets(r) :
                 /\ Cat!Sets(r)[i].att = Cat!Sets(s)[i].att
                 /\ ~Cat!Looks(r) \/ i # Len(Cat!Sets(r)) => Cat!Sets(r)[i] = Cat!Sets(s)[i]
<1>1. ASSUME NEW p, NEW t, NEW n, NEW q, NEW u, NEW v, NEW c, Related(rel, p, t, n, c), Related(rel, q, u, v, c)
      PROVE  p = q /\ t = u /\ n = v
  <2>1. [parent |-> p, type |-> t, name |-> n] = [parent |-> q, type |-> u, name |-> v]
    BY <1>1 DEF Related, Cat!Numbered
  <2> QED BY <2>1
<1>2. ASSUME NEW x, x.op \in Cat!CallOps \ {"meta"}, Cat!Reaches(rel, x, o)
      PROVE  \E p, n : Related(rel, p, LastType(x.op), n, o)
  BY <1>2, CatalogPaths DEF Cat!CallOps, LastType
<1>3. LastType(r.op) = LastType(s.op)
  BY <1>1, <1>2
<1>4. r.op = s.op \/ {r.op, s.op} = {"process", "component"}
  BY <1>3 DEF LastType, Cat!CallOps
<1>5. r.op = s.op
  <2>1. ASSUME NEW x, NEW y, x.op = "process", y.op = "component", Cat!Reaches(rel, x, o), Cat!Reaches(rel, y, o)
        PROVE  FALSE
    <3>1. PICK p : /\ Related(rel, CatalogModule["AssociationMapper"], "ProcessID", x.owner, p)
                   /\ Related(rel, p, "AttributeID", x.att, o)
      BY <2>1, CatalogPaths DEF Cat!CallOps
    <3>2. PICK q : /\ Related(rel, CatalogModule["AssociationMapper"], "ComponentID", y.owner, q)
                   /\ Related(rel, q, "AttributeID", y.att, o)
      BY <2>1, CatalogPaths DEF Cat!CallOps
    <3>3. p = q
      BY <1>1, <3>1, <3>2
    <3>4. "ProcessID" = "ComponentID"
      BY <1>1, <3>1, <3>2, <3>3
    <3> QED BY <3>4
  <2> QED BY <1>4, <2>1
<1>6. CASE r.op = "attribute"
  <2>1. PICK p : /\ Related(rel, CatalogModule["Ontology"], "DomainName", r.domain, p)
                 /\ Related(rel, p, "AttributeName", r.name, o)
    BY <1>6, CatalogPaths
  <2>2. PICK q : /\ Related(rel, CatalogModule["Ontology"], "DomainName", s.domain, q)
                 /\ Related(rel, q, "AttributeName", s.name, o)
    BY <1>5, <1>6, CatalogPaths
  <2>3. p = q /\ r.name = s.name
    BY <1>1, <2>1, <2>2
  <2>4. r.domain = s.domain
    BY <1>1, <2>1, <2>2, <2>3
  <2>5. /\ Cat!Sets(r) = <<Cat!A("Domain", r.domain), Cat!A("Name", r.name), Cat!A("Type", r.type)>>
        /\ Cat!Sets(s) = <<Cat!A("Domain", r.domain), Cat!A("Name", r.name), Cat!A("Type", s.type)>>
    BY <1>5, <1>6, <2>3, <2>4 DEF Cat!Sets, Cat!AttributeSets
  <2>6. Cat!A("Type", r.type).att = Cat!A("Type", s.type).att
    BY DEF Cat!A
  <2>7. /\ Len(Cat!Sets(r)) = 3 /\ Len(Cat!Sets(s)) = 3 /\ DOMAIN Cat!Sets(r) = {1, 2, 3}
        /\ Cat!Sets(r)[1] = Cat!Sets(s)[1] /\ Cat!Sets(r)[2] = Cat!Sets(s)[2]
        /\ Cat!Sets(r)[3].att = Cat!Sets(s)[3].att
    BY <2>5, <2>6
  <2>8. Cat!Looks(r)
    BY <1>6 DEF Cat!Looks
  <2> QED BY <1>5, <2>7, <2>8
<1>7. CASE r.op \in {"process", "component"}
  <2>1. Cat!Sets(r) = <<Cat!A("Value", r.value)>> /\ Cat!Sets(s) = <<Cat!A("Value", s.value)>> /\ Cat!Looks(r)
    BY <1>5, <1>7 DEF Cat!Sets, Cat!Looks
  <2>2. Cat!A("Value", r.value).att = Cat!A("Value", s.value).att
    BY DEF Cat!A
  <2> QED BY <1>5, <2>1, <2>2
<1>8. CASE r.op \in {"node", "filesystem", "interface", "device", "activity"}
  <2>1. Cat!Sets(r) = Cat!Sets(s)
    <3>1. CASE r.op \in {"node", "filesystem"}
      <4>1. r.name = s.name
        BY <1>1, <1>5, <3>1, CatalogPaths
      <4> QED BY <1>5, <3>1, <4>1 DEF Cat!Sets
    <3>2. CASE r.op = "interface"
      <4>1. PICK p : /\ Related(rel, CatalogModule["System"], "Interface", r.name, p)
                     /\ Related(rel, p, "Implementation", r.implementation, o)
        BY <3>2, CatalogPaths
      <4>2. PICK q : /\ Related(rel, CatalogModule["System"], "Interface", s.name, q)
                     /\ Related(rel, q, "Implementation", s.implementation, o)
        BY <1>5, <3>2, CatalogPaths
      <4>3. p = q /\ r.implementation = s.implementation
        BY <1>1, <4>1, <4>2
      <4>4. r.name = s.name
        BY <1>1, <4>1, <4>2, <4>3
      <4> QED BY <1>5, <3>2, <4>3, <4>4 DEF Cat!Sets
    <3>3. CASE r.op \in {"device", "activity"}
      <4>1. r.parent = s.parent /\ r.name = s.name
        BY <1>1, <1>5, <3>3, CatalogPaths
      <4> QED BY <1>5, <3>3, <4>1 DEF Cat!Sets
    <3> QED BY <1>8, <3>1, <3>2, <3>3
  <2> QED BY <1>5, <2>1
<1> QED BY <1>6, <1>7, <1>8 DEF Cat!CallOps

\* Relations are only added.
Grown(rel, rel2) == \A k \in DOMAIN rel : k \in DOMAIN rel2 /\ rel2[k] = rel[k]

\* What a path has led to it leads to for ever, and what was returned stays so.
LEMMA CatalogGrows ==
    ASSUME NEW rel, NEW rel2, NEW ret, NEW ret2, Grown(rel, rel2), ret \subseteq ret2, NEW r, NEW o
    PROVE  /\ Cat!Reaches(rel, r, o) => Cat!Reaches(rel2, r, o)
           /\ Cat!Proper(rel, ret, r, o) => Cat!Proper(rel2, ret2, r, o)
           /\ Cat!Setter(rel, ret, r, o) => Cat!Setter(rel2, ret2, r, o)
<1>1. \A p, s : Cat!Follow(rel, p, s) # Cat!NoObject => Cat!Follow(rel2, p, s) = Cat!Follow(rel, p, s)
  BY DEF Grown, Cat!Follow
<1>2. Cat!Reaches(rel, r, o) => Cat!Reaches(rel2, r, o)
  BY <1>1 DEF Cat!Reaches
<1>3. Cat!Proper(rel, ret, r, o) => Cat!Proper(rel2, ret2, r, o)
  BY <1>2 DEF Cat!Proper
<1> QED BY <1>2, <1>3 DEF Cat!Setter

\* An object and the topology that it is in.
Place(at, rel, next) == [at |-> at, rel |-> rel, next |-> next]

\* registerObject finds the child or makes it, with a new number.
LEMMA CatalogChild ==
    ASSUME NEW at, NEW rel, NEW next, Cat!Numbered(rel, next), NEW s
    PROVE  \E at2, rel2, next2 :
              /\ Cat!Child(Place(at, rel, next), s) = Place(at2, rel2, next2)
              /\ Cat!Numbered(rel2, next2) /\ Grown(rel, rel2)
              /\ at2 # Cat!NoObject /\ at2 = Cat!Follow(rel2, at, s)
<1>1. PICK b : b = Place(at, rel, next)
  OBVIOUS
<1>2. b.at = at /\ b.rel = rel /\ b.next = next
  BY <1>1 DEF Place
<1>3. PICK k : k = [parent |-> at, type |-> s.type, name |-> s.name]
  OBVIOUS
<1>4. CASE Cat!Follow(rel, at, s) # Cat!NoObject
  <2>1. Cat!Child(b, s) = Place(Cat!Follow(rel, at, s), rel, next)
    BY <1>1, <1>2, <1>4 DEF Cat!Child, Place
  <2> QED BY <1>1, <1>4, <2>1 DEF Grown
<1>5. CASE Cat!Follow(rel, at, s) = Cat!NoObject
  <2>1. PICK rel2 : rel2 = Cat!Put(rel, k, next)
    OBVIOUS
  <2>2. Cat!Child(b, s) = Place(next, rel2, next + 1)
    BY <1>2, <1>3, <1>5, <2>1 DEF Cat!Child, Place
  <2>3. next \in Nat /\ next # 0 /\ \A l \in DOMAIN rel : rel[l] \in 1 .. next - 1
    BY DEF Cat!Numbered
  <2>4. k \notin DOMAIN rel
    BY <1>3, <1>5, <2>3 DEF Cat!Follow, Cat!NoObject
  <2>5. DOMAIN rel2 = DOMAIN rel \cup {k} /\ rel2[k] = next /\ \A l \in DOMAIN rel : rel2[l] = rel[l]
    BY <2>1, <2>4 DEF Cat!Put
  <2>6. Cat!Numbered(rel2, next + 1)
    <3>1. \A l, m \in DOMAIN rel : rel[l] = rel[m] => l = m
      BY DEF Cat!Numbered
    <3>2. next + 1 \in Nat \ {0} /\ \A l \in DOMAIN rel2 : rel2[l] \in 1 .. next + 1 - 1
      BY <2>3, <2>5
    <3>3. \A l \in DOMAIN rel : rel[l] # next
      BY <2>3
    <3>4. \A l, m \in DOMAIN rel2 : rel2[l] = rel2[m] => l = m
      BY ONLY <2>5, <3>1, <3>3
    <3> QED BY <3>2, <3>4 DEF Cat!Numbered
  <2>7. Grown(rel, rel2)
    BY <2>5 DEF Grown
  <2>8. next = Cat!Follow(rel2, at, s)
    BY <1>3, <2>5 DEF Cat!Follow
  <2> QED BY <1>1, <2>2, <2>3, <2>6, <2>7, <2>8 DEF Cat!NoObject
<1> QED BY <1>4, <1>5

\* Paths have at most two relations; only meta attributes are set on an object that is given.
LEMMA CatalogLengths ==
    ASSUME NEW r, r.op \in Cat!CallOps
    PROVE  Len(Cat!Path(r).steps) \in {0, 1, 2} /\ (Len(Cat!Path(r).steps) = 0 <=> r.op = "meta")
<1>1. PICK p : p = Cat!Path(r)
  OBVIOUS
<1>2. CASE r.op \in {"attribute", "process", "component", "interface"}
  <2>1. \E x, y : p.steps = <<x, y>>
    BY <1>1, <1>2 DEF Cat!Path
  <2> QED BY <1>1, <1>2, <2>1
<1>3. CASE r.op \in {"node", "filesystem", "device", "activity"}
  <2>1. \E x : p.steps = <<x>>
    BY <1>1, <1>3 DEF Cat!Path
  <2> QED BY <1>1, <1>3, <2>1
<1>4. CASE r.op = "meta"
  <2>1. p.steps = << >>
    BY <1>1, <1>4 DEF Cat!Path
  <2> QED BY <1>1, <1>4, <2>1
<1> QED BY <1>2, <1>3, <1>4 DEF Cat!CallOps

\* Meta attributes are set on the object of an attribute, and of no other entry.
LEMMA CatalogMeta ==
    ASSUME Cat!RelationInv, Cat!ReturnedInv, NEW m, NEW o, m.op = "meta",
           Cat!Proper(cRelations, returned, m, o)
    PROVE  /\ \A n \in {"Type", "Name", "Domain"} : <<o, CatalogAttributeId[n]>> \in DOMAIN cValues
           /\ \A r : r.op \in Cat!CallOps \ {"meta"} /\ Cat!Reaches(cRelations, r, o) => r.op = "attribute"
<1>1. PICK y \in returned : y.req.op = "attribute" /\ y.id = m.att
  BY DEF Cat!Proper
<1>2. o = m.att
  BY CatalogPaths DEF Cat!Proper
<1>3. /\ Cat!Proper(cRelations, returned, y.req, o)
      /\ \A i \in DOMAIN Cat!Sets(y.req) : Cat!Key(y.req, o, i) \in DOMAIN cValues
  BY <1>1, <1>2 DEF Cat!ReturnedInv, Cat!Kept
<1>4. y.req.op \in Cat!CallOps \ {"meta"} /\ Cat!Reaches(cRelations, y.req, o)
  BY <1>1, <1>3 DEF Cat!Proper
<1>5. PICK s : s = Cat!Sets(y.req)
  OBVIOUS
<1>6. /\ DOMAIN s = 1 .. 3 /\ s[1].att = CatalogAttributeId["Domain"] /\ s[2].att = CatalogAttributeId["Name"]
      /\ s[3].att = CatalogAttributeId["Type"]
  BY <1>1, <1>5, CatalogSetsAttribute
<1>7. \A i \in 1 .. 3 : <<o, s[i].att>> \in DOMAIN cValues
  BY <1>3, <1>5, <1>6 DEF Cat!Key
<1>8. \A n \in {"Type", "Name", "Domain"} : <<o, CatalogAttributeId[n]>> \in DOMAIN cValues
  BY <1>6, <1>7
<1>9. ASSUME NEW r, r.op \in Cat!CallOps \ {"meta"}, Cat!Reaches(cRelations, r, o)
      PROVE  r.op = "attribute"
  <2>1. Cat!Numbered(cRelations, nextObject)
    BY DEF Cat!RelationInv
  <2> QED BY <1>1, <1>4, <1>9, <2>1, CatalogSame
<1> QED BY <1>8, <1>9

\* Where a call that does not look first, or one that does but for its last attribute,
\* finds a value on its object, it is the one that the call sets.
LEMMA CatalogValue ==
    ASSUME Cat!RelationInv, Cat!ValueInv, Cat!ReturnedInv, NEW r, NEW o, NEW i,
           r.op \in Cat!CallOps \ {"meta"}, Cat!Reaches(cRelations, r, o), i \in DOMAIN Cat!Sets(r),
           ~Cat!Looks(r) \/ i # Len(Cat!Sets(r)), Cat!Key(r, o, i) \in DOMAIN cValues
    PROVE  cValues[Cat!Key(r, o, i)] = Cat!Sets(r)[i].value
<1>1. PICK k : k = Cat!Key(r, o, i)
  OBVIOUS
<1>2. k[1] = o /\ k[2] = Cat!Sets(r)[i].att
  BY <1>1 DEF Cat!Key
<1>3. PICK s \in {q \in use : q.op \in Cat!CallOps} : \E j \in DOMAIN Cat!Sets(s) :
         /\ Cat!Setter(cRelations, returned, s, o)
         /\ k = Cat!Key(s, o, j) /\ cValues[k] = Cat!Sets(s)[j].value
  BY <1>1, <1>2 DEF Cat!ValueInv, Cat!Valued
<1>4. PICK j \in DOMAIN Cat!Sets(s) : k = Cat!Key(s, o, j) /\ cValues[k] = Cat!Sets(s)[j].value
  BY <1>3
<1>5. Cat!Sets(s)[j].att = Cat!Sets(r)[i].att
  BY <1>1, <1>4 DEF Cat!Key
<1>6. /\ Cat!Proper(cRelations, returned, s, o) /\ Cat!Reaches(cRelations, s, o)
      /\ s.op = "meta" => s.meta \notin Cat!Own
  BY <1>3 DEF Cat!Setter, Cat!Proper
<1>7. CASE s.op = "meta"
  <2>1. r.op = "attribute"
    BY <1>6, <1>7, CatalogMeta
  <2>2. Cat!Sets(r)[i].att \in Cat!Own
    <3>1. PICK q : q = Cat!Sets(r)
      OBVIOUS
    <3>2. /\ DOMAIN q = 1 .. 3 /\ q[1].att = CatalogAttributeId["Domain"] /\ q[2].att = CatalogAttributeId["Name"]
          /\ q[3].att = CatalogAttributeId["Type"]
      BY <2>1, <3>1, CatalogSetsAttribute
    <3> QED BY <3>1, <3>2 DEF Cat!Own
  <2>3. Len(Cat!Sets(s)) = 1 /\ Cat!Sets(s)[1].att = s.meta /\ DOMAIN Cat!Sets(s) = 1 .. Len(Cat!Sets(s))
    BY <1>3, <1>7, CatalogSets
  <2>4. j = 1
    BY <1>4, <2>3
  <2> QED BY <1>5, <1>6, <1>7, <2>2, <2>3, <2>4
<1>8. CASE s.op # "meta"
  <2>1. s.op \in Cat!CallOps \ {"meta"} /\ Cat!Numbered(cRelations, nextObject)
    BY <1>3, <1>8 DEF Cat!RelationInv
  <2>2. /\ Len(Cat!Sets(r)) = Len(Cat!Sets(s)) /\ Cat!Sets(r)[i].att = Cat!Sets(s)[i].att
        /\ Cat!Sets(r)[i] = Cat!Sets(s)[i]
    BY <1>6, <2>1, CatalogSame
  <2>3. i \in DOMAIN Cat!Sets(s)
    BY <2>1, <2>2, CatalogSets
  <2>4. i = j
    BY <1>4, <1>5, <2>1, <2>2, <2>3, CatalogSets
  <2> QED BY <1>1, <1>4, <2>2, <2>4
<1> QED BY <1>7, <1>8

\* The invariant gives the property.
LEMMA CatalogEntries ==
    ASSUME Cat!IInv
    PROVE  EntriesResolve
<1>0. Cat!RelationInv /\ Cat!ValueInv /\ Cat!ReturnedInv /\ Cat!TypesInv /\ Cat!TypeComesLast
  BY DEF Cat!IInv
<1>1. ASSUME NEW x \in returned, x.req.op # "instance", NEW i \in DOMAIN Cat!Sets(x.req)
      PROVE  LET a == Cat!Sets(x.req)[i]
             IN  \/ Cat!Has(x.id, a)
                 \/ /\ x.id \in contended /\ i = Len(Cat!Sets(x.req))
                    /\ <<x.id, a.att>> \in DOMAIN cValues
  <2>1. /\ Cat!Proper(cRelations, returned, x.req, x.id) /\ Cat!Key(x.req, x.id, i) \in DOMAIN cValues
        /\ x.id \notin contended =>
              cValues[Cat!LastKey(x.req, x.id)] = Cat!Sets(x.req)[Len(Cat!Sets(x.req))].value
    BY <1>0, <1>1 DEF Cat!ReturnedInv, Cat!Kept
  <2>2. x.req.op \in Cat!CallOps /\ Cat!Reaches(cRelations, x.req, x.id)
    BY <2>1 DEF Cat!Proper
  <2>3. CASE i = Len(Cat!Sets(x.req))
    BY <2>1, <2>3 DEF Cat!Has, Cat!LastKey, Cat!Key
  <2>4. CASE i # Len(Cat!Sets(x.req))
    <3>1. x.req.op # "meta"
      <4>1. x.req.op = "meta" => DOMAIN Cat!Sets(x.req) = {1} /\ Len(Cat!Sets(x.req)) = 1
        BY CatalogSetsAttribute
      <4> QED BY <1>1, <2>4, <4>1
    <3>2. cValues[Cat!Key(x.req, x.id, i)] = Cat!Sets(x.req)[i].value
      BY <1>0, <2>1, <2>2, <2>4, <3>1, CatalogValue
    <3> QED BY <2>1, <3>2 DEF Cat!Has, Cat!Key
  <2> QED BY <2>3, <2>4
<1>2. ASSUME NEW x \in returned, x.req.op = "instance"
      PROVE  cTypes[x.id] = x.req.name
  BY <1>0, <1>2 DEF Cat!ReturnedInv, Cat!Kept
<1>3. ASSUME NEW x \in returned, NEW y \in returned, x.req = y.req
      PROVE  x.id = y.id
  <2>1. CASE x.req.op = "instance"
    <3>1. x.id \in DOMAIN cTypes /\ y.id \in DOMAIN cTypes /\ cTypes[x.id] = cTypes[y.id]
      BY <1>0, <1>3, <2>1 DEF Cat!ReturnedInv, Cat!Kept
    <3> QED BY <1>0, <3>1 DEF Cat!TypesInv
  <2>2. CASE x.req.op # "instance"
    <3>1. Cat!Proper(cRelations, returned, x.req, x.id) /\ Cat!Proper(cRelations, returned, x.req, y.id)
      BY <1>0, <1>3, <2>2 DEF Cat!ReturnedInv, Cat!Kept
    <3>2. Cat!Reaches(cRelations, x.req, x.id) /\ Cat!Reaches(cRelations, x.req, y.id)
      BY <3>1 DEF Cat!Proper
    <3> QED BY <3>2 DEF Cat!Reaches
  <2> QED BY <2>1, <2>2
<1>4. ASSUME NEW x \in returned, x.req.op = "attribute"
      PROVE  Cat!lookup_attribute_by_name(x.req) = [id |-> x.id, outcome |-> "found"]
  <2>1. /\ Cat!Proper(cRelations, returned, x.req, x.id)
        /\ \A i \in DOMAIN Cat!Sets(x.req) : Cat!Key(x.req, x.id, i) \in DOMAIN cValues
    BY <1>0, <1>4 DEF Cat!ReturnedInv, Cat!Kept
  <2>2. PICK path : path = Cat!Path(x.req)
    OBVIOUS
  <2>3. Len(path.steps) = 2
    BY <1>4, <2>2 DEF Cat!Path
  <2>4. /\ x.id # Cat!NoObject
        /\ x.id = Cat!Follow(cRelations, Cat!Follow(cRelations, path.from, path.steps[1]), path.steps[2])
    BY <2>1, <2>2, <2>3 DEF Cat!Proper, Cat!Reaches
  <2>5. 3 \in DOMAIN Cat!Sets(x.req) /\ Cat!Sets(x.req)[3].att = CatalogAttributeId["Type"]
    BY <1>4, CatalogSetsAttribute
  <2>6. <<x.id, CatalogAttributeId["Type"]>> \in DOMAIN cValues
    BY <2>1, <2>5 DEF Cat!Key
  <2> QED BY <2>2, <2>4, <2>6 DEF Cat!lookup_attribute_by_name
<1> QED BY <1>0, <1>1, <1>2, <1>3, <1>4 DEF EntriesResolve, Cat!EntriesResolve

\* What an invariant says of a thread, a value or a returned call stays true while
\* relations, returned calls, values and contended objects are added.
LEMMA CatalogFrame ==
    ASSUME NEW rel, NEW rel2, NEW ret, NEW ret2, Grown(rel, rel2), ret \subseteq ret2
    PROVE  /\ \A set, set2, p, r, o, left :
                 set \subseteq set2 /\ Cat!Running(rel, ret, set, p, r, o, left)
                 => Cat!Running(rel2, ret2, set2, p, r, o, left)
           /\ \A made, k, v : Cat!Valued(made, rel, ret, k, v) => Cat!Valued(made, rel2, ret2, k, v)
           /\ \A val, val2, cont, cont2, x :
                 /\ Cat!Kept(rel, ret, val, cont, x) /\ DOMAIN val \subseteq DOMAIN val2 /\ cont \subseteq cont2
                 /\ x.id \in cont \/ val2[Cat!LastKey(x.req, x.id)] = val[Cat!LastKey(x.req, x.id)]
                 => Cat!Kept(rel2, ret2, val2, cont2, x)
<1>1. \A r, o : /\ Cat!Proper(rel, ret, r, o) => Cat!Proper(rel2, ret2, r, o)
                /\ Cat!Setter(rel, ret, r, o) => Cat!Setter(rel2, ret2, r, o)
  BY CatalogGrows
<1>2. ASSUME NEW set, NEW set2, NEW p, NEW r, NEW o, NEW left,
             set \subseteq set2, Cat!Running(rel, ret, set, p, r, o, left)
      PROVE  Cat!Running(rel2, ret2, set2, p, r, o, left)
  <2>1. \A f, s : Cat!Follow(rel, f, s) # Cat!NoObject => Cat!Follow(rel2, f, s) = Cat!Follow(rel, f, s)
    BY DEF Grown, Cat!Follow
  <2>2. PICK path, from, step : path = Cat!Path(r) /\ from = path.from /\ step = path.steps[1]
    OBVIOUS
  <2>3. p = "second" => Len(path.steps) = 2 /\ o # Cat!NoObject /\ o = Cat!Follow(rel2, from, step)
    BY <1>2, <2>1, <2>2 DEF Cat!Running
  <2> QED BY <1>1, <1>2, <2>2, <2>3 DEF Cat!Running
<1>3. ASSUME NEW made, NEW k, NEW v, Cat!Valued(made, rel, ret, k, v)
      PROVE  Cat!Valued(made, rel2, ret2, k, v)
  BY <1>1, <1>3 DEF Cat!Valued
<1>4. ASSUME NEW val, NEW val2, NEW cont, NEW cont2, NEW x,
             Cat!Kept(rel, ret, val, cont, x), DOMAIN val \subseteq DOMAIN val2, cont \subseteq cont2,
             x.id \in cont \/ val2[Cat!LastKey(x.req, x.id)] = val[Cat!LastKey(x.req, x.id)]
      PROVE  Cat!Kept(rel2, ret2, val2, cont2, x)
  BY <1>1, <1>4 DEF Cat!Kept
<1> QED BY <1>2, <1>3, <1>4

\* The step of one thread leaves the others alone.
OneThread(t, p, r, o, left) ==
    /\ cPc' = [cPc EXCEPT ![t] = p]
    /\ DOMAIN cReq' = DOMAIN cReq /\ DOMAIN cObj' = DOMAIN cObj /\ DOMAIN cTodo' = DOMAIN cTodo
    /\ cReq'[t] = r /\ cObj'[t] = o /\ cTodo'[t] = left
    /\ \A u \in DBProcesses \ {t} : cReq'[u] = cReq[u] /\ cObj'[u] = cObj[u] /\ cTodo'[u] = cTodo[u]

\* What holds of the threads goes on to hold if it holds of the one that makes the step.
LEMMA CatalogThreads ==
    ASSUME Cat!ThreadInv, NEW t \in DBProcesses, NEW p \in {"idle", "first", "second", "look", "set"}, NEW r, NEW o, NEW left,
           use' = use, OneThread(t, p, r, o, left),
           Grown(cRelations, cRelations'), returned \subseteq returned', DOMAIN cValues \subseteq DOMAIN cValues',
           p = "idle" \/ r \in use,
           Cat!Running(cRelations', returned', DOMAIN cValues', p, r, o, left)
    PROVE  /\ Cat!ThreadInv'
           /\ cPc'[t] = p /\ cReq'[t] = r /\ cObj'[t] = o /\ cTodo'[t] = left
           /\ \A u \in DBProcesses \ {t} :
                 cPc'[u] = cPc[u] /\ cReq'[u] = cReq[u] /\ cObj'[u] = cObj[u] /\ cTodo'[u] = cTodo[u]
<1>1. /\ cPc \in [DBProcesses -> {"idle", "first", "second", "look", "set"}]
      /\ DOMAIN cReq = DBProcesses /\ DOMAIN cObj = DBProcesses /\ DOMAIN cTodo = DBProcesses
  BY DEF Cat!ThreadInv
<1>2. /\ cPc'[t] = p /\ cReq'[t] = r /\ cObj'[t] = o /\ cTodo'[t] = left
      /\ \A u \in DBProcesses \ {t} :
            cPc'[u] = cPc[u] /\ cReq'[u] = cReq[u] /\ cObj'[u] = cObj[u] /\ cTodo'[u] = cTodo[u]
  BY <1>1 DEF OneThread
<1>3. /\ cPc' \in [DBProcesses -> {"idle", "first", "second", "look", "set"}]
      /\ DOMAIN cReq' = DBProcesses /\ DOMAIN cObj' = DBProcesses /\ DOMAIN cTodo' = DBProcesses
  BY <1>1 DEF OneThread
<1>4. \A u \in DBProcesses : cPc'[u] # "idle" => cReq'[u] \in use'
  BY <1>2 DEF Cat!ThreadInv
<1>5. ASSUME NEW u \in DBProcesses
      PROVE  Cat!Running(cRelations', returned', DOMAIN cValues', cPc'[u], cReq'[u], cObj'[u], cTodo'[u])
  <2>1. CASE u = t
    BY <1>2, <2>1
  <2>2. CASE u # t
    <3>1. Cat!Running(cRelations, returned, DOMAIN cValues, cPc[u], cReq[u], cObj[u], cTodo[u])
      BY DEF Cat!ThreadInv
    <3>2. Cat!Running(cRelations', returned', DOMAIN cValues', cPc[u], cReq[u], cObj[u], cTodo[u])
      BY <3>1, CatalogFrame
    <3> QED BY <1>2, <2>2, <3>2
  <2> QED BY <2>1, <2>2
<1> QED BY <1>2, <1>3, <1>4, <1>5 DEF Cat!ThreadInv

\* Values and returned calls, in a step that sets no attribute.
LEMMA CatalogKept ==
    ASSUME Cat!ValueInv, Cat!ReturnedInv, Cat!TypeComesLast, UNCHANGED <<use, cValues, cTypes>>,
           Grown(cRelations, cRelations'), returned \subseteq returned', contended \subseteq contended',
           \A x \in returned' \ returned :
              x.req.op # "instance" /\ Cat!Kept(cRelations', returned', cValues, contended', x)
    PROVE  Cat!ValueInv' /\ Cat!ReturnedInv' /\ Cat!TypeComesLast'
<1>1. Cat!ValueInv'
  <2>1. \A k \in DOMAIN cValues : Cat!Valued(use, cRelations', returned', k, cValues[k])
    BY CatalogFrame DEF Cat!ValueInv
  <2> QED BY <2>1 DEF Cat!ValueInv
<1>2. ASSUME NEW x \in returned', x.req.op = "instance"
      PROVE  x.id \in DOMAIN cTypes' /\ cTypes'[x.id] = x.req.name
  BY <1>2 DEF Cat!ReturnedInv
<1>3. ASSUME NEW x \in returned', x.req.op # "instance"
      PROVE  Cat!Kept(cRelations', returned', cValues', contended', x)
  <2>1. CASE x \in returned
    <3>1. Cat!Kept(cRelations, returned, cValues, contended, x)
      BY <1>3, <2>1 DEF Cat!ReturnedInv
    <3>2. Cat!Kept(cRelations', returned', cValues, contended', x)
      BY <3>1, CatalogFrame
    <3> QED BY <3>2
  <2> QED BY <2>1
<1>4. Cat!ReturnedInv'
  BY <1>2, <1>3 DEF Cat!ReturnedInv
<1>5. Cat!TypeComesLast'
  BY DEF Cat!TypeComesLast
<1> QED BY <1>1, <1>4, <1>5

\* A thread goes on with its call, before it sets what it had to look for.
LEMMA CatalogGoes ==
    ASSUME Cat!IInv, NEW t \in DBProcesses, NEW p \in {"first", "second", "look", "set"}, NEW r \in use, NEW at,
           NEW left, OneThread(t, p, r, at, left), ~(p = "set" /\ Cat!Looks(r)),
           Cat!Numbered(cRelations', nextObject'), Grown(cRelations, cRelations'),
           UNCHANGED <<use, cValues, cTypes, returned, contended>>,
           Cat!Running(cRelations', returned', DOMAIN cValues', p, r, at, left)
    PROVE  Cat!IInv'
<1>0. Cat!RelationInv /\ Cat!ThreadInv /\ Cat!ContentionInv /\ Cat!ValueInv /\ Cat!ReturnedInv /\ Cat!TypesInv /\ Cat!TypeComesLast
  BY DEF Cat!IInv
<1>1. Cat!RelationInv'
  BY <1>0 DEF Cat!RelationInv
<1>2. /\ Cat!ThreadInv'
      /\ cPc'[t] = p /\ cReq'[t] = r /\ cObj'[t] = at
      /\ \A u \in DBProcesses \ {t} : cPc'[u] = cPc[u] /\ cReq'[u] = cReq[u] /\ cObj'[u] = cObj[u]
  <2>1. p \in {"idle", "first", "second", "look", "set"} /\ returned \subseteq returned'
        /\ DOMAIN cValues \subseteq DOMAIN cValues'
    OBVIOUS
  <2> QED BY <1>0, <2>1, CatalogThreads
<1>3. Cat!ContentionInv'
  <2>1. ~(cPc'[t] = "set" /\ Cat!Looks(cReq'[t]))
    BY <1>2
  <2>2. ASSUME NEW u \in DBProcesses, cPc'[u] = "set" /\ Cat!Looks(cReq'[u]) /\ cObj'[u] \notin contended'
        PROVE  /\ Cat!LastKey(cReq'[u], cObj'[u]) \notin DOMAIN cValues'
               /\ \A v \in DBProcesses : cPc'[v] = "set" /\ Cat!Looks(cReq'[v]) /\ cObj'[v] = cObj'[u] => v = u
    BY <1>0, <1>2, <2>1, <2>2 DEF Cat!ContentionInv
  <2> QED BY <2>2 DEF Cat!ContentionInv
<1>4. Cat!ValueInv' /\ Cat!ReturnedInv' /\ Cat!TypeComesLast'
  BY <1>0, CatalogKept
<1>5. Cat!TypesInv'
  BY <1>0 DEF Cat!TypesInv
<1> QED BY <1>1, <1>2, <1>3, <1>4, <1>5 DEF Cat!IInv

\* A call that has its object looks, or has all to set.
LEMMA CatalogReady ==
    ASSUME NEW rel, NEW ret, NEW set, NEW r, NEW at, Cat!Proper(rel, ret, r, at)
    PROVE  /\ Cat!Running(rel, ret, set, Cat!Ready(r), r, at, Cat!Sets(r))
           /\ Cat!Ready(r) \in {"look", "set"} /\ ~(Cat!Ready(r) = "set" /\ Cat!Looks(r))
<1>1. CASE Cat!Looks(r)
  <2>1. Cat!Ready(r) = "look"
    BY <1>1 DEF Cat!Ready
  <2> QED BY <1>1, <2>1 DEF Cat!Running
<1>2. CASE ~Cat!Looks(r)
  <2>1. Cat!Ready(r) = "set" /\ Cat!Setter(rel, ret, r, at)
    BY <1>2 DEF Cat!Ready, Cat!Setter, Cat!Looks
  <2>2. PICK s, range : s = Cat!Sets(r) /\ s \in Seq(range) /\ Len(s) \in {1, 2, 3} /\ DOMAIN s = 1 .. Len(s)
    BY CatalogSets DEF Cat!Proper
  <2>3. 1 \in DOMAIN s /\ s = SubSeq(s, 1, Len(s)) /\ 1 .. 1 - 1 = {}
    BY <2>2
  <2>4. \E n \in DOMAIN s : s = SubSeq(s, n, Len(s)) /\ \A i \in 1 .. n - 1 : Cat!Key(r, at, i) \in set
    BY <2>3
  <2> QED BY <1>2, <2>1, <2>2, <2>4 DEF Cat!Running
<1> QED BY <1>1, <1>2

\* A call begins at a known object.
LEMMA CatalogCall ==
    ASSUME Cat!IInv, NEW t \in DBProcesses, NEW r \in use, r.op # "instance", Cat!Call(t, r)
    PROVE  Cat!IInv'
<1>0. Cat!RelationInv /\ Cat!ThreadInv
  BY DEF Cat!IInv
<1>1. r.op \in Cat!CallOps /\ Cat!Numbered(cRelations, nextObject)
  BY <1>0, CatalogsInstance DEF Cat!RelationInv, Cat!CatalogsAssumption
<1>2. PICK p, at, left : /\ p = IF Len(Cat!Path(r).steps) = 0 THEN Cat!Ready(r) ELSE "first"
                         /\ at = Cat!Path(r).from /\ left = Cat!Sets(r)
  OBVIOUS
<1>3. /\ cObj' = [cObj EXCEPT ![t] = at] /\ cReq' = [cReq EXCEPT ![t] = r] /\ cTodo' = [cTodo EXCEPT ![t] = left]
      /\ cPc' = [cPc EXCEPT ![t] = p] /\ Cat!Sensible(r)
      /\ UNCHANGED <<use, cRelations, cValues, cTypes, nextObject, returned, contended>>
  BY <1>2 DEF Cat!Call
<1>4. OneThread(t, p, r, at, left)
  BY <1>0, <1>3 DEF OneThread, Cat!ThreadInv
<1>5. /\ Cat!Running(cRelations', returned', DOMAIN cValues', p, r, at, left)
      /\ p \in {"first", "look", "set"} /\ ~(p = "set" /\ Cat!Looks(r))
  <2>1. CASE r.op = "meta"
    <3>1. Len(Cat!Path(r).steps) = 0
      BY <1>1, <2>1, CatalogLengths
    <3>2. Cat!Reaches(cRelations', r, at)
      BY <1>2, <3>1 DEF Cat!Reaches
    <3>3. Cat!Proper(cRelations', returned', r, at)
      BY <1>1, <1>3, <2>1, <3>2 DEF Cat!Proper, Cat!Sensible
    <3>4. p = Cat!Ready(r)
      BY <1>2, <3>1
    <3> QED BY <1>2, <3>3, <3>4, CatalogReady
  <2>2. CASE r.op # "meta"
    <3>1. p = "first"
      BY <1>1, <1>2, <2>2, CatalogLengths
    <3> QED BY <1>1, <1>2, <2>2, <3>1 DEF Cat!Running
  <2> QED BY <2>1, <2>2
<1>6. Cat!Numbered(cRelations', nextObject') /\ Grown(cRelations, cRelations')
  BY <1>1, <1>3 DEF Grown
<1> QED BY <1>3, <1>4, <1>5, <1>6, CatalogGoes

\* A component of a path is registered, and the last one leads to the object.
LEMMA CatalogWalk ==
    ASSUME Cat!IInv, NEW t \in DBProcesses, Cat!Walk(t)
    PROVE  Cat!IInv'
<1>0. Cat!RelationInv /\ Cat!ThreadInv
  BY DEF Cat!IInv
<1>1. Cat!Numbered(cRelations, nextObject) /\ cPc[t] \in {"first", "second"}
  BY <1>0 DEF Cat!RelationInv, Cat!Walk
<1>2. PICK r, o, path, i : /\ r = cReq[t] /\ o = cObj[t] /\ path = Cat!Path(r)
                           /\ i = IF cPc[t] = "first" THEN 1 ELSE 2
  OBVIOUS
<1>3. /\ r \in use /\ r.op \in Cat!CallOps \ {"meta"} /\ cTodo[t] = Cat!Sets(r)
      /\ cPc[t] = "first" => o = path.from
      /\ cPc[t] = "second" => /\ Len(path.steps) = 2 /\ o # Cat!NoObject
                              /\ o = Cat!Follow(cRelations, path.from, path.steps[1])
  <2>1. cReq[t] \in use /\ Cat!Running(cRelations, returned, DOMAIN cValues, cPc[t], cReq[t], cObj[t], cTodo[t])
    BY <1>0, <1>1 DEF Cat!ThreadInv
  <2> QED BY <1>1, <1>2, <2>1 DEF Cat!Running
<1>4. PICK step : step = path.steps[i]
  OBVIOUS
<1>5. PICK at, rel, next :
         /\ Cat!Child(Place(o, cRelations, nextObject), step) = Place(at, rel, next)
         /\ Cat!Numbered(rel, next) /\ Grown(cRelations, rel)
         /\ at # Cat!NoObject /\ at = Cat!Follow(rel, o, step)
  BY <1>1, CatalogChild
<1>6. Place(at, rel, next).at = at /\ Place(at, rel, next).rel = rel /\ Place(at, rel, next).next = next
  BY DEF Place
<1>7. PICK p, left : p = (IF i < Len(path.steps) THEN "second" ELSE Cat!Ready(r)) /\ left = Cat!Sets(r)
  OBVIOUS
<1>8. /\ cRelations' = rel /\ nextObject' = next /\ cObj' = [cObj EXCEPT ![t] = at]
      /\ cPc' = [cPc EXCEPT ![t] = p]
      /\ UNCHANGED <<use, cReq, cTodo, cValues, cTypes, returned, contended>>
  <2>1. Place(o, cRelations, nextObject) = [at |-> cObj[t], rel |-> cRelations, next |-> nextObject]
    BY <1>2 DEF Place
  <2>2. PICK c : c = Cat!Child([at |-> cObj[t], rel |-> cRelations, next |-> nextObject], path.steps[i])
    OBVIOUS
  <2>3. c.at = at /\ c.rel = rel /\ c.next = next
    BY <1>4, <1>5, <1>6, <2>1, <2>2
  <2>4. /\ cRelations' = c.rel /\ nextObject' = c.next /\ cObj' = [cObj EXCEPT ![t] = c.at]
        /\ cPc' = [cPc EXCEPT ![t] = p]
        /\ UNCHANGED <<use, cReq, cTodo, cValues, cTypes, returned, contended>>
    BY <1>2, <1>7, <2>2 DEF Cat!Walk
  <2> QED BY <2>3, <2>4
<1>9. OneThread(t, p, r, at, left)
  BY <1>0, <1>2, <1>3, <1>7, <1>8 DEF OneThread, Cat!ThreadInv
<1>10. PICK n \in {1, 2} : n = Len(path.steps)
  BY <1>2, <1>3, CatalogLengths
<1>11. CASE i < n
  <2>1. i = 1 /\ n = 2 /\ cPc[t] = "first"
    BY <1>1, <1>2, <1>11
  <2>2. Len(path.steps) = 2 /\ p = "second"
    BY <1>7, <1>10, <1>11, <2>1
  <2>3. Cat!Running(cRelations', returned', DOMAIN cValues', p, r, at, left)
    BY <1>2, <1>3, <1>4, <1>5, <1>7, <1>8, <2>1, <2>2 DEF Cat!Running
  <2> QED BY <1>3, <1>5, <1>8, <1>9, <2>2, <2>3, CatalogGoes
<1>12. CASE ~(i < n)
  <2>1. p = Cat!Ready(r) /\ i = Len(path.steps)
    <3>1. p = Cat!Ready(r)
      BY <1>7, <1>10, <1>12
    <3>2. CASE cPc[t] = "first"
      <4>1. i = 1 /\ n = 1
        BY <1>2, <1>12, <3>2
      <4> QED BY <1>10, <3>1, <4>1
    <3>3. CASE cPc[t] = "second"
      <4>1. i = 2
        BY <1>2, <3>3
      <4> QED BY <1>3, <3>1, <3>3, <4>1
    <3> QED BY <1>1, <3>2, <3>3
  <2>2. Cat!Reaches(rel, r, at)
    <3>1. CASE cPc[t] = "first"
      BY <1>2, <1>3, <1>4, <1>5, <2>1, <3>1 DEF Cat!Reaches
    <3>2. CASE cPc[t] = "second"
      <4>1. i = 2 /\ Len(path.steps) = 2
        BY <1>2, <1>3, <3>2
      <4>2. o = Cat!Follow(rel, path.from, path.steps[1])
        BY <1>3, <1>5, <3>2 DEF Grown, Cat!Follow
      <4> QED BY <1>2, <1>3, <1>4, <1>5, <3>2, <4>1, <4>2 DEF Cat!Reaches
    <3> QED BY <1>1, <3>1, <3>2
  <2>3. Cat!Proper(cRelations', returned', r, at)
    BY <1>3, <1>8, <2>2 DEF Cat!Proper
  <2>4. /\ Cat!Running(cRelations', returned', DOMAIN cValues', p, r, at, left)
        /\ p \in {"look", "set"} /\ ~(p = "set" /\ Cat!Looks(r))
    BY <1>7, <2>1, <2>3, CatalogReady
  <2> QED BY <1>3, <1>5, <1>8, <1>9, <2>4, CatalogGoes
<1> QED BY <1>11, <1>12

\* Leaving a call, with what it returned.
LEMMA CatalogLeave ==
    ASSUME Cat!IInv, NEW t \in DBProcesses, Cat!Leave(t),
           UNCHANGED <<use, cRelations, cTypes, nextObject, contended>>, returned \subseteq returned',
           DOMAIN cValues \subseteq DOMAIN cValues',
           \A u \in DBProcesses \ {t} : cPc[u] = "set" /\ Cat!Looks(cReq[u]) /\ cObj[u] \notin contended =>
              Cat!LastKey(cReq[u], cObj[u]) \notin DOMAIN cValues'
    PROVE  Cat!RelationInv' /\ Cat!ThreadInv' /\ Cat!ContentionInv' /\ Cat!TypesInv'
<1>0. Cat!RelationInv /\ Cat!ThreadInv /\ Cat!ContentionInv /\ Cat!TypesInv
  BY DEF Cat!IInv
<1>1. Cat!RelationInv' /\ Cat!TypesInv'
  BY <1>0 DEF Cat!RelationInv, Cat!TypesInv
<1>2. Grown(cRelations, cRelations')
  BY DEF Grown
<1>3. PICK r, o, left : r = Cat!NoRequest /\ o = Cat!NoObject /\ left = << >>
  OBVIOUS
<1>4. OneThread(t, "idle", r, o, left)
  BY <1>0, <1>3 DEF Cat!Leave, OneThread, Cat!ThreadInv
<1>5. Cat!Running(cRelations', returned', DOMAIN cValues', "idle", r, o, left)
  BY DEF Cat!Running
<1>6. /\ Cat!ThreadInv' /\ cPc'[t] = "idle"
      /\ \A u \in DBProcesses \ {t} : cPc'[u] = cPc[u] /\ cReq'[u] = cReq[u] /\ cObj'[u] = cObj[u]
  BY <1>0, <1>2, <1>4, <1>5, CatalogThreads
<1>7. ASSUME NEW u \in DBProcesses, cPc'[u] = "set" /\ Cat!Looks(cReq'[u]) /\ cObj'[u] \notin contended'
      PROVE  /\ Cat!LastKey(cReq'[u], cObj'[u]) \notin DOMAIN cValues'
             /\ \A v \in DBProcesses : cPc'[v] = "set" /\ Cat!Looks(cReq'[v]) /\ cObj'[v] = cObj'[u] => v = u
  BY <1>0, <1>6, <1>7 DEF Cat!ContentionInv
<1>8. Cat!ContentionInv'
  BY <1>7 DEF Cat!ContentionInv
<1> QED BY <1>1, <1>6, <1>8

\* A process that dies leaves what it has set.
LEMMA CatalogDie ==
    ASSUME Cat!IInv, NEW t \in DBProcesses, Cat!Die(t)
    PROVE  Cat!IInv'
<1>0. Cat!ContentionInv /\ Cat!ValueInv /\ Cat!ReturnedInv /\ Cat!TypeComesLast
  BY DEF Cat!IInv
<1>1. Cat!Leave(t) /\ UNCHANGED <<use, cRelations, cValues, cTypes, nextObject, returned, contended>>
  BY DEF Cat!Die
<1>2. Cat!RelationInv' /\ Cat!ThreadInv' /\ Cat!ContentionInv' /\ Cat!TypesInv'
  BY <1>0, <1>1, CatalogLeave DEF Cat!ContentionInv
<1>3. Cat!ValueInv' /\ Cat!ReturnedInv' /\ Cat!TypeComesLast'
  <2>1. Grown(cRelations, cRelations')
    BY <1>1 DEF Grown
  <2> QED BY <1>0, <1>1, <2>1, CatalogKept
<1> QED BY <1>2, <1>3 DEF Cat!IInv

\* A lookup returns what was found, fails, or goes on to set what was not.
LEMMA CatalogLook ==
    ASSUME Cat!IInv, NEW t \in DBProcesses, Cat!Look(t)
    PROVE  Cat!IInv'
<1>0. /\ Cat!RelationInv /\ Cat!ThreadInv /\ Cat!ContentionInv /\ Cat!ValueInv /\ Cat!ReturnedInv /\ Cat!TypesInv
      /\ Cat!TypeComesLast
  BY DEF Cat!IInv
<1>1. PICK r, o, s : r = cReq[t] /\ o = cObj[t] /\ s = Cat!Sets(r)
  OBVIOUS
<1>2. cPc[t] = "look" /\ UNCHANGED <<use, cRelations, cValues, cTypes, nextObject>>
  BY DEF Cat!Look
<1>3. r \in use /\ Cat!Proper(cRelations, returned, r, o) /\ cTodo[t] = s /\ Cat!Looks(r)
  <2>1. cReq[t] \in use /\ Cat!Running(cRelations, returned, DOMAIN cValues, cPc[t], cReq[t], cObj[t], cTodo[t])
    BY <1>0, <1>2 DEF Cat!ThreadInv
  <2> QED BY <1>1, <1>2, <2>1 DEF Cat!Running
<1>4. r.op \in Cat!CallOps /\ r.op \in {"attribute", "meta", "process", "component"}
  BY <1>3 DEF Cat!Proper, Cat!Looks
<1>5. PICK k : k = Cat!LastKey(r, o)
  OBVIOUS
<1>6. k = <<cObj[t], cTodo[t][Len(cTodo[t])].att>> /\ k = <<o, s[Len(s)].att>>
  BY <1>1, <1>3, <1>5 DEF Cat!LastKey, Cat!Key
<1>7. Grown(cRelations, cRelations')
  BY <1>2 DEF Grown
<1>8. CASE k \in DOMAIN cValues
  <2>1. /\ Cat!Leave(t) /\ contended' = contended
        /\ \/ cValues[k] = s[Len(s)].value /\ returned' = returned \cup {[req |-> r, id |-> o]}
           \/ returned' = returned
    BY <1>1, <1>3, <1>6, <1>8 DEF Cat!Look, Cat!Return
  <2>2. Cat!RelationInv' /\ Cat!ThreadInv' /\ Cat!ContentionInv' /\ Cat!TypesInv'
    <3>1. returned \subseteq returned' /\ DOMAIN cValues \subseteq DOMAIN cValues'
      BY <1>2, <2>1
    <3>2. \A u \in DBProcesses \ {t} : cPc[u] = "set" /\ Cat!Looks(cReq[u]) /\ cObj[u] \notin contended =>
              Cat!LastKey(cReq[u], cObj[u]) \notin DOMAIN cValues'
      BY <1>0, <1>2 DEF Cat!ContentionInv
    <3> QED BY <1>2, <2>1, <3>1, <3>2, CatalogLeave
  <2>3. ASSUME NEW x \in returned' \ returned
        PROVE  x.req.op # "instance" /\ Cat!Kept(cRelations', returned', cValues, contended', x)
    <3>1. x = [req |-> r, id |-> o] /\ cValues[k] = s[Len(s)].value /\ returned \subseteq returned'
      BY <2>1, <2>3
    <3>2. x.req = r /\ x.id = o
      BY <3>1
    <3>3. Cat!Proper(cRelations', returned', r, o)
      BY <1>3, <1>7, <3>1, CatalogGrows
    <3>4. ASSUME NEW i \in DOMAIN s
          PROVE  <<o, s[i].att>> \in DOMAIN cValues
      <4>1. CASE r.op = "attribute"
        <5>1. /\ DOMAIN s = 1 .. 3 /\ Len(s) = 3 /\ s[1].att = CatalogAttributeId["Domain"]
              /\ s[2].att = CatalogAttributeId["Name"] /\ s[3].att = CatalogAttributeId["Type"]
          BY <1>1, <4>1, CatalogSetsAttribute
        <5>2. k[1] = o /\ k[2] = CatalogAttributeId["Type"]
          BY <1>6, <5>1
        <5>3. \A n \in {"Domain", "Name"} : <<o, CatalogAttributeId[n]>> \in DOMAIN cValues
          BY <1>0, <1>8, <5>2 DEF Cat!TypeComesLast
        <5> QED BY <1>6, <1>8, <5>1, <5>3
      <4>2. CASE r.op # "attribute"
        <5>1. DOMAIN s = 1 .. Len(s) /\ Len(s) = 1
          BY <1>1, <1>4, <4>2, CatalogSets
        <5> QED BY <1>6, <1>8, <5>1
      <4> QED BY <4>1, <4>2
    <3> QED BY <1>1, <1>4, <1>5, <3>1, <3>2, <3>3, <3>4 DEF Cat!Kept, Cat!Key
  <2>4. Cat!ValueInv' /\ Cat!ReturnedInv' /\ Cat!TypeComesLast'
    <3>1. returned \subseteq returned' /\ contended \subseteq contended'
      BY <2>1
    <3> QED BY <1>0, <1>2, <1>7, <2>3, <3>1, CatalogKept
  <2> QED BY <2>2, <2>4 DEF Cat!IInv
<1>9. CASE k \notin DOMAIN cValues
  <2>1. /\ cPc' = [cPc EXCEPT ![t] = "set"] /\ UNCHANGED <<cReq, cObj, cTodo, returned>>
        /\ contended' = IF \E u \in DBProcesses \ {t} : cPc[u] = "set" /\ cObj[u] = cObj[t] /\ Cat!Looks(cReq[u])
                        THEN contended \cup {cObj[t]} ELSE contended
    BY <1>6, <1>9 DEF Cat!Look
  <2>2. Cat!RelationInv' /\ Cat!TypesInv'
    BY <1>0, <1>2 DEF Cat!RelationInv, Cat!TypesInv
  <2>3. Cat!Setter(cRelations, returned, r, o)
    <3>1. ASSUME r.op = "meta"
          PROVE  r.meta \notin Cat!Own
      <4>1. \A n \in {"Type", "Name", "Domain"} : <<o, CatalogAttributeId[n]>> \in DOMAIN cValues
        BY <1>0, <1>3, <3>1, CatalogMeta
      <4>2. k = <<o, r.meta>>
        BY <1>1, <1>6, <3>1, CatalogSetsAttribute
      <4> QED BY <1>9, <4>1, <4>2 DEF Cat!Own
    <3> QED BY <1>3, <3>1 DEF Cat!Setter
  <2>4. Cat!Running(cRelations', returned', DOMAIN cValues', "set", r, o, s)
    <3>1. PICK range : s \in Seq(range) /\ Len(s) \in {1, 2, 3} /\ DOMAIN s = 1 .. Len(s)
      BY <1>1, <1>4, CatalogSets
    <3>2. 1 \in DOMAIN s /\ s = SubSeq(s, 1, Len(s)) /\ 1 .. 1 - 1 = {}
      BY <3>1
    <3>3. \E n \in DOMAIN s : s = SubSeq(s, n, Len(s)) /\ \A i \in 1 .. n - 1 : Cat!Key(r, o, i) \in DOMAIN cValues'
      BY <3>2
    <3> QED BY <1>1, <1>2, <1>3, <2>1, <2>3, <3>3 DEF Cat!Running
  <2>5. /\ Cat!ThreadInv' /\ cPc'[t] = "set" /\ cReq'[t] = r /\ cObj'[t] = o
        /\ \A u \in DBProcesses \ {t} : cPc'[u] = cPc[u] /\ cReq'[u] = cReq[u] /\ cObj'[u] = cObj[u]
    <3>1. OneThread(t, "set", r, o, s)
      BY <1>1, <1>3, <2>1 DEF OneThread
    <3>2. returned \subseteq returned' /\ DOMAIN cValues \subseteq DOMAIN cValues'
      BY <1>2, <2>1
    <3> QED BY <1>0, <1>2, <1>3, <1>7, <2>1, <2>4, <3>1, <3>2, CatalogThreads
  <2>6. ASSUME NEW u \in DBProcesses, cPc'[u] = "set" /\ Cat!Looks(cReq'[u]) /\ cObj'[u] \notin contended'
        PROVE  /\ Cat!LastKey(cReq'[u], cObj'[u]) \notin DOMAIN cValues'
               /\ \A v \in DBProcesses : cPc'[v] = "set" /\ Cat!Looks(cReq'[v]) /\ cObj'[v] = cObj'[u] => v = u
    <3>1. CASE u = t
      <4>1. Cat!LastKey(cReq'[u], cObj'[u]) \notin DOMAIN cValues'
        BY <1>2, <1>5, <1>9, <2>5, <3>1
      <4>2. \A v \in DBProcesses : cPc'[v] = "set" /\ Cat!Looks(cReq'[v]) /\ cObj'[v] = cObj'[u] => v = u
        BY <1>1, <2>1, <2>5, <2>6, <3>1
      <4> QED BY <4>1, <4>2
    <3>2. CASE u # t
      <4>1. cPc[u] = "set" /\ Cat!Looks(cReq[u]) /\ cObj[u] \notin contended /\ cObj[u] # o
        BY <1>1, <2>1, <2>5, <2>6, <3>2
      <4> QED BY <1>0, <1>2, <2>5, <3>2, <4>1 DEF Cat!ContentionInv
    <3> QED BY <3>1, <3>2
  <2>7. Cat!ContentionInv'
    BY <2>6 DEF Cat!ContentionInv
  <2>8. Cat!ValueInv' /\ Cat!ReturnedInv' /\ Cat!TypeComesLast'
    <3>1. returned \subseteq returned' /\ contended \subseteq contended' /\ returned' \ returned = {}
      BY <2>1
    <3> QED BY <1>0, <1>2, <1>7, <3>1, CatalogKept
  <2> QED BY <2>2, <2>5, <2>7, <2>8 DEF Cat!IInv
<1> QED BY <1>8, <1>9

\* create_instance_mapping finds the name or appends it.
LEMMA CatalogInstance ==
    ASSUME Cat!IInv, NEW r \in use, r.op = "instance", Cat!create_instance_mapping(r.name)
    PROVE  Cat!IInv'
<1>0. /\ Cat!RelationInv /\ Cat!ThreadInv /\ Cat!ContentionInv /\ Cat!ValueInv /\ Cat!ReturnedInv /\ Cat!TypesInv
      /\ Cat!TypeComesLast
  BY DEF Cat!IInv
<1>1. PICK n, names : n = r.name /\ names = {q.name : q \in {c \in use : c.op = "instance"}}
  OBVIOUS
<1>2. n \in names /\ cTypes \in Seq(names) /\ \A i, j \in DOMAIN cTypes : cTypes[i] = cTypes[j] => i = j
  BY <1>0, <1>1 DEF Cat!TypesInv
<1>3. /\ cTypes' = IF {i \in DOMAIN cTypes : cTypes[i] = n} = {} THEN Append(cTypes, n) ELSE cTypes
      /\ returned' = returned \cup {[req |-> [op |-> "instance", name |-> n],
                                     id |-> CHOOSE i \in DOMAIN cTypes' : cTypes'[i] = n]}
      /\ use' = use /\ cRelations' = cRelations /\ cValues' = cValues /\ nextObject' = nextObject
      /\ cPc' = cPc /\ cReq' = cReq /\ cObj' = cObj /\ cTodo' = cTodo /\ contended' = contended
  BY <1>1 DEF Cat!create_instance_mapping, Cat!threadVars
<1>4. /\ cTypes' \in Seq(names) /\ \A i, j \in DOMAIN cTypes' : cTypes'[i] = cTypes'[j] => i = j
      /\ \A i \in DOMAIN cTypes : i \in DOMAIN cTypes' /\ cTypes'[i] = cTypes[i]
      /\ \E i \in DOMAIN cTypes' : cTypes'[i] = n
  <2>1. CASE \E i \in DOMAIN cTypes : cTypes[i] = n
    BY <1>2, <1>3, <2>1
  <2>2. CASE ~\E i \in DOMAIN cTypes : cTypes[i] = n
    <3>1. cTypes' = Append(cTypes, n)
      BY <1>3, <2>2
    <3>2. /\ cTypes' \in Seq(names) /\ DOMAIN cTypes = 1 .. Len(cTypes) /\ DOMAIN cTypes' = 1 .. Len(cTypes) + 1
          /\ cTypes'[Len(cTypes) + 1] = n /\ Len(cTypes) \in Nat
          /\ \A i \in 1 .. Len(cTypes) : cTypes'[i] = cTypes[i]
      BY <1>2, <3>1
    <3>3. \A i \in 1 .. Len(cTypes) + 1 : i \in 1 .. Len(cTypes) \/ i = Len(cTypes) + 1
      BY <3>2
    <3>4. Len(cTypes) + 1 \in DOMAIN cTypes'
      BY <3>2
    <3> QED BY ONLY <1>2, <2>2, <3>2, <3>3, <3>4
  <2> QED BY <2>1, <2>2
<1>5. PICK m \in DOMAIN cTypes' : m = (CHOOSE i \in DOMAIN cTypes' : cTypes'[i] = n) /\ cTypes'[m] = n
  BY <1>4
<1>6. Grown(cRelations, cRelations') /\ returned \subseteq returned'
  BY <1>3 DEF Grown
<1>7. Cat!RelationInv' /\ Cat!ContentionInv' /\ Cat!TypesInv' /\ Cat!TypeComesLast'
  BY <1>0, <1>1, <1>3, <1>4 DEF Cat!RelationInv, Cat!ContentionInv, Cat!TypesInv, Cat!TypeComesLast
<1>8. Cat!ThreadInv'
  <2>1. \A t \in DBProcesses :
           Cat!Running(cRelations', returned', DOMAIN cValues, cPc[t], cReq[t], cObj[t], cTodo[t])
    BY <1>0, <1>6, CatalogFrame DEF Cat!ThreadInv
  <2> QED BY <1>0, <1>3, <2>1 DEF Cat!ThreadInv
<1>9. Cat!ValueInv'
  <2>1. \A k \in DOMAIN cValues : Cat!Valued(use, cRelations', returned', k, cValues[k])
    BY <1>0, <1>6, CatalogFrame DEF Cat!ValueInv
  <2> QED BY <1>3, <2>1 DEF Cat!ValueInv
<1>10. ASSUME NEW x \in returned'
       PROVE  IF x.req.op = "instance" THEN x.id \in DOMAIN cTypes' /\ cTypes'[x.id] = x.req.name
              ELSE Cat!Kept(cRelations', returned', cValues', contended', x)
  <2>1. CASE x \in returned /\ x.req.op = "instance"
    BY <1>0, <1>4, <2>1 DEF Cat!ReturnedInv
  <2>2. CASE x \in returned /\ x.req.op # "instance"
    <3>1. Cat!Kept(cRelations, returned, cValues, contended, x)
      BY <1>0, <2>2 DEF Cat!ReturnedInv
    <3>2. Cat!Kept(cRelations', returned', cValues, contended, x)
      BY <1>6, <3>1, CatalogFrame
    <3> QED BY <1>3, <2>2, <3>2
  <2>3. CASE x \notin returned
    <3>1. x = [req |-> [op |-> "instance", name |-> n], id |-> m]
      BY <1>3, <1>5, <2>3
    <3>2. x.req.op = "instance" /\ x.req.name = n /\ x.id = m
      BY <3>1
    <3> QED BY <1>5, <3>2
  <2> QED BY <2>1, <2>2, <2>3
<1>11. Cat!ReturnedInv'
  BY <1>10 DEF Cat!ReturnedInv
<1> QED BY <1>7, <1>8, <1>9, <1>11 DEF Cat!IInv

\* One attribute less is left to set.
LEMMA SubSeqTail ==
    ASSUME NEW S, NEW s \in Seq(S), NEW n \in 1 .. Len(s), n < Len(s)
    PROVE  Tail(SubSeq(s, n, Len(s))) = SubSeq(s, n + 1, Len(s))
<1>1. PICK a : a = SubSeq(s, n, Len(s))
  OBVIOUS
<1>2. PICK c : c = SubSeq(s, n + 1, Len(s))
  OBVIOUS
<1>3. a \in Seq(S) /\ Len(a) = Len(s) - n + 1 /\ \A i \in 1 .. Len(s) - n + 1 : a[i] = s[n + i - 1]
  BY <1>1
<1>4. c \in Seq(S) /\ Len(c) = Len(s) - n /\ \A i \in 1 .. Len(s) - n : c[i] = s[n + 1 + i - 1]
  BY <1>2
<1>5. PICK b : b = Tail(a)
  OBVIOUS
<1>6. b \in Seq(S) /\ Len(b) = Len(s) - n /\ \A i \in 1 .. Len(s) - n : b[i] = a[i + 1]
  BY ONLY <1>3, <1>5, n \in 1 .. Len(s), n < Len(s), Len(s) \in Nat
<1>7. ASSUME NEW i \in 1 .. Len(s) - n
      PROVE  b[i] = c[i]
  <2>1. i + 1 \in 1 .. Len(s) - n + 1 /\ n + (i + 1) - 1 = n + 1 + i - 1
    OBVIOUS
  <2> QED BY <1>3, <1>4, <1>6, <2>1
<1>8. b \in [1 .. Len(s) - n -> S] /\ c \in [1 .. Len(s) - n -> S]
  <2>1. \A q \in Seq(S) : q \in [1 .. Len(q) -> S]
    OBVIOUS
  <2> QED BY ONLY <1>4, <1>6, <2>1
<1>9. b = c
  BY ONLY <1>7, <1>8
<1> QED BY <1>1, <1>2, <1>5, <1>9

\* setAttribute: the values of uncontended entries stay as they are.
LEMMA CatalogSet ==
    ASSUME Cat!IInv, NEW t \in DBProcesses, Cat!Set(t)
    PROVE  Cat!IInv'
<1>0. /\ Cat!RelationInv /\ Cat!ThreadInv /\ Cat!ContentionInv /\ Cat!ValueInv /\ Cat!ReturnedInv /\ Cat!TypesInv
      /\ Cat!TypeComesLast
  BY DEF Cat!IInv
<1>1. PICK r, o, s : r = cReq[t] /\ o = cObj[t] /\ s = Cat!Sets(r)
  OBVIOUS
<1>2. cPc[t] = "set" /\ UNCHANGED <<use, cRelations, cTypes, nextObject, contended>>
  BY DEF Cat!Set
<1>3. r \in use /\ Cat!Running(cRelations, returned, DOMAIN cValues, "set", r, o, cTodo[t])
  BY <1>0, <1>1, <1>2 DEF Cat!ThreadInv
<1>4. /\ Cat!Proper(cRelations, returned, r, o) /\ Cat!Setter(cRelations, returned, r, o)
      /\ r.op \in Cat!CallOps /\ Cat!Reaches(cRelations, r, o)
      /\ r.op = "meta" => r.meta \notin Cat!Own
  BY <1>3 DEF Cat!Running, Cat!Setter, Cat!Proper
<1>5. PICK n \in DOMAIN s : /\ cTodo[t] = SubSeq(s, n, Len(s))
                            /\ \A i \in 1 .. n - 1 : Cat!Key(r, o, i) \in DOMAIN cValues
  BY <1>1, <1>3 DEF Cat!Running
<1>6. PICK range : s \in Seq(range) /\ Len(s) \in {1, 2, 3} /\ DOMAIN s = 1 .. Len(s)
  BY <1>1, <1>4, CatalogSets
<1>7. /\ n \in Nat /\ 1 <= n /\ n <= Len(s) /\ Head(cTodo[t]) = s[n] /\ Len(cTodo[t]) = Len(s) - n + 1
      /\ n < Len(s) => n + 1 \in DOMAIN s /\ Tail(cTodo[t]) = SubSeq(s, n + 1, Len(s))
  <2>1. n \in 1 .. Len(s)
    BY <1>5, <1>6
  <2>2. Len(SubSeq(s, n, Len(s))) = Len(s) - n + 1 /\ Head(SubSeq(s, n, Len(s))) = s[n]
    BY <1>6, <2>1
  <2>3. n < Len(s) => Tail(SubSeq(s, n, Len(s))) = SubSeq(s, n + 1, Len(s))
    BY ONLY <1>6, <2>1, SubSeqTail
  <2>4. n \in Nat /\ 1 <= n /\ n <= Len(s) /\ (n < Len(s) => n + 1 \in DOMAIN s)
    BY ONLY <1>6, <2>1
  <2> QED BY ONLY <1>5, <2>2, <2>3, <2>4
<1>8. PICK k : k = Cat!Key(r, o, n)
  OBVIOUS
<1>9. k = <<o, s[n].att>> /\ k[1] = o /\ k[2] = s[n].att
  BY <1>1, <1>8 DEF Cat!Key
<1>10. cValues' = Cat!Put(cValues, k, s[n].value)
  BY <1>1, <1>7, <1>9 DEF Cat!Set
<1>11. /\ DOMAIN cValues' = DOMAIN cValues \cup {k} /\ cValues'[k] = s[n].value
       /\ \A l \in DOMAIN cValues : l # k => cValues'[l] = cValues[l]
  BY <1>10 DEF Cat!Put
<1>12. \/ n = Len(s) /\ Cat!Leave(t) /\ returned' = returned \cup {[req |-> r, id |-> o]}
       \/ /\ n < Len(s) /\ cTodo' = [cTodo EXCEPT ![t] = Tail(cTodo[t])]
          /\ cPc' = cPc /\ cReq' = cReq /\ cObj' = cObj /\ returned' = returned
  <2>1. \/ Len(cTodo[t]) = 1 /\ Cat!Leave(t) /\ returned' = returned \cup {[req |-> r, id |-> o]}
        \/ /\ Len(cTodo[t]) > 1 /\ cTodo' = [cTodo EXCEPT ![t] = Tail(cTodo[t])]
           /\ cPc' = cPc /\ cReq' = cReq /\ cObj' = cObj /\ returned' = returned
    BY <1>1 DEF Cat!Set, Cat!Return
  <2>2. (Len(cTodo[t]) = 1 => n = Len(s)) /\ (Len(cTodo[t]) > 1 => n < Len(s))
    BY <1>6, <1>7
  <2> QED BY <2>1, <2>2
<1>13. /\ Grown(cRelations, cRelations') /\ returned \subseteq returned' /\ DOMAIN cValues \subseteq DOMAIN cValues'
       /\ contended \subseteq contended'
  BY <1>2, <1>11, <1>12 DEF Grown
\* Keys of one call differ; a meta attribute is the only one that its call sets.
<1>14. /\ r.op # "meta" => \A i \in DOMAIN s : s[i].att = s[n].att => i = n
       /\ r.op = "meta" => Len(s) = 1 /\ Cat!Looks(r)
  BY <1>1, <1>4, <1>5, CatalogSets DEF Cat!Looks
<1>15. ASSUME k \in DOMAIN cValues, o \notin contended
       PROVE  cValues[k] = s[n].value
  <2>1. CASE Cat!Looks(r) /\ n = Len(s)
    BY <1>0, <1>1, <1>2, <1>8, <1>15, <2>1 DEF Cat!ContentionInv, Cat!LastKey
  <2>2. CASE ~(Cat!Looks(r) /\ n = Len(s))
    <3>1. r.op \in Cat!CallOps \ {"meta"}
      BY <1>4, <1>6, <1>7, <1>14, <2>2
    <3>2. Cat!Key(r, o, n) \in DOMAIN cValues /\ n \in DOMAIN Cat!Sets(r) /\ (~Cat!Looks(r) \/ n # Len(Cat!Sets(r)))
      BY <1>1, <1>8, <1>15, <2>2
    <3>3. cValues[Cat!Key(r, o, n)] = Cat!Sets(r)[n].value
      BY <1>0, <1>4, <3>1, <3>2, CatalogValue
    <3> QED BY <1>1, <1>8, <3>3
  <2> QED BY <2>1, <2>2
\* What the others have found unset stays unset.
<1>16. ASSUME NEW u \in DBProcesses \ {t}, cPc[u] = "set" /\ Cat!Looks(cReq[u]) /\ cObj[u] \notin contended
       PROVE  Cat!LastKey(cReq[u], cObj[u]) \notin DOMAIN cValues'
  <2>1. Cat!LastKey(cReq[u], cObj[u]) \notin DOMAIN cValues
    BY <1>0, <1>16 DEF Cat!ContentionInv
  <2>2. Cat!LastKey(cReq[u], cObj[u])[1] = cObj[u]
    BY DEF Cat!LastKey, Cat!Key
  <2>3. cObj[u] # o
    <3>1. SUFFICES ASSUME cObj[u] = o PROVE FALSE
      OBVIOUS
    <3>2. ~Cat!Looks(r)
      BY <1>0, <1>1, <1>2, <1>16, <3>1 DEF Cat!ContentionInv
    <3>3. r.op \in Cat!CallOps \ {"meta"}
      BY <1>4, <1>14, <3>2
    <3>4. PICK q : q = cReq[u]
      OBVIOUS
    <3>5. Cat!Running(cRelations, returned, DOMAIN cValues, cPc[u], q, o, cTodo[u])
      BY <1>0, <1>16, <3>1, <3>4 DEF Cat!ThreadInv
    <3>6. Cat!Proper(cRelations, returned, q, o) /\ q.op \in Cat!CallOps /\ Cat!Reaches(cRelations, q, o)
      BY <1>16, <3>5 DEF Cat!Running, Cat!Proper
    <3>7. CASE q.op = "meta"
      <4>1. r.op = "attribute"
        BY <1>0, <1>4, <3>3, <3>6, <3>7, CatalogMeta
      <4> QED BY <3>2, <4>1 DEF Cat!Looks
    <3>8. CASE q.op # "meta"
      <4>1. Cat!Numbered(cRelations, nextObject)
        BY <1>0 DEF Cat!RelationInv
      <4>2. q.op = r.op
        BY <1>4, <3>3, <3>6, <3>8, <4>1, CatalogSame
      <4> QED BY <1>16, <3>2, <3>4, <4>2 DEF Cat!Looks
    <3> QED BY <3>7, <3>8
  <2> QED BY <1>9, <1>11, <2>1, <2>2, <2>3
<1>17. Cat!RelationInv' /\ Cat!ThreadInv' /\ Cat!ContentionInv' /\ Cat!TypesInv'
  <2>1. CASE n = Len(s)
    <3>1. Cat!Leave(t)
      BY <1>12, <2>1
    <3> QED BY <1>2, <1>13, <1>16, <3>1, CatalogLeave
  <2>2. CASE n < Len(s)
    <3>1. Cat!RelationInv' /\ Cat!TypesInv'
      BY <1>0, <1>2 DEF Cat!RelationInv, Cat!TypesInv
    <3>2. PICK left : left = SubSeq(s, n + 1, Len(s))
      OBVIOUS
    <3>3. OneThread(t, "set", r, o, left)
      <4>1. cTodo' = [cTodo EXCEPT ![t] = left] /\ cPc' = cPc /\ cReq' = cReq /\ cObj' = cObj /\ cPc[t] = "set"
        <5>1. Tail(cTodo[t]) = left
          BY <1>7, <2>2, <3>2
        <5>2. n # Len(s)
          BY <1>6, <1>7, <2>2
        <5> QED BY <1>2, <1>12, <5>1, <5>2
      <4>2. cPc \in [DBProcesses -> {"idle", "first", "second", "look", "set"}] /\ DOMAIN cTodo = DBProcesses
        BY <1>0 DEF Cat!ThreadInv
      <4>3. cPc' = [cPc EXCEPT ![t] = "set"]
        BY <4>1, <4>2
      <4> QED BY <1>1, <4>1, <4>2, <4>3 DEF OneThread
    <3>4. Cat!Running(cRelations', returned', DOMAIN cValues', "set", r, o, left)
      <4>1. Cat!Proper(cRelations', returned', r, o) /\ Cat!Setter(cRelations', returned', r, o)
        BY <1>4, <1>13, CatalogGrows
      <4>2. n + 1 \in DOMAIN s /\ \A i \in 1 .. n + 1 - 1 : i \in 1 .. n - 1 \/ i = n
        BY <1>7, <2>2
      <4>3. \A i \in 1 .. n + 1 - 1 : Cat!Key(r, o, i) \in DOMAIN cValues'
        BY <1>5, <1>8, <1>11, <4>2
      <4>4. \E m \in DOMAIN s : left = SubSeq(s, m, Len(s)) /\ \A i \in 1 .. m - 1 : Cat!Key(r, o, i) \in DOMAIN cValues'
        <5>1. PICK m : m = n + 1
          OBVIOUS
        <5>2. m \in DOMAIN s /\ left = SubSeq(s, m, Len(s)) /\ \A i \in 1 .. m - 1 : Cat!Key(r, o, i) \in DOMAIN cValues'
          BY ONLY <3>2, <4>2, <4>3, <5>1
        <5> QED BY ONLY <5>2
      <4> QED BY <1>1, <4>1, <4>4 DEF Cat!Running
    <3>5. /\ Cat!ThreadInv' /\ cPc'[t] = "set" /\ cReq'[t] = r /\ cObj'[t] = o
          /\ \A u \in DBProcesses \ {t} : cPc'[u] = cPc[u] /\ cReq'[u] = cReq[u] /\ cObj'[u] = cObj[u]
      BY <1>0, <1>2, <1>3, <1>13, <3>3, <3>4, CatalogThreads
    <3>6. Cat!LastKey(r, o) # k
      <4>1. r.op # "meta" /\ Len(s) \in DOMAIN s /\ Len(s) # n
        BY <1>6, <1>7, <1>14, <2>2
      <4>2. s[Len(s)].att # s[n].att
        BY <1>14, <4>1
      <4> QED BY <1>1, <1>9, <4>2 DEF Cat!LastKey, Cat!Key
    <3>7. ASSUME NEW u \in DBProcesses, cPc'[u] = "set" /\ Cat!Looks(cReq'[u]) /\ cObj'[u] \notin contended'
          PROVE  /\ Cat!LastKey(cReq'[u], cObj'[u]) \notin DOMAIN cValues'
                 /\ \A v \in DBProcesses : cPc'[v] = "set" /\ Cat!Looks(cReq'[v]) /\ cObj'[v] = cObj'[u] => v = u
      <4>1. \A v \in DBProcesses : cPc'[v] = cPc[v] /\ cReq'[v] = cReq[v] /\ cObj'[v] = cObj[v]
        BY <1>12, <2>2
      <4>2. /\ Cat!LastKey(cReq[u], cObj[u]) \notin DOMAIN cValues
            /\ \A v \in DBProcesses : cPc[v] = "set" /\ Cat!Looks(cReq[v]) /\ cObj[v] = cObj[u] => v = u
        BY <1>0, <1>2, <3>7, <4>1 DEF Cat!ContentionInv
      <4>3. Cat!LastKey(cReq[u], cObj[u]) \notin DOMAIN cValues'
        <5>1. CASE u = t
          BY <1>1, <1>11, <3>6, <4>2, <5>1
        <5>2. CASE u # t
          BY <1>2, <1>16, <3>7, <4>1, <5>2
        <5> QED BY <5>1, <5>2
      <4> QED BY <4>1, <4>2, <4>3
    <3>8. Cat!ContentionInv'
      BY <3>7 DEF Cat!ContentionInv
    <3> QED BY <3>1, <3>5, <3>8
  <2> QED BY <1>7, <2>1, <2>2
<1>18. Cat!ValueInv'
  <2>1. ASSUME NEW l \in DOMAIN cValues'
        PROVE  Cat!Valued(use, cRelations', returned', l, cValues'[l])
    <3>1. CASE l = k
      <4>1. Cat!Setter(cRelations', returned', r, o)
        BY <1>4, <1>13, CatalogGrows
      <4>2. r \in {q \in use : q.op \in Cat!CallOps} /\ n \in DOMAIN Cat!Sets(r)
        BY <1>1, <1>3, <1>4
      <4>3. l[1] = o /\ l = Cat!Key(r, l[1], n) /\ cValues'[l] = Cat!Sets(r)[n].value
        BY <1>1, <1>8, <1>9, <1>11, <3>1
      <4> QED BY <4>1, <4>2, <4>3 DEF Cat!Valued
    <3>2. CASE l # k
      <4>1. l \in DOMAIN cValues /\ cValues'[l] = cValues[l]
        BY <1>11, <3>2
      <4>2. Cat!Valued(use, cRelations, returned, l, cValues[l])
        BY <1>0, <4>1 DEF Cat!ValueInv
      <4> QED BY <1>13, <4>1, <4>2, CatalogFrame
    <3> QED BY <3>1, <3>2
  <2> QED BY <1>2, <2>1 DEF Cat!ValueInv
<1>19. ASSUME NEW x \in returned'
       PROVE  IF x.req.op = "instance" THEN x.id \in DOMAIN cTypes' /\ cTypes'[x.id] = x.req.name
              ELSE Cat!Kept(cRelations', returned', cValues', contended', x)
  <2>1. CASE x \in returned /\ x.req.op = "instance"
    BY <1>0, <1>2, <2>1 DEF Cat!ReturnedInv
  <2>2. CASE x \in returned /\ x.req.op # "instance"
    <3>1. Cat!Kept(cRelations, returned, cValues, contended, x)
      BY <1>0, <2>2 DEF Cat!ReturnedInv
    <3>2. PICK l : l = Cat!LastKey(x.req, x.id)
      OBVIOUS
    <3>3. l[1] = x.id /\ l \in DOMAIN cValues
      <4>1. x.req.op \in Cat!CallOps /\ \A i \in DOMAIN Cat!Sets(x.req) : Cat!Key(x.req, x.id, i) \in DOMAIN cValues
        BY <3>1 DEF Cat!Kept, Cat!Proper
      <4>2. Len(Cat!Sets(x.req)) \in DOMAIN Cat!Sets(x.req)
        <5>1. /\ Len(Cat!Sets(x.req)) \in {1, 2, 3}
              /\ DOMAIN Cat!Sets(x.req) = 1 .. Len(Cat!Sets(x.req))
          BY <4>1, CatalogSets
        <5> QED BY <5>1
      <4> QED BY <3>2, <4>1, <4>2 DEF Cat!LastKey, Cat!Key
    <3>4. x.id \in contended \/ cValues'[l] = cValues[l]
      <4>1. CASE l = k
        BY <1>9, <1>11, <1>15, <3>3, <4>1
      <4>2. CASE l # k
        BY <1>11, <3>3, <4>2
      <4> QED BY <4>1, <4>2
    <3>5. Cat!Kept(cRelations', returned', cValues', contended', x)
      <4>1. PICK val2, cont2 : val2 = cValues' /\ cont2 = contended'
        OBVIOUS
      <4>2. x.id \in contended \/ val2[Cat!LastKey(x.req, x.id)] = cValues[Cat!LastKey(x.req, x.id)]
        BY <3>2, <3>4, <4>1
      <4>3. Cat!Kept(cRelations', returned', val2, cont2, x)
        BY <1>13, <3>1, <4>1, <4>2, CatalogFrame
      <4> QED BY <4>1, <4>3
    <3> QED BY <2>2, <3>5
  <2>3. CASE x \notin returned
    <3>1. x = [req |-> r, id |-> o] /\ n = Len(s)
      BY <1>12, <2>3
    <3>2. x.req = r /\ x.id = o
      BY <3>1
    <3>3. Cat!Proper(cRelations', returned', r, o)
      BY <1>4, <1>13, CatalogGrows
    <3>4. ASSUME NEW i \in DOMAIN s
          PROVE  Cat!Key(r, o, i) \in DOMAIN cValues'
      <4>1. i \in 1 .. n - 1 \/ i = n
        BY <1>6, <1>7, <3>1
      <4> QED BY <1>5, <1>8, <1>11, <4>1
    <3>5. cValues'[Cat!LastKey(r, o)] = s[Len(s)].value
      BY <1>1, <1>8, <1>11, <3>1 DEF Cat!LastKey
    <3>6. r.op # "instance"
      BY <1>4 DEF Cat!CallOps
    <3> QED BY <1>1, <3>2, <3>3, <3>4, <3>5, <3>6 DEF Cat!Kept
  <2> QED BY <2>1, <2>2, <2>3
<1>20. Cat!ReturnedInv'
  BY <1>19 DEF Cat!ReturnedInv
<1>21. Cat!TypeComesLast'
  <2>1. ASSUME k[2] = CatalogAttributeId["Type"]
        PROVE  \A m \in {"Domain", "Name"} : <<o, CatalogAttributeId[m]>> \in DOMAIN cValues
    <3>1. s[n].att \in Cat!Own
      BY <1>9, <2>1 DEF Cat!Own
    <3>2. r.op = "attribute"
      <4>1. CASE r.op = "meta"
        <5>1. DOMAIN s = {1} /\ s[1].att = r.meta
          BY <1>1, <4>1, CatalogSetsAttribute
        <5>2. n = 1
          BY <5>1
        <5> QED BY <1>4, <3>1, <4>1, <5>1, <5>2
      <4>2. CASE r.op \notin {"attribute", "meta"}
        BY <1>1, <1>4, <3>1, <4>2, CatalogSets
      <4> QED BY <4>1, <4>2
    <3>3. /\ DOMAIN s = 1 .. 3 /\ s[1].att = CatalogAttributeId["Domain"]
          /\ s[2].att = CatalogAttributeId["Name"] /\ s[3].att = CatalogAttributeId["Type"]
      BY <1>1, <3>2, CatalogSetsAttribute
    <3>4. n = 3
      BY <1>9, <1>14, <2>1, <3>2, <3>3
    <3>5. Cat!Key(r, o, 1) \in DOMAIN cValues /\ Cat!Key(r, o, 2) \in DOMAIN cValues
      BY <1>5, <3>4
    <3> QED BY <1>1, <3>3, <3>5 DEF Cat!Key
  <2>2. ASSUME NEW l \in DOMAIN cValues', l[2] = CatalogAttributeId["Type"]
        PROVE  \A m \in {"Domain", "Name"} : <<l[1], CatalogAttributeId[m]>> \in DOMAIN cValues'
    <3>1. CASE l = k
      BY <1>9, <1>11, <2>1, <2>2, <3>1
    <3>2. CASE l # k
      BY <1>0, <1>11, <2>2, <3>2 DEF Cat!TypeComesLast
    <3> QED BY <3>1, <3>2
  <2> QED BY <2>2 DEF Cat!TypeComesLast
<1> QED BY <1>17, <1>18, <1>20, <1>21 DEF Cat!IInv

\* What a call of the ontology, the association mapper or the system information
\* returned can be looked up under its number, and an attribute under its name without
\* a failed assertion, for any processes that make such calls at the same time and die
\* between any two calls of the topology, and any calls: TopologyOntology,
\* TopologyAssociationMapper and TopologySystemInformation register the objects of a
\* path one by one and then set their attributes one by one, the one that lookups test
\* as the last.
THEOREM EntryResolution == MCSpec => []EntriesResolve
<1>1. MCInit => Cat!IInv
  <2>1. SUFFICES ASSUME Cat!Init PROVE Cat!IInv
    BY DEF MCInit
  <2>2. /\ use \in CatalogUses /\ cRelations = [k \in {} |-> k] /\ cValues = [k \in {} |-> k] /\ cTypes = << >>
        /\ nextObject = FirstObject
        /\ cPc = [t \in DBProcesses |-> "idle"] /\ cReq = [t \in DBProcesses |-> Cat!NoRequest]
        /\ cObj = [t \in DBProcesses |-> Cat!NoObject] /\ cTodo = [t \in DBProcesses |-> << >>]
        /\ returned = {} /\ contended = {}
    BY <2>1 DEF Cat!Init
  <2>3. DOMAIN cRelations = {} /\ DOMAIN cValues = {} /\ DOMAIN cTypes = {}
    BY <2>2
  <2>4. Cat!RelationInv
    BY <2>2, <2>3, CatalogsInstance DEF Cat!RelationInv, Cat!Numbered, Cat!CatalogsAssumption
  <2>5. Cat!ThreadInv
    BY <2>2 DEF Cat!ThreadInv, Cat!Running
  <2>6. Cat!ContentionInv
    BY <2>2 DEF Cat!ContentionInv
  <2>7. Cat!ValueInv /\ Cat!ReturnedInv /\ Cat!TypeComesLast
    BY <2>2, <2>3 DEF Cat!ValueInv, Cat!ReturnedInv, Cat!TypeComesLast
  <2>8. Cat!TypesInv
    BY <2>2, <2>3 DEF Cat!TypesInv
  <2> QED BY <2>4, <2>5, <2>6, <2>7, <2>8 DEF Cat!IInv
<1>2. Cat!IInv /\ [MCNext]_allVars => Cat!IInv'
  <2>1. ASSUME Cat!IInv, catVars' = catVars
        PROVE  Cat!IInv'
    BY <2>1 DEF catVars, Cat!IInv, Cat!RelationInv, Cat!ThreadInv, Cat!ContentionInv, Cat!ValueInv, Cat!ReturnedInv,
                Cat!TypesInv, Cat!TypeComesLast
  <2>2. ASSUME Cat!IInv, Cat!Next
        PROVE  Cat!IInv'
    <3>1. ASSUME NEW t \in DBProcesses, Cat!Walk(t) \/ Cat!Look(t) \/ Cat!Set(t) \/ Cat!Die(t)
          PROVE  Cat!IInv'
      BY <2>2, <3>1, CatalogWalk, CatalogLook, CatalogSet, CatalogDie
    <3>2. ASSUME NEW t \in DBProcesses, NEW r \in use, r.op # "instance" /\ Cat!Call(t, r)
          PROVE  Cat!IInv'
      BY <2>2, <3>2, CatalogCall
    <3>3. ASSUME NEW r \in use, r.op = "instance" /\ Cat!create_instance_mapping(r.name)
          PROVE  Cat!IInv'
      BY <2>2, <3>3, CatalogInstance
    <3> QED BY <2>2, <3>1, <3>2, <3>3 DEF Cat!Next
  <2> QED BY <2>1, <2>2 DEF MCNext, allVars
<1>3. Cat!IInv => EntriesResolve
  BY CatalogEntries
<1> QED BY <1>1, <1>2, <1>3, PTL DEF MCSpec

-----------------------------------------------------------------------------
(* The aliases.                                                            *)

\* One round of the loop of parsePathComponent, and the values after each round.
Expanded(p, v) == IF v \in DOMAIN aliases[p] THEN aliases[p][v] ELSE v
Expansion(f, p, v, N) == f = [n \in 0 .. N |-> IF n = 0 THEN v ELSE Expanded(p, f[n - 1])]

\* The rounds of the loop can be made.
LEMMA ExpansionExists ==
    ASSUME NEW p, NEW v, NEW N \in Nat
    PROVE  \E f : Expansion(f, p, v, N)
<1> DEFINE G == {n \in 0 .. N : \E f : Expansion(f, p, v, n)}
<1>1. 0 \in G
  <2> DEFINE f == [n \in 0 .. 0 |-> v]
  <2>1. f = [n \in 0 .. 0 |-> IF n = 0 THEN v ELSE Expanded(p, f[n - 1])]
    OBVIOUS
  <2>2. Expansion(f, p, v, 0)
    BY <2>1 DEF Expansion
  <2> QED BY <2>2
<1>2. ASSUME NEW n \in 1 .. N, n - 1 \in G PROVE n \in G
  <2>1. PICK f : Expansion(f, p, v, n - 1)
    BY <1>2
  <2> DEFINE g == [k \in 0 .. n |-> IF k = n THEN Expanded(p, f[n - 1]) ELSE f[k]]
  <2>2. \A k \in 0 .. n - 1 : f[k] = IF k = 0 THEN v ELSE Expanded(p, f[k - 1])
    BY <2>1 DEF Expansion
  <2>3. \A k \in 0 .. n - 1 : g[k] = f[k]
    OBVIOUS
  <2>4. \A k \in 0 .. n : g[k] = IF k = 0 THEN v ELSE Expanded(p, g[k - 1])
    <3> TAKE k \in 0 .. n
    <3>1. CASE k = n
      BY <2>3, <3>1
    <3>2. CASE k # n /\ k # 0
      <4>1. k \in 0 .. n - 1 /\ k - 1 \in 0 .. n - 1
        BY <3>2
      <4> QED BY <2>2, <2>3, <3>2, <4>1
    <3>3. CASE k # n /\ k = 0
      BY <2>2, <2>3, <3>3
    <3> QED BY <3>1, <3>2, <3>3
  <2>5. g = [k \in 0 .. n |-> IF k = 0 THEN v ELSE Expanded(p, g[k - 1])]
    BY <2>4
  <2>6. Expansion(g, p, v, n)
    BY <2>5 DEF Expansion
  <2> QED BY <2>6
<1>3. \A n \in 1 .. N : n - 1 \in G => n \in G
  BY <1>2
<1> HIDE DEF G
<1>4. \A n \in 0 .. N : n \in G
  BY <1>1, <1>3, FirstFailure
<1>5. N \in G
  BY <1>4
<1> QED BY <1>5 DEF G

\* Expands is about the value after as many rounds as there are names.
LEMMA ExpandsMeans ==
    ASSUME NEW p, NEW v
    PROVE  /\ Cardinality(AliasNames) \in Nat
           /\ \E f : Expansion(f, p, v, Cardinality(AliasNames))
                     /\ (Expands(p, v) <=> f[Cardinality(AliasNames)] = Component)
<1>1. PICK N \in Nat : N = Cardinality(AliasNames)
  BY ServiceAssumption, FS_CardinalityType
<1> DEFINE f == CHOOSE f : f = [n \in 0 .. N |-> IF n = 0 THEN v ELSE Expanded(p, f[n - 1])]
<1>2. f = [n \in 0 .. N |-> IF n = 0 THEN v ELSE Expanded(p, f[n - 1])]
  <2>1. \E g : g = [n \in 0 .. N |-> IF n = 0 THEN v ELSE Expanded(p, g[n - 1])]
    <3>1. PICK g : Expansion(g, p, v, N)
      BY ExpansionExists
    <3> QED BY <3>1 DEF Expansion
  <2> QED BY <2>1
<1>3. Expands(p, v) <=> f[N] = Component
  BY <1>1 DEF Expands, Expanded
<1> HIDE DEF f
<1>4. Expansion(f, p, v, N)
  BY <1>2 DEF Expansion
<1> QED BY <1>1, <1>3, <1>4

\* What is no alias and no component leads nowhere.
LEMMA ExpandsKnown ==
    ASSUME NEW p, NEW v, Expands(p, v)
    PROVE  v \in DOMAIN aliases[p] \cup {Component}
<1>1. PICK N \in Nat : N = Cardinality(AliasNames)
  BY ExpandsMeans
<1>2. PICK f : Expansion(f, p, v, N) /\ f[N] = Component
  BY <1>1, ExpandsMeans
<1>3. SUFFICES ASSUME v \notin DOMAIN aliases[p], v # Component PROVE FALSE
  OBVIOUS
<1>4. \A n \in 0 .. N : f[n] = IF n = 0 THEN v ELSE Expanded(p, f[n - 1])
  BY <1>2 DEF Expansion
<1> DEFINE G == {n \in 0 .. N : f[n] = v}
<1>5. 0 \in G
  BY <1>1, <1>4
<1>6. \A n \in 1 .. N : n - 1 \in G => n \in G
  BY <1>1, <1>3, <1>4 DEF Expanded
<1>7. N \in G
  <2> HIDE DEF G
  <2> QED BY <1>1, <1>5, <1>6, FirstFailure
<1> QED BY <1>2, <1>3, <1>7

\* Aliases that descend lead to a component.
LEMMA DescendingExpands ==
    ASSUME NEW p, DOMAIN aliases[p] \subseteq AliasNames,
           NEW rank \in [DOMAIN aliases[p] -> 1 .. Cardinality(DOMAIN aliases[p])], Descending(p, rank),
           NEW v \in DOMAIN aliases[p]
    PROVE  Expands(p, v)
<1>1. PICK D : D = DOMAIN aliases[p]
  OBVIOUS
<1>2. PICK N \in Nat : N = Cardinality(AliasNames)
  BY ExpandsMeans
<1>3. PICK M \in Nat : M = Cardinality(D) /\ M <= N
  BY <1>1, <1>2, ServiceAssumption, FS_Subset, FS_CardinalityType
<1>4. PICK f : Expansion(f, p, v, N) /\ (Expands(p, v) <=> f[N] = Component)
  BY <1>2, ExpandsMeans
<1>5. \A n \in 0 .. N : f[n] = IF n = 0 THEN v ELSE Expanded(p, f[n - 1])
  BY <1>4 DEF Expansion
<1>6. rank \in [D -> 1 .. M] /\ v \in D
  BY <1>1, <1>3
<1>7. \A n \in D : \/ Expanded(p, n) = Component
                   \/ Expanded(p, n) \in D /\ rank[Expanded(p, n)] < rank[n]
  BY <1>1 DEF Descending, Expanded
<1>8. Expanded(p, Component) = Component
  BY ServiceAssumption DEF Expanded
<1> DEFINE G == {n \in 0 .. N : f[n] = Component \/ (f[n] \in D /\ rank[f[n]] + n <= rank[v])}
<1>9. 0 \in G
  <2>1. f[0] = v /\ rank[v] \in Nat
    BY <1>5, <1>6
  <2> QED BY <1>6, <2>1
<1>10. ASSUME NEW n \in 1 .. N, n - 1 \in G PROVE n \in G
  <2>1. n - 1 \in 0 .. N /\ n \in 0 .. N /\ f[n] = Expanded(p, f[n - 1])
    BY <1>5
  <2>2. CASE f[n - 1] = Component
    BY <1>8, <2>1, <2>2
  <2>3. CASE f[n - 1] \in D /\ rank[f[n - 1]] + (n - 1) <= rank[v] /\ f[n] # Component
    <3>1. f[n] \in D /\ rank[f[n]] < rank[f[n - 1]]
      BY <1>7, <2>1, <2>3
    <3>2. rank[f[n]] \in Nat /\ rank[f[n - 1]] \in Nat /\ rank[v] \in Nat
      BY <1>6, <2>3, <3>1
    <3>3. rank[f[n]] + n <= rank[v]
      BY <2>3, <3>1, <3>2
    <3> QED BY <2>1, <3>1, <3>3
  <2> QED BY <1>10, <2>1, <2>2, <2>3
<1>11. N \in G
  <2> HIDE DEF G
  <2> QED BY <1>2, <1>9, <1>10, FirstFailure
<1>12. f[N] = Component
  <2>1. SUFFICES ASSUME f[N] \in D, rank[f[N]] + N <= rank[v] PROVE FALSE
    BY <1>11
  <2>2. rank[f[N]] \in 1 .. M /\ rank[v] \in 1 .. M
    BY <1>6, <2>1
  <2> QED BY <1>3, <2>1, <2>2
<1> QED BY <1>4, <1>12

\* Most steps set no alias, and leave alone what others are about to set.
AliasesStay ==
    /\ aliases' = aliases /\ tpc' \in [Threads -> Places] /\ DOMAIN treq' = Threads
    /\ \A u \in Threads : tpc'[u] = "alias" => tpc[u] = "alias" /\ treq'[u] = treq[u]

\* Such steps keep the invariant.
LEMMA AliasesFrame ==
    ASSUME AliasInv, AliasesStay
    PROVE  AliasInv'
<1>1. \A p \in Processes :
         /\ DOMAIN aliases'[p] \subseteq AliasNames
         /\ \E rank \in [DOMAIN aliases'[p] -> 1 .. Cardinality(DOMAIN aliases'[p])] : Descending(p, rank)'
  BY DEF AliasInv, AliasesStay, Descending
<1> QED BY <1>1 DEF AliasInv, AliasesStay

\* A step of a client, the server or the topology that is not about aliases.
LEMMA AliasesStayIn ==
    ASSUME AliasInv,
           \/ \E t \in Threads : Lookup(t) \/ Forward(t) \/ Store(t) \/ registerObjectByPath(t) \/ lookupObjectByPath(t)
           \/ \E t \in Threads : \E r \in Calls : Request(t, r)
           \/ \E t \in Threads, path \in Paths, kind \in {"register", "lookup"} : WalkStart(t, kind, path)
           \/ \E p \in Processes : ServerStep(p) \/ Failure(p)
           \/ \E c \in Callers : RamStep(c)
           \/ \E d \in Locals : LocalReturn(d) \/ \E r \in LocalCalls : LocalCall(d, r)
    PROVE  AliasesStay
<1>1. tpc \in [Threads -> Places] /\ DOMAIN treq = Threads
  BY DEF AliasInv
<1>2. ASSUME UNCHANGED <<tpc, treq, aliases>> PROVE AliasesStay
  BY <1>1, <1>2 DEF AliasesStay
<1>3. ASSUME NEW t, NEW l \in Places, l # "alias", tpc' = [tpc EXCEPT ![t] = l], UNCHANGED <<treq, aliases>>
      PROVE  AliasesStay
  BY <1>1, <1>3 DEF AliasesStay, Places
<1>4. ASSUME NEW t, NEW l \in Places, l # "alias", tpc' = [tpc EXCEPT ![t] = l], NEW r, treq' = [treq EXCEPT ![t] = r],
             UNCHANGED aliases
      PROVE  AliasesStay
  BY <1>1, <1>4 DEF AliasesStay
<1>5. ASSUME NEW t, NEW r, Ask(t, r) PROVE AliasesStay
  BY <1>4, <1>5 DEF Ask, Places
<1>6. ASSUME NEW t, NEW w, NEW r, WalkCall(t, w, r) PROVE AliasesStay
  BY <1>5, <1>6 DEF WalkCall
<1>7. ASSUME NEW t, NEW o, WalkEnd(t, o) PROVE AliasesStay
  BY <1>2, <1>7 DEF WalkEnd, clientVars
<1>8. ASSUME NEW t, NEW a, Finish(t, a), UNCHANGED aliases PROVE AliasesStay
  BY <1>4, <1>8 DEF Finish, Places
<1>9. ASSUME NEW t, NEW l \in {"wait", "waitOnly"}, isend(t, l), UNCHANGED aliases PROVE AliasesStay
  BY <1>3, <1>9 DEF isend, Places
<1>10. ASSUME NEW t \in Threads, Lookup(t) PROVE AliasesStay
  <2>1. UNCHANGED aliases
    BY <1>10 DEF Lookup
  <2>2. \/ \E a : Finish(t, a)
        \/ \E l \in {"wait", "waitOnly"} : isend(t, l)
    <3>1. CASE treq[t].op = "registerObject"
      <4>1. PICK rel \in CachedRelations(ProcessOf[t]) :
               LET o == {x \in cache[ProcessOf[t]].objects : \E y \in rel : x.id = y.child}
               IN  IF o # {} THEN Finish(t, o) /\ UNCHANGED channel
                   ELSE isend(t, IF rel = {} THEN "wait" ELSE "waitOnly")
        BY <1>10, <3>1 DEF Lookup
      <4> QED BY <4>1
    <3>2. CASE treq[t].op # "registerObject"
      <4>1. PICK hit : IF hit # {} THEN Finish(t, hit) /\ UNCHANGED channel ELSE isend(t, "wait")
        BY <1>10, <3>2 DEF Lookup
      <4> QED BY <4>1
    <3> QED BY <3>1, <3>2
  <2> QED BY <1>8, <1>9, <2>1, <2>2
<1>11. ASSUME NEW t \in Threads, Forward(t) PROVE AliasesStay
  BY <1>9, <1>11 DEF Forward
<1>12. ASSUME NEW t \in Threads, Store(t) PROVE AliasesStay
  BY <1>8, <1>12 DEF Store
<1>13. ASSUME NEW t, NEW id, WalkDown(t, id) PROVE AliasesStay
  BY <1>6, <1>13 DEF WalkDown
<1>14. ASSUME NEW t \in Threads, registerObjectByPath(t) PROVE AliasesStay
  <2>1. \/ \E w, r : WalkCall(t, w, r)
        \/ \E o : WalkEnd(t, o)
        \/ \E id : WalkDown(t, id)
    BY <1>14 DEF registerObjectByPath
  <2> QED BY <1>6, <1>7, <1>13, <2>1
<1>15. ASSUME NEW t \in Threads, lookupObjectByPath(t) PROVE AliasesStay
  <2>1. \/ \E w, r : WalkCall(t, w, r)
        \/ \E o : WalkEnd(t, o)
        \/ \E id : WalkDown(t, id)
    BY <1>15 DEF lookupObjectByPath
  <2> QED BY <1>6, <1>7, <1>13, <2>1
<1>16. ASSUME NEW t \in Threads, NEW r, Request(t, r) PROVE AliasesStay
  BY <1>5, <1>16 DEF Request
<1>17. ASSUME NEW t, NEW path, NEW kind, WalkStart(t, kind, path) PROVE AliasesStay
  BY <1>5, <1>17 DEF WalkStart
<1>18. ASSUME NEW p \in Processes, ServerStep(p) PROVE AliasesStay
  <2>1. CASE messageReceivedCB(p)
    BY <1>2, <2>1 DEF messageReceivedCB, clientVars
  <2>2. CASE messageResponseCB(p)
    <3>1. UNCHANGED aliases
      BY <2>2 DEF messageResponseCB
    <3>2. \/ \E t, a : Finish(t, a)
          \/ \E t : tpc' = [tpc EXCEPT ![t] = "store"] /\ UNCHANGED treq
      BY <2>2 DEF messageResponseCB
    <3> QED BY <1>3, <1>8, <3>1, <3>2 DEF Places
  <2>3. CASE ResponseLost(p)
    BY <1>2, <2>3 DEF ResponseLost
  <2> QED BY <1>18, <2>1, <2>2, <2>3 DEF ServerStep
<1>19. ASSUME NEW c \in Callers, RamStep(c) PROVE AliasesStay
  BY <1>2, <1>19 DEF RamStep, clientVars
<1>20. ASSUME NEW d \in Locals, LocalReturn(d) PROVE AliasesStay
  BY <1>2, <1>20 DEF LocalReturn, clientVars
<1>21. ASSUME NEW d \in Locals, NEW r, LocalCall(d, r) PROVE AliasesStay
  BY <1>2, <1>21 DEF LocalCall, clientVars
<1>22. ASSUME NEW p, Disconnects(p),
              \A t \in Threads : tpc'[t] \in {tpc[t], "gone"},
              DOMAIN tpc' = Threads, tpc' \in [Threads -> Places]
       PROVE  AliasesStay
  BY <1>22 DEF Disconnects, AliasesStay, AliasInv
<1>23. ASSUME NEW p, Ends(p) PROVE AliasesStay
  <2>1. tpc' = [u \in Threads |-> IF ProcessOf[u] = p THEN "gone" ELSE tpc[u]] /\ Disconnects(p)
    BY <1>23 DEF Ends
  <2>2. /\ \A t \in Threads : tpc'[t] \in {tpc[t], "gone"}
        /\ DOMAIN tpc' = Threads /\ tpc' \in [Threads -> Places]
    BY <2>1 DEF AliasInv, Places
  <2> QED BY <1>22, <2>1, <2>2
<1>24. ASSUME NEW p \in Processes, Failure(p) PROVE AliasesStay
  <2>1. CASE Break(p)
    <3>1. tpc' = tpc /\ treq' = treq /\ aliases' = aliases
      BY <2>1 DEF Break, Disconnects
    <3> QED BY <1>2, <3>1
  <2>2. CASE messageTransferErrorCB(p) \/ \E t \in Threads : SpuriousWakeUp(t)
    BY <1>23, <2>2 DEF messageTransferErrorCB, SpuriousWakeUp
  <2> QED BY <1>24, <2>1, <2>2 DEF Failure
<1> QED BY <1>10, <1>11, <1>12, <1>14, <1>15, <1>16, <1>17, <1>18, <1>19, <1>20, <1>21, <1>24

\* The check of setAlias: the value leads to a component, now and from now on.
LEMMA AliasChecked ==
    ASSUME AliasInv, NEW t \in Threads, NEW n \in AliasNames, NEW v, setAliasCheck(t, n, v)
    PROVE  AliasInv'
<1>1. /\ tpc' = [tpc EXCEPT ![t] = "alias"] /\ treq' = [treq EXCEPT ![t] = [op |-> "setAlias", name |-> n, value |-> v]]
      /\ aliases' = aliases /\ Expands(ProcessOf[t], v)
  BY DEF setAliasCheck
<1>2. v \in DOMAIN aliases[ProcessOf[t]] \cup {Component}
  BY <1>1, ExpandsKnown
<1>3. tpc' \in [Threads -> Places] /\ DOMAIN treq' = Threads
  BY <1>1 DEF AliasInv, Places
<1>4. ASSUME NEW u \in Threads, tpc'[u] = "alias"
      PROVE  /\ treq'[u].name \in AliasNames
             /\ treq'[u].value \in DOMAIN aliases'[ProcessOf[u]] \cup {Component}
  <2>1. CASE u = t
    <3>1. treq'[u].name = n /\ treq'[u].value = v
      BY <1>1, <2>1 DEF AliasInv
    <3> QED BY <1>1, <1>2, <2>1, <3>1
  <2>2. CASE u # t
    BY <1>1, <1>4, <2>2 DEF AliasInv
  <2> QED BY <2>1, <2>2
<1>5. \A p \in Processes :
         /\ DOMAIN aliases'[p] \subseteq AliasNames
         /\ \E rank \in [DOMAIN aliases'[p] -> 1 .. Cardinality(DOMAIN aliases'[p])] : Descending(p, rank)'
  BY <1>1 DEF AliasInv, Descending
<1> QED BY <1>1, <1>3, <1>4, <1>5 DEF AliasInv

\* The insertion: a new alias is the highest of its process.
LEMMA AliasInserted ==
    ASSUME AliasInv, NEW t \in Threads, setAliasInsert(t)
    PROVE  AliasInv'
<1>1. PICK q \in Processes : q = ProcessOf[t]
  BY ServiceAssumption
<1>2. PICK n \in AliasNames, v \in DOMAIN aliases[q] \cup {Component} : n = treq[t].name /\ v = treq[t].value
  BY <1>1 DEF setAliasInsert, AliasInv
<1>3. PICK D : D = DOMAIN aliases[q]
  OBVIOUS
<1>4. /\ aliases' = IF n \in D => aliases[q][n] = v
                    THEN [aliases EXCEPT ![q] = [x \in D \cup {n} |-> IF x = n THEN v ELSE aliases[q][x]]]
                    ELSE aliases
      /\ tpc' = [tpc EXCEPT ![t] = "idle"] /\ treq' = [treq EXCEPT ![t] = NoCall]
  BY <1>1, <1>2, <1>3 DEF setAliasInsert, Finish, AliasInv
<1>5. tpc' \in [Threads -> Places] /\ DOMAIN treq' = Threads
      /\ \A u \in Threads : tpc'[u] = "alias" => u # t /\ tpc[u] = "alias" /\ treq'[u] = treq[u]
  BY <1>4 DEF AliasInv, Places
<1>6. /\ DOMAIN aliases = Processes /\ D \subseteq AliasNames
      /\ \E rank \in [D -> 1 .. Cardinality(D)] : Descending(q, rank)
  BY <1>1, <1>3 DEF AliasInv
<1>7. CASE ~(n \in D => aliases[q][n] = v)
  <2>1. aliases' = aliases
    BY <1>4, <1>7
  <2>2. AliasesStay
    BY <1>5, <2>1 DEF AliasesStay
  <2> QED BY <2>2, AliasesFrame
<1>8. CASE n \in D => aliases[q][n] = v
  <2>1. /\ DOMAIN aliases' = Processes /\ DOMAIN aliases'[q] = D \cup {n} /\ aliases'[q][n] = v
        /\ \A x \in D : aliases'[q][x] = aliases[q][x]
        /\ \A p \in Processes \ {q} : aliases'[p] = aliases[p]
    BY <1>3, <1>4, <1>6, <1>8
  <2>2. PICK rank \in [D -> 1 .. Cardinality(D)] : Descending(q, rank)
    BY <1>6
  <2>3. \E high \in [D \cup {n} -> 1 .. Cardinality(D \cup {n})] :
           \A x \in D \cup {n} : \/ aliases'[q][x] = Component
                                 \/ aliases'[q][x] \in D \cup {n} /\ high[aliases'[q][x]] < high[x]
    <3>1. CASE n \in D
      <4>1. D \cup {n} = D
        BY <3>1
      <4> QED BY <1>3, <2>1, <2>2, <4>1 DEF Descending
    <3>2. CASE n \notin D
      <4>1. PICK M \in Nat : M = Cardinality(D)
        BY <1>6, ServiceAssumption, FS_Subset, FS_CardinalityType
      <4>2. Cardinality(D \cup {n}) = M + 1
        BY <1>6, <3>2, <4>1, ServiceAssumption, FS_Subset, FS_AddElement
      <4>3. PICK high : high = [x \in D \cup {n} |-> IF x = n THEN M + 1 ELSE rank[x]]
        OBVIOUS
      <4>4. /\ high \in [D \cup {n} -> 1 .. M + 1] /\ high[n] = M + 1
            /\ \A x \in D : high[x] = rank[x] /\ rank[x] \in 1 .. M
        BY <2>2, <3>2, <4>1, <4>3
      <4>5. ASSUME NEW x \in D \cup {n}
            PROVE  \/ aliases'[q][x] = Component
                   \/ aliases'[q][x] \in D \cup {n} /\ high[aliases'[q][x]] < high[x]
        <5>1. CASE x = n
          BY <1>2, <1>3, <2>1, <4>4, <5>1
        <5>2. CASE x \in D
          <6>1. aliases[q][x] = Component \/ (aliases[q][x] \in D /\ rank[aliases[q][x]] < rank[x])
            BY <1>3, <2>2, <5>2 DEF Descending
          <6> QED BY <2>1, <4>4, <5>2, <6>1
        <5> QED BY <5>1, <5>2
      <4> QED BY <4>2, <4>4, <4>5
    <3> QED BY <3>1, <3>2
  <2>4. ASSUME NEW p \in Processes
        PROVE  /\ DOMAIN aliases'[p] \subseteq AliasNames
               /\ \E high \in [DOMAIN aliases'[p] -> 1 .. Cardinality(DOMAIN aliases'[p])] : Descending(p, high)'
    <3>1. CASE p = q
      BY <1>6, <2>1, <2>3, <3>1 DEF Descending
    <3>2. CASE p # q
      BY <2>1, <3>2 DEF AliasInv, Descending
    <3> QED BY <3>1, <3>2
  <2>5. \A p \in Processes : DOMAIN aliases[p] \subseteq DOMAIN aliases'[p]
    BY <1>3, <2>1
  <2>6. \A u \in Threads : tpc'[u] = "alias" =>
           /\ treq'[u].name \in AliasNames
           /\ treq'[u].value \in DOMAIN aliases'[ProcessOf[u]] \cup {Component}
    <3>1. \A u \in Threads : ProcessOf[u] \in Processes
      BY ServiceAssumption
    <3> QED BY <1>5, <2>5, <3>1 DEF AliasInv
  <2> QED BY <1>5, <2>1, <2>4, <2>6 DEF AliasInv
<1> QED BY <1>7, <1>8

\* Topology.cpp: whatever aliases the threads of a process set, and whatever they set
\* between the check and the insertion of one, every alias leads to a component, with
\* any number of names.
THEOREM AliasExpansion == MCSpec => []AliasesExpand
<1>1. MCInit => AliasInv
  <2>1. SUFFICES ASSUME Init PROVE AliasInv
    BY <2>1 DEF MCInit
  <2>2. /\ tpc = [t \in Threads |-> "idle"] /\ treq = [t \in Threads |-> NoCall]
        /\ aliases = [p \in Processes |-> [n \in {} |-> n]]
    BY <2>1 DEF Init
  <2>3. \A p \in Processes : DOMAIN aliases[p] = {}
    BY <2>2
  <2>4. ASSUME NEW p \in Processes
        PROVE  \E rank \in [DOMAIN aliases[p] -> 1 .. Cardinality(DOMAIN aliases[p])] : Descending(p, rank)
    <3> DEFINE rank == [n \in {} |-> 0]
    <3>1. rank \in [DOMAIN aliases[p] -> 1 .. Cardinality(DOMAIN aliases[p])]
      BY <2>3
    <3>2. Descending(p, rank)
      BY <2>3 DEF Descending
    <3> QED BY <3>1, <3>2
  <2> QED BY <2>2, <2>3, <2>4 DEF AliasInv, Places
<1>2. AliasInv /\ [MCNext]_allVars => AliasInv'
  <2>1. SUFFICES ASSUME AliasInv, [MCNext]_allVars PROVE AliasInv'
    BY <2>1
  <2>2. CASE UNCHANGED vars
    <3>1. AliasesStay
      BY <2>1, <2>2 DEF vars, clientVars, AliasesStay, AliasInv
    <3> QED BY <2>1, <3>1, AliasesFrame
  <2>3. CASE Next
    <3>1. ASSUME NEW t \in Threads, setAliasInsert(t) PROVE AliasInv'
      BY <2>1, <3>1, AliasInserted
    <3>2. ASSUME NEW t \in Threads, NEW n \in AliasNames, NEW v, setAliasCheck(t, n, v) PROVE AliasInv'
      BY <2>1, <3>2, AliasChecked
    <3>3. CASE \/ \E t \in Threads : Lookup(t) \/ Forward(t) \/ Store(t) \/ registerObjectByPath(t) \/ lookupObjectByPath(t)
               \/ \E t \in Threads : \E r \in Calls : Request(t, r)
               \/ \E t \in Threads, path \in Paths, kind \in {"register", "lookup"} : WalkStart(t, kind, path)
               \/ \E p \in Processes : ServerStep(p) \/ Failure(p)
               \/ \E c \in Callers : RamStep(c)
               \/ \E d \in Locals : LocalReturn(d) \/ \E r \in LocalCalls : LocalCall(d, r)
      BY <2>1, <3>3, AliasesStayIn, AliasesFrame
    <3> QED BY <2>3, <3>1, <3>2, <3>3 DEF Next, ThreadStep
  <2> QED BY <2>1, <2>2, <2>3 DEF MCNext, allVars
<1>3. AliasInv => AliasesExpand
  BY DescendingExpands DEF AliasInv, AliasesExpand
<1> QED BY <1>1, <1>2, <1>3, PTL DEF MCSpec
=============================================================================
