------------------------ MODULE FileAssociationMapper ------------------------
(***************************************************************************)
(* FileAssociationMapper: attributes of processes and components, and      *)
(* numbers for the names of remote instances.  Every change is made under  *)
(* one mutex, and so is one step here; the destructor writes the file.     *)
(*                                                                         *)
(* A number is a position of vector_aid_str, found from the name in        *)
(* map_str_aid, which is made anew from the vector after the whole file    *)
(* was read.  A file that ends early leaves what was read of it in place.  *)
(***************************************************************************)
EXTENDS Naturals, Sequences

CONSTANTS
    Instances,   \* names of remote instances
    Owners,      \* processes and components that have attributes
    Attributes,  \* numbers of attributes
    Values,
    TornAfter,   \* how many members may be in a file whose writer died
    MaxId,       \* bound: numbers issued
    MaxLives     \* bound: processes, one after the other

VARIABLES
    up,
    lastID, vector_aid_str, map_str_aid,
    attributes,  \* map_processAttributes and map_componentAttributes: [owner, att] -> value
    file,
    mapped,      \* history: [name, id] returned by this process, or in the file
    accepted,    \* history: [key, value] accepted by this process, or in the file
    damaged,     \* history: a file that ends early was read
    lives

memory == <<lastID, vector_aid_str, map_str_aid, attributes>>
vars == <<up, memory, file, mapped, accepted, damaged, lives>>

NoFile == [there |-> FALSE]
Nothing == [k \in {} |-> k]
Put(f, k, v) == [x \in DOMAIN f \cup {k} |-> IF x = k THEN v ELSE f[x]]

\* Number of members in the file: lastID, the vector, processes and components.
Whole == 4

Keys == [owner : Owners, att : Attributes]

\* Attributes are of processes or components, and a torn file lacks something.
MapperAssumption ==
    (\A o \in Owners : o.kind \in {"process", "component"}) /\ TornAfter \subseteq 0 .. Whole - 1

-----------------------------------------------------------------------------
(* load, save, init and destructor.                                        *)

\* Mutant: the positions are counted from 0.
IndexFromZero(vector) ==
    [n \in {vector[i] : i \in DOMAIN vector} |->
        (CHOOSE i \in DOMAIN vector : vector[i] = n /\ \A j \in DOMAIN vector : vector[j] = n => j <= i) - 1]

\* map_str_aid from the vector; of equal names, the last one.
Index(vector) ==
    [n \in {vector[i] : i \in DOMAIN vector} |->
        CHOOSE i \in DOMAIN vector : vector[i] = n /\ \A j \in DOMAIN vector : vector[j] = n => j <= i]

Owned(f, kinds) == [k \in {k \in DOMAIN f : k.owner.kind \in kinds} |-> f[k]]

\* load, up to where the file ends.
load(f) ==
    /\ lastID' = IF f.members >= 1 THEN f.lastID ELSE 1
    /\ vector_aid_str' = IF f.members >= 2 THEN f.vector ELSE << >>
    /\ attributes' = Owned(f.attributes, (IF f.members >= 3 THEN {"process"} ELSE {})
                                    \cup (IF f.members >= 4 THEN {"component"} ELSE {}))
    /\ map_str_aid' = IF f.members = Whole THEN Index(f.vector) ELSE Nothing

Start ==
    /\ ~ up /\ lives < MaxLives
    /\ up' = TRUE /\ lives' = lives + 1
    /\ \/ file = NoFile /\ UNCHANGED memory
       \/ file # NoFile /\ load(file)
    /\ damaged' = (damaged \/ (file # NoFile /\ file.members < Whole))
    /\ UNCHANGED <<file, mapped, accepted>>

\* Nothing is left of the memory of a process, and only the file of what it did.
Gone(f) ==
    /\ up /\ up' = FALSE /\ file' = f
    /\ lastID' = 1 /\ vector_aid_str' = << >>
    /\ map_str_aid' = Nothing /\ attributes' = Nothing
    /\ mapped' = {x \in mapped : f # NoFile /\ x.name \in {f.vector[i] : i \in DOMAIN f.vector}}
    /\ accepted' = {x \in accepted : f # NoFile /\ x.key \in DOMAIN f.attributes}
    /\ UNCHANGED <<damaged, lives>>

Contents(n) ==
    [lastID |-> lastID, vector |-> vector_aid_str, attributes |-> attributes, members |-> n]

Exit == Gone(Contents(Whole))

\* The process dies, before it saves or while it writes the file.
Crash == Gone(file) \/ \E n \in TornAfter : Gone(Contents(n))

-----------------------------------------------------------------------------
Others == <<up, file, damaged, lives>>

\* What operator[] reads: 0 for a name that is not there.
Number(n) == IF n \in DOMAIN map_str_aid THEN map_str_aid[n] ELSE 0

create_instance_mapping(n) ==
    /\ up
    /\ \/ /\ Number(n) # 0
          /\ mapped' = mapped \cup {[name |-> n, id |-> Number(n)]}
          /\ UNCHANGED memory
       \/ /\ Number(n) = 0 /\ lastID <= MaxId
          /\ lastID' = lastID + 1
          /\ map_str_aid' = Put(map_str_aid, n, lastID)
          /\ vector_aid_str' = Append(vector_aid_str, n)
          /\ mapped' = mapped \cup {[name |-> n, id |-> lastID]}
          /\ UNCHANGED attributes
    /\ UNCHANGED <<accepted, Others>>

\* set_process_attribute and set_component_attribute: an equal value is accepted
\* again, another one is an IllegalStateError.
set_attribute(k, v) ==
    /\ up
    /\ k \in DOMAIN attributes => attributes[k] = v
    /\ attributes' = Put(attributes, k, v)
    /\ accepted' = accepted \cup {[key |-> k, value |-> v]}
    /\ UNCHANGED <<lastID, vector_aid_str, map_str_aid, mapped, Others>>

Init ==
    /\ up = FALSE /\ lives = 0 /\ file = NoFile
    /\ lastID = 1 /\ vector_aid_str = << >> /\ map_str_aid = Nothing /\ attributes = Nothing
    /\ mapped = {} /\ accepted = {} /\ damaged = FALSE

Next ==
    \/ Start \/ Exit \/ Crash
    \/ \E n \in Instances : create_instance_mapping(n)
    \/ \E k \in Keys, v \in Values : set_attribute(k, v)

Spec == Init /\ [][Next]_vars

-----------------------------------------------------------------------------
\* lookup_instance_mapping finds the name at the position.
Finds(id, n) == id \in DOMAIN vector_aid_str /\ vector_aid_str[id] = n

\* A name has one number, in this process and in those that read its file; the
\* number leads back to the name, and an attribute has the value that was
\* accepted.  After a file that ends early nothing of this is promised.
AssociationsResolve ==
    up /\ ~ damaged =>
        /\ \A x, y \in mapped : (x.name = y.name) <=> (x.id = y.id)
        /\ \A x \in mapped : Finds(x.id, x.name)
        /\ \A x \in accepted : x.key \in DOMAIN attributes /\ attributes[x.key] = x.value

-----------------------------------------------------------------------------
(* The inductive invariant.                                                *)

\* A vector of different names, of which the next one gets number n.
Numbered(vector, n) ==
    /\ vector \in Seq(Instances) /\ n = Len(vector) + 1
    /\ \A i, j \in DOMAIN vector : vector[i] = vector[j] => i = j

MapInv ==
    up /\ ~ damaged =>
        /\ Numbered(vector_aid_str, lastID) /\ DOMAIN attributes \subseteq Keys
        /\ \A n \in DOMAIN map_str_aid : Finds(map_str_aid[n], n)
        /\ \A i \in DOMAIN vector_aid_str : vector_aid_str[i] \in DOMAIN map_str_aid
        /\ \A x \in mapped : Finds(x.id, x.name)
        /\ \A x \in accepted : x.key \in DOMAIN attributes /\ attributes[x.key] = x.value

\* The file that the next process reads has what was returned; a process keeps what
\* it has read.
DiskInv ==
    /\ file # NoFile => file.members \in 0 .. Whole
    /\ ~ up => /\ lastID = 1 /\ vector_aid_str = << >> /\ map_str_aid = Nothing
               /\ attributes = Nothing
    /\ ~ up /\ file = NoFile => mapped = {} /\ accepted = {}
    /\ ~ damaged /\ file # NoFile /\ file.members = Whole =>
          /\ Numbered(file.vector, file.lastID) /\ DOMAIN file.attributes \subseteq Keys
          /\ ~ up => /\ \A x \in mapped : x.id \in DOMAIN file.vector /\ file.vector[x.id] = x.name
                     /\ \A x \in accepted : /\ x.key \in DOMAIN file.attributes
                                             /\ file.attributes[x.key] = x.value
    /\ up /\ ~ damaged /\ file # NoFile =>
          /\ file.members = Whole
          /\ \A i \in DOMAIN file.vector : Finds(i, file.vector[i])
          /\ \A k \in DOMAIN file.attributes : k \in DOMAIN attributes /\ attributes[k] = file.attributes[k]

IInv == MapInv /\ DiskInv
=============================================================================
