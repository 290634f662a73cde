---------------------------- MODULE FileOntology -----------------------------
(***************************************************************************)
(* FileOntology: attributes, found by domain and name or by number, with   *)
(* the meta attributes set on them; read from a file when the process      *)
(* starts and written when it ends.                                        *)
(*                                                                         *)
(* register_attribute looks for the name without the mutex, and again      *)
(* under it with operator[], which leaves a null pointer in the map until  *)
(* the attribute is made.  A thread that finds it does not take the mutex  *)
(* and follows the null pointer: the process dies.                         *)
(***************************************************************************)
EXTENDS Naturals, Sequences, SequencesExt

CONSTANTS
    Threads,
    Attributes, \* to register: [name, type], the domain being part of the name
    Metas,      \* to set: [att, meta, value], numbers of attributes and a value
    SiteFiles,  \* what may be in SIOX_ETC_DIR: contents, or NoFile
    MaxId,      \* bound: attributes
    MaxMetas,   \* bound: meta attributes set by one process
    MaxLives    \* bound: processes, one after the other

VARIABLES
    up,
    attribute_map,    \* number -> attribute with its meta attributes
    domain_name_map,  \* name -> number of the attribute, or Null
    nextID, loadedID,
    attributeMutex,   \* the thread that holds it, or Free
    pc, name, type,   \* of each thread: its step and the arguments of register_attribute
    site, file,       \* the two files
    returned,         \* history: [name, type, id] returned by this process, or in the file
    metas,            \* history: [att, meta, value] accepted by this process
    lives

threadVars == <<pc, name, type>>
memory == <<attribute_map, domain_name_map, nextID, loadedID>>
vars == <<up, memory, attributeMutex, threadVars, site, file, returned, metas, lives>>

Free == "free"
Null == 0
NoArgument == "none"
NoFile == [there |-> FALSE]
Nothing == [k \in {} |-> k]
Put(f, k, v) == [x \in DOMAIN f \cup {k} |-> IF x = k THEN v ELSE f[x]]

\* The attributes in map have numbers below n and different names, and a meta
\* attribute is set once.
Settings == [meta : Nat, value : {x.value : x \in Metas}]
Consistent(map, n) ==
    /\ n \in Nat \ {0} /\ DOMAIN map \subseteq 1 .. n - 1
    /\ \A i, j \in DOMAIN map : map[i].name = map[j].name => i = j
    /\ \A i \in DOMAIN map :
          /\ DOMAIN map[i] = {"name", "type", "metas"} /\ map[i].metas \in Seq(Settings)
          /\ \A k, l \in DOMAIN map[i].metas : map[i].metas[k].meta = map[i].metas[l].meta => k = l

\* The file of the site was written by this code.
OntologyAssumption ==
    /\ Free \notin Threads /\ \A x \in Metas : x.meta \in Nat
    /\ \A s \in SiteFiles \ {NoFile} : ~ s.torn /\ Consistent(s.map, s.nextID)

-----------------------------------------------------------------------------
(* load, save, init and destructor.                                        *)

\* The names of the attributes, made anew from the map that was read.
Index(attributes) ==
    [n \in {attributes[i].name : i \in DOMAIN attributes} |->
        CHOOSE i \in DOMAIN attributes : attributes[i].name = n]

\* load: the maps are cleared first, and again after a damaged file.
Loaded(mem, f) ==
    CASE f = NoFile -> [mem EXCEPT !.map = Nothing]
      [] f # NoFile /\ f.torn -> [mem EXCEPT !.map = Nothing, !.nextID = 1]
      [] OTHER -> [map |-> f.map, nextID |-> f.nextID, loadedID |-> f.nextID]

\* The file of the user is read when that of the site has no attributes.
init ==
    LET a == Loaded([map |-> Nothing, nextID |-> 1, loadedID |-> 1], site)
    IN  IF a.map = Nothing THEN Loaded(a, file) ELSE a

Start ==
    /\ ~ up /\ lives < MaxLives
    /\ up' = TRUE /\ lives' = lives + 1
    /\ attribute_map' = init.map /\ domain_name_map' = Index(init.map)
    /\ nextID' = init.nextID /\ loadedID' = init.loadedID
    /\ UNCHANGED <<attributeMutex, threadVars, site, file, returned, metas>>

\* With attributes in the file of the site, the file of the user is not read.
Shadowed == site # NoFile /\ site.map # Nothing

\* Nothing is left of the memory of a process: what is not in the file may be
\* registered anew under another number.
Gone(f) ==
    /\ up /\ up' = FALSE /\ file' = f
    /\ attribute_map' = Nothing /\ domain_name_map' = Nothing
    /\ nextID' = 1 /\ loadedID' = 1
    /\ attributeMutex' = Free /\ metas' = {}
    /\ pc' = [t \in Threads |-> "idle"]
    /\ name' = [t \in Threads |-> NoArgument] /\ type' = [t \in Threads |-> NoArgument]
    /\ returned' = {r \in returned : f # NoFile /\ ~ Shadowed /\ ~ f.torn /\ r.id \in DOMAIN f.map}
    /\ UNCHANGED <<site, lives>>

Contents(torn) == [map |-> attribute_map, nextID |-> nextID, torn |-> torn]

\* The destructor; save returns at once if no attribute was registered.
Exit ==
    /\ \A t \in Threads : pc[t] = "idle"
    /\ Gone(IF loadedID = nextID THEN file ELSE Contents(FALSE))

\* The process dies, before it saves or while it writes the file.
Crash ==
    \/ Gone(file)
    \/ loadedID # nextID /\ (\A t \in Threads : pc[t] = "idle") /\ Gone(Contents(TRUE))

-----------------------------------------------------------------------------
(* register_attribute.                                                     *)

Others == <<up, site, file, metas, lives>>

\* Another thread may be inserting into the map that t looks into without mutex:
\* t may miss what is there.
Racing(t) == \E u \in Threads \ {t} : pc[u] = "make"

Register(t, a) ==
    /\ up /\ pc[t] = "idle"
    /\ name' = [name EXCEPT ![t] = a.name] /\ type' = [type EXCEPT ![t] = a.type]
    /\ \/ a.name \in DOMAIN domain_name_map /\ pc' = [pc EXCEPT ![t] = "check"]
       \/ (a.name \notin DOMAIN domain_name_map \/ Racing(t)) /\ pc' = [pc EXCEPT ![t] = "lock"]
    /\ UNCHANGED <<memory, attributeMutex, returned, Others>>

\* Mutant: without the second look, a thread that waited makes the attribute anew.
LockWithoutRecheck(t) ==
    /\ pc[t] = "lock" /\ attributeMutex = Free
    /\ attributeMutex' = t
    /\ domain_name_map' = Put(domain_name_map, name[t], Null)
    /\ pc' = [pc EXCEPT ![t] = "make"]
    /\ UNCHANGED <<attribute_map, nextID, loadedID, name, type, returned, Others>>

\* domain_name_map[fqn] under the mutex, which inserts a null pointer.
Lock(t) ==
    LET known == name[t] \in DOMAIN domain_name_map
    IN  /\ pc[t] = "lock" /\ attributeMutex = Free
        /\ attributeMutex' = t
        /\ domain_name_map' = IF known THEN domain_name_map ELSE Put(domain_name_map, name[t], Null)
        /\ pc' = [pc EXCEPT ![t] = IF known /\ domain_name_map[name[t]] # Null THEN "unlock"
                                   ELSE "make"]
        /\ UNCHANGED <<attribute_map, nextID, loadedID, name, type, returned, Others>>

Make(t) ==
    /\ pc[t] = "make" /\ nextID <= MaxId
    /\ nextID' = nextID + 1
    /\ attribute_map' = Put(attribute_map, nextID,
                            [name |-> name[t], type |-> type[t], metas |-> << >>])
    /\ domain_name_map' = Put(domain_name_map, name[t], nextID)
    /\ pc' = [pc EXCEPT ![t] = "unlock"]
    /\ UNCHANGED <<loadedID, attributeMutex, name, type, returned, Others>>

Unlock(t) ==
    /\ pc[t] = "unlock"
    /\ attributeMutex' = Free
    /\ pc' = [pc EXCEPT ![t] = "check"]
    /\ UNCHANGED <<memory, name, type, returned, Others>>

\* The storage type is compared, and the attribute or IllegalStateError returned.
Check(t) ==
    LET i == domain_name_map[name[t]]
    IN  /\ pc[t] = "check" /\ i # Null
        /\ pc' = [pc EXCEPT ![t] = "idle"]
        /\ name' = [name EXCEPT ![t] = NoArgument] /\ type' = [type EXCEPT ![t] = NoArgument]
        /\ returned' = IF attribute_map[i].type = type[t]
                       THEN returned \cup {[name |-> name[t], type |-> type[t], id |-> i]}
                       ELSE returned
        /\ UNCHANGED <<memory, attributeMutex, Others>>

\* The null pointer is followed: one that Lock left, or one that operator[] returns
\* when it misses the entry.
CheckNull(t) ==
    /\ pc[t] = "check" /\ (domain_name_map[name[t]] = Null \/ Racing(t))
    /\ Gone(file)

-----------------------------------------------------------------------------
(* attribute_set_meta_attribute; one step, as the mutex is held up to the  *)
(* comparison with a value that is never changed.                          *)

lookupAttributeIndex(att, meta) ==
    LET found == {k \in DOMAIN attribute_map[att].metas : attribute_map[att].metas[k].meta = meta}
    IN  IF found = {} THEN 0 ELSE CHOOSE k \in found : \A l \in found : k <= l

SetMeta(t, att, meta, v) ==
    LET k == lookupAttributeIndex(att, meta)
    IN  /\ pc[t] = "idle" /\ attributeMutex = Free
        /\ \/ /\ k = 0 /\ Cardinality(metas) < MaxMetas
              /\ attribute_map' = [attribute_map EXCEPT ![att].metas =
                                      Append(@, [meta |-> meta, value |-> v])]
              /\ metas' = metas \cup {[att |-> att, meta |-> meta, value |-> v]}
           \/ /\ k # 0 /\ attribute_map[att].metas[k].value = v
              /\ metas' = metas \cup {[att |-> att, meta |-> meta, value |-> v]}
              /\ UNCHANGED attribute_map
        /\ UNCHANGED <<up, domain_name_map, nextID, loadedID, attributeMutex, threadVars, site,
                       file, returned, lives>>

-----------------------------------------------------------------------------
Init ==
    /\ up = FALSE /\ lives = 0
    /\ attribute_map = Nothing /\ domain_name_map = Nothing
    /\ nextID = 1 /\ loadedID = 1 /\ attributeMutex = Free
    /\ pc = [t \in Threads |-> "idle"]
    /\ name = [t \in Threads |-> NoArgument] /\ type = [t \in Threads |-> NoArgument]
    /\ site \in SiteFiles /\ file = NoFile
    /\ returned = {} /\ metas = {}

Next ==
    \/ Start \/ Exit \/ Crash
    \/ \E t \in Threads : Lock(t) \/ Make(t) \/ Unlock(t) \/ Check(t) \/ CheckNull(t)
    \/ \E t \in Threads, a \in Attributes : Register(t, a)
    \/ \E t \in Threads, x \in Metas :
          {x.att, x.meta} \subseteq DOMAIN attribute_map /\ SetMeta(t, x.att, x.meta, x.value)

Spec == Init /\ [][Next]_vars

-----------------------------------------------------------------------------
\* lookup_attribute_by_ID and lookup_attribute_by_name.
ById(i) == IF i \in DOMAIN attribute_map THEN attribute_map[i].name ELSE NoArgument
ByName(n) == IF n \in DOMAIN domain_name_map THEN domain_name_map[n] ELSE Null

\* What register_attribute returned for a name is one attribute of one type, for
\* every thread and for every process that reads the file; it is found under its
\* number and its name, and a meta attribute has the value that was accepted.
AttributesAgree ==
    up =>
        /\ \A r, s \in returned : (r.name = s.name) <=> (r.id = s.id)
        /\ \A r, s \in returned : r.id = s.id => r.type = s.type
        /\ \A r \in returned : ById(r.id) = r.name /\ ByName(r.name) = r.id
        /\ \A x \in metas : LET k == lookupAttributeIndex(x.att, x.meta)
                            IN  k # 0 /\ attribute_map[x.att].metas[k].value = x.value

-----------------------------------------------------------------------------
(* The inductive invariant.                                                *)

ThreadInv ==
    /\ pc \in [Threads -> {"idle", "lock", "make", "unlock", "check"}]
    /\ DOMAIN name = Threads /\ DOMAIN type = Threads
    /\ \A t \in Threads : pc[t] \in {"make", "unlock"} <=> attributeMutex = t
    /\ attributeMutex \in Threads \cup {Free}
    /\ ~ up => attribute_map = Nothing /\ metas = {} /\ \A t \in Threads : pc[t] = "idle"

\* A name leads to the attribute that has it, and is null while that is being made.
MapInv ==
    up =>
        /\ Consistent(attribute_map, nextID)
        /\ \A n \in DOMAIN domain_name_map : LET i == domain_name_map[n] IN
              i = Null \/ (i \in DOMAIN attribute_map /\ attribute_map[i].name = n)
        /\ \A i \in DOMAIN attribute_map : LET n == attribute_map[i].name IN
              n \in DOMAIN domain_name_map /\ domain_name_map[n] = i
        /\ \A t \in Threads :
              /\ pc[t] \in {"make", "unlock", "check"} => name[t] \in DOMAIN domain_name_map
              /\ pc[t] = "make" => domain_name_map[name[t]] = Null

\* What was returned is an attribute of the map.
Known(r, map) == r.id \in DOMAIN map /\ map[r.id].name = r.name /\ map[r.id].type = r.type

ReturnedInv ==
    up => /\ \A r \in returned : Known(r, attribute_map)
          /\ \A x \in metas :
                /\ x.att \in DOMAIN attribute_map
                /\ \E k \in DOMAIN attribute_map[x.att].metas :
                      /\ attribute_map[x.att].metas[k].meta = x.meta
                      /\ attribute_map[x.att].metas[k].value = x.value

\* The file that the next process reads has what was returned, and a process keeps
\* the attributes that it has read.
Readable == file # NoFile /\ ~ Shadowed /\ ~ file.torn
DiskInv ==
    /\ site \in SiteFiles /\ (file # NoFile /\ ~ file.torn => Consistent(file.map, file.nextID))
    /\ ~ up => \A r \in returned : Readable /\ Known(r, file.map)
    /\ up /\ Readable => \A i \in DOMAIN file.map :
          /\ i \in DOMAIN attribute_map
          /\ attribute_map[i].name = file.map[i].name /\ attribute_map[i].type = file.map[i].type

IInv == ThreadInv /\ MapInv /\ ReturnedInv /\ DiskInv
=============================================================================
