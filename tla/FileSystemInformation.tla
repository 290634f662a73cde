------------------------ MODULE FileSystemInformation ------------------------
(***************************************************************************)
(* FileBasedSystemInformation: the numbers of nodes, devices, file         *)
(* systems, interfaces and activities, kept in maps that are read from a   *)
(* file when the process starts and written when it ends.                  *)
(*                                                                         *)
(* Every register function looks into its map with operator[], without the *)
(* mutex and inserting 0, and then takes the next number under the mutex.  *)
(* Two threads inside the same std::map race: the one that looks may miss  *)
(* an entry, and an entry that is inserted may be lost.                    *)
(***************************************************************************)
EXTENDS Naturals, Sequences

CONSTANTS
    Threads,
    Requests,   \* names to register: [kind, scope, name]; scope is 0 or an identifier
    SiteFiles,  \* what may be in SIOX_ETC_DIR: contents, or NoFile
    TornAfter,  \* how many members may be in a file whose writer died
    MaxId,      \* bound: identifiers issued
    MaxLives    \* bound: processes, one after the other

VARIABLES
    up,            \* the process runs
    maps,          \* maps[m]: the std::map m, a function
    nextID, loadedNextID,
    m,             \* the thread that holds the mutex, or Free
    pc, req, id,   \* of each thread: its step, its call and the number taken
    site, file,    \* the two files
    issued,        \* history: [id, key] returned by this process
    kept,          \* history: those of processes that ended and saved
    damaged,       \* history: a damaged file was read
    lives

threadVars == <<pc, req, id>>
memory == <<maps, nextID, loadedNextID>>
vars == <<up, memory, m, threadVars, site, file, issued, kept, damaged, lives>>

Free == "free"
NoFile == [there |-> FALSE]
NoRequest == [kind |-> "none"]
Absent == [k \in {} |-> k]

\* The members that save and load list after nextID, in their order.
Archive == <<"valueStringMap", "deviceNodeMap", "interfaceImplStrMap", "interfaceImplMap",
             "deviceMap", "filesystemMap", "nodeMap", "activityInterfaceIDMap", "activityMap">>
Members == {Archive[i] : i \in DOMAIN Archive}

Empty == [x \in Members |-> Absent]
Put(f, k, v) == [x \in DOMAIN f \cup {k} |-> IF x = k THEN v ELSE f[x]]

Kinds == {"node", "device", "filesystem", "interface", "activity"}

\* The map that a kind of name is looked up in, and the maps that lead back from
\* the number: to the name, and to the node or the interface it belongs to.
Forward(kind) ==
    CASE kind = "node" -> "nodeMap" [] kind = "device" -> "deviceMap"
      [] kind = "filesystem" -> "filesystemMap" [] kind = "interface" -> "interfaceImplMap"
      [] kind = "activity" -> "activityMap"
NameMap(kind) == IF kind = "interface" THEN "interfaceImplStrMap" ELSE "valueStringMap"
ScopeMap(kind) ==
    CASE kind = "device" -> {"deviceNodeMap"} [] kind = "activity" -> {"activityInterfaceIDMap"}
      [] OTHER -> {}

KeyOf(r) == <<r.scope, r.name>>

\* The maps ms lead from number i back to a name and what it belongs to; the first
\* part of NumbersResolve, of any maps.
Leads(ms, i, kind, scope, name) ==
    /\ i \in DOMAIN ms[NameMap(kind)] /\ ms[NameMap(kind)][i] = name
    /\ \A x \in ScopeMap(kind) : i \in DOMAIN ms[x] /\ ms[x][i] = scope

\* The numbers that names have in the maps are below n and lead back to them; 0 is
\* a name that was looked up only.
Consistent(ms, n) ==
    /\ n \in Nat \ {0} /\ ms = [x \in Members |-> ms[x]]
    /\ \A kind \in Kinds : \A k \in DOMAIN ms[Forward(kind)] :
          LET i == ms[Forward(kind)][k]
          IN  i = 0 \/ (i \in 1 .. n - 1 /\ Leads(ms, i, kind, k[1], k[2]))

\* The file of the site was written by this code, and a torn file lacks something.
SystemAssumption ==
    /\ Free \notin Threads /\ \A r \in Requests : r.kind \in Kinds
    /\ TornAfter \subseteq 0 .. Len(Archive) - 1
    /\ \A s \in SiteFiles \ {NoFile} : s.readable = Len(Archive) /\ Consistent(s.maps, s.nextID)

-----------------------------------------------------------------------------
(* load, save, init and destructor.                                        *)

\* The members read from a file that is whole up to some place.
Read(mem, f) ==
    [x \in Members |->
        IF \E i \in 1 .. f.readable : Archive[i] = x THEN f.maps[x] ELSE mem.maps[x]]

\* What load makes of a file.  After a damaged one, only nextID is set back.
Loaded(mem, f) ==
    CASE f = NoFile -> mem
      [] f # NoFile /\ f.readable < Len(Archive) -> [mem EXCEPT !.maps = Read(mem, f), !.nextID = 1]
      [] OTHER -> [maps |-> Read(mem, f), nextID |-> f.nextID, loadedNextID |-> f.nextID]

Fresh == [maps |-> Empty, nextID |-> 1, loadedNextID |-> 1]

\* The file of the user is read when that of the site has no activities.
init ==
    LET a == Loaded(Fresh, site)
    IN  IF a.maps["activityMap"] = Absent THEN Loaded(a, file) ELSE a

Start ==
    /\ ~ up /\ lives < MaxLives
    /\ up' = TRUE /\ lives' = lives + 1
    /\ maps' = init.maps /\ nextID' = init.nextID /\ loadedNextID' = init.loadedNextID
    /\ damaged' = (damaged \/ (file # NoFile /\ file.readable < Len(Archive)))
    /\ UNCHANGED <<m, threadVars, site, file, issued, kept>>

\* Nothing is left of the memory of a process.
Gone ==
    /\ up /\ up' = FALSE
    /\ maps' = Empty /\ nextID' = 1 /\ loadedNextID' = 1
    /\ m' = Free /\ issued' = {}
    /\ pc' = [t \in Threads |-> "idle"] /\ req' = [t \in Threads |-> NoRequest]
    /\ id' = [t \in Threads |-> 0]

\* The destructor, when no thread is in a call.
Exit ==
    /\ Gone /\ \A t \in Threads : pc[t] = "idle"
    /\ file' = IF loadedNextID = nextID THEN file
               ELSE [maps |-> maps, nextID |-> nextID, readable |-> Len(Archive)]
    /\ kept' = kept \cup issued
    /\ UNCHANGED <<site, damaged, lives>>

\* The process dies: before it saves, or while it writes the file.
Crash ==
    /\ Gone
    /\ \/ file' = file
       \/ /\ loadedNextID # nextID /\ \A t \in Threads : pc[t] = "idle"
          /\ \E n \in TornAfter : file' = [maps |-> maps, nextID |-> nextID, readable |-> n]
    /\ UNCHANGED <<site, kept, damaged, lives>>

-----------------------------------------------------------------------------
(* The register functions.                                                 *)

Call(t, r) ==
    /\ up /\ pc[t] = "idle"
    /\ pc' = [pc EXCEPT ![t] = "look"] /\ req' = [req EXCEPT ![t] = r]
    /\ UNCHANGED <<up, memory, m, id, site, file, issued, kept, damaged, lives>>

\* Another thread is in the same map.
Racing(t) ==
    \E u \in Threads \ {t} : pc[u] \in {"look", "store"} /\ Forward(req[u].kind) = Forward(req[t].kind)

Return(t, i) ==
    /\ pc' = [pc EXCEPT ![t] = "idle"] /\ req' = [req EXCEPT ![t] = NoRequest]
    /\ id' = [id EXCEPT ![t] = 0]
    /\ issued' = issued \cup {[id |-> i, key |-> req[t]]}

\* id = map[key], and return if it is not 0.
Look(t) ==
    LET f == Forward(req[t].kind) k == KeyOf(req[t]) known == k \in DOMAIN maps[f] /\ maps[f][k] # 0
    IN  /\ pc[t] = "look"
        /\ \/ known /\ Return(t, maps[f][k]) /\ UNCHANGED maps
           \/ /\ ~ known \/ Racing(t)
              /\ pc' = [pc EXCEPT ![t] = "lock"]
              /\ maps' \in {[maps EXCEPT ![f] = IF known THEN @ ELSE Put(@, k, 0)]}
                           \cup (IF Racing(t) THEN {maps} ELSE {})
              /\ UNCHANGED <<req, id, issued>>
        /\ UNCHANGED <<up, nextID, loadedNextID, m, site, file, kept, damaged, lives>>

\* m.lock(); id = nextID++.
Take(t) ==
    /\ pc[t] = "lock" /\ m = Free /\ nextID <= MaxId
    /\ m' = t /\ nextID' = nextID + 1
    /\ id' = [id EXCEPT ![t] = nextID]
    /\ pc' = [pc EXCEPT ![t] = "store"]
    /\ UNCHANGED <<up, maps, loadedNextID, req, site, file, issued, kept, damaged, lives>>

\* Mutant: a number that is already in use for the name is not overwritten, as
\* with std::map::insert, and the number leads nowhere.
StoredOnce(ms, r, i) ==
    IF KeyOf(r) \in DOMAIN ms[Forward(r.kind)] /\ ms[Forward(r.kind)][KeyOf(r)] # 0 THEN ms
    ELSE [x \in Members |->
            CASE x = Forward(r.kind) -> Put(ms[x], KeyOf(r), i)
              [] x = NameMap(r.kind) -> Put(ms[x], i, r.name)
              [] x \in ScopeMap(r.kind) -> Put(ms[x], i, r.scope)
              [] OTHER -> ms[x]]

\* The maps with the number of request r; m.unlock().
Stored(ms, r, i) ==
    [x \in Members |->
        CASE x = Forward(r.kind) -> Put(ms[x], KeyOf(r), i)
          [] x = NameMap(r.kind) -> Put(ms[x], i, r.name)
          [] x \in ScopeMap(r.kind) -> Put(ms[x], i, r.scope)
          [] OTHER -> ms[x]]

Store(t) ==
    LET r == req[t] f == Forward(r.kind) all == Stored(maps, r, id[t])
    IN  /\ pc[t] = "store"
        /\ maps' \in {all} \cup (IF Racing(t) THEN {[all EXCEPT ![f] = maps[f]]} ELSE {})
        /\ m' = Free
        /\ Return(t, id[t])
        /\ UNCHANGED <<up, nextID, loadedNextID, site, file, kept, damaged, lives>>

-----------------------------------------------------------------------------
Init ==
    /\ up = FALSE /\ lives = 0 /\ m = Free
    /\ maps = Empty /\ nextID = 1 /\ loadedNextID = 1
    /\ pc = [t \in Threads |-> "idle"] /\ id = [t \in Threads |-> 0]
    /\ req = [t \in Threads |-> NoRequest]
    /\ site \in SiteFiles /\ file = NoFile
    /\ issued = {} /\ kept = {} /\ damaged = FALSE

Next ==
    \/ Start \/ Exit \/ Crash
    \/ \E t \in Threads : Look(t) \/ Take(t) \/ Store(t)
    \/ \E t \in Threads, r \in Requests : Call(t, r)

Spec == Init /\ [][Next]_vars

-----------------------------------------------------------------------------
\* lookup_*_name, lookup_interface_of_activity, lookup_node_of_device: the map
\* has the number with the value, or the functions throw NotFoundError.
Resolves(x, i, v) == i \in DOMAIN maps[x] /\ maps[x][i] = v

\* With activities in the file of the site, the file of the user is not read.
Shadowed == site # NoFile /\ site.maps["activityMap"] # Absent

\* A number leads back to what it was issued for, whatever threads registered
\* at the same time and over restarts; numbers of a process that died before
\* saving may be issued again, and so may those of a damaged file.
NumbersResolve ==
    up /\ ~ damaged =>
        \A i \in issued \cup (IF Shadowed THEN {} ELSE kept) :
            /\ Resolves(NameMap(i.key.kind), i.id, i.key.name)
            /\ \A x \in ScopeMap(i.key.kind) : Resolves(x, i.id, i.key.scope)

-----------------------------------------------------------------------------
(* The inductive invariant.                                                *)

Whole == file = NoFile \/ file.readable = Len(Archive)

\* A thread that stores has the mutex and the last number.
ThreadInv ==
    /\ pc \in [Threads -> {"idle", "look", "lock", "store"}]
    /\ DOMAIN req = Threads /\ DOMAIN id = Threads
    /\ \A t \in Threads : /\ pc[t] # "idle" => req[t] \in Requests
                          /\ pc[t] = "store" <=> m = t
                          /\ ~ damaged /\ pc[t] = "store" => id[t] = nextID - 1
    /\ m \in Threads \cup {Free}
    /\ ~ up => issued = {} /\ \A t \in Threads : pc[t] = "idle"

\* The numbers below this one are in use.
Limit == IF m = Free THEN nextID ELSE nextID - 1

\* i was issued below n and leads back in ms.
Known(i, ms, n) == i.id \in 1 .. n - 1 /\ Leads(ms, i.id, i.key.kind, i.key.scope, i.key.name)

MapInv ==
    up /\ ~ damaged =>
        /\ nextID \in Nat \ {0} /\ Consistent(maps, Limit)
        /\ \A i \in issued \cup (IF Shadowed THEN {} ELSE kept) : Known(i, maps, Limit)

\* What the next process reads, which a process that took no number does not change.
DiskInv ==
    /\ site \in SiteFiles /\ (file = NoFile \/ file.readable \in 0 .. Len(Archive))
    /\ ~ damaged /\ Whole =>
          /\ Consistent(init.maps, init.nextID) /\ init.loadedNextID = init.nextID
          /\ ~ Shadowed => \A i \in kept : Known(i, init.maps, init.nextID)
    /\ up /\ ~ damaged =>
          /\ Whole /\ loadedNextID = init.nextID /\ loadedNextID <= Limit
          /\ nextID = loadedNextID => \A kind \in Kinds : \A x \in {NameMap(kind)} \cup ScopeMap(kind) :
                                        maps[x] = init.maps[x]

IInv == ThreadInv /\ MapInv /\ DiskInv
=============================================================================
