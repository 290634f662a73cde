------------------------- MODULE InstrumentedLayer -------------------------
(***************************************************************************)
(* The wrappers siox-skeleton-builder generates from an annotated header:  *)
(* what comes before the real call, the call, and what comes after it,     *)
(* written by the templates of template.py in the order of the             *)
(* annotations.  The tables that tie handles to the activities that opened *)
(* them (horizontal maps) are shared by all threads, each with its lock;   *)
(* an entry is a pointer to an ActivityID the table owns.                  *)
(*                                                                         *)
(* Functions that are annotated alike count as one.  The wrapped library   *)
(* is external: it hands out and takes back handles and may fail.  A       *)
(* program uses a handle in one call at a time and closes no descriptor    *)
(* under a stream.  Attributes are data and are left out; activities are   *)
(* numbered, and act[a] is a with everything it is linked to, directly or  *)
(* not.                                                                    *)
(***************************************************************************)
EXTENDS Integers, Sequences, FiniteSets, SequencesExt

CONSTANTS
    Threads, None,
    Layers,       \* names of layers
    Table,        \* Table[layer]: the functions of its header, one for all alike
    Ints, Sizes, Dsets, \* handles: descriptors, streams and datasets
    Invalid,      \* what is returned in place of a handle
    MaxCalls,     \* bound: calls, for each layer
    MaxSwitches   \* bound: times that monitoring is switched on or off

Handles == Ints \cup Sizes \cup Dsets
Maps == {"int", "network", "size", "dtype"}

VARIABLES
    layer,       \* the layer that is used
    enabled,     \* is monitoring enabled?
    res,         \* the handles as the wrapped library knows them
    map,         \* the tables: map[m][handle] is None or a pointer
    act, th, calls, switches,
    spoiled,     \* handles whose entries may be wrong
    wild         \* was a pointer used after its ID had been freed?

vars == <<layer, enabled, res, map, act, th, calls, switches, spoiled, wild>>

Closed == [open |-> FALSE, opener |-> 0, network |-> FALSE, known |-> FALSE, fd |-> Invalid]
Idle == [phase |-> "idle", fn |-> None, a |-> 0, todo |-> << >>, failed |-> FALSE,
         env |-> [k \in {"arg", "arg2", "ret", "ret2", "fd"} |-> Invalid],
         parent |-> None, links |-> {}, holds |-> {}]

Init ==
    /\ layer \in Layers /\ enabled \in BOOLEAN
    /\ res = [h \in Handles |-> Closed]
    /\ map = [m \in Maps |-> [h \in Handles \cup {Invalid} |-> None]]
    /\ act = << >> /\ th = [t \in Threads |-> Idle]
    /\ calls = 0 /\ switches = 0 /\ spoiled = {} /\ wild = FALSE

-----------------------------------------------------------------------------
(* Annotations, and where the builder writes them.                         *)

Note(kind, m, key) == [kind |-> kind, map |-> m, key |-> key]
activity_link(m, key) == Note("link", m, key)
activity_lookup_ID(m, key) == Note("lookup", m, key)
activityComponentSwitcher2BasedOnParent(key) == Note("switch", "int", key)
horizontal_map_put(m, key) == Note("put", m, key)
horizontal_map_put_ID(m, key) == Note("putID", m, key)
horizontal_map_remove(m, key) == Note("remove", m, key)
error == Note("error", "", "")
filenoBefore(key) == Note("filenoBefore", "", key)
filenoAfter(key) == Note("filenoAfter", "", key)

BeforeKinds == {"link", "switch", "filenoBefore"}
writeBefore(notes) == SelectSeq(notes, LAMBDA n : n.kind \in BeforeKinds)

\* An error is reported and ends the activity: what comes after it is not done.
writeAfter(notes, failed) ==
    LET after == SelectSeq(notes, LAMBDA n : n.kind \notin BeforeKinds)
        i == CHOOSE i \in DOMAIN after : after[i] = error
    IN  IF failed THEN SubSeq(after, 1, i - 1) ELSE Remove(after, error)

Doing(t, kind) == th[t].todo # << >> /\ Head(th[t].todo).kind = kind
Now(t) == Head(th[t].todo)
K(t, key) == th[t].env[key]
Here(t) == K(t, Now(t).key)
Done(t) == [th[t] EXCEPT !.todo = Tail(@)]
Cell(m, h, of, by) == [map |-> m, key |-> h, of |-> of, by |-> by]

\* Threads that have closed h and not yet removed it from the tables.
Removing(h) == {t \in Threads : h \notin th[t].holds /\
    \E i \in DOMAIN th[t].todo : th[t].todo[i].kind = "remove" /\ K(t, th[t].todo[i].key) = h}
Tied(h) == \E m \in Maps : map[m][h] # None

\* After an ID is put into m, h is right unless the call has failed or another
\* one is still to remove h, or the file table hides the entry.
AfterPut(t, m, h) ==
    IF th[t].failed \/ Removing(h) \ {t} # {} THEN spoiled \cup {h}
    ELSE IF m = "network" /\ map["int"][h] # None THEN spoiled ELSE spoiled \ {h}

\* fileno ties the descriptor to the stream, if the stream is tied itself.
FilenoSpoils(t, s, h) ==
    \/ s \in spoiled
    \/ res[s].opener = 0 /\ res[h].opener # 0
    \/ Removing(h) \ {t} # {}

-----------------------------------------------------------------------------
(* A call.                                                                 *)

InUse(h) == \E t \in Threads : h \in th[t].holds
Usable(h) == res[h].open /\ res[h].known /\ ~InUse(h)
UnderStream(h) == \E s \in Sizes : res[s].open /\ res[s].fd = h

\* The guard decides whether the wrapper does anything but call.
begin(t, f, x, y) ==
    /\ th[t].phase = "idle" /\ calls < MaxCalls[layer]
    /\ x \in f.uses /\ y \in f.uses2
    /\ x # Invalid => Usable(x) /\ (res[x].fd # Invalid => ~InUse(res[x].fd))
    /\ y # Invalid => y # x /\ ~InUse(y) /\ res[y].open = res[y].known
                         /\ (f.effect # "onto" => res[y].open)
    /\ f.effect = "destroy" => ~UnderStream(x)
    /\ f.effect = "onto" => ~UnderStream(y)
    /\ calls' = calls + 1
    /\ LET on == f.guard => enabled
           n == IF on THEN Len(act) + 1 ELSE 0
       IN  /\ act' = IF on THEN Append(act, {n}) ELSE act
           /\ th' = [th EXCEPT ![t] = [Idle EXCEPT
                !.phase = "before", !.fn = f, !.a = n,
                !.todo = IF on THEN writeBefore(f.notes) ELSE << >>,
                !.env = [@ EXCEPT !["arg"] = x, !["arg2"] = y],
                !.holds = ({x, y} \ {Invalid}) \cup
                          (IF x \in Sizes THEN {res[x].fd} ELSE {})]]
    /\ UNCHANGED <<layer, enabled, res, map, switches, spoiled, wild>>

\* A table is searched under its lock, the pointer is used after that.
lookup(t) ==
    /\ Doing(t, "link") \/ Doing(t, "lookup")
    /\ th' = [th EXCEPT ![t] = [@ EXCEPT !.parent = map[Now(t).map][Here(t)],
         !.todo = (IF Now(t).kind = "link" THEN <<Note("use", "", Now(t).key)>> ELSE << >>)
                  \o Tail(@)]]
    /\ UNCHANGED <<layer, enabled, res, map, act, calls, switches, spoiled, wild>>

\* The file table first, then the network table.
switch(t) ==
    /\ Doing(t, "switch")
    /\ LET p == map["int"][Here(t)] IN
       th' = [th EXCEPT ![t] = [@ EXCEPT !.parent = p,
                !.todo = <<IF p = None THEN activity_link("network", Now(t).key)
                                       ELSE Note("use", "", Now(t).key)>> \o Tail(@)]]
    /\ UNCHANGED <<layer, enabled, res, map, act, calls, switches, spoiled, wild>>

Dangling(p) == p # None /\ map[p.map][p.key] # p

\* siox_activity_link_to_parent.  A freed ID may still be there, or not.
link_to_parent(t) ==
    /\ Doing(t, "use")
    /\ LET p == th[t].parent
           h == Here(t)
       IN  \E ids \in IF p = None THEN {{}}
                      ELSE IF Dangling(p) THEN {{}, act[p.of]} ELSE {act[p.of]} :
             /\ act' = [act EXCEPT ![th[t].a] = @ \cup ids]
             /\ th' = [th EXCEPT ![t] = [Done(t) EXCEPT !.links = @ \cup
                  (IF h \in spoiled \/ (res[h].network /\ p = None) THEN {}
                   ELSE {[opener |-> res[h].opener, ids |-> ids]})]]
             /\ wild' = (wild \/ (Dangling(p) /\ h \notin spoiled))
    /\ UNCHANGED <<layer, enabled, res, map, calls, switches, spoiled>>

\* Mutant: the entry that is there stays.
putKeeps(t) ==
    /\ Doing(t, "put")
    /\ LET m == Now(t).map
           h == Here(t)
       IN  /\ map' = IF map[m][h] # None THEN map
                     ELSE [map EXCEPT ![m][h] = Cell(m, h, th[t].a, th[t].a)]
           /\ spoiled' = IF th[t].fn.effect = "fileno" THEN spoiled ELSE AfterPut(t, m, h)
    /\ th' = [th EXCEPT ![t] = Done(t)]
    /\ UNCHANGED <<layer, enabled, res, act, calls, switches, wild>>

\* The ID of this activity replaces the one that is there.  Only fileno puts
\* it for a handle that has been there before.
put(t) ==
    /\ Doing(t, "put")
    /\ LET m == Now(t).map
           h == Here(t)
       IN  /\ map' = [map EXCEPT ![m][h] = Cell(m, h, th[t].a, th[t].a)]
           /\ IF th[t].fn.effect = "fileno"
              THEN /\ spoiled' = IF FilenoSpoils(t, K(t, "arg"), h) THEN spoiled \cup {h} ELSE spoiled
                   /\ res' = [res EXCEPT ![h].opener = IF @ # 0 THEN @
                        ELSE IF res[K(t, "arg")].opener # 0 THEN res[K(t, "arg")].opener
                        ELSE th[t].a]
              ELSE spoiled' = AfterPut(t, m, h) /\ UNCHANGED res
    /\ th' = [th EXCEPT ![t] = Done(t)]
    /\ UNCHANGED <<layer, enabled, act, calls, switches, wild>>

\* A copy of the parent's ID, if there is a parent.
put_ID(t) ==
    /\ Doing(t, "putID")
    /\ LET m == Now(t).map
           h == Here(t)
           p == th[t].parent
       IN  IF p = None
           THEN /\ spoiled' = IF \/ th[t].fn.effect = "onto" /\ Tied(h)
                                \/ Removing(h) # {}
                                \/ K(t, "arg") \in spoiled
                              THEN spoiled \cup {h} ELSE spoiled
                /\ UNCHANGED <<map, wild>>
           ELSE /\ map' = [map EXCEPT ![m][h] = Cell(m, h, p.of, th[t].a)]
                /\ spoiled' = IF K(t, "arg") \in spoiled THEN spoiled \cup {h}
                              ELSE AfterPut(t, m, h)
                /\ wild' = (wild \/ (Dangling(p) /\ K(t, "arg") \notin spoiled))
    /\ th' = [th EXCEPT ![t] = Done(t)]
    /\ UNCHANGED <<layer, enabled, res, act, calls, switches>>

\* The table frees the ID of an entry it removes.
remove(t) ==
    /\ Doing(t, "remove")
    /\ LET h == Here(t)
           last == \A m \in Maps \ {Now(t).map} : map[m][h] = None
       IN  /\ map' = [map EXCEPT ![Now(t).map][h] = None]
           /\ spoiled' = IF h \in Handles /\ last /\ ~res[h].open /\ Removing(h) \subseteq {t}
                         THEN spoiled \ {h} ELSE spoiled
    /\ th' = [th EXCEPT ![t] = Done(t)]
    /\ UNCHANGED <<layer, enabled, res, act, calls, switches, wild>>

\* A wrapper that needs the descriptor of a stream calls the wrapped fileno,
\* an activity of its own that ties the descriptor to itself.
fileno(t) ==
    /\ Doing(t, "filenoBefore") \/ Doing(t, "filenoAfter")
    /\ LET s == Here(t)
           h == res[s].fd
           p == map["size"][s]
           b == Len(act) + 1
       IN  IF th[t].fn.guard /\ ~enabled
           THEN /\ spoiled' = IF Tied(h) THEN spoiled \cup {h} ELSE spoiled
                /\ UNCHANGED <<act, map>>
           ELSE /\ act' = Append(act, {b} \cup (IF p = None THEN {} ELSE act[p.of]))
                /\ map' = [map EXCEPT !["int"][h] = Cell("int", h, b, b)]
                /\ spoiled' = IF FilenoSpoils(t, s, h) THEN spoiled \cup {h}
                              ELSE IF th[t].fn.effect = "fopen" THEN AfterPut(t, "int", h)
                              ELSE spoiled
    /\ th' = [th EXCEPT ![t] = [Done(t) EXCEPT !.env["fd"] = res[Here(t)].fd]]
    /\ UNCHANGED <<layer, enabled, res, calls, switches, wild>>

end(t) ==
    /\ th[t].phase = "after" /\ th[t].todo = << >>
    /\ th' = [th EXCEPT ![t] = Idle]
    /\ UNCHANGED <<layer, enabled, res, map, act, calls, switches, spoiled, wild>>
-----------------------------------------------------------------------------
(* The wrapped library, and the program around it.                         *)

Opened(t, network, known, fd) ==
    [open |-> TRUE, opener |-> th[t].a, network |-> network, known |-> known, fd |-> fd]

Calling(t, effect) ==
    th[t].phase = "before" /\ th[t].todo = << >> /\ th[t].fn.effect = effect
Free(set) == {h \in set : ~res[h].open /\ ~InUse(h)}

\* The call returns: env, the handles it opened and the ones it closed.
Return(t, failed, env, opens, closes) ==
    /\ th' = [th EXCEPT ![t] = [@ EXCEPT !.phase = "after", !.failed = failed,
         !.env = env, !.holds = (@ \ closes) \cup opens,
         !.todo = IF th[t].a = 0 THEN << >> ELSE writeAfter(th[t].fn.notes, failed)]]
    /\ UNCHANGED <<layer, enabled, map, act, calls, switches, wild>>

\* A call that is not monitored leaves the entries of the handles it closes,
\* and opens one that another call is still to remove.
Unmonitored(t, opens, closes) ==
    IF th[t].a # 0 THEN spoiled
    ELSE spoiled \cup {h \in closes : Tied(h)} \cup {h \in opens : Removing(h) # {}}

create(t) ==
    /\ Calling(t, "create")
    /\ \E h \in Free(th[t].fn.gives) :
         /\ res' = [res EXCEPT ![h] = Opened(t, th[t].fn.network, TRUE, Invalid)]
         /\ spoiled' = Unmonitored(t, {h}, {})
         /\ Return(t, FALSE, [th[t].env EXCEPT !["ret"] = h], {h}, {})

createPair(t) ==
    /\ Calling(t, "pair")
    /\ \E h \in Free(Ints) : \E g \in Free(Ints) \ {h} :
         /\ res' = [i \in Handles |-> IF i \in {g, h} THEN Opened(t, TRUE, TRUE, Invalid) ELSE res[i]]
         /\ spoiled' = Unmonitored(t, {g, h}, {})
         /\ Return(t, FALSE, [th[t].env EXCEPT !["ret"] = h, !["ret2"] = g], {g, h}, {})

destroy(t) ==
    /\ Calling(t, "destroy")
    /\ LET h == K(t, "arg") IN
       /\ res' = [res EXCEPT ![h] = Closed]
       /\ spoiled' = Unmonitored(t, {}, {h})
       /\ Return(t, FALSE, th[t].env, {}, {h})

\* dup picks a free descriptor, dup2 is given one and closes it first.
duplicate(t) ==
    /\ Calling(t, "alias") \/ Calling(t, "onto")
    /\ \E h \in IF Calling(t, "onto") THEN {K(t, "arg2")} ELSE Free(Ints) :
         /\ res' = [res EXCEPT ![h] =
              [Opened(t, FALSE, TRUE, Invalid) EXCEPT
                 !.opener = IF th[t].a = 0 THEN 0 ELSE res[K(t, "arg")].opener]]
         /\ spoiled' = Unmonitored(t, {h}, {h} \ Free(Ints))
         /\ Return(t, FALSE, [th[t].env EXCEPT !["ret"] = h], {h}, {})

openStream(t) ==
    /\ Calling(t, "fopen")
    /\ \E s \in Free(Sizes), h \in Free(Ints) :
         /\ res' = [res EXCEPT ![s] = Opened(t, FALSE, TRUE, h),
                               ![h] = [Opened(t, FALSE, FALSE, Invalid) EXCEPT !.opener = 0]]
         /\ spoiled' = Unmonitored(t, {s, h}, {})
         /\ Return(t, FALSE, [th[t].env EXCEPT !["ret"] = s], {s, h}, {})

streamOn(t) ==
    /\ Calling(t, "fdopen") /\ ~UnderStream(K(t, "arg"))
    /\ \E s \in Free(Sizes) :
         /\ res' = [res EXCEPT ![s] = Opened(t, FALSE, TRUE, K(t, "arg"))]
         /\ spoiled' = Unmonitored(t, {s}, {})
         /\ Return(t, FALSE, [th[t].env EXCEPT !["ret"] = s], {s}, {})

tellDescriptor(t) ==
    /\ Calling(t, "fileno")
    /\ LET h == res[K(t, "arg")].fd IN
       /\ res' = [res EXCEPT ![h].known = TRUE]
       /\ spoiled' = IF res[h].opener = 0 THEN Unmonitored(t, {}, {h}) ELSE spoiled
       /\ Return(t, FALSE, [th[t].env EXCEPT !["ret"] = h], {}, {})

reopenStream(t) ==
    /\ Calling(t, "freopen")
    /\ LET s == K(t, "arg") IN
       /\ res' = [res EXCEPT ![s].opener = th[t].a, 
                             ![res[s].fd].opener = IF res[res[s].fd].known THEN th[t].a ELSE 0]
       /\ spoiled' = Unmonitored(t, {}, {s, res[s].fd})
       /\ Return(t, FALSE, [th[t].env EXCEPT !["ret"] = s], {}, {})

closeStream(t) ==
    /\ Calling(t, "fclose")
    /\ LET s == K(t, "arg") IN
       /\ res' = [res EXCEPT ![s] = Closed, ![res[s].fd] = Closed]
       /\ spoiled' = Unmonitored(t, {}, {s, res[s].fd})
       /\ Return(t, FALSE, th[t].env, {}, {s, res[s].fd})

access(t) ==
    /\ Calling(t, "none")
    /\ UNCHANGED <<res, spoiled>>
    /\ Return(t, FALSE, th[t].env, {}, {})

\* Is a handle taken out of the tables although its close failed?
RemovesAnyway(f) == LET kinds == [i \in DOMAIN f.notes |-> f.notes[i].kind] IN
    \E i, j \in DOMAIN kinds : kinds[i] = "remove" /\ kinds[j] = "error" /\ i < j

\* A failed close may have released the handle, a failed fclose or freopen
\* has; a failed open may leave any handle where its caller takes the new one.
fail(t) ==
    /\ th[t].phase = "before" /\ th[t].todo = << >> /\ th[t].fn.effect # "fileno"
    /\ LET f == th[t].fn
           x == K(t, "arg")
           closes == IF f.effect \in {"fclose", "freopen"} THEN {{x, res[x].fd}}
                     ELSE IF f.effect = "destroy" THEN {{}, {x}} ELSE {{}}
       IN  \E gone \in closes, ret \in IF f.keeps THEN Ints ELSE {Invalid} :
             /\ res' = [h \in Handles |-> IF h \in gone THEN Closed ELSE res[h]]
             /\ spoiled' = IF th[t].a = 0 THEN Unmonitored(t, {}, gone)
                           ELSE IF RemovesAnyway(f) THEN spoiled \cup ({x} \ (gone \cup {Invalid}))
                           ELSE spoiled \cup gone
             /\ Return(t, TRUE, [th[t].env EXCEPT !["ret"] = ret], {}, gone)

\* siox_disable_monitoring and siox_enable_monitoring
switchMonitoring ==
    /\ switches < MaxSwitches /\ switches' = switches + 1
    /\ enabled' = ~enabled
    /\ UNCHANGED <<layer, res, map, act, th, calls, spoiled, wild>>

LibraryStep(t) ==
    \/ create(t) \/ createPair(t) \/ destroy(t) \/ duplicate(t) \/ openStream(t) \/ streamOn(t)
    \/ tellDescriptor(t) \/ reopenStream(t) \/ closeStream(t) \/ access(t) \/ fail(t)

Next ==
    \/ switchMonitoring
    \/ \E t \in Threads :
         \/ \E f \in Table[layer] : \E x \in f.uses, y \in f.uses2 : begin(t, f, x, y)
         \/ lookup(t) \/ switch(t) \/ link_to_parent(t) \/ put(t) \/ put_ID(t) \/ remove(t)
         \/ fileno(t) \/ end(t)
         \/ LibraryStep(t)

Spec == Init /\ [][Next]_vars

-----------------------------------------------------------------------------
\* The pointer a lookup returned is used before any other call frees the ID
\* it points to, spoiled handles apart.
ParentsAreLive == ~wild

\* An activity on a handle is linked to the one that opened the handle,
\* directly or through the activities in between, and one on a handle that
\* was opened unmonitored is not linked at all, however threads interleave:
\* the exceptions are the handles in spoiled.  The pointers that make the links
\* are good (ParentsAreLive).
LinkedToOpener ==
    /\ ParentsAreLive
    /\ \A t \in Threads : \A l \in th[t].links :
        IF l.opener = 0 THEN l.ids = {} ELSE l.opener \in l.ids

\* Between calls the tables know exactly the handles that are open and were
\* opened by a monitored call, and tell who opened them.
TablesAgree ==
    (\A t \in Threads : th[t].phase = "idle") =>
        \A h \in Handles \ spoiled :
            /\ (res[h].open => res[h].known) => (Tied(h) <=> res[h].open /\ res[h].opener # 0)
            /\ Tied(h) /\ res[h].known =>
                 LET m == CHOOSE m \in Maps : map[m][h] # None
                                  /\ (m = "network" => map["int"][h] = None)
                 IN  res[h].opener \in act[map[m][h].of]

\* horizontal_map_put: "Tie an attribute serving as a descriptor to an
\* activity", hence what a monitored call has opened is tied.
OpenIsTied ==
    \A h \in Handles : res[h].open /\ res[h].opener # 0 /\ ~InUse(h) => Tied(h)
=============================================================================
