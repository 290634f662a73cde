------------------------------- MODULE Replay -------------------------------
(***************************************************************************)
(* monitoring/activity_multiplexer/plugins/replay/Replay.cpp: the plugin   *)
(* that performs the calls of a trace again.                               *)
(*                                                                         *)
(* The recorded program (external) has threads that each perform a call    *)
(* and then log its activity, so that the trace may hold two activities in *)
(* another order than the calls; an activity may be lost, and a call may   *)
(* fail or move fewer bytes than asked for.  The trace reader gives the    *)
(* activities to the plugin one by one.                                    *)
(*                                                                         *)
(* Descriptors and streams that the program has inherited, such as its     *)
(* standard output, are open without an open in the trace: the plugin uses *)
(* its own descriptor 0 in their place, or a NULL stream.                  *)
(*                                                                         *)
(* The plugin's own descriptors are numbers, the lowest free one first; 0, *)
(* 1 and 2 are its standard ones.  A stream is known by the descriptor     *)
(* below it.  What is read or written, modes and permissions are left out; *)
(* that fopen gets a mode without a final 0 makes it fail or not.          *)
(***************************************************************************)
EXTENDS Integers, Sequences, FiniteSets, FiniteSetsExt

CONSTANTS
    Threads, None,
    Handles,     \* descriptors of the recorded program
    Pointers,    \* its streams
    Inherited,   \* sets of those that it may have inherited
    Files,
    Sizes,       \* of reads and writes
    MaxPosition, \* bound: positions in a file
    MaxCalls     \* bound: calls of the recorded program

Activities ==
    [op : {"open", "fopen", "creat", "close", "fclose", "read", "fread", "write", "fwrite", "lseek",
           "fseek"},
     handle : Handles \cup Pointers, file : Files \cup {None}, size : Nat, position : Nat,
     error : BOOLEAN]

\* What is behind a standard descriptor or stream
Std == "standard input or output"

ReplayAssumption ==
    /\ Handles \cap Pointers = {} /\ None \notin Files \cup Activities
    /\ Inherited \subseteq SUBSET (Handles \cup Pointers) /\ Std \notin Files \cup {None}
    /\ Sizes \subseteq Nat \ {0} /\ {MaxPosition, MaxCalls} \subseteq Nat

\* The order in which findUcaidMapping looks the activities up.
Lookups == <<"open", "read", "write", "close", "lseek", "fopen", "fread", "fwrite", "fclose",
             "fseek">>

VARIABLES
    app,      \* files and positions behind the handles and streams of the program
    unlogged, \* the activity a thread has not logged yet
    mapping,  \* the activities that findUcaidMapping knows
    fds, streams,
    own,      \* open descriptors of the plugin: file and position
    crashed,  \* a NULL stream was used
    spoiled,  \* history: the trace does not tell everything, or not in order, or
              \* closes an inherited descriptor
    calls

programVars == <<app, unlogged, spoiled, calls>>
pluginVars == <<fds, streams, own, crashed>>
vars == <<programVars, pluginVars, mapping>>

Closed == [file |-> None, position |-> 0]
At(f) == [file |-> f, position |-> 0]
Traced(e) == e.file \in Files   \* opened by the program itself
Put(f, k, v) == [x \in DOMAIN f \cup {k} |-> IF x = k THEN v ELSE f[x]]

-----------------------------------------------------------------------------
(* The recorded program.                                                   *)

Activity(op, h, f, n, p, error) ==
    [op |-> op, handle |-> h, file |-> f, size |-> n, position |-> p, error |-> error]

\* Thread t has made a call on h: the entry e behind it, and what it will log.
\* Another activity on h that is not logged yet may come later in the trace.
Performed(t, h, e, a, spoils) ==
    /\ unlogged[t] = None /\ calls < MaxCalls /\ calls' = calls + 1
    /\ app' = [app EXCEPT ![h] = e]
    /\ unlogged' = [unlogged EXCEPT ![t] = a]
    /\ spoiled' = (spoiled \/ spoils
                   \/ \E u \in Threads : unlogged[u] # None /\ unlogged[u].handle = h)
    /\ UNCHANGED <<pluginVars, mapping>>

OpOf(h, onHandle, onStream) == IF h \in Handles THEN onHandle ELSE onStream

\* open and fopen; creat and the like, which are not replayed
Open(t, h, f) ==
    /\ app[h] = Closed
    /\ \/ Performed(t, h, At(f), Activity(OpOf(h, "open", "fopen"), h, f, 0, 0, FALSE), FALSE)
       \/ Performed(t, h, At(f), Activity("creat", h, f, 0, 0, FALSE), TRUE)

\* close and fclose; the plugin will close its own input in place of an inherited
\* descriptor, and what is replayed on another one goes to the next file it opens
Close(t, h) ==
    /\ app[h] # Closed
    /\ Performed(t, h, Closed, Activity(OpOf(h, "close", "fclose"), h, None, 0, 0, FALSE),
                 h \in Handles /\ ~Traced(app[h]))

\* A read or a write of n bytes, or of fewer
Access(t, h, op, n, m) ==
    /\ app[h] # Closed /\ app[h].position + n <= MaxPosition
    /\ Performed(t, h, [app[h] EXCEPT !.position = @ + m],
                 Activity(OpOf(h, op[1], op[2]), h, None, n, m, FALSE), m # n)

\* lseek and fseek log where they went to.
Seek(t, h, p) ==
    /\ app[h] # Closed
    /\ Performed(t, h, [app[h] EXCEPT !.position = p],
                 Activity(OpOf(h, "lseek", "fseek"), h, None, 0, p, FALSE), FALSE)

\* A call that fails changes nothing; a failed close, on a stale handle.
Fail(t, h) ==
    /\ \/ app[h] # Closed
          /\ Performed(t, h, app[h], Activity(OpOf(h, "lseek", "fseek"), h, None, 0, 1, TRUE), FALSE)
       \/ app[h] = Closed
          /\ Performed(t, h, app[h], Activity(OpOf(h, "close", "fclose"), h, None, 0, 0, TRUE), FALSE)

Lose(t) ==
    /\ unlogged[t] # None /\ unlogged' = [unlogged EXCEPT ![t] = None]
    /\ spoiled' = (spoiled \/ ~unlogged[t].error)
    /\ UNCHANGED <<app, calls, pluginVars, mapping>>

-----------------------------------------------------------------------------
(* The plugin.                                                             *)

\* findUcaidMapping stops at the first name that is not known.
findUcaidMapping(n) == {Lookups[i] : i \in 1 .. n}

\* operator[] of the maps: a handle that is not there is 0, a stream NULL.
fdOf(h) == IF h \in DOMAIN fds THEN fds[h] ELSE 0
NULL == -1
streamOf(p) == IF p \in DOMAIN streams THEN streams[p] ELSE NULL

LowestFree == Min((0 .. Cardinality(DOMAIN own)) \ DOMAIN own)
OwnOpen(f) == own' = Put(own, LowestFree, At(f))

\* Mutant: insert() keeps the entry of a handle that was used before.
openInserts(a) ==
    /\ \/ OwnOpen(a.file) /\ fds' = IF a.handle \in DOMAIN fds THEN fds
                                    ELSE Put(fds, a.handle, LowestFree)
       \/ UNCHANGED own /\ fds' = Put(fds, a.handle, -1)
    /\ UNCHANGED <<streams, crashed>>

\* open: it may fail here although it did not fail then
open(a) ==
    /\ \/ OwnOpen(a.file) /\ fds' = Put(fds, a.handle, LowestFree)
       \/ UNCHANGED own /\ fds' = Put(fds, a.handle, -1)
    /\ UNCHANGED <<streams, crashed>>

\* close leaves the entry in the map.
close(a) ==
    /\ own' = [d \in DOMAIN own \ {fdOf(a.handle)} |-> own[d]]
    /\ fds' = Put(fds, a.handle, fdOf(a.handle))
    /\ UNCHANGED <<streams, crashed>>

\* The position of descriptor d after a call on it, if it is open.
Moved(d, p) == own' = IF d \in DOMAIN own THEN [own EXCEPT ![d].position = p] ELSE own
Position(d) == IF d \in DOMAIN own THEN own[d].position ELSE 0

\* read and write of all the bytes asked for; the file holds what it held then
access(a) ==
    /\ Moved(fdOf(a.handle),
             Position(fdOf(a.handle)) + IF a.op = "read" THEN a.position ELSE a.size)
    /\ fds' = Put(fds, a.handle, fdOf(a.handle))
    /\ UNCHANGED <<streams, crashed>>

lseek(a) ==
    /\ Moved(fdOf(a.handle), a.position)
    /\ fds' = Put(fds, a.handle, fdOf(a.handle))
    /\ UNCHANGED <<streams, crashed>>

fopen(a) ==
    /\ \/ OwnOpen(a.file) /\ streams' = Put(streams, a.handle, LowestFree)
       \/ UNCHANGED own /\ streams' = Put(streams, a.handle, NULL)
    /\ UNCHANGED <<fds, crashed>>

\* fread, fwrite and fseek
stream(a) ==
    /\ streams' = Put(streams, a.handle, streamOf(a.handle))
    /\ crashed' = (streamOf(a.handle) = NULL)
    /\ Moved(streamOf(a.handle),
             IF a.op = "fseek" THEN a.position
             ELSE Position(streamOf(a.handle)) + IF a.op = "fread" THEN a.position ELSE a.size)
    /\ UNCHANGED fds

\* fclose is looked up and not replayed.
replayActivity(a) ==
    IF a.error \/ a.op \notin mapping THEN UNCHANGED pluginVars
    ELSE \/ a.op = "open" /\ open(a)
         \/ a.op = "close" /\ close(a)
         \/ a.op \in {"read", "write"} /\ access(a)
         \/ a.op = "lseek" /\ lseek(a)
         \/ a.op = "fopen" /\ fopen(a)
         \/ a.op \in {"fread", "fwrite", "fseek"} /\ stream(a)
         \/ a.op = "fclose" /\ UNCHANGED pluginVars

\* The next activity of the trace, with verbosity 0
notify(t) ==
    /\ ~crashed /\ unlogged[t] # None
    /\ replayActivity(unlogged[t])
    /\ unlogged' = [unlogged EXCEPT ![t] = None]
    /\ spoiled' = (spoiled \/ (~unlogged[t].error /\ unlogged[t].op \notin mapping))
    /\ UNCHANGED <<app, calls, mapping>>

-----------------------------------------------------------------------------
Init ==
    /\ \E inherited \in Inherited :
          app = [h \in Handles \cup Pointers |-> IF h \in inherited THEN At(Std) ELSE Closed]
    /\ unlogged = [t \in Threads |-> None]
    /\ \E n \in {0, 5, Len(Lookups)} : mapping = findUcaidMapping(n)
    /\ fds = << >> /\ streams = << >> /\ own = [d \in 0 .. 2 |-> At(Std)]
    /\ crashed = FALSE /\ spoiled = FALSE /\ calls = 0

Next ==
    \E t \in Threads :
       \/ notify(t) \/ Lose(t)
       \/ \E h \in Handles \cup Pointers :
             \/ (\E f \in Files : Open(t, h, f)) \/ Close(t, h) \/ Fail(t, h)
             \/ \E n \in Sizes : \E m \in 0 .. n : \/ Access(t, h, <<"write", "fwrite">>, n, m)
                                                   \/ Access(t, h, <<"read", "fread">>, n, m)
             \/ \E p \in 0 .. MaxPosition : Seek(t, h, p)

Spec == Init /\ [][Next]_vars

-----------------------------------------------------------------------------
(* Properties.                                                             *)

Settled(h) == \A t \in Threads : unlogged[t] = None \/ unlogged[t].handle # h
Target(h) == IF h \in Handles THEN fdOf(h) ELSE streamOf(h)

\* As long as the trace is complete and in order and closes no descriptor that the
\* program has inherited, what the plugin does through a handle that the program has
\* opened goes to the file and to the position it went to in the program, or nowhere
\* if the plugin could not open the file, also when handles and the plugin's own
\* descriptors are reused; two such handles never share a descriptor, and none is the
\* plugin's own input, which stays open.  What was written to an inherited descriptor
\* goes to that input, and to no file of the program; an inherited stream is NULL.
ReplayFollows ==
    ~spoiled =>
        /\ 0 \in DOMAIN own
        /\ \A h \in Handles \cup Pointers :
              /\ Traced(app[h]) /\ Settled(h) =>
                    /\ Target(h) # -1 => Target(h) \in DOMAIN own \ {0} /\ own[Target(h)] = app[h]
                    /\ \A g \in Handles \cup Pointers :
                          g # h /\ Traced(app[g]) /\ Settled(g) /\ Target(g) = Target(h) =>
                              Target(h) = -1
              /\ app[h].file = Std /\ Settled(h) => Target(h) = IF h \in Handles THEN 0 ELSE NULL

-----------------------------------------------------------------------------
(* The inductive invariant.                                                *)

Entries == [file : Files \cup {Std}, position : Nat] \cup {Closed}

TypeInv ==
    /\ app \in [Handles \cup Pointers -> Entries]
    /\ unlogged \in [Threads -> Activities \cup {None}]
    /\ DOMAIN own \subseteq Nat /\ IsFiniteSet(DOMAIN own)

\* The call of activity a was possible on an entry e, as a complete trace tells it ...
Fits(a, e) ==
    \/ a.error
    \/ /\ a.op = OpOf(a.handle, "open", "fopen")
       /\ e = Closed /\ a.file \in Files
    \/ /\ a.op \in {OpOf(a.handle, "close", "fclose"), OpOf(a.handle, "lseek", "fseek")}
       /\ e # Closed /\ (a.op = "close" => Traced(e))
    \/ /\ a.op \in {OpOf(a.handle, "read", "fread"), OpOf(a.handle, "write", "fwrite")}
       /\ e # Closed /\ a.position = a.size

\* ... and made it this one.
After(a, e) ==
    CASE a.error -> e
      [] ~a.error /\ a.op \in {"open", "fopen"} -> At(a.file)
      [] ~a.error /\ a.op \in {"close", "fclose"} -> Closed
      [] ~a.error /\ a.op \in {"lseek", "fseek"} -> [e EXCEPT !.position = a.position]
      [] OTHER -> [e EXCEPT !.position = @ + a.size]

\* The plugin holds, for each handle, the entry that was behind it when the last call
\* on it that was replayed had been made; one call at most came after that.
Matches(old) ==
    /\ old \in [Handles \cup Pointers -> Entries]
    /\ \A h \in Handles \cup Pointers : Settled(h) => old[h] = app[h]
    /\ \A t \in Threads : unlogged[t] # None =>
          LET a == unlogged[t]
          IN  /\ Fits(a, old[a.handle]) /\ app[a.handle] = After(a, old[a.handle])
              /\ \A u \in Threads : unlogged[u] # None /\ unlogged[u].handle = a.handle => u = t
    /\ 0 \in DOMAIN own
    /\ \A h \in Handles \cup Pointers : Traced(old[h]) =>
          Target(h) = -1 \/ (Target(h) \in DOMAIN own \ {0} /\ own[Target(h)] = old[h])
    /\ \A g, h \in Handles \cup Pointers :
          g # h /\ Traced(old[g]) /\ Traced(old[h]) /\ Target(g) = Target(h) => Target(h) = -1
    /\ \A h \in Handles \cup Pointers :
          old[h].file = Std => Target(h) = IF h \in Handles THEN 0 ELSE -1

IInv == spoiled \/ (TypeInv /\ \E old \in [Handles \cup Pointers -> Entries] : Matches(old))
=============================================================================
