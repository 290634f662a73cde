---------------------------- MODULE FileSurveyor ----------------------------
(***************************************************************************)
(* The file surveyor (FileSurveyor.cpp), a plugin that counts what is done *)
(* with every file between an open and a close, and the multiplexer that   *)
(* calls it.  The callbacks are synchronous: Log calls them in the         *)
(* application's threads while it holds the multiplexer's lock shared.     *)
(* The plugin needs identifiers that may not be known yet, so every entry  *)
(* point retries its initialisation, which registers callbacks and so      *)
(* needs that lock exclusively.  findParentAID reads the open surveys      *)
(* without the collection's lock.                                          *)
(*                                                                         *)
(* A token is an activity type.  Timestamps are left out.  A position or a *)
(* number of bytes an activity does not tell is None.                      *)
(***************************************************************************)
EXTENDS Integers, Sequences, FiniteSets, SequencesExt, FiniteSetsExt

CONSTANTS
    Threads, Files, None,
    Tokens,          \* Tokens[kind]: the option's list of activity types
    Watched,         \* files whose extension is watched
    Positions, Sizes, seekSizeLimit,
    MaxLogs,         \* bound: activities
    MaxRepeats       \* bound: no reports once a callback is registered as often

TokenTypes == <<"open", "seek", "read", "write", "close">>
Types == UNION {ToSet(Tokens[k]) : k \in ToSet(TokenTypes)}
Names == Types \cup {"interface", "attributes"}
Counters == ToSet(TokenTypes) \cup {"bytes"}
initializedLevel == -1

SurveyorAssumption ==
    Positions \subseteq Nat /\ Sizes \subseteq Nat /\ seekSizeLimit \in Nat

VARIABLES
    initLevel,
    known,              \* names the system information and the ontology know
    registered,         \* registered[token]: how often, at the multiplexer
    readers,            \* threads that hold the multiplexer's lock shared
    started,            \* has init returned?
    th,                 \* th[t]: what thread t does
    openFileSurveys,    \* from the ID of the last open to a survey
    closedFileSurveys,  \* a list
    logs, opens, terminated,
    handled, peak       \* history: activities surveyed, open surveys at most

surveys == <<openFileSurveys, closedFileSurveys, handled, peak>>
vars == <<initLevel, known, registered, readers, started, th, surveys, logs, opens, terminated>>

Idle == [pc |-> "idle", op |-> "none", act |-> None, calls |-> 0, level |-> 0, i |-> 0, parent |-> 0]
Accesses == [n |-> 0, sequential |-> 0, randomShort |-> 0, randomLong |-> 0, bytes |-> 0, distance |-> 0]
FileSurvey(f) ==
    [fileName |-> f, nOpens |-> 0, nCloses |-> 0, nSeeks |-> 0, nSeeksShort |-> 0, nSeeksLong |-> 0,
     nTotalSeekDistance |-> 0, positionAfterLastAccess |-> 0, positionAfterLastSeek |-> 0,
     read |-> Accesses, write |-> Accesses]
absu64(a, b) == IF a > b THEN a - b ELSE b - a

Init ==
    /\ initLevel = 0 /\ known \in {Names} \cup {Names \ {n} : n \in Names}
    /\ registered = [k \in Types |-> 0] /\ readers = {} /\ started = FALSE
    /\ th = [t \in Threads |-> Idle]
    /\ openFileSurveys = << >> /\ closedFileSurveys = << >>
    /\ logs = 0 /\ opens = 0 /\ terminated = FALSE
    /\ handled = [f \in Files |-> [k \in Counters |-> 0]]
    /\ peak = [f \in Files |-> 0]

-----------------------------------------------------------------------------
(* Callbacks and the multiplexer.                                          *)

\* A thread that waits for the lock keeps others from taking it shared.
Waiting == \E t \in Threads : th[t].pc = "register"

\* Log: the callbacks of a token are called as often as it is registered.
Log(t, a) ==
    /\ th[t].pc = "idle" /\ started /\ logs < MaxLogs /\ ~Waiting
    /\ logs' = logs + 1
    /\ opens' = IF a.kind = "open" THEN opens + 1 ELSE opens
    /\ IF registered[a.token] = 0 THEN UNCHANGED <<th, readers>>
       ELSE /\ th' = [th EXCEPT ![t] = [Idle EXCEPT !.pc = "ensure", !.op = "log", !.act = a,
                                                    !.calls = registered[a.token]]]
            /\ readers' = readers \cup {t}
    /\ UNCHANGED <<initLevel, known, registered, started, surveys, terminated>>

\* A callback returns; the last one, and Log releases the lock.
Returned(t) ==
    IF th[t].calls > 1
    THEN /\ th' = [th EXCEPT ![t].pc = "ensure", ![t].calls = @ - 1, ![t].parent = 0]
         /\ UNCHANGED readers
    ELSE th' = [th EXCEPT ![t] = Idle] /\ readers' = readers \ {t}

\* What the entry points do once the plugin is initialised.
Enter(t) ==
    th' = [th EXCEPT ![t].pc = IF th[t].op = "report" THEN "report"
                               ELSE IF th[t].act.kind = "open" THEN "apply" ELSE "find"]

tryEnsureInitialization(t) ==
    /\ th[t].pc = "ensure"
    /\ IF initLevel = initializedLevel THEN Enter(t)
       ELSE th' = [th EXCEPT ![t] = [@ EXCEPT !.pc = "init", !.level = initLevel, !.i = 1]]
    /\ UNCHANGED <<initLevel, known, registered, readers, started, surveys, logs, opens, terminated>>

-----------------------------------------------------------------------------
(* Initialisation.                                                         *)

\* The autoconfigurator calls init, before anything is logged.
init(t) ==
    /\ initLevel = 0 /\ initLevel' = 1
    /\ th' = [th EXCEPT ![t] = [Idle EXCEPT !.pc = "init", !.op = "init", !.level = 1, !.i = 1]]
    /\ UNCHANGED <<known, registered, readers, started, surveys, logs, opens, terminated>>

\* Something registers a name.
Learn(n) ==
    /\ n \notin known /\ known' = known \cup {n}
    /\ UNCHANGED <<initLevel, registered, readers, started, th, surveys, logs, opens, terminated>>

\* initPlugin returns, and tryEnsureInitialization tells whether it is done.
InitReturns(t, level) ==
    /\ started' = TRUE
    /\ IF th[t].op = "init" THEN th' = [th EXCEPT ![t] = Idle] /\ UNCHANGED readers
       ELSE IF level = initializedLevel THEN Enter(t) /\ UNCHANGED readers
       ELSE IF th[t].op = "report" THEN th' = [th EXCEPT ![t] = Idle] /\ UNCHANGED readers
       ELSE Returned(t)
    /\ UNCHANGED registered

ToLevel(t, l) ==
    /\ initLevel' = l
    /\ th' = [th EXCEPT ![t] = [@ EXCEPT !.pc = "init", !.level = l, !.i = 1]]

Lacks(t, n) == n \notin known /\ UNCHANGED initLevel /\ InitReturns(t, initLevel)

\* Level 1 looks the interface up, levels 2 to 6 register the tokens of one
\* kind each, 7 takes the extensions, 8 looks the attributes up.
initPlugin(t) ==
    /\ th[t].pc = "init"
    /\ LET l == th[t].level IN
       \/ l = 1 /\ Lacks(t, "interface")
       \/ l = 1 /\ "interface" \in known /\ ToLevel(t, 2) /\ UNCHANGED <<registered, readers, started>>
       \/ l = 7 /\ ToLevel(t, 8) /\ UNCHANGED <<registered, readers, started>>
       \/ l = 8 /\ Lacks(t, "attributes")
       \/ l = 8 /\ "attributes" \in known /\ initLevel' = initializedLevel
                /\ InitReturns(t, initializedLevel)
       \/ /\ l \in 2 .. 6
          /\ LET tokens == Tokens[TokenTypes[l - 1]] IN
             \/ /\ th[t].i > Len(tokens) /\ ToLevel(t, l + 1)
                /\ UNCHANGED <<registered, readers, started>>
             \/ th[t].i <= Len(tokens) /\ Lacks(t, tokens[th[t].i])
             \/ /\ th[t].i <= Len(tokens) /\ tokens[th[t].i] \in known
                /\ th' = [th EXCEPT ![t].pc = "register"]
                /\ UNCHANGED <<initLevel, registered, readers, started>>
    /\ UNCHANGED <<known, surveys, logs, opens, terminated>>

\* registerForUcaid, under the multiplexer's lock
registerForUcaid(t) ==
    /\ th[t].pc = "register" /\ readers = {}
    /\ LET k == Tokens[TokenTypes[th[t].level - 1]][th[t].i] IN
       registered' = [registered EXCEPT ![k] = @ + 1]
    /\ th' = [th EXCEPT ![t].pc = "init", ![t].i = @ + 1]
    /\ UNCHANGED <<initLevel, known, readers, started, surveys, logs, opens, terminated>>

-----------------------------------------------------------------------------
(* The callbacks.                                                          *)

\* The last of the parents that is an open file's.
findParentAID(t) ==
    /\ th[t].pc = "find"
    /\ LET ps == th[t].act.parents
           found == {i \in DOMAIN ps : ps[i] \in DOMAIN openFileSurveys}
       IN  IF found = {} THEN Returned(t)
           ELSE /\ th' = [th EXCEPT ![t] = [@ EXCEPT !.pc = "apply", !.parent = ps[Max(found)]]]
                /\ UNCHANGED readers
    /\ UNCHANGED <<initLevel, known, registered, started, surveys, logs, opens, terminated>>

Applying(t, kind) == th[t].pc = "apply" /\ th[t].act.kind = kind
Handle(f, k, n) == [handled EXCEPT ![f][k] = @ + 1, ![f]["bytes"] = @ + n]
Others == <<initLevel, known, registered, started, logs, opens>>

\* The surveys of a file, in the open or in the closed ones.
Of(collection, f) == {i \in DOMAIN collection : collection[i].fileName = f}
With(a, s) == [x \in DOMAIN openFileSurveys \cup {a} |-> IF x = a THEN s ELSE openFileSurveys[x]]
Without(a) == [x \in DOMAIN openFileSurveys \ {a} |-> openFileSurveys[x]]

\* Mutant: the survey stays among the closed ones.
openSurveyCopies(t) ==
    /\ Applying(t, "open")
    /\ LET f == th[t].act.file
           a == th[t].act.aid
           closed == Of(closedFileSurveys, f)
           old == IF closed = {} THEN FileSurvey(f) ELSE closedFileSurveys[Min(closed)]
       IN  IF f \in Watched \/ Watched = {}
           THEN /\ openFileSurveys' = With(a, [old EXCEPT !.nOpens = @ + 1,
                     !.positionAfterLastAccess = 0, !.positionAfterLastSeek = 0])
                /\ handled' = Handle(f, "open", 0)
                /\ peak' = [peak EXCEPT ![f] = Max({@, Cardinality(Of(openFileSurveys, f)) + 1})]
                /\ UNCHANGED closedFileSurveys
           ELSE UNCHANGED surveys
    /\ Returned(t) /\ UNCHANGED <<Others, terminated>>

\* The first closed survey of the file is used again.
openSurvey(t) ==
    /\ Applying(t, "open")
    /\ LET f == th[t].act.file
           a == th[t].act.aid
           closed == Of(closedFileSurveys, f)
           old == IF closed = {} THEN FileSurvey(f) ELSE closedFileSurveys[Min(closed)]
       IN  IF f \in Watched \/ Watched = {}
           THEN /\ openFileSurveys' = With(a, [old EXCEPT !.nOpens = @ + 1,
                     !.positionAfterLastAccess = 0, !.positionAfterLastSeek = 0])
                /\ closedFileSurveys' = IF closed = {} THEN closedFileSurveys
                                        ELSE RemoveAt(closedFileSurveys, Min(closed))
                /\ handled' = Handle(f, "open", 0)
                /\ peak' = [peak EXCEPT ![f] = Max({@, Cardinality(Of(openFileSurveys, f)) + 1})]
           ELSE UNCHANGED surveys
    /\ Returned(t) /\ UNCHANGED <<Others, terminated>>

\* openFileSurveys.at throws std::out_of_range if the survey has been closed
\* since findParentAID.  Only NotFoundError is caught.
OutOfRange(t) ==
    /\ \E k \in ToSet(Tail(TokenTypes)) : Applying(t, k)
    /\ th[t].parent \notin DOMAIN openFileSurveys
    /\ terminated' = TRUE
    /\ UNCHANGED <<Others, th, readers, surveys>>

\* The survey becomes s.
Update(t, s, k, n) ==
    /\ openFileSurveys' = With(th[t].parent, s)
    /\ handled' = Handle(s.fileName, k, n)
    /\ Returned(t) /\ UNCHANGED <<Others, closedFileSurveys, peak, terminated>>

updateSurveySeek(t) ==
    /\ Applying(t, "seek") /\ th[t].parent \in DOMAIN openFileSurveys
    /\ LET s == openFileSurveys[th[t].parent]
           fp == th[t].act.fp
           jump == absu64(fp, s.positionAfterLastSeek)
       IN  Update(t, IF fp = None THEN [s EXCEPT !.nSeeks = @ + 1]
                     ELSE [s EXCEPT !.nSeeks = @ + 1,
                            !.nSeeksLong = IF jump > seekSizeLimit THEN @ + 1 ELSE @,
                            !.nSeeksShort = IF jump > seekSizeLimit THEN @ ELSE @ + 1,
                            !.nTotalSeekDistance = @ + jump, !.positionAfterLastSeek = fp],
                  "seek", 0)

\* An access is counted as sequential or random.  Its position is the given
\* one, or where the last seek or access has left the file.
Accessed(x, jump, n) ==
    [x EXCEPT !.n = @ + 1, !.bytes = @ + n, !.distance = @ + jump,
       !.sequential = IF jump = 0 THEN @ + 1 ELSE @,
       !.randomShort = IF jump > 0 /\ jump <= seekSizeLimit THEN @ + 1 ELSE @,
       !.randomLong = IF jump > seekSizeLimit THEN @ + 1 ELSE @]

Access(t, k) ==
    /\ Applying(t, k) /\ th[t].parent \in DOMAIN openFileSurveys
    /\ LET s == openFileSurveys[th[t].parent]
           n == th[t].act.bytes
           fp == IF th[t].act.fp = None THEN s.positionAfterLastSeek ELSE th[t].act.fp
       IN  IF n = None THEN Update(t, [s EXCEPT ![k].n = @ + 1], k, 0)
           ELSE Update(t, [s EXCEPT ![k] = Accessed(@, absu64(fp, s.positionAfterLastAccess), n),
                             !.positionAfterLastAccess = fp + n,
                             !.positionAfterLastSeek = fp + n], k, n)

updateSurveyRead(t) == Access(t, "read")
updateSurveyWrite(t) == Access(t, "write")

closeSurvey(t) ==
    /\ Applying(t, "close") /\ th[t].parent \in DOMAIN openFileSurveys
    /\ LET s == openFileSurveys[th[t].parent] IN
       /\ openFileSurveys' = Without(th[t].parent)
       /\ closedFileSurveys' = Append(closedFileSurveys, [s EXCEPT !.nCloses = @ + 1])
       /\ handled' = Handle(s.fileName, "close", 0)
    /\ Returned(t) /\ UNCHANGED <<Others, peak, terminated>>

\* prepareReport begins like the callbacks, in a thread without the lock; one
\* thread at a time gathers the reports ...
prepareReport(t) ==
    /\ th[t].pc = "idle" /\ started /\ \A u \in Threads : th[u].op # "report"
    /\ \A k \in Types : registered[k] < MaxRepeats
    /\ th' = [th EXCEPT ![t] =
         IF initLevel = initializedLevel THEN [Idle EXCEPT !.pc = "report", !.op = "report"]
         ELSE [Idle EXCEPT !.pc = "init", !.op = "report", !.level = initLevel, !.i = 1]]
    /\ UNCHANGED <<initLevel, known, registered, readers, started, surveys, logs, opens, terminated>>

\* ... and ends, having added up the closed surveys.
ReportEnds(t) ==
    /\ th[t].pc = "report"
    /\ th' = [th EXCEPT ![t] = Idle]
    /\ UNCHANGED <<initLevel, known, registered, readers, started, surveys, logs, opens, terminated>>

-----------------------------------------------------------------------------
Value(s, k) == CASE k = "open" -> s.nOpens [] k = "close" -> s.nCloses [] k = "seek" -> s.nSeeks
                 [] k \in {"read", "write"} -> s[k].n [] k = "bytes" -> s.read.bytes + s.write.bytes

\* aggregateSurveys, of one counter of one file
aggregateSurveys(collection, f, k) ==
    SumFunction([i \in Of(collection, f) |-> Value(collection[i], k)])

\* The activities a program logs: an open of a file, or another one on files
\* that have been opened, also where a duplicate of the handle was closed.
Parents == {<<a>> : a \in 1 .. opens} \cup {<<a, b>> : a \in 1 .. opens - 1, b \in 2 .. opens}
On(k, token, ps, fp, n) == [kind |-> k, token |-> token, parents |-> ps, fp |-> fp, bytes |-> n]
Activities(k) ==
    CASE k = "open" -> {[kind |-> k, token |-> x, aid |-> opens + 1, file |-> f] :
                          x \in ToSet(Tokens[k]), f \in Files}
      [] k = "seek" -> {On(k, x, ps, fp, None) : x \in ToSet(Tokens[k]), ps \in Parents,
                          fp \in Positions \cup {None}}
      [] k = "close" -> {On(k, x, ps, None, None) : x \in ToSet(Tokens[k]), ps \in Parents}
      [] OTHER -> {On(k, x, ps, fp, n) : x \in ToSet(Tokens[k]), ps \in Parents,
                     fp \in Positions \cup {None}, n \in Sizes \cup {None}}

Step(t) ==
    \/ tryEnsureInitialization(t) \/ initPlugin(t) \/ registerForUcaid(t) \/ findParentAID(t)
    \/ openSurvey(t) \/ updateSurveySeek(t) \/ updateSurveyRead(t) \/ updateSurveyWrite(t)
    \/ closeSurvey(t) \/ OutOfRange(t) \/ ReportEnds(t)

Next ==
    /\ ~terminated
    /\ \/ \E n \in Names : Learn(n)
       \/ \E t \in Threads :
            \/ init(t) \/ prepareReport(t) \/ Step(t)
            \/ \E k \in ToSet(TokenTypes) : \E a \in Activities(k) : Log(t, a)

\* Threads run, and names become known.
Fairness == /\ \A t \in Threads : WF_vars(Step(t))
            /\ \A n \in Names : WF_vars(Learn(n))
Spec == Init /\ [][Next]_vars
FairSpec == Spec /\ Fairness

-----------------------------------------------------------------------------
\* Is no callback registered twice?  A level that is retried begins with its
\* first token again, which registers those before the one that was unknown a
\* second time.  Every activity of such a token is then counted twice, but for
\* an open: its second survey takes the place of the first.
RegisteredOnce == \A k \in Types : registered[k] <= 1

\* A file never has more surveys than it was opened times at once, however
\* often it is closed and opened again.
SurveysAreReused ==
    \A f \in Files :
        Cardinality(Of(openFileSurveys, f)) + Cardinality(Of(closedFileSurveys, f)) = peak[f]

\* The counters of all the surveys of a file add up.
CountersAddUp ==
    \A f \in Files : \A k \in Counters :
        aggregateSurveys(openFileSurveys, f, k) + aggregateSurveys(closedFileSurveys, f, k)
          = handled[f][k]

\* Unless a retried level has registered a callback again (RegisteredOnce):
\* every activity that a callback has related to an open survey is counted
\* once, whatever threads open, close and reopen the file meanwhile; nothing
\* is lost or doubled when surveys move between the collections, nor is a
\* survey (SurveysAreReused).
CountedOnce == RegisteredOnce => SurveysAreReused /\ CountersAddUp

\* initPlugin: "if initialization fails now, we can simply retry", hence a
\* thread that retries it gets out of it.
RetryReturns ==
    \A t \in Threads : th[t].pc \in {"init", "register"} ~> th[t].pc \notin {"init", "register"}

-----------------------------------------------------------------------------
(* The inductive invariant of the counts.                                  *)

Acts == [kind : {"open"}, token : Types, aid : Nat, file : Files] \cup
        [kind : ToSet(Tail(TokenTypes)), token : Types, parents : Seq(Nat),
         fp : Positions \cup {None}, bytes : Sizes \cup {None}]
AccessCounts == [n : Nat, sequential : Nat, randomShort : Nat, randomLong : Nat, bytes : Nat,
                 distance : Nat]
FileSurveys ==
    [fileName : Files, nOpens : Nat, nCloses : Nat, nSeeks : Nat, nSeeksShort : Nat,
     nSeeksLong : Nat, nTotalSeekDistance : Nat, positionAfterLastAccess : Nat,
     positionAfterLastSeek : Nat, read : AccessCounts, write : AccessCounts]
LogStates ==
    {s \in [pc : {"ensure", "init", "register", "find", "apply"}, op : {"log"}, act : Acts,
            calls : Nat, level : Int, i : Int, parent : Nat] :
        s.pc = "find" => s.act.kind # "open"}
RegistrarStates ==
    [pc : {"init", "register", "report"}, op : {"init", "report"}, act : {None}, calls : {0},
     level : Int, i : Int, parent : {0}]
ThreadStates == {Idle} \cup LogStates \cup RegistrarStates

ThreadsInv ==
    /\ th \in [Threads -> ThreadStates] /\ initLevel \in Int
    /\ registered \in [Types -> Nat] /\ opens \in Nat

\* While no callback is registered twice, a thread calls one ...
CalledOnce == \A t \in Threads : th[t].op = "log" => th[t].calls = 1

\* ... and every open has a survey of its own.
Opening(t) == th[t].op = "log" /\ th[t].act.kind = "open"
SurveysInv ==
    /\ openFileSurveys \in [DOMAIN openFileSurveys -> FileSurveys]
    /\ DOMAIN openFileSurveys \subseteq 1 .. opens /\ closedFileSurveys \in Seq(FileSurveys)
    /\ handled \in [Files -> [Counters -> Nat]] /\ peak \in [Files -> Nat]
    /\ \A t \in Threads : Opening(t) =>
          /\ th[t].act.aid \in (1 .. opens) \ DOMAIN openFileSurveys
          /\ \A u \in Threads \ {t} : Opening(u) => th[u].act.aid # th[t].act.aid

OnceInv == CalledOnce /\ SurveysInv /\ SurveysAreReused /\ CountersAddUp

IInv == ThreadsInv /\ (RegisteredOnce => OnceInv)
=============================================================================
