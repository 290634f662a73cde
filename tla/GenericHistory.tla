--------------------------- MODULE GenericHistory ---------------------------
(***************************************************************************)
(* The optimizer and its two plugins: GenericHistory.cpp, which learns     *)
(* which hints made accesses fast, and PersistentStore.cpp, which reads    *)
(* hints from the configuration (both under knowledge/optimizer).          *)
(*                                                                         *)
(* Names are looked up in catalogs that other processes extend at any      *)
(* time, so a name may become known between two levels of initPlugin.  One *)
(* token of each kind is configured.  Notify runs in the threads that log, *)
(* its body under giant_mutex; optimalParameter reads without that lock,   *)
(* so what it returns is any value if a Notify came in between.  An access *)
(* names the open it belongs to as its parent.  A vector of hints, sorted  *)
(* by attribute, is a function.  The running average is kept as a sum and  *)
(* a number of measurements: rounding is left out, infinity and NaN are    *)
(* not.                                                                    *)
(***************************************************************************)
EXTENDS Integers, Sequences, FiniteSets

CONSTANTS
    Threads,        \* that ask for suggestions
    Attributes,     \* hintAttributes of the configuration
    StoreHints,     \* fileHints of the store: file -> attribute -> value
    Unknown,        \* names of which one may be missing at first
    HintSets,       \* what opens and hint calls of the program may carry
    Performances,   \* of an access with a size and a duration
    NotFound,       \* the exception
    AnyValue,       \* values that a racing read might return
    kMinTrialCount, \* 5 in the code
    MaxOpens,       \* bound: opens ever logged
    MaxActivities   \* bound: activities ever logged

Kinds == {"open", "access", "close", "hint"}
\* The quotients by zero, as numbers that no performance is.
Infinite == -1
NaN == -2

Names == {"interface", "size", "user-id"} \cup Kinds \cup Attributes

GenericHistoryAssumption ==
    /\ {kMinTrialCount, MaxOpens, MaxActivities} \subseteq Nat /\ Performances \subseteq Nat
    /\ \A f \in DOMAIN StoreHints : DOMAIN StoreHints[f] \subseteq Attributes

VARIABLES
    known,           \* names that the catalogs know
    initLevel, types, hasSize, hintTypes,
    catchall,        \* is Notify registered with the multiplexer?
    expert,          \* of the optimizer: attribute -> plugin, or "none"
    plugin,          \* life of each plugin: "new", "loading", "loaded", "reporting",
                     \* "reported", "finalized", "destroyed"
    openFileHints, performanceHistory, lastActionType,
    opens, logged,   \* activities so far
    measured,        \* history: hints in force and performance of each access
    inForce,         \* history: what the program has set for an open file
    late,            \* history: attributes registered for that became known too late
    ask              \* what a thread asks for, and the answer

initVars == <<initLevel, types, hasSize, hintTypes, catchall, expert, plugin, late>>
historyVars == <<openFileHints, performanceHistory, lastActionType, opens, logged, measured,
                 inForce>>
vars == <<known, initVars, historyVars, ask>>

Put(f, k, v) == [x \in DOMAIN f \cup {k} |-> IF x = k THEN v ELSE f[x]]
Drop(f, k) == [x \in DOMAIN f \ {k} |-> f[x]]

\* The program runs: the configuration is loaded, and nothing is torn down.
Loaded == plugin["history"] = "loaded" /\ plugin["store"] = "loaded"

-----------------------------------------------------------------------------
(* Optimizer.                                                              *)

\* The first to register for an attribute is asked for it.
registerPlugin(p, S) == [a \in Attributes |-> IF a \in S /\ expert[a] = "none" THEN p ELSE expert[a]]
unregisterPlugin(p, S) == [a \in Attributes |-> IF a \in S /\ expert[a] = p THEN "none" ELSE expert[a]]

-----------------------------------------------------------------------------
(* Initialisation of the history plugin, one level per step.               *)

\* Another process makes a name known.  (While the program runs nobody looks
\* names up; what becomes known then is as good as known before the report.)
Extend(n) ==
    /\ ~Loaded /\ n \notin known /\ known' = known \cup {n}
    /\ UNCHANGED <<initVars, historyVars, ask>>

InInit == plugin["history"] \in {"loading", "reporting"}
InitReturns ==
    plugin' = [plugin EXCEPT !["history"] = IF @ = "loading" THEN "loaded" ELSE "reported"]

\* The registrar calls initPlugin when it loads the configuration, one
\* component after the other ...
initPlugin ==
    /\ plugin["history"] = "new" /\ initLevel = 0 /\ plugin["store"] \in {"new", "loaded"}
    /\ initLevel' = 1 /\ plugin' = [plugin EXCEPT !["history"] = "loading"]
    /\ UNCHANGED <<known, types, hasSize, hintTypes, catchall, expert, late, historyVars, ask>>

\* ... and at the end of the program prepareReport tries again what failed.
prepareReport ==
    /\ plugin["history"] = "loaded" /\ initLevel > 0
    /\ plugin' = [plugin EXCEPT !["history"] = "reporting"]
    /\ UNCHANGED <<known, initLevel, types, hasSize, hintTypes, catchall, expert, late,
                   historyVars, ask>>

\* A failed lookup of the interface, or of the user id, ends initPlugin.
initFails ==
    /\ InInit
    /\ \/ initLevel = 1 /\ "interface" \notin known
       \/ initLevel = 8 /\ "user-id" \notin known
    /\ InitReturns
    /\ UNCHANGED <<known, initLevel, types, hasSize, hintTypes, catchall, expert, late,
                   historyVars, ask>>

initInterface ==
    /\ InInit /\ initLevel = 1 /\ "interface" \in known
    /\ initLevel' = 2
    /\ UNCHANGED <<known, types, hasSize, hintTypes, catchall, expert, plugin, late,
                   historyVars, ask>>

\* Levels 2 to 5: a token that is not known is left out for good.  The token
\* of an access counts even if its attribute cannot be looked up.
initTokens(k) ==
    /\ InInit
    /\ initLevel = CASE k = "open" -> 2 [] k = "access" -> 3 [] k = "close" -> 4 [] k = "hint" -> 5
    /\ initLevel' = initLevel + 1
    /\ types' = types \cup ({k} \cap known)
    /\ hasSize' = (hasSize \/ (k = "access" /\ {"access", "size"} \subseteq known))
    /\ UNCHANGED <<known, hintTypes, catchall, expert, plugin, late, historyVars, ask>>

initHintTypes ==
    /\ InInit /\ initLevel = 6
    /\ initLevel' = 7 /\ hintTypes' = Attributes \cap known
    /\ UNCHANGED <<known, types, hasSize, catchall, expert, plugin, late, historyVars, ask>>

\* The attributes are looked up again.
initExpert ==
    /\ InInit /\ initLevel = 7
    /\ initLevel' = 8 /\ expert' = registerPlugin("history", Attributes \cap known)
    /\ late' = late \cup {a \in (Attributes \cap known) \ hintTypes : expert[a] = "none"}
    /\ UNCHANGED <<known, types, hasSize, hintTypes, catchall, plugin, historyVars, ask>>

initDone ==
    /\ InInit /\ initLevel = 8 /\ "user-id" \in known
    /\ initLevel' = -1 /\ catchall' = TRUE
    /\ InitReturns
    /\ UNCHANGED <<known, types, hasSize, hintTypes, expert, late, historyVars, ask>>

finalize ==
    /\ plugin["history"] \in {"loaded", "reported"} /\ plugin["store"] # "new"
    /\ plugin' = [plugin EXCEPT !["history"] = "finalized"] /\ catchall' = FALSE
    /\ UNCHANGED <<known, initLevel, types, hasSize, hintTypes, expert, late, historyVars, ask>>

\* No thread is in a function of the API when the components are destroyed.
destroy ==
    /\ plugin["history"] = "finalized" /\ \A t \in Threads : ask[t].phase # "asking"
    /\ plugin' = [plugin EXCEPT !["history"] = "destroyed"]
    /\ expert' = unregisterPlugin("history", hintTypes)
    /\ UNCHANGED <<known, initLevel, types, hasSize, hintTypes, catchall, late, historyVars, ask>>

-----------------------------------------------------------------------------
(* The store.                                                              *)

StoreAttributes == UNION {DOMAIN StoreHints[f] : f \in DOMAIN StoreHints}

\* A name that is not known is an exception that ends the load.
initStore ==
    /\ plugin["store"] = "new" /\ ~InInit /\ plugin["history"] \in {"new", "loaded"}
    /\ StoreAttributes \cup {"interface", "open"} \subseteq known
    /\ plugin' = [plugin EXCEPT !["store"] = "loaded"]
    /\ expert' = registerPlugin("store", StoreAttributes)
    /\ UNCHANGED <<known, initLevel, types, hasSize, hintTypes, catchall, late, historyVars, ask>>

finalizeStore ==
    /\ plugin["store"] = "loaded" /\ plugin["history"] \notin {"new", "loading", "loaded", "reporting"}
    /\ \A t \in Threads : ask[t].phase # "asking"
    /\ plugin' = [plugin EXCEPT !["store"] = "destroyed"]
    /\ expert' = unregisterPlugin("store", StoreAttributes)
    /\ UNCHANGED <<known, initLevel, types, hasSize, hintTypes, catchall, late, historyVars, ask>>

-----------------------------------------------------------------------------
(* Notify.                                                                 *)

\* A measurement p joins the entry with the same hints, or is a new entry.
Entry(h, p) == [hints |-> h, measurementCount |-> 1, sum |-> IF p \in Performances THEN p ELSE 0,
                inf |-> p = Infinite, nan |-> p = NaN]
Join(e, p) == [hints |-> e.hints, measurementCount |-> e.measurementCount + 1,
               sum |-> e.sum + Entry(e.hints, p).sum, inf |-> e.inf \/ p = Infinite,
               nan |-> e.nan \/ p = NaN]

\* Mutant: a new entry for every measurement.
recordAlways(h, p) == performanceHistory' = Append(performanceHistory, Entry(h, p))

record(h, p) ==
    IF \E i \in DOMAIN performanceHistory : performanceHistory[i].hints = h
    THEN performanceHistory' = [i \in DOMAIN performanceHistory |->
             IF performanceHistory[i].hints = h THEN Join(performanceHistory[i], p)
             ELSE performanceHistory[i]]
    ELSE performanceHistory' = Append(performanceHistory, Entry(h, p))

\* Infinite without a duration; not a number if the attribute is not known, or if the
\* activity lacks it, as that of an access that failed may.
recordPerformance == {NaN, Infinite} \cup (IF hasSize THEN Performances ELSE {})

\* Whoever reads at this moment reads what is being changed.
Disturb == ask' = [t \in Threads |-> [ask[t] EXCEPT !.raced = @ \/ ask[t].phase = "asking"]]

NotifyBegin(k) ==
    /\ catchall /\ Loaded /\ logged < MaxActivities /\ logged' = logged + 1
    /\ lastActionType' = IF k \in types THEN k ELSE "unknown"
    /\ Disturb /\ UNCHANGED <<known, initVars>>

\* The hints of the activity that the plugin was configured for, in order
rememberHints(h) == [a \in DOMAIN h \cap hintTypes |-> h[a]]

\* Is the open o, a parent of the activity, that of a file which is still open?
findCurrentHints(o) == o \in DOMAIN openFileHints

NotifyOpen(h) ==
    /\ NotifyBegin("open") /\ opens < MaxOpens /\ opens' = opens + 1
    /\ openFileHints' = IF "open" \in types THEN Put(openFileHints, opens', rememberHints(h))
                        ELSE openFileHints
    /\ inForce' = IF "open" \in types THEN Put(inForce, opens', h) ELSE inForce
    /\ UNCHANGED <<performanceHistory, measured>>

NotifyAccess(o, p) ==
    /\ NotifyBegin("access")
    /\ IF "access" \in types /\ findCurrentHints(o)
       THEN record(openFileHints[o], p) ELSE UNCHANGED performanceHistory
    /\ measured' = IF "access" \in types /\ o \in DOMAIN inForce
                   THEN Append(measured, [hints |-> rememberHints(inForce[o]), p |-> p])
                   ELSE measured
    /\ UNCHANGED <<openFileHints, opens, inForce>>

NotifyClose(o) ==
    /\ NotifyBegin("close")
    /\ openFileHints' = IF "close" \in types /\ findCurrentHints(o) THEN Drop(openFileHints, o)
                        ELSE openFileHints
    /\ inForce' = IF "close" \in types THEN Drop(inForce, o) ELSE inForce
    /\ UNCHANGED <<performanceHistory, opens, measured>>

\* The hints of the call replace all others.
NotifyHint(o, h) ==
    /\ NotifyBegin("hint")
    /\ openFileHints' = IF "hint" \in types /\ findCurrentHints(o)
                        THEN Put(openFileHints, o, rememberHints(h)) ELSE openFileHints
    /\ inForce' = IF "hint" \in types /\ o \in DOMAIN inForce THEN Put(inForce, o, h) ELSE inForce
    /\ UNCHANGED <<performanceHistory, opens, measured>>

-----------------------------------------------------------------------------
(* Suggestions.                                                            *)

Greater(a, b) ==
    /\ ~a.nan /\ ~b.nan /\ ~b.inf
    /\ a.inf \/ a.sum * b.measurementCount > b.sum * a.measurementCount

\* The loops run from the last entry down to the second; the first of the
\* candidates that nothing later in that order beats.
LeastMeasured(H) ==
    CHOOSE i \in DOMAIN H : \A j \in DOMAIN H :
        /\ H[j].measurementCount >= H[i].measurementCount
        /\ H[j].measurementCount = H[i].measurementCount => i = 1 \/ (j # 1 /\ j <= i)

\* Only a greater average replaces; a NaN is never replaced.
BestFrom(H) ==
    LET best[n \in 0 .. Len(H)] ==   \* after entries Len(H), ..., Len(H) - n + 1
            IF n = 0 THEN 1
            ELSE LET i == Len(H) - n + 1 IN
                 IF i > 1 /\ Greater(H[i], H[best[n - 1]]) THEN i ELSE best[n - 1]
    IN best[Len(H)]

optimalParameter(a) ==
    IF initLevel # -1 \/ lastActionType = "hint" \/ performanceHistory = << >> THEN NotFound
    ELSE LET H == performanceHistory
             l == LeastMeasured(H)
             r == H[IF H[l].measurementCount < kMinTrialCount THEN l ELSE BestFrom(H)].hints
         IN IF a \in DOMAIN r THEN r[a] ELSE NotFound

\* optimalParameterFor of the store, for an open of file f
stored(f, a) ==
    IF f \in DOMAIN StoreHints /\ a \in DOMAIN StoreHints[f] THEN StoreHints[f][a] ELSE NotFound

\* siox_suggest_optimal_value(_for): the optimizer finds its expert ...
siox_suggest_optimal_value(t, a) ==
    /\ Loaded /\ ask[t].phase # "asking"
    /\ ask' = [ask EXCEPT ![t] = [phase |-> "asking", a |-> a, expert |-> expert[a],
                                  raced |-> FALSE, value |-> NotFound, upto |-> 0, hint |-> FALSE]]
    /\ UNCHANGED <<known, initVars, historyVars>>

\* ... and the plugin answers; f is the file to be opened, if any is named.
answer(t, f) ==
    /\ ask[t].phase = "asking"
    /\ \E v \in IF ask[t].expert = "none" THEN {NotFound}
                ELSE IF ask[t].expert = "store" THEN {stored(f, ask[t].a)}
                ELSE IF ask[t].raced THEN AnyValue ELSE {optimalParameter(ask[t].a)} :
         ask' = [ask EXCEPT ![t].phase = "answered", ![t].value = v, ![t].upto = Len(measured),
                            ![t].hint = lastActionType = "hint" \/ initLevel # -1]
    /\ UNCHANGED <<known, initVars, historyVars>>

-----------------------------------------------------------------------------
Init ==
    /\ \E n \in {"open"} \cup Unknown : known = IF n \in Unknown THEN Names \ {n} ELSE Names
    /\ initLevel = 0 /\ types = {} /\ hasSize = FALSE /\ hintTypes = {} /\ catchall = FALSE
    /\ expert = [a \in Attributes |-> "none"] /\ plugin = [p \in {"history", "store"} |-> "new"]
    /\ openFileHints = << >> /\ performanceHistory = << >> /\ lastActionType = "unknown"
    /\ opens = 0 /\ logged = 0 /\ measured = << >> /\ inForce = << >> /\ late = {}
    /\ ask = [t \in Threads |-> [phase |-> "idle", a |-> NotFound, expert |-> "none",
                                 raced |-> FALSE, value |-> NotFound, upto |-> 0, hint |-> FALSE]]

Next ==
    \/ \E n \in Names : Extend(n)
    \/ initPlugin \/ prepareReport \/ initFails \/ initInterface
    \/ (\E k \in Kinds : initTokens(k)) \/ initHintTypes \/ initExpert \/ initDone
    \/ finalize \/ destroy \/ initStore \/ finalizeStore
    \/ \E h \in HintSets : NotifyOpen(h)
    \/ \E o \in 1 .. opens :
          \/ (\E p \in recordPerformance : NotifyAccess(o, p)) \/ NotifyClose(o)
          \/ \E h \in HintSets : NotifyHint(o, h)
    \/ \E t \in Threads :
          \/ \E a \in Attributes : siox_suggest_optimal_value(t, a)
          \/ \E f \in DOMAIN StoreHints \cup {NotFound} : answer(t, f)

Spec == Init /\ [][Next]_vars

-----------------------------------------------------------------------------
(* Properties.                                                             *)

\* What a suggestion from measurements m may be: the hints that were tried
\* least while some were tried too seldom, then any that were never beaten.
\* A first set of hints whose average is not a number stays the choice.
Sound(a, v, m) ==
    LET Of(h) == {i \in DOMAIN m : m[i].hints = h}
        Tried == {m[i].hints : i \in DOMAIN m}
        Has(h, p) == \E i \in Of(h) : m[i].p = p
        sum[S \in SUBSET DOMAIN m] ==
            IF S = {} THEN 0 ELSE LET i == CHOOSE i \in S : TRUE IN m[i].p + sum[S \ {i}]
        Beats(g, h) == /\ ~Has(g, NaN) /\ ~Has(h, NaN) /\ ~Has(h, Infinite)
                       /\ \/ Has(g, Infinite)
                          \/ sum[Of(g)] * Cardinality(Of(h)) > sum[Of(h)] * Cardinality(Of(g))
        Least == {h \in Tried : \A g \in Tried : Cardinality(Of(g)) >= Cardinality(Of(h))}
        Enough == \A h \in Tried : Cardinality(Of(h)) >= kMinTrialCount
        Chosen == IF ~Enough THEN Least
                  ELSE IF Has(m[1].hints, NaN) THEN {m[1].hints}
                  ELSE {h \in Tried : ~Has(h, NaN) /\ \A g \in Tried : ~Beats(g, h)}
    IN IF m = << >> THEN v = NotFound
       ELSE \E h \in Chosen : v = IF a \in DOMAIN h THEN h[a] ELSE NotFound

\* An answer of the history that no Notify disturbed is what the measurements
\* up to then say, also when files were reopened and hints changed between
\* accesses; after a hint of the user there is none.
SuggestionIsBest ==
    \A t \in Threads :
        ask[t].phase = "answered" /\ ask[t].expert = "history" /\ ~ask[t].raced =>
            IF ask[t].hint THEN ask[t].value = NotFound
            ELSE Sound(ask[t].a, ask[t].value, SubSeq(measured, 1, ask[t].upto))

\* An attribute that a living plugin serves has an expert, and the optimizer asks no
\* plugin that is gone; except that it goes on to ask the history for exactly those
\* attributes that became known between the two lookups of initPlugin, which the
\* destructor does not know of.
ExpertsLive ==
    /\ \A a \in Attributes :
          /\ plugin["history"] = "destroyed" => (expert[a] = "history" <=> a \in late)
          /\ plugin["store"] = "destroyed" => expert[a] # "store"
    /\ initLevel = -1 /\ plugin["history"] # "destroyed" =>
          \A a \in hintTypes : expert[a] # "none" \/ plugin["store"] = "destroyed"

\* What the optimizer and its plugins promise.
SuggestionsAreSound == SuggestionIsBest /\ ExpertsLive
=============================================================================
