---------------------------- MODULE MCApplication ---------------------------
(* The instrumented layers, the API they call, and the plugins that learn  *)
(* from or repeat what a program did, for TLC, side by side: a behaviour   *)
(* is about one of them, and the others stay as they are.                  *)
EXTENDS PosixLayer, TLC

CONSTANTS
    Uids,                                  \* the interfaces of the layers
    ApiThreads, Main,                      \* the threads that use the API, ...
    MaxComponents, MaxActivities, ApiCalls, \* ... and its bounds
    \* The recorded program of a replay: its handles, streams, files and bounds.
    ReplayHandles, Pointers, Inherited, Files, ReplaySizes, MaxPosition, ReplayCalls

MCMaxCalls == [l \in Layers |-> IF l = "stdio" THEN 3 ELSE 4]

\* The threads that use the layers, and the interfaces, are interchangeable.
MCSymmetry == Permutations(Threads) \cup Permutations(Uids)

VARIABLES
    part,  \* the component that the behaviour is about
    monitoringDisabled, finalized, initalizationCounter, running, comp,
    registeredComponents, aLayer, cbs, todo, upgrade, thread_id, next_activity_id,
    activity_stack, current_thread_ID, aAct, late, getpid, pid, pc, arg, aCalls,
    \* The plugins take turns in the first nine of these.
    expert, ask, types, openFileHints, performanceHistory, plugin, catchall, hasSize, opens,
    known, initLevel, hintTypes, lastActionType, logged, measured, inForce, tooLate

apiVars == <<monitoringDisabled, finalized, initalizationCounter, running, comp,
             registeredComponents, aLayer, cbs, todo, upgrade, thread_id, next_activity_id,
             activity_stack, current_thread_ID, aAct, late, getpid, pid, pc, arg, aCalls>>

replayVars == <<expert, ask, types, openFileHints, performanceHistory, plugin, catchall,
                hasSize, opens>>
historyVarsOnly == <<known, initLevel, hintTypes, lastActionType, logged, measured, inForce,
                     tooLate>>
pluginVars == <<replayVars, historyVarsOnly>>

API == INSTANCE LowLevelAPI WITH
    Threads <- ApiThreads, Overlap <- FALSE, MaxCalls <- ApiCalls,
    layer <- aLayer, act <- aAct, calls <- aCalls

\* Hints with and without an attribute the plugin knows, a file with stored hints.
History == INSTANCE GenericHistory WITH
    Threads <- {"t"}, Attributes <- {"x", "y"}, StoreHints <- [f |-> [x |-> "s"]],
    Unknown <- {"interface", "size", "user-id", "y"},
    HintSets <- {[x |-> "1", z |-> "0"], [x |-> "2", y |-> "2"]}, Performances <- {1, 3},
    NotFound <- "notfound", AnyValue <- {"1"}, kMinTrialCount <- 2, MaxOpens <- 2,
    MaxActivities <- 6, late <- tooLate

Player == INSTANCE Replay WITH
    Handles <- ReplayHandles, Sizes <- ReplaySizes, MaxCalls <- ReplayCalls,
    app <- expert, unlogged <- ask, mapping <- types, fds <- openFileHints,
    streams <- performanceHistory, own <- plugin, crashed <- catchall, spoiled <- hasSize,
    calls <- opens

-----------------------------------------------------------------------------
MCInit ==
    /\ part \in {"layers", "api", "history", "replay"}
    /\ Init /\ API!Init
    /\ part # "layers" => layer = "posix" /\ enabled
    /\ \/ part # "replay" /\ History!Init /\ (part = "history" \/ known = History!Names)
       \/ part = "replay" /\ Player!Init /\ known = {} /\ initLevel = 0 /\ hintTypes = {}
          /\ lastActionType = "unknown" /\ logged = 0 /\ measured = << >> /\ inForce = << >>
          /\ tooLate = {}

\* Six activities let one file try two sets of hints twice each; with two files, or if
\* a name was not known in time, there are fewer.
HistoryBound ==
    IF types = History!Kinds /\ hasSize /\ hintTypes = {"x", "y"} THEN 7 - opens' ELSE 4

\* The history is asked once; a trace that misses something promises nothing.
MCNext ==
    /\ UNCHANGED part
    /\ \/ part = "layers" /\ Next
          /\ UNCHANGED <<apiVars, pluginVars>>
       \/ part = "api" /\ API!Next
          /\ UNCHANGED <<vars, pluginVars>>
       \/ part = "history" /\ (\A t \in DOMAIN ask : ask[t].phase # "answered") /\ History!Next
          /\ logged' <= HistoryBound
          /\ UNCHANGED <<vars, apiVars>>
       \/ part = "replay" /\ ~hasSize /\ Player!Next
          /\ UNCHANGED <<vars, apiVars, historyVarsOnly>>

allVars == <<part, vars, apiVars, pluginVars>>
MCSpec == MCInit /\ [][MCNext]_allVars

ASSUME ApiAssumption == API!LowLevelAssumption
ASSUME PlayerAssumption == Player!ReplayAssumption
ASSUME History!GenericHistoryAssumption

-----------------------------------------------------------------------------
\* LowLevelAPI: activities have unique IDs, with their pid and parent.
ActivityIdsUnique == part = "api" => API!ActivityIdsUnique

\* LowLevelAPI: after a re-initialisation every layer has its new component.
LayersReturn == part = "api" => API!LayersReturn

\* GenericHistory: a suggestion is what the measurements say, from a living plugin.
SuggestionsAreSound == part = "history" => History!SuggestionsAreSound

\* Replay: what is replayed through a handle goes where it went in the program.
ReplayFollows == part = "replay" => Player!ReplayFollows
=============================================================================
