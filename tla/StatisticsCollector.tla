------------------------ MODULE StatisticsCollector ------------------------
(***************************************************************************)
(* ThreadedStatisticsCollector with StatisticsMultiplexerSync and a        *)
(* StatisticsCollection: the polling thread lets every provider plugin     *)
(* take its next time step, updates the statistics, pushes them to the     *)
(* collections and notifies the listeners, while other threads register    *)
(* and unregister plugins, listeners and a collection and read values.     *)
(*                                                                         *)
(* The polling thread holds sourcesLock shared from LockSources to         *)
(* UnlockSources, so a writer is excluded in between; a shared section of  *)
(* another thread is one step.  Writing the vector of statistics and       *)
(* reading it in registerListener take two steps each, because these two   *)
(* hold different locks.  The value of a statistic is the number of the    *)
(* time step its plugin took last.                                         *)
(***************************************************************************)
EXTENDS Integers, Sequences, FiniteSets, SequencesExt

CONSTANTS
    Plugins,     \* statistics provider plugins
    Metrics,     \* number of metrics of each plugin
    Listeners,   \* listeners of the multiplexer
    MaxPolls,    \* bound: iterations of the polling thread
    MaxChanges   \* bound: registrations and removals

None == "none"

CollectorAssumption ==
    /\ Metrics \in [Plugins -> Nat \ {0}] /\ {MaxPolls, MaxChanges} \subseteq Nat
    /\ None \notin Plugins \cup Listeners

VARIABLES
    plugins,          \* the sequence of registered plugins
    statistics,       \* the sequence of statistics, <<plugin, metric>>
    statisticsAdded, statisticsRemoved,
    writer,           \* the plugin registerPlugin is at work on, or None
    listeners,        \* set of registered listeners
    lastStatistics,   \* has the multiplexer a pointer to the vector?
    registering,      \* the listener registerListener reads the vector for, or None
    view,             \* the statistics each listener was told of last
    notified,         \* listeners told since they registered
    early,            \* was a listener told of new data before?
    ppc, next,        \* the polling thread, and its loop over the plugins
    step,             \* run_timesteps
    hadAdditions, hadDeletions,
    terminated, opc,  \* stop() by the owner: none, join, stopped
    value,            \* the last time step of each plugin
    collection,       \* statistics of the collection, or << >>
    inCollections,    \* is it registered with the collector?
    communicationBuffer, readBuffer,
    pushedFrom, readFrom,  \* plugins that took part in the step each buffer is from
    changes

srcVars == <<plugins, statistics, statisticsAdded, statisticsRemoved, writer>>
muxVars == <<listeners, lastStatistics, registering, view, notified, early>>
pollVars == <<ppc, next, step, hadAdditions, hadDeletions>>
collVars == <<collection, inCollections, communicationBuffer, readBuffer, pushedFrom, readFrom>>
vars == <<srcVars, muxVars, pollVars, terminated, opc, value, collVars, changes>>

StatisticsOf(p) == [n \in 1 .. Metrics[p] |-> <<p, n>>]

\* sourcesLock is held shared by the polling thread, or exclusively
SharedHeld == ppc \in {"timestep", "update", "push", "flags", "notify", "unlock"}
\* communicationLock of the collection is held by pushValues
Pushing == ppc = "push" /\ next < Len(collection)
Exclusive == ~SharedHeld /\ writer = None

\* stop() has not aborted the process
Alive == opc # "aborted"

MayChange == Alive /\ changes < MaxChanges /\ changes' = changes + 1

-----------------------------------------------------------------------------
(* Registration of plugins.                                                *)

\* Registering twice is an assertion.  plugins.emplace_back, and the statistics are about to be added
registerPlugin(p) ==
    /\ Exclusive /\ MayChange /\ p \notin Range(plugins)
    /\ plugins' = Append(plugins, p) /\ writer' = p
    /\ value' = [value EXCEPT ![p] = step]
    /\ UNCHANGED <<statistics, statisticsAdded, statisticsRemoved, muxVars, pollVars,
                   terminated, opc, collVars>>

\* Mutant: the listeners are not told of the new statistics.
registerQuietly ==
    /\ Alive /\ writer # None /\ writer' = None
    /\ statistics' = statistics \o StatisticsOf(writer)
    /\ UNCHANGED <<plugins, statisticsAdded, statisticsRemoved, muxVars, pollVars, terminated,
                   opc, value, collVars, changes>>

registerPluginEnd ==
    /\ Alive /\ writer # None /\ writer' = None
    /\ statistics' = statistics \o StatisticsOf(writer)
    /\ statisticsAdded' = TRUE
    /\ UNCHANGED <<plugins, statisticsRemoved, muxVars, pollVars, terminated, opc, value,
                   collVars, changes>>

\* The position of plugin p, and of the last statistic of p; 0 if there is none.
IndexOf(p) == SelectLastInSeq(plugins, LAMBDA q : q = p)
LastOf(p) == SelectLastInSeq(statistics, LAMBDA s : s[1] = p)

Erased(s, i) == IF i = 0 THEN s ELSE RemoveAt(s, i)

\* Also called for a plugin that is not registered.  Both loops run backwards
\* and end with a break at the first match.
unregisterPlugin(p) ==
    /\ Exclusive /\ MayChange
    /\ plugins' = Erased(plugins, IndexOf(p)) /\ statistics' = Erased(statistics, LastOf(p))
    /\ statisticsRemoved' = TRUE
    /\ UNCHANGED <<statisticsAdded, writer, muxVars, pollVars, terminated, opc, value,
                   collVars>>

-----------------------------------------------------------------------------
(* The multiplexer.  registerListener holds listenersLock exclusively.     *)

registerListener(l) ==
    /\ registering = None /\ MayChange /\ l \notin listeners
    /\ listeners' = listeners \cup {l}
    /\ registering' = IF lastStatistics THEN l ELSE None
    /\ UNCHANGED <<srcVars, lastStatistics, view, notified, early, pollVars, terminated, opc,
                   value, collVars>>

\* listener->notifyAvailableStatisticsChange( *lastStatistics, true, false )
registerListenerEnd ==
    /\ Alive /\ registering # None /\ registering' = None
    /\ view' = [view EXCEPT ![registering] = statistics]
    /\ notified' = notified \cup {registering}
    /\ UNCHANGED <<srcVars, listeners, lastStatistics, early, pollVars, terminated, opc, value,
                   collVars, changes>>

unregisterListener(l) ==
    /\ registering = None /\ MayChange /\ l \in listeners
    /\ listeners' = listeners \ {l} /\ notified' = notified \ {l}
    /\ UNCHANGED <<srcVars, lastStatistics, registering, view, early, pollVars, terminated,
                   opc, value, collVars>>

-----------------------------------------------------------------------------
(* The polling thread.                                                     *)

PollLeaves(l) == ppc' = l /\ UNCHANGED <<srcVars, terminated, opc, changes>>

LockSources ==
    /\ ppc = "loop" /\ ~terminated /\ writer = None /\ step < MaxPolls
    /\ step' = step + 1 /\ next' = Len(plugins)
    /\ PollLeaves("timestep")
    /\ UNCHANGED <<muxVars, hadAdditions, hadDeletions, value, collVars>>

PollTerminated ==
    /\ ppc = "loop" /\ terminated
    /\ PollLeaves("ended")
    /\ UNCHANGED <<muxVars, next, step, hadAdditions, hadDeletions, value, collVars>>

nextTimestep ==
    /\ ppc = "timestep" /\ next > 0
    /\ value' = [value EXCEPT ![plugins[next]] = step]
    /\ next' = next - 1 /\ PollLeaves("timestep")
    /\ UNCHANGED <<muxVars, step, hadAdditions, hadDeletions, collVars>>

\* statistics[i]->update (module Statistic); the loop over the collections
\* then finds the one there may be
UpdateStatistics ==
    /\ ppc = "timestep" /\ next = 0
    /\ next' = IF inCollections THEN Len(collection) ELSE 0
    /\ PollLeaves("push")
    /\ UNCHANGED <<muxVars, step, hadAdditions, hadDeletions, value, collVars>>

\* pushValues() copies element by element under communicationLock
pushValues ==
    /\ ppc = "push" /\ next > 0
    /\ communicationBuffer' = [communicationBuffer EXCEPT ![next] = value[collection[next][1]]]
    /\ next' = next - 1 /\ pushedFrom' = Range(plugins)
    /\ PollLeaves("push")
    /\ UNCHANGED <<muxVars, step, hadAdditions, hadDeletions, value, collection,
                   inCollections, readBuffer, readFrom>>

pushValuesEnd ==
    /\ ppc = "push" /\ next = 0 /\ PollLeaves("flags")
    /\ UNCHANGED <<muxVars, next, step, hadAdditions, hadDeletions, value, collVars>>

ResetFlags ==
    /\ ppc = "flags" /\ ppc' = "notify"
    /\ hadAdditions' = statisticsAdded /\ hadDeletions' = statisticsRemoved
    /\ statisticsAdded' = FALSE /\ statisticsRemoved' = FALSE
    /\ UNCHANGED <<plugins, statistics, writer, muxVars, next, step, terminated, opc, value,
                   collVars, changes>>

notifyAvailableStatisticsChange ==
    /\ ppc = "notify" /\ registering = None
    /\ PollLeaves("unlock")
    /\ IF hadAdditions \/ hadDeletions
       THEN /\ view' = [l \in Listeners |-> IF l \in listeners THEN statistics ELSE view[l]]
            /\ notified' = notified \cup listeners /\ lastStatistics' = TRUE
       ELSE UNCHANGED <<view, notified, lastStatistics>>
    /\ UNCHANGED <<listeners, registering, early, next, step, hadAdditions, hadDeletions,
                   value, collVars>>

UnlockSources ==
    /\ ppc = "unlock" /\ PollLeaves("newData")
    /\ UNCHANGED <<muxVars, next, step, hadAdditions, hadDeletions, value, collVars>>

newDataAvailable ==
    /\ ppc = "newData" /\ registering = None
    /\ PollLeaves("sleep")
    /\ early' = (early \/ listeners \ notified # {})
    /\ UNCHANGED <<listeners, lastStatistics, registering, view, notified, next, step,
                   hadAdditions, hadDeletions, value, collVars>>

\* Sleep, then return if awoken to terminate, else poll again.
Sleep ==
    /\ ppc = "sleep"
    /\ PollLeaves(IF terminated THEN "ended" ELSE "loop")
    /\ UNCHANGED <<muxVars, next, step, hadAdditions, hadDeletions, value, collVars>>

Poll == LockSources \/ PollTerminated \/ nextTimestep \/ UpdateStatistics \/ pushValues
        \/ pushValuesEnd \/ ResetFlags \/ notifyAvailableStatisticsChange \/ UnlockSources
        \/ newDataAvailable \/ Sleep

-----------------------------------------------------------------------------
(* The owner and the consumer of a collection.                             *)

stop ==
    /\ opc = "none" /\ opc' = "join" /\ terminated' = TRUE
    /\ UNCHANGED <<srcVars, muxVars, pollVars, value, collVars, changes>>

\* join, then sourcesLock.try_lock(): stop aborts if another thread holds it
stopJoin ==
    /\ opc = "join" /\ ppc = "ended"
    /\ opc' = IF writer = None THEN "stopped" ELSE "aborted"
    /\ UNCHANGED <<srcVars, muxVars, pollVars, terminated, value, collVars, changes>>

\* makeCollection looks the statistics up and copies their values without a
\* lock; a thread safe collection over all statistics there are.
makeCollection ==
    /\ collection = << >> /\ statistics # << >> /\ writer = None /\ MayChange
    /\ collection' = statistics
    /\ communicationBuffer' = [i \in DOMAIN statistics |-> value[statistics[i][1]]]
    /\ readBuffer' = communicationBuffer'
    /\ UNCHANGED <<srcVars, muxVars, pollVars, terminated, opc, value, inCollections,
                   pushedFrom, readFrom>>

registerCollection ==
    /\ collection # << >> /\ ~inCollections /\ Alive /\ Exclusive
    /\ inCollections' = TRUE
    /\ UNCHANGED <<srcVars, muxVars, pollVars, terminated, opc, value, collection,
                   communicationBuffer, readBuffer, pushedFrom, readFrom, changes>>

\* ~StatisticsCollection unregisters and frees the buffers.
unregisterCollection ==
    /\ inCollections /\ Exclusive /\ MayChange
    /\ inCollections' = FALSE /\ collection' = << >>
    /\ communicationBuffer' = << >> /\ readBuffer' = << >>
    /\ pushedFrom' = {} /\ readFrom' = {}
    /\ UNCHANGED <<srcVars, muxVars, pollVars, terminated, opc, value>>

\* Mutant: the consumer copies without communicationLock.
fetchUnlocked ==
    /\ Alive /\ inCollections
    /\ readBuffer' = communicationBuffer /\ readFrom' = pushedFrom
    /\ UNCHANGED <<srcVars, muxVars, pollVars, terminated, opc, value, collection,
                   inCollections, communicationBuffer, pushedFrom, changes>>

fetchValues ==
    /\ Alive /\ inCollections /\ ~Pushing
    /\ readBuffer' = communicationBuffer /\ readFrom' = pushedFrom
    /\ UNCHANGED <<srcVars, muxVars, pollVars, terminated, opc, value, collection,
                   inCollections, communicationBuffer, pushedFrom, changes>>

-----------------------------------------------------------------------------
\* The multiplexer is value-initialised, so it knows of no statistics.
Init ==
    /\ plugins = << >> /\ statistics = << >> /\ writer = None
    /\ statisticsAdded = TRUE /\ statisticsRemoved = TRUE
    /\ listeners = {} /\ lastStatistics = FALSE /\ registering = None
    /\ view = [l \in Listeners |-> << >>] /\ notified = {} /\ early = FALSE
    /\ ppc = "loop" /\ next = 0 /\ step = 0 /\ hadAdditions = FALSE /\ hadDeletions = FALSE
    /\ terminated = FALSE /\ opc = "none" /\ value = [p \in Plugins |-> 0]
    /\ collection = << >> /\ inCollections = FALSE
    /\ communicationBuffer = << >> /\ readBuffer = << >>
    /\ pushedFrom = {} /\ readFrom = {} /\ changes = 0

Next ==
    \/ \E p \in Plugins : registerPlugin(p) \/ unregisterPlugin(p)
    \/ \E l \in Listeners : registerListener(l) \/ unregisterListener(l)
    \/ registerPluginEnd \/ registerListenerEnd
    \/ Poll \/ stop \/ stopJoin
    \/ makeCollection \/ registerCollection \/ unregisterCollection \/ fetchValues

Spec == Init /\ [][Next]_vars

\* Every thread inside a function runs on; nobody has to call anything.
FairSpec == Spec /\ WF_vars(Poll) /\ WF_vars(registerPluginEnd)
                 /\ WF_vars(registerListenerEnd) /\ WF_vars(stopJoin)

-----------------------------------------------------------------------------
(* Properties.                                                             *)

Statistics == UNION {Range(StatisticsOf(p)) : p \in Plugins}

\* The type of the state; the buffers have the length of the collection.
TypeOK ==
    /\ Range(plugins) \subseteq Plugins /\ IsInjective(plugins)
    /\ Range(statistics) \subseteq Statistics
    /\ listeners \subseteq Listeners /\ notified \subseteq listeners
    /\ writer \in Plugins \cup {None} /\ registering \in Listeners \cup {None}
    /\ DOMAIN communicationBuffer = DOMAIN collection /\ DOMAIN readBuffer = DOMAIN collection
    /\ next \in Nat
    /\ SharedHeld => writer = None
    /\ {statisticsAdded, statisticsRemoved, lastStatistics, terminated} \subseteq BOOLEAN

\* A statistic in the list belongs to a registered plugin, whose value it
\* refers to (unregisterPlugin: "Remove the dependent Statistics"), unless the
\* plugin has several: the loop leaves all but one of them behind.
StatisticsHavePlugin ==
    \A i \in DOMAIN statistics :
        statistics[i][1] \in Range(plugins) \/ Metrics[statistics[i][1]] > 1

\* Once both change flags are down and the notification is through, every
\* registered listener has been told of exactly the statistics there are,
\* however the registrations interleaved with the polling; and newDataAvailable()
\* "is never called before notifyAvailableStatisticsChange() is called at least
\* once" (StatisticsMultiplexerListener.hpp:26).  The statistics are those of
\* plugins that exist (StatisticsHavePlugin).
ListenersKnow ==
    /\ TypeOK /\ ~early /\ StatisticsHavePlugin
    /\ (~statisticsAdded /\ ~statisticsRemoved /\ writer = None /\ registering = None
        /\ ppc # "notify") => \A l \in listeners : view[l] = statistics

\* A consumer that fetched sees values of one time step: never a mixture of two
\* pushes, for the plugins that took part in the push; and pushValues leaves the
\* values of the current time step of every registered plugin.
FetchIsConsistent ==
    /\ \A i, j \in DOMAIN readBuffer :
          collection[i][1] \in readFrom /\ collection[j][1] \in readFrom
          => readBuffer[i] = readBuffer[j]
    /\ (ppc = "flags" /\ inCollections) =>
          \A i \in DOMAIN collection :
              collection[i][1] \in Range(plugins) => communicationBuffer[i] = step

\* stop() returns or aborts: the polling thread sees the flag.
StopReturns == opc = "join" ~> opc \in {"stopped", "aborted"}

-----------------------------------------------------------------------------
(* The inductive invariant of ListenersKnow and FetchIsConsistent.         *)

ListsOK ==
    /\ plugins \in Seq(Plugins) /\ {statistics, collection} \subseteq Seq(Statistics)
    /\ step \in Nat /\ value \in [Plugins -> Nat] /\ DOMAIN view = Listeners
    /\ {communicationBuffer, readBuffer} \subseteq [DOMAIN collection -> Nat]
    /\ ppc \in {"loop", "timestep", "push", "flags", "notify", "unlock", "newData", "sleep",
                "ended"}

\* A plugin that registers is in the list, and the only statistic of a plugin goes
\* with it.
OwnerInv ==
    /\ writer # None => writer \in Range(plugins)
    /\ \A i \in DOMAIN statistics : LET p == statistics[i][1] IN
          Metrics[p] = 1 => /\ p \in Range(plugins) /\ p # writer
                            /\ \A j \in DOMAIN statistics : statistics[j][1] = p => i = j

\* Without a change that is announced or about to be, the listeners know the
\* statistics, except for the one that registerListener is about to tell.
ToldInv ==
    /\ ~early
    /\ registering # None => registering \in listeners
    /\ ppc = "notify" => ~statisticsAdded /\ ~statisticsRemoved
    /\ ~statisticsAdded /\ ~statisticsRemoved /\ writer = None =>
          \/ ppc = "notify" /\ (hadAdditions \/ hadDeletions)
          \/ lastStatistics /\ \A l \in listeners \ {registering} : view[l] = statistics
    /\ lastStatistics => listeners \ notified \subseteq {registering}
    /\ ppc \in {"unlock", "newData", "sleep"} => lastStatistics

\* The elements of a buffer that are of the plugins in from agree.
Agree(buffer, from) ==
    \A i, j \in DOMAIN collection :
        collection[i][1] \in from /\ collection[j][1] \in from => buffer[i] = buffer[j]

\* The elements after position n have the value of this step.
Pushed(n) ==
    \A i \in DOMAIN collection :
        i > n /\ collection[i][1] \in Range(plugins) => communicationBuffer[i] = step

\* How far a step has come, and that what it leaves in the buffers is of one step.
StepInv ==
    /\ inCollections => collection # << >>
    /\ ~inCollections => pushedFrom = {} /\ readFrom = {}
    /\ ppc = "timestep" => /\ next <= Len(plugins)
                           /\ \A k \in DOMAIN plugins : k > next => value[plugins[k]] = step
    /\ ppc \in {"push", "flags"} => \A p \in Range(plugins) : value[p] = step
    /\ ppc = "push" => next <= Len(collection) /\ (next > 0 => inCollections)
    /\ Pushing /\ inCollections => pushedFrom = Range(plugins) /\ Pushed(next)
    /\ ppc = "flags" /\ inCollections => Pushed(0)
    /\ inCollections /\ ~Pushing => Agree(communicationBuffer, pushedFrom)
    /\ Agree(readBuffer, readFrom)

IInv == TypeOK /\ ListsOK /\ OwnerInv /\ ToldInv /\ StepInv
=============================================================================
