------------------------------ MODULE Reasoner ------------------------------
(***************************************************************************)
(* ReasonerStandardImplementation, its communication and the observations   *)
(* of the anomaly plugins.  A reasoner's thread gathers the observations,   *)
(* detects anomalies, assesses its health, pushes it upstream and calls the *)
(* triggers; the answer carries the health of the reasoner above.           *)
(*                                                                          *)
(* What dataMutex protects is one action.  Of a health the overall state is *)
(* kept: its occurrences and issues start afresh in every assessment, and   *)
(* utilization is never set.  Components are not told apart; the statistics *)
(* of the node are left out.  Ratios are computed with integers: the float  *)
(* product yields the same numbers while the total is below 40.             *)
(***************************************************************************)
EXTENDS Integers, Sequences, FiniteSets, SequencesExt, FiniteSetsExt

CONSTANTS
    Reasoners, None,
    role,            \* role[r]: PROCESS, NODE or SYSTEM
    upstream,        \* upstream[r]: another reasoner or None
    Plugins,         \* Plugins[r]: anomaly plugins that connect to r
    Observed,        \* the states that plugins observe
    MaxObservations, \* bound: observations
    MaxPushes,       \* bound: pushes not answered; one too many is lost
    MaxStarts        \* bound: calls of start()

HealthStates == {"ABNORMAL_GOOD", "GOOD", "OK", "BAD", "ABNORMAL_BAD", "ABNORMAL_OTHER"}
Abnormal == {"ABNORMAL_GOOD", "ABNORMAL_BAD", "ABNORMAL_OTHER"}
AllPlugins == UNION {Plugins[r] : r \in Reasoners}
Clients == {r \in Reasoners : upstream[r] # None}
Zero == [s \in HealthStates |-> 0]
Plus(a, b) == [s \in HealthStates |-> a[s] + b[s]]
SumOver(f, ps) == FoldSet(LAMBDA p, a : Plus(a, f[p]), Zero, ps)
Total(a) == a["ABNORMAL_GOOD"] + a["GOOD"] + a["OK"] + a["BAD"] + a["ABNORMAL_BAD"]
            + a["ABNORMAL_OTHER"]

\* Each plugin reports to one reasoner.
ReasonerAssumption ==
    /\ None \notin Reasoners /\ upstream \in [Reasoners -> Reasoners \cup {None}]
    /\ \A r \in Reasoners : IsFiniteSet(Plugins[r])
    /\ \A r, q \in Reasoners : r # q => Plugins[r] \cap Plugins[q] = {}
    /\ Observed \subseteq HealthStates
    /\ {MaxObservations, MaxPushes, MaxStarts} \subseteq Nat

VARIABLES
    adpis,               \* plugins connected, for each reasoner
    recentObservations,  \* of each plugin
    gatheredStatistics,  \* their sums are the observationCounts of the last round
    observationRatios,
    pc,                  \* the thread: none, top, trigger, check, wait, ended
    anomalyDetected, persistingAnomaly,
    terminated, opc,     \* stop() and start() by the owner: new, started, join, stopped
    overallState,        \* of the own health
    above,               \* overallState of the reasoner above, as received
    child,               \* child[r][c]: what r was told by c, or None
    pushes, answers,     \* on the connection of each client
    serving,             \* the server thread has taken a push, and not answered
    observed,            \* history: observations made, for each plugin
    due,                 \* history: gathered something abnormal, triggers not called
    starts

dataVars == <<gatheredStatistics, observationRatios, anomalyDetected,
              persistingAnomaly, overallState, due>>
pluginVars == <<adpis, recentObservations, observed>>
threadVars == <<pc, terminated, opc, starts>>
commVars == <<above, child, pushes, answers, serving>>
vars == <<dataVars, pluginVars, threadVars, commVars>>

Each(v) == [r \in Reasoners |-> v]

Init ==
    /\ adpis = Each({}) /\ recentObservations = [p \in AllPlugins |-> Zero]
    /\ gatheredStatistics = Each(Zero) /\ observationRatios = Each(Zero)
    /\ pc = Each("none") /\ anomalyDetected = Each(FALSE) /\ persistingAnomaly = Each(FALSE)
    /\ terminated = Each(FALSE) /\ opc = Each("new") /\ starts = 0
    /\ overallState = Each("OK") /\ above = Each("OK")
    /\ child = [r \in Reasoners |-> [c \in {x \in Reasoners : upstream[x] = r} |-> None]]
    /\ pushes = [c \in Clients |-> << >>] /\ answers = [c \in Clients |-> << >>]
    /\ serving = [c \in Clients |-> FALSE]
    /\ observed = [p \in AllPlugins |-> Zero] /\ due = Each(FALSE)

-----------------------------------------------------------------------------
(* Anomaly plugins.                                                        *)

connectAnomalyPlugin(r, p) ==
    /\ p \in Plugins[r] \ adpis[r]
    /\ adpis' = [adpis EXCEPT ![r] = @ \cup {p}]
    /\ UNCHANGED <<recentObservations, observed, dataVars, threadVars, commVars>>

addObservation(p, s) ==
    /\ MapThenSumSet(LAMBDA q : Total(observed[q]), AllPlugins) < MaxObservations
    /\ recentObservations' = [recentObservations EXCEPT ![p][s] = @ + 1]
    /\ observed' = [observed EXCEPT ![p][s] = @ + 1]
    /\ UNCHANGED <<adpis, dataVars, threadVars, commVars>>

\* A mutant: the map is copied.
queryCopies(ps) == recentObservations

\* The plugin's map is replaced by a new one.
queryRecentObservations(ps) ==
    [p \in AllPlugins |-> IF p \in ps THEN Zero ELSE recentObservations[p]]

-----------------------------------------------------------------------------
(* The thread.                                                             *)

Ratios(counts, old) ==
    IF Total(counts) > 0 THEN [s \in HealthStates |-> (counts[s] * 100) \div Total(counts)] ELSE old

Abs(n) == IF n < 0 THEN -n ELSE n

\* A mutant: only ratios count.
DetectsRatios(counts, oldCounts, ratios, oldRatios) ==
    \E s \in HealthStates \ {"OK"} : Abs(ratios[s] - oldRatios[s]) >= 2

Detects(counts, oldCounts, ratios, oldRatios) ==
    /\ Total(counts) # Total(oldCounts)
    /\ \/ \E s \in HealthStates \ {"OK"} : Abs(ratios[s] - oldRatios[s]) >= 2
       \/ \E s \in Abnormal : counts[s] > oldCounts[s]

Dominates(ratios, s, least, factor, others) ==
    ratios[s] >= least /\ \A o \in others : ratios[s] > factor * ratios[o]

assessNodeHealth(news, ratios) ==
    IF \E s \in Abnormal : news[s] > 0
    THEN IF Dominates(ratios, "ABNORMAL_GOOD", 1, 2, {"ABNORMAL_BAD", "ABNORMAL_OTHER"})
         THEN "ABNORMAL_GOOD"
         ELSE IF Dominates(ratios, "ABNORMAL_BAD", 1, 2, {"ABNORMAL_GOOD", "ABNORMAL_OTHER"})
         THEN "ABNORMAL_BAD"
         ELSE "ABNORMAL_OTHER"
    ELSE IF Dominates(ratios, "GOOD", 6, 3, {"BAD"}) THEN "GOOD"
    ELSE IF Dominates(ratios, "BAD", 6, 3, {"GOOD"}) THEN "BAD"
    ELSE "OK"

\* Processes and the system get a new health, which is OK.
assess(r, news, ratios) ==
    IF role[r] = "NODE" THEN assessNodeHealth(news, ratios) ELSE "OK"

InFlight(c) == Len(pushes[c]) + (IF serving[c] THEN 1 ELSE 0) + Len(answers[c])

\* The health as it is now is serialised.
pushStateUpstream(r, health) ==
    pushes' = IF r \in Clients /\ InFlight(r) < MaxPushes
              THEN [pushes EXCEPT ![r] = Append(@, health)] ELSE pushes

\* One round up to the release of dataMutex.
PeriodicRun(r) ==
    /\ pc[r] = "top" /\ ~terminated[r]
    /\ LET news == SumOver(recentObservations, adpis[r])
           counts == Plus(gatheredStatistics[r], news)
           ratios == Ratios(counts, observationRatios[r])
           health == assess(r, news, ratios)
       IN  /\ recentObservations' = queryRecentObservations(adpis[r])
           /\ gatheredStatistics' = [gatheredStatistics EXCEPT ![r] = counts]
           /\ observationRatios' = [observationRatios EXCEPT ![r] = ratios]
           /\ persistingAnomaly' = [persistingAnomaly EXCEPT ![r] = anomalyDetected[r]]
           /\ anomalyDetected' = [anomalyDetected EXCEPT ![r] =
                 \/ Detects(counts, gatheredStatistics[r], ratios, observationRatios[r])
                 \/ (role[r] = "PROCESS" /\ above[r] \in Abnormal)]
           /\ overallState' = [overallState EXCEPT ![r] = health]
           /\ pushStateUpstream(r, health)
           /\ due' = [due EXCEPT ![r] =
                 \/ @
                 \/ \E s \in Abnormal : news[s] > 0 \/ (role[r] = "PROCESS" /\ above[r] = s)]
    /\ pc' = [pc EXCEPT ![r] = "trigger"]
    /\ UNCHANGED <<adpis, observed, terminated, opc, starts, above, child, answers, serving>>

\* The triggers, under pluginMutex.
triggerResponse(r) ==
    /\ pc[r] = "trigger"
    /\ due' = [due EXCEPT ![r] = @ /\ ~(anomalyDetected[r] \/ persistingAnomaly[r])]
    /\ pc' = [pc EXCEPT ![r] = "check"]
    /\ UNCHANGED <<gatheredStatistics, observationRatios, anomalyDetected,
                   persistingAnomaly, overallState, pluginVars, terminated, opc, starts, commVars>>

\* Under recentIssuesMutex; and the wait ends: notified, at its timeout, or so.
PeriodicSleep(r) ==
    /\ \/ pc[r] = "check" /\ pc' = [pc EXCEPT ![r] = IF terminated[r] THEN "ended" ELSE "wait"]
       \/ pc[r] = "wait" /\ pc' = [pc EXCEPT ![r] = "top"]
       \/ pc[r] = "top" /\ terminated[r] /\ pc' = [pc EXCEPT ![r] = "ended"]
    /\ UNCHANGED <<dataVars, pluginVars, terminated, opc, starts, commVars>>

-----------------------------------------------------------------------------
(* The owner: also around a fork.                                          *)

\* stop() leaves terminated set.
start(r) ==
    /\ opc[r] \in {"new", "stopped"} /\ starts < MaxStarts
    /\ starts' = starts + 1
    /\ opc' = [opc EXCEPT ![r] = "started"]
    /\ pc' = [pc EXCEPT ![r] = "top"]
    /\ UNCHANGED <<dataVars, pluginVars, terminated, commVars>>

stop(r) ==
    /\ opc[r] = "started"
    /\ terminated' = [terminated EXCEPT ![r] = TRUE]
    /\ opc' = [opc EXCEPT ![r] = "join"]
    /\ UNCHANGED <<dataVars, pluginVars, pc, starts, commVars>>

\* The client with what it has, and the server: its connections break.
stopJoin(r) ==
    /\ opc[r] = "join" /\ pc[r] = "ended"
    /\ opc' = [opc EXCEPT ![r] = "stopped"]
    /\ pushes' = [c \in Clients |-> IF c = r THEN << >> ELSE pushes[c]]
    /\ answers' = [c \in Clients |-> IF r \in {c, upstream[c]} THEN << >> ELSE answers[c]]
    /\ serving' = [c \in Clients |-> serving[c] /\ r \notin {c, upstream[c]}]
    /\ UNCHANGED <<dataVars, pluginVars, pc, terminated, starts, above, child>>

-----------------------------------------------------------------------------
(* Communication.                                                          *)

\* receivedReasonerProcessHealth and receivedReasonerNodeHealth, called by
\* parseReceivedData in the server of the reasoner above.
messageReceived(c) ==
    /\ opc[upstream[c]] \in {"started", "join"} /\ ~serving[c] /\ pushes[c] # << >>
    /\ child' = [child EXCEPT ![upstream[c]][c] = Head(pushes[c])]
    /\ pushes' = [pushes EXCEPT ![c] = Tail(@)]
    /\ serving' = [serving EXCEPT ![c] = TRUE]
    /\ UNCHANGED <<dataVars, pluginVars, threadVars, above, answers>>

\* getNodeHealth or getSystemHealth, and isendResponse.
messageReceivedAnswer(c) ==
    /\ serving[c]
    /\ answers' = [answers EXCEPT ![c] = Append(@, overallState[upstream[c]])]
    /\ serving' = [serving EXCEPT ![c] = FALSE]
    /\ UNCHANGED <<dataVars, pluginVars, threadVars, above, child, pushes>>

\* receivedReasonerNodeHealth and receivedReasonerSystemHealth, in the client.
messageResponseCB(c) ==
    /\ answers[c] # << >>
    /\ above' = [above EXCEPT ![c] = Head(answers[c])]
    /\ answers' = [answers EXCEPT ![c] = Tail(@)]
    /\ UNCHANGED <<dataVars, pluginVars, threadVars, child, pushes, serving>>

\* The connection breaks; what is pending is dropped before the client
\* reconnects.  A server thread may still be at work on the old connection,
\* which sends nothing any more.
connectionErrorCB(c) ==
    /\ opc[c] = "started"
    /\ pushes' = [pushes EXCEPT ![c] = << >>]
    /\ answers' = [answers EXCEPT ![c] = << >>]
    /\ serving' = [serving EXCEPT ![c] = FALSE]
    /\ UNCHANGED <<dataVars, pluginVars, threadVars, above, child>>

Thread(r) == PeriodicRun(r) \/ triggerResponse(r) \/ PeriodicSleep(r)
Network(c) == messageReceived(c) \/ messageReceivedAnswer(c) \/ messageResponseCB(c)

Next ==
    \/ \E r \in Reasoners :
         \/ Thread(r) \/ start(r) \/ stop(r) \/ stopJoin(r)
         \/ \E p \in AllPlugins : connectAnomalyPlugin(r, p)
    \/ \E p \in AllPlugins, s \in Observed : addObservation(p, s)
    \/ \E c \in Clients : Network(c) \/ connectionErrorCB(c)

Spec == Init /\ [][Next]_vars

-----------------------------------------------------------------------------
\* Every observation is counted once, although plugins observe while they are
\* asked and connect after they began: what plugins have handed over and what
\* they still hold is what they observed.
ObservationsAreCounted ==
    \A r \in Reasoners :
        Plus(gatheredStatistics[r], SumOver(recentObservations, Plugins[r]))
        = SumOver(observed, Plugins[r])

\* "All anomaly triggers are notified when an anomaly occurs" (Reasoner.hpp:263):
\* no round ends without it that gathered an abnormal observation or began with
\* an abnormal state of the node.
AnomaliesTrigger == \A r \in Reasoners : due[r] => pc[r] = "trigger"

-----------------------------------------------------------------------------
(* The inductive invariant of the two.                                     *)

Counts == [HealthStates -> Nat]

DataOK ==
    /\ adpis \in [Reasoners -> SUBSET AllPlugins]
    /\ \A r \in Reasoners : adpis[r] \subseteq Plugins[r]
    /\ {recentObservations, observed} \subseteq [AllPlugins -> Counts]
    /\ gatheredStatistics \in [Reasoners -> Counts]
    /\ {due, anomalyDetected, persistingAnomaly} \subseteq [Reasoners -> BOOLEAN]
    /\ DOMAIN pc = Reasoners /\ DOMAIN opc = Reasoners

\* A thread that is not started, or was joined, does nothing; what is due was detected
\* and the triggers are next.
ThreadInv ==
    \A r \in Reasoners :
        /\ opc[r] \in {"new", "stopped"} => pc[r] \in {"none", "ended"}
        /\ due[r] => pc[r] = "trigger" /\ (anomalyDetected[r] \/ persistingAnomaly[r])

IInv == DataOK /\ ThreadInv /\ ObservationsAreCounted
=============================================================================
