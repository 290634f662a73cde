---------------------------- MODULE MCProcessing ----------------------------
(* The job processor, the statistics collector and the reasoner for TLC,   *)
(* side by side: a behaviour is about one of them, and the others stay put.*)
EXTENDS JobProcessor

CONSTANTS
    Plugins, Metrics, Listeners, MaxPolls, MaxChanges,
    Reasoners, role, upstream, Adpis, Observed, MaxObservations, MaxPushes, MaxStarts

\* A plugin with one statistic and one with two.
MCMetrics == [p1 |-> 1, p2 |-> 2]

\* The reasoner of a process below that of its node.
MCRole == [p |-> "PROCESS", n |-> "NODE"]
MCUpstream == [p |-> "n", n |-> "none"]
MCAdpis == [p |-> {"a"}, n |-> {"b"}]

VARIABLES
    part,  \* the component that the behaviour is about
    plugins, statistics, statisticsAdded, statisticsRemoved, writer, listeners,
    lastStatistics, registering, view, notified, early, ppc, next, step, hadAdditions,
    hadDeletions, cTerminated, cOpc, value, collection, inCollections, communicationBuffer,
    readBuffer, pushedFrom, readFrom, changes,
    adpis, recentObservations, gatheredStatistics, observationRatios, pc, anomalyDetected,
    persistingAnomaly, rTerminated, rOpc, overallState, above, child, pushes, answers,
    serving, observed, due, starts

collectorVars == <<plugins, statistics, statisticsAdded, statisticsRemoved, writer,
                   listeners, lastStatistics, registering, view, notified, early, ppc, next,
                   step, hadAdditions, hadDeletions, cTerminated, cOpc, value, collection,
                   inCollections, communicationBuffer, readBuffer, pushedFrom, readFrom,
                   changes>>
reasonerVars == <<adpis, recentObservations, gatheredStatistics, observationRatios, pc,
                  anomalyDetected, persistingAnomaly, rTerminated, rOpc, overallState,
                  above, child, pushes, answers, serving, observed, due, starts>>

Collector == INSTANCE StatisticsCollector WITH
    terminated <- cTerminated, opc <- cOpc

Reason == INSTANCE Reasoner WITH
    None <- "none", Plugins <- Adpis, terminated <- rTerminated, opc <- rOpc

-----------------------------------------------------------------------------
MCInit ==
    /\ part \in {"job", "collector", "reasoner"}
    /\ Init /\ Collector!Init /\ Reason!Init

MCNext ==
    /\ UNCHANGED part
    /\ \/ part = "job" /\ Next
          /\ UNCHANGED <<collectorVars, reasonerVars>>
       \/ part = "collector" /\ Collector!Next
          /\ UNCHANGED <<vars, reasonerVars>>
       \/ part = "reasoner" /\ Reason!Next
          /\ UNCHANGED <<vars, collectorVars>>

allVars == <<part, vars, collectorVars, reasonerVars>>

\* A step of one component, with the others as they are.
InJob(A) == part = "job" /\ A /\ UNCHANGED <<part, collectorVars, reasonerVars>>
InCollector(A) == part = "collector" /\ A /\ UNCHANGED <<part, vars, reasonerVars>>

\* The fairness of the components.  A behaviour is about one of them, so that
\* fairness of a disjunction over the components is fairness of each.
MCSpec ==
    /\ MCInit /\ [][MCNext]_allVars
    /\ WF_allVars(InJob(process) \/ InCollector(Collector!Poll))
    /\ WF_allVars(InJob(shutdownJoin) \/ InCollector(Collector!stopJoin))
    /\ WF_allVars(InCollector(Collector!registerPluginEnd))
    /\ WF_allVars(InCollector(Collector!registerListenerEnd))

ASSUME CollectorInstance == Collector!CollectorAssumption
ASSUME ReasonerInstance == Reason!ReasonerAssumption

-----------------------------------------------------------------------------
\* StatisticsCollector: a listener has seen every change of the statistics.
ListenersKnow == part = "collector" => Collector!ListenersKnow

\* StatisticsCollector: what a reader fetches is from one time step.
FetchIsConsistent == part = "collector" => Collector!FetchIsConsistent

\* Reasoner: an observation is counted once, by the reasoner of its plugin.
ObservationsAreCounted == part = "reasoner" => Reason!ObservationsAreCounted

\* Reasoner: what its plugins and its children see as abnormal is responded to.
AnomaliesTrigger == part = "reasoner" => Reason!AnomaliesTrigger

\* The calls that join a thread return: ShutdownReturns of the job processor and
\* StopReturns of the collector, as one formula.
JoinsEnd ==
    \/ part = "job" /\ opc = "join"
    \/ part = "collector" /\ cOpc = "join"
    ~>
    \/ part = "job" /\ (opc = "idle" \/ outsideStop)
    \/ part = "collector" /\ cOpc \in {"stopped", "aborted"}
=============================================================================
