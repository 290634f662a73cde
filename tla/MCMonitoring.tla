---------------------------- MODULE MCMonitoring ----------------------------
(* The monitoring components for TLC, checked side by side: a behaviour is *)
(* about one of them, and the others stay as they are.                     *)
EXTENDS ActivityMultiplexer

CONSTANTS NoFile,
    Tokens, Files, Watched, FilePositions, Sizes, seekSizeLimit, MaxSurveyed, \* of the surveyor
    ringBufferSize, max_pending_ops,    \* of the forwarder, ...
    MaxForwarded, MaxErrors, MaxStarts  \* ... and its bounds

\* A kind of activities of two types, and others of one.
MCTokens == [open |-> <<"open", "creat">>, seek |-> <<"lseek">>, read |-> <<"read">>,
             write |-> <<"write">>, close |-> <<"close">>]

\* A counter that starts above zero, and one that uses the whole word.
MCCounters == {[min |-> 2, max |-> 3], [min |-> 0, max |-> 15]}

MCSymmetry == Permutations(Loggers) \cup Permutations(Listeners)

VARIABLES
    part,  \* the component that the behaviour is about
    initLevel, known, registered, sReaders, started, th, openFileSurveys, closedFileSurveys,
    sLogs, opens, terminated, handled, peak,
    op, requestCounts, counter, lastValue, gauge, history, lastIndex, updating, since,
    measured, rpc, rint, rlast, rnext, values,
    forwardAllActivities, anomalyStatus, ringBuffer, curPos, sendPos, ringBuffMutex, pos,
    pendingActivities, droppedActivities, client, fPc, element, fQueue, wire, replies,
    logged, fLogs, errors, starts, lost, inserted, flushed, mark, stale

surveyorVars == <<initLevel, known, registered, sReaders, started, th, openFileSurveys,
                  closedFileSurveys, sLogs, opens, terminated, handled, peak>>
statisticVars == <<op, requestCounts, counter, lastValue, gauge, history, lastIndex,
                   updating, since, measured, rpc, rint, rlast, rnext, values>>
forwarderVars == <<forwardAllActivities, anomalyStatus, ringBuffer, curPos, sendPos,
                   ringBuffMutex, pos, pendingActivities, droppedActivities, client, fPc,
                   element, fQueue, wire, replies, logged, fLogs, errors, starts, lost,
                   inserted, flushed, mark, stale>>

Surveyor == INSTANCE FileSurveyor WITH
    Threads <- Loggers, None <- NoFile, Positions <- FilePositions, MaxLogs <- MaxSurveyed,
    MaxRepeats <- 2, readers <- sReaders, logs <- sLogs

Stat == INSTANCE Statistic WITH
    HistorySize <- 2, Increments <- <<1, 2, 4>>, WordSize <- 16,
    Counters <- MCCounters, MaxDelta <- 1, MaxUpdates <- 5, MaxRequesters <- 1,
    ReadIntervals <- {1, 2}

Forwarder == INSTANCE ActivityNetworkForwarder WITH
    None <- "none", Ongoing <- BOOLEAN, MaxLogs <- MaxForwarded, pc <- fPc, queue <- fQueue,
    logs <- fLogs

\* Names known at first: all, or all but one that stops the initialisation at
\* its beginning, within a level, between two levels, or at its end.
MCKnown == {Surveyor!Names} \cup
    {Surveyor!Names \ {n} : n \in {"interface", "creat", "read", "attributes"}}

-----------------------------------------------------------------------------
MCInit ==
    /\ part \in {"multiplexer", "surveyor", "statistic", "forwarder"}
    /\ Init /\ Surveyor!Init /\ Stat!Init /\ Forwarder!Init
    /\ part # "multiplexer" => DOMAIN dispatchers = {"sync"}
    /\ known \in (IF part = "surveyor" THEN MCKnown ELSE {Surveyor!Names})
    /\ part # "statistic" => op = "MIN"
    /\ (counter.min = 0) = (part = "statistic" /\ op = "SUM")
    /\ part # "forwarder" => forwardAllActivities

\* Once a callback of the surveyor is registered twice, nothing is promised of it.
MCNext ==
    /\ UNCHANGED part
    /\ \/ part = "multiplexer" /\ Next
          /\ UNCHANGED <<surveyorVars, statisticVars, forwarderVars>>
       \/ part = "surveyor" /\ Surveyor!RegisteredOnce /\ Surveyor!Next
          /\ UNCHANGED <<vars, statisticVars, forwarderVars>>
       \/ part = "statistic" /\ Stat!Next
          /\ UNCHANGED <<vars, surveyorVars, forwarderVars>>
       \/ part = "forwarder" /\ Forwarder!Next
          /\ UNCHANGED <<vars, surveyorVars, statisticVars>>

allVars == <<part, vars, surveyorVars, statisticVars, forwarderVars>>
MCSpec == MCInit /\ [][MCNext]_allVars

ASSUME SurveyorInstance == Surveyor!SurveyorAssumption
ASSUME Stat!StatisticAssumption
ASSUME ForwarderInstance == Forwarder!ForwarderAssumption

-----------------------------------------------------------------------------
\* FileSurveyor: an activity on an open file is counted in one survey, unless a
\* retried initialisation has registered a callback twice.
CountedOnce == part = "surveyor" => Surveyor!CountedOnce

\* ActivityNetworkForwarder: what is in the ring is sent at most once.
RingIsSentOnce == part = "forwarder" => Forwarder!RingIsSentOnce

\* ActivityNetworkForwarder: the counter is what the connection has to answer.
PendingIsExact == part = "forwarder" => Forwarder!PendingIsExact

\* Statistic: a history holds the reductions of the last measurements, and a reader
\* gets values of one history although it is not locked.
HistoryIsExact == part = "statistic" => Stat!HistoryIsExact
=============================================================================
