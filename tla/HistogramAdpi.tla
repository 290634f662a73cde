---------------------------- MODULE HistogramAdpi ----------------------------
(***************************************************************************)
(* HistogramAdpiPlugin: rates activities by their duration.  The range of  *)
(* durations is learned from the first activities of a type, or loaded     *)
(* from the topology where another process, or an earlier run, left it.    *)
(*                                                                         *)
(* A process holds giant_mutex during all of Notify, so that it is in one  *)
(* call at most; each call of the topology is a step, the processes share  *)
(* the topology and may die between two steps.  Types of activities do not *)
(* meet: the module is about one.  The counters of the buckets go to the   *)
(* report only: of the histogram the model keeps if it is there.           *)
(***************************************************************************)
EXTENDS Integers, Sequences

CONSTANTS
    Processes, NoValue,
    Durations,
    Word,         \* 2^64 of the code: durations and their differences are below
    buckets, extremeBucketCount, slowFastBucketCount, learnCount,
    MaxActivities,  \* bound: activities of a process in one life
    MaxDeaths       \* bound: deaths of processes

\* A range is counted in natural numbers, NoValue is none of them, and neither
\* kind of special buckets is empty or takes all (100 buckets, 5 and 20 of them
\* special at each end, unless the options say otherwise).
HistogramAssumption ==
    /\ NoValue \notin Nat /\ Word \in Nat \ {0} /\ Durations \subseteq 0 .. Word - 1
    /\ buckets \in Nat \ {0}
    /\ extremeBucketCount \in 1 .. buckets - 1 /\ slowFastBucketCount \in 1 .. buckets - 1

VARIABLES
    ats,       \* ActivityTimeStatistics of each process, known once it is in the map
    stored,    \* the object in the topology: is it there, and its two attributes
    pc, duration, todo,
    deaths,
    learned,   \* history: ranges that were ever learned
    torn       \* history: was a minimum ever loaded without a maximum?

vars == <<ats, stored, pc, duration, todo, deaths, learned, torn>>

\* A new entry of the map.
ActivityTimeStatistics ==
    [known |-> FALSE, minTimeS |-> Word - 1, maxTimeS |-> 0, histogramBucketWidth |-> 0,
     totalOperationCount |-> 0, histogram |-> FALSE]

Goto(p, l) == pc' = [pc EXCEPT ![p] = l]
Return(p) == Goto(p, "idle") /\ duration' = [duration EXCEPT ![p] = 0]

-----------------------------------------------------------------------------
(* The histogram.                                                          *)

\* Unsigned arithmetic: a minimum above the maximum gives a huge width.
WithHistogram(a) ==
    [a EXCEPT !.histogram = TRUE,
              !.histogramBucketWidth = ((a.maxTimeS - a.minTimeS) % Word) \div buckets]

\* The bucket of a duration.  The division is one of integers; its result is
\* the number of buckets, or more, when they do not divide the range.
bucket(a, d) ==
    IF d < a.minTimeS THEN 0
    ELSE IF d < a.maxTimeS THEN (d - a.minTimeS) \div a.histogramBucketWidth
    ELSE buckets - 1

\* Does the code divide by zero?
Undefined(a, d) == a.histogramBucketWidth = 0 /\ a.minTimeS <= d /\ d < a.maxTimeS

\* ABNORMAL_GOOD, GOOD, OK, BAD and ABNORMAL_BAD, in this order.
goodness(b) ==
    IF b < extremeBucketCount THEN 1
    ELSE IF b < slowFastBucketCount THEN 2
    ELSE IF b < buckets - slowFastBucketCount THEN 3
    ELSE IF b < buckets - extremeBucketCount THEN 4
    ELSE 5

-----------------------------------------------------------------------------
(* Notify.                                                                 *)

\* A process dies; the next one begins with an empty map.
Dies(p) ==
    /\ deaths < MaxDeaths /\ deaths' = deaths + 1
    /\ ats' = [ats EXCEPT ![p] = ActivityTimeStatistics]
    /\ todo' = [todo EXCEPT ![p] = << >>] /\ Return(p)

Die(p) == Dies(p) /\ UNCHANGED <<stored, learned, torn>>

\* The lock is taken; the first activity of a type looks for a stored range.
Notify(p, d) ==
    /\ pc[p] = "idle" /\ ats[p].totalOperationCount < MaxActivities
    /\ duration' = [duration EXCEPT ![p] = d]
    /\ ats' = [ats EXCEPT ![p].known = TRUE]
    /\ Goto(p, IF ats[p].known THEN "count" ELSE "lookup")
    /\ UNCHANGED <<stored, todo, deaths, learned, torn>>

lookupRelation(p) ==
    /\ pc[p] = "lookup"
    /\ Goto(p, IF stored.object THEN "readMin" ELSE "count")
    /\ UNCHANGED <<ats, stored, duration, todo, deaths, learned, torn>>

readMin(p) ==
    /\ pc[p] = "readMin"
    /\ Goto(p, IF stored.min = NoValue THEN "count" ELSE "readMax")
    /\ ats' = [ats EXCEPT ![p].minTimeS = IF stored.min = NoValue THEN @ ELSE stored.min]
    /\ UNCHANGED <<stored, duration, todo, deaths, learned, torn>>

\* max.value() of a value that is not there ends the process.
readMax(p) ==
    /\ pc[p] = "readMax"
    /\ torn' = (torn \/ stored.max = NoValue)
    /\ ats' = [ats EXCEPT ![p] = IF stored.max = NoValue THEN @
                                 ELSE WithHistogram([@ EXCEPT !.maxTimeS = stored.max])]
    /\ Goto(p, IF stored.max = NoValue THEN "gone" ELSE "count")
    /\ UNCHANGED <<stored, duration, todo, deaths, learned>>

\* With a histogram: the activity is rated.  A bucket width of 0 ends the
\* process; a count past the end of the vector may.
rate(p) ==
    /\ pc[p] = "count" /\ ats[p].histogram
    /\ LET a == ats[p]  d == duration[p] IN
       \/ /\ ~Undefined(a, d)
          /\ ats' = [ats EXCEPT ![p].totalOperationCount = @ + 1]
          /\ Return(p) /\ UNCHANGED <<todo, deaths>>
       \/ ~Undefined(a, d) /\ bucket(a, d) >= buckets /\ Dies(p)
       \/ Undefined(a, d) /\ Dies(p)
    /\ UNCHANGED <<stored, learned, torn>>

\* Mutant: the attributes are set in the order in which they are read.
SavesMinFirst == <<"min", "max">>

\* The order in which a learned range is stored.
Saves == <<"max", "min">>

\* Without one: the range grows, and after learnCount activities it is learned,
\* if by then it is one; an activity later it is not asked for any more.
learn(p) ==
    /\ pc[p] = "count" /\ ~ats[p].histogram
    /\ LET d == duration[p]
           a == [ats[p] EXCEPT !.totalOperationCount = @ + 1,
                               !.minTimeS = IF @ < d THEN @ ELSE d,
                               !.maxTimeS = IF @ > d THEN @ ELSE d]
       IN  IF a.totalOperationCount = learnCount /\ a.maxTimeS # a.minTimeS
           THEN /\ ats' = [ats EXCEPT ![p] = WithHistogram(a)]
                /\ learned' = learned \cup {<<a.minTimeS, a.maxTimeS>>}
                /\ todo' = [todo EXCEPT ![p] = Saves]
                /\ Goto(p, "register") /\ UNCHANGED duration
           ELSE ats' = [ats EXCEPT ![p] = a] /\ Return(p) /\ UNCHANGED <<learned, todo>>
    /\ UNCHANGED <<stored, deaths, torn>>

registerObject(p) ==
    /\ pc[p] = "register"
    /\ stored' = [stored EXCEPT !.object = TRUE] /\ Goto(p, "save")
    /\ UNCHANGED <<ats, duration, todo, deaths, learned, torn>>

setAttribute(p) ==
    /\ pc[p] = "save"
    /\ stored' = [stored EXCEPT ![Head(todo[p])] =
                    IF Head(todo[p]) = "max" THEN ats[p].maxTimeS ELSE ats[p].minTimeS]
    /\ todo' = [todo EXCEPT ![p] = Tail(@)]
    /\ IF Len(todo[p]) = 1 THEN Return(p) ELSE UNCHANGED <<pc, duration>>
    /\ UNCHANGED <<ats, deaths, learned, torn>>

-----------------------------------------------------------------------------
\* After initPlugin, which registers types, attributes and the parent object.
Init ==
    /\ ats = [p \in Processes |-> ActivityTimeStatistics]
    /\ stored = [object |-> FALSE, max |-> NoValue, min |-> NoValue]
    /\ pc = [p \in Processes |-> "idle"] /\ duration = [p \in Processes |-> 0]
    /\ todo = [p \in Processes |-> << >>]
    /\ deaths = 0 /\ learned = {} /\ torn = FALSE

Next ==
    \E p \in Processes :
        \/ \E d \in Durations : Notify(p, d)
        \/ lookupRelation(p) \/ readMin(p) \/ readMax(p)
        \/ rate(p) \/ learn(p) \/ registerObject(p) \/ setAttribute(p)
        \/ Die(p)

Spec == Init /\ [][Next]_vars

-----------------------------------------------------------------------------
\* A process that finds a minimum in the topology finds a maximum too, although
\* others store and die between the two; and it rates by bounds that were
\* learned: by one range, if only one was ever learned.  (Two processes that
\* store at once may leave the minimum of one and the maximum of the other.)
RangeIsWhole ==
    /\ ~torn
    /\ \A p \in Processes : ats[p].histogram =>
        /\ \E r \in learned : ats[p].minTimeS = r[1]
        /\ \E r \in learned : ats[p].maxTimeS = r[2]
        /\ (\E r \in learned : learned = {r}) => <<ats[p].minTimeS, ats[p].maxTimeS>> \in learned

\* A slower activity is never rated better, whatever range was loaded, one whose
\* minimum is above its maximum and one that the buckets do not divide included.
SlowerIsNotBetter ==
    \A p \in Processes : ats[p].histogram /\ ats[p].histogramBucketWidth > 0 =>
        \A d \in 1 .. Word - 1 : goodness(bucket(ats[p], d - 1)) <= goodness(bucket(ats[p], d))

RatingsAreSound == RangeIsWhole /\ SlowerIsNotBetter

-----------------------------------------------------------------------------
(* The inductive invariant of RatingsAreSound.                             *)

TypeOK ==
    /\ ats \in [Processes ->
         [known : BOOLEAN, minTimeS : Nat, maxTimeS : Nat, histogramBucketWidth : Nat,
          totalOperationCount : Nat, histogram : BOOLEAN]]
    /\ stored \in [object : BOOLEAN, max : Nat \cup {NoValue}, min : Nat \cup {NoValue}]
    /\ duration \in [Processes -> Nat] /\ DOMAIN pc = Processes /\ DOMAIN todo = Processes
    /\ learned \subseteq Nat \X Nat

LearnedMin(m) == \E r \in learned : m = r[1]
LearnedMax(m) == \E r \in learned : m = r[2]

\* What is stored was learned, and the minimum is stored last.
StoredWasLearned ==
    /\ stored.min # NoValue => stored.max # NoValue /\ LearnedMin(stored.min)
    /\ stored.max # NoValue => LearnedMax(stored.max)

\* What a process has loaded or is about to store was learned: a is its entry of
\* the map, l its place and t what it has to store.
HeldWasLearned(a, l, t) ==
    /\ a.histogram => LearnedMin(a.minTimeS) /\ LearnedMax(a.maxTimeS)
    /\ l = "readMax" => stored.min # NoValue /\ LearnedMin(a.minTimeS)
    /\ l \in {"register", "save"} => a.histogram
    /\ l = "register" => t = <<"max", "min">>
    /\ l = "save" => t = <<"max", "min">> \/ (t = <<"min">> /\ stored.max # NoValue)

IInv ==
    /\ TypeOK /\ ~torn /\ StoredWasLearned
    /\ \A p \in Processes : HeldWasLearned(ats[p], pc[p], todo[p])
=============================================================================
