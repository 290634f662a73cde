----------------------------- MODULE Statistic -----------------------------
(***************************************************************************)
(* monitoring::Statistic and IncrementalStatistic (Statistic.cpp): the     *)
(* rings that keep, for a requested reduction and every interval, the last *)
(* kHistorySize values, and the reader that walks a ring while the polling *)
(* thread updates it without a lock.  The reductions are independent of    *)
(* each other; op is the one under study.                                  *)
(*                                                                         *)
(* Interval 1 is one measurement, and Increments[k] measurements make one  *)
(* of interval k (1, 10, 100, 600 and 6000 in the code).  Index arithmetic *)
(* is that of size_t, modulo WordSize, which is no multiple of the ring's  *)
(* length, as 2^64 is none of 11.  Sums stay below WordSize.               *)
(***************************************************************************)
EXTENDS Integers, Sequences, FiniteSets, FiniteSetsExt

CONSTANTS
    HistorySize,             \* kHistorySize
    Increments,              \* of the intervals, a sequence
    WordSize,                \* 2^64 in the code
    Counters,                \* the kinds of counters, [min, max] each
    MaxDelta,                \* bound: growth of the counter in one time step
    MaxUpdates,              \* bound: calls of update
    MaxRequesters,           \* bound: requests not cancelled
    ReadIntervals            \* the intervals a reader asks for

Ops == {"MIN", "MAX", "AVERAGE", "SUM"}
Intervals == 1 .. Len(Increments)
\* The static_assert on kHistorySize, and a counter that is polled often enough.
StatisticAssumption ==
    /\ Increments[1] = 1
    /\ \A k \in Intervals \ {1} :
          /\ Increments[k] % Increments[k - 1] = 0
          /\ Increments[k] \div Increments[k - 1] \in 1 .. HistorySize
    /\ WordSize % (HistorySize + 1) # 0
    /\ \A c \in Counters : 0 <= c.min /\ c.min + MaxDelta <= c.max /\ c.max < WordSize
    /\ ReadIntervals \subseteq Intervals

Invalid == -1

VARIABLES
    op,             \* the reduction
    requestCounts,  \* of it
    counter,        \* minValue and maxValue, from overflow_next_value and
                    \* overflow_max_value of the plugin
    lastValue,      \* the counter at the last update
    gauge,          \* gaugeValue, which is the curValue of the Statistic
    history,        \* the rings, one per interval
    lastIndex,
    updating,       \* the history is written and lastIndex is not
    since,          \* the value of lastIndex when the reduction was requested
    measured,       \* the true increments, one per update
    rpc, rint, rlast, rnext, values  \* getHistoricValues: place, interval, index, loop, result

kind == <<op, counter>>
readerVars == <<rpc, rint, rlast, rnext, values>>
vars == <<kind, requestCounts, lastValue, gauge, history, lastIndex, updating, since,
          measured, readerVars>>

-----------------------------------------------------------------------------
(* Indices and reductions.                                                 *)

wrapIndex(index) == (index % WordSize) % (HistorySize + 1)

\* A reduction of f over the indices I.
Reduce(f, I) ==
    CASE op = "MIN" -> Min({f[i] : i \in I})
      [] op = "MAX" -> Max({f[i] : i \in I})
      [] op = "SUM" -> MapThenSumSet(LAMBDA i : f[i], I)
      [] op = "AVERAGE" -> MapThenSumSet(LAMBDA i : f[i], I) \div Cardinality(I)

Period(k) == Increments[k] \div Increments[k - 1]

\* Mutant: one value too few is aggregated.
inferShort(h, k, sourceIndex) ==
    Reduce([off \in 0 .. Period(k) - 1 |-> h[k - 1][wrapIndex(sourceIndex - off)]],
           0 .. (IF Period(k) > 1 THEN Period(k) - 2 ELSE 0))

\* Aggregate the values of interval k - 1 up to sourceIndex.
inferValue(h, k, sourceIndex) ==
    Reduce([off \in 0 .. Period(k) - 1 |-> h[k - 1][wrapIndex(sourceIndex - off)]],
           0 .. Period(k) - 1)

getReducedValue(k) ==
    IF k = 1 THEN gauge ELSE inferValue(history, k, lastIndex \div Increments[k - 1])

\* "+2 to skip the value thats reserved for updating"
historicIndex(last, i) == wrapIndex(last + i + 2)

-----------------------------------------------------------------------------
(* update.                                                                 *)

\* IncrementalStatistic::update
gaugeOf(newValue) ==
    IF newValue < lastValue
    THEN (newValue - lastValue + counter.max - counter.min + 1) % WordSize
    ELSE newValue - lastValue

\* The first value fills the rings.
Initialised(h, v) ==
    IF h[1][wrapIndex(lastIndex + 1)] = Invalid
    THEN [k \in Intervals |-> [s \in 0 .. HistorySize |-> v]] ELSE h

\* The rings after value v was written at newIndex and aggregated level by level
\* as long as newIndex completes the level.
Written(h, v, newIndex) ==
    LET levels == {k \in Intervals : newIndex % Increments[k] = 0}
        ring[k \in Intervals] ==
            IF k \notin levels THEN h[k]
            ELSE IF k = 1 THEN [h[1] EXCEPT ![wrapIndex(newIndex)] = v]
            ELSE [h[k] EXCEPT ![wrapIndex(newIndex \div Increments[k])] =
                    inferValue([j \in Intervals |-> IF j = k - 1 THEN ring[k - 1] ELSE h[j]],
                               k, newIndex \div Increments[k - 1])]
    IN ring

\* The counter of the plugin has grown by delta, modulo its range; update() up
\* to the fence.
Update(delta) ==
    /\ ~updating /\ Len(measured) < MaxUpdates
    /\ LET range == counter.max - counter.min + 1
           newValue == counter.min + ((lastValue - counter.min + delta) % range) IN
       /\ gauge' = gaugeOf(newValue) /\ lastValue' = newValue
    /\ measured' = Append(measured, delta)
    /\ history' = IF requestCounts > 0
                  THEN Written(Initialised(history, gauge'), gauge', lastIndex + 1)
                  ELSE history
    /\ updating' = TRUE
    /\ UNCHANGED <<kind, requestCounts, lastIndex, since, readerVars>>

\* lastIndex = newIndex
UpdatePublish ==
    /\ updating /\ updating' = FALSE
    /\ lastIndex' = (lastIndex + 1) % WordSize
    /\ UNCHANGED <<kind, requestCounts, lastValue, gauge, history, since, measured, readerVars>>

-----------------------------------------------------------------------------
(* Listeners, called by the polling thread between two updates.            *)

requestReduction ==
    /\ ~updating /\ requestCounts < MaxRequesters
    /\ requestCounts' = requestCounts + 1
    /\ since' = IF requestCounts = 0 THEN lastIndex ELSE since
    /\ UNCHANGED <<kind, lastValue, gauge, history, lastIndex, updating, measured, readerVars>>

cancelReductionRequest ==
    /\ ~updating /\ requestCounts > 0
    /\ requestCounts' = requestCounts - 1
    /\ UNCHANGED <<kind, lastValue, gauge, history, lastIndex, updating, since, measured,
                   readerVars>>

\* getHistoricValues: lastIndex is read once ...
ReadStart ==
    /\ rpc = "idle" /\ requestCounts > 0
    /\ rint' \in ReadIntervals
    /\ rpc' = "reading" /\ rnext' = HistorySize - 1
    /\ rlast' = lastIndex \div Increments[rint']
    /\ UNCHANGED <<kind, requestCounts, lastValue, gauge, history, lastIndex, updating, since,
                   measured, values>>

\* ... and the ring slot by slot, the newest value first.
ReadSlot ==
    /\ rpc = "reading"
    /\ values' = [values EXCEPT ![rnext] = history[rint][historicIndex(rlast, rnext)]]
    /\ rnext' = rnext - 1
    /\ rpc' = IF rnext = 0 THEN "done" ELSE "reading"
    /\ UNCHANGED <<kind, requestCounts, lastValue, gauge, history, lastIndex, updating, since,
                   measured, rint, rlast>>

-----------------------------------------------------------------------------
Init ==
    /\ op \in Ops /\ requestCounts = 0
    /\ counter \in Counters /\ lastValue = counter.max /\ gauge = 0
    /\ history = [k \in Intervals |-> [s \in 0 .. HistorySize |-> Invalid]]
    /\ lastIndex = 0 /\ updating = FALSE /\ since = 0 /\ measured = << >>
    /\ rpc = "idle" /\ rint = 1 /\ rlast = 0 /\ rnext = 0
    /\ values = [i \in 0 .. HistorySize - 1 |-> Invalid]

Next == \/ \E delta \in 0 .. MaxDelta : Update(delta)
        \/ UpdatePublish \/ requestReduction \/ cancelReductionRequest
        \/ ReadStart \/ ReadSlot

Spec == Init /\ [][Next]_vars

-----------------------------------------------------------------------------
\* Type correctness of a statistic.
TypeOK ==
    /\ op \in Ops /\ requestCounts \in 0 .. MaxRequesters
    /\ lastValue \in counter.min .. counter.max /\ gauge \in 0 .. WordSize - 1
    /\ history \in [Intervals -> [0 .. HistorySize -> Int]]
    /\ lastIndex \in 0 .. MaxUpdates /\ updating \in BOOLEAN /\ since \in 0 .. MaxUpdates
    /\ rpc \in {"idle", "reading", "done"} /\ rint \in Intervals /\ rlast \in Nat /\ rnext \in Int

\* What the source counted in the n-th period of interval k.
True(k, n) == Reduce(measured, (n - 1) * Increments[k] + 1 .. n * Increments[k])

\* The entries the rings must hold: complete since the reduction was requested,
\* and among the last HistorySize.
Valid(k, n) ==
    /\ requestCounts > 0 /\ n >= 1 /\ (n - 1) * Increments[k] >= since
    /\ n \in (lastIndex \div Increments[k]) - HistorySize + 1 .. lastIndex \div Increments[k]

\* An incremental statistic yields what the source counted since the last poll,
\* through every overflow of the counter, the one at the full word included.
GaugeIsIncrement == measured # << >> => gauge = measured[Len(measured)]

\* A reader that no more than one period of its interval overtakes gets the last
\* values in order, oldest first, with none missing and none torn.
WindowIsConsistent ==
    (rpc = "done" /\ op # "AVERAGE" /\ requestCounts > 0
     /\ (lastIndex + (IF updating THEN 1 ELSE 0)) \div Increments[rint] <= rlast + 1)
        => \A i \in 0 .. HistorySize - 1 :
             LET n == rlast - (HistorySize - 1 - i) IN
             (n >= 1 /\ (n - 1) * Increments[rint] >= since)
                 => values[i] = True(rint, n)

\* Every ring holds the last HistorySize values of its interval, each the
\* reduction of exactly the measurements of its period, although it is computed
\* from the ring below, whose slots are reused, and also while an update is in
\* progress; an average, of which the division loses digits, stays between the
\* extremes of its period.  Between updates getReducedValue yields the reduction
\* of the latest values of the interval below; and readers see one window
\* (WindowIsConsistent).
HistoryIsExact ==
    /\ TypeOK /\ GaugeIsIncrement /\ WindowIsConsistent
    /\ \A k \in Intervals : \A n \in 1 .. MaxUpdates : Valid(k, n) =>
          LET v == history[k][wrapIndex(n)]
              period == {measured[i] : i \in (n - 1) * Increments[k] + 1 .. n * Increments[k]} IN
          IF op = "AVERAGE" THEN v \in Min(period) .. Max(period) ELSE v = True(k, n)
    /\ (op # "AVERAGE" /\ ~updating) =>
          \A k \in Intervals \ {1} :
              LET n == lastIndex \div Increments[k - 1]
                  first == n - Period(k) + 1 IN
              Valid(k - 1, first) =>
                  getReducedValue(k) = Reduce(measured, (first - 1) * Increments[k - 1] + 1
                                                        .. n * Increments[k - 1])
=============================================================================
