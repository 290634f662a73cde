------------------- MODULE ActivityNetworkForwarder_proofs -------------------
(***************************************************************************)
(* What the activity forwarder promises, for every number of threads that  *)
(* log, every size of the ring and every limit: the counter of pending     *)
(* activities is exact, no activity reaches the server twice, and the ring *)
(* holds the most recent activities and is sent once and in order.         *)
(*                                                                         *)
(* Each part of the invariant has a lemma of its own, with one step for    *)
(* each action that may disturb it.                                        *)
(***************************************************************************)
EXTENDS ActivityNetworkForwarder, ListTheorems, FiniteSetTheorems, TLAPS

-----------------------------------------------------------------------------
(* Arithmetic of the ring.                                                 *)

LEMMA WrapValue ==
    ASSUME ForwarderAssumption, NEW p \in Positions
    PROVE  Wrap(p) = (IF p + 1 = ringBufferSize THEN 0 ELSE p + 1) /\ Wrap(p) \in Positions
<1>1. ringBufferSize \in Nat /\ ringBufferSize > 0 /\ p \in Nat /\ p < ringBufferSize
  BY DEF ForwarderAssumption, Positions
<1>2. CASE p + 1 = ringBufferSize
  BY <1>1, <1>2, Z3 DEF Wrap, Positions
<1>3. CASE p + 1 # ringBufferSize
  BY <1>1, <1>3, Z3 DEF Wrap, Positions
<1> QED BY <1>2, <1>3

\* The position of the loop of the trigger, which goes around the ring once.
LEMMA RealPos ==
    ASSUME ForwarderAssumption, NEW p \in Nat
    PROVE  /\ p % ringBufferSize \in Positions
           /\ p < 2 * ringBufferSize =>
                p % ringBufferSize = IF p < ringBufferSize THEN p ELSE p - ringBufferSize
<1>1. ringBufferSize \in Nat /\ ringBufferSize > 0
  BY DEF ForwarderAssumption
<1>2. p % ringBufferSize \in Positions
  BY <1>1, Z3 DEF Positions
<1>3. CASE p < ringBufferSize
  BY <1>1, <1>2, <1>3, Z3
<1>4. CASE p >= ringBufferSize /\ p < 2 * ringBufferSize
  BY <1>1, <1>2, <1>4, Z3
<1> QED BY <1>1, <1>2, <1>3, <1>4

-----------------------------------------------------------------------------
(* Types and locks.                                                        *)

LEMMA ThreadsAre ==
    ASSUME ForwarderAssumption
    PROVE  /\ Notifier \in Threads /\ Trigger \in Threads /\ Loggers \subseteq Threads
           /\ Notifier # Trigger /\ IsFiniteSet(Threads)
           /\ Cardinality(Threads) \in Nat /\ Cardinality(Threads) >= 1
<1>1. IsFiniteSet({Notifier, Trigger}) /\ IsFiniteSet(Loggers)
  <2>1. {Notifier, Trigger} = {Notifier} \cup {Trigger}
    OBVIOUS
  <2>2. IsFiniteSet({Notifier}) /\ IsFiniteSet({Trigger})
    BY FS_Singleton
  <2>3. IsFiniteSet({Notifier} \cup {Trigger})
    BY <2>2, FS_Union
  <2> QED BY <2>1, <2>3 DEF ForwarderAssumption
<1>2. IsFiniteSet(Threads)
  BY <1>1, FS_Union DEF Threads
<1>3. Notifier \in Threads /\ Trigger \in Threads /\ Loggers \subseteq Threads
  BY DEF Threads
<1>4. Cardinality(Threads) \in Nat /\ Cardinality(Threads) # 0
  BY <1>2, <1>3, FS_CardinalityType, FS_EmptySet
<1>5. Notifier # Trigger
  BY DEF Notifier, Trigger
<1> QED BY <1>2, <1>3, <1>4, <1>5

\* The two branches of the loop of the trigger, with the position r.
Take(r) ==
    /\ pc[Trigger] = "loop" /\ pos < ringBufferSize + sendPos /\ ringBuffer[r] # 0
    /\ ringBuffer' = [ringBuffer EXCEPT ![r] = 0]
    /\ flushed' = Append(flushed, ringBuffer[r])
    /\ element' = [element EXCEPT ![Trigger] = ringBuffer[r]]
    /\ pos' = pos + 1 /\ pc' = [pc EXCEPT ![Trigger] = "loopCheck"]
    /\ UNCHANGED <<forwardAllActivities, anomalyStatus, curPos, sendPos, ringBuffMutex, inserted,
                   mark, stale, pendingActivities, droppedActivities, client, netVars, logs, starts>>

Leave(r) ==
    /\ pc[Trigger] = "loop" /\ ~(pos < ringBufferSize + sendPos /\ ringBuffer[r] # 0)
    /\ sendPos' = IF pos < ringBufferSize + sendPos THEN r ELSE curPos
    /\ ringBuffMutex' = None /\ pos' = 0 /\ element' = [element EXCEPT ![Trigger] = 0]
    /\ pc' = [pc EXCEPT ![Trigger] = "idle"]
    /\ UNCHANGED <<forwardAllActivities, anomalyStatus, ringBuffer, curPos, flushed, inserted,
                   mark, stale, pendingActivities, droppedActivities, client, netVars, logs, starts>>

LEMMA LoopCases ==
    ASSUME ForwarderAssumption, TypeInv, TriggerLoop
    PROVE  \E r \in Positions : r = pos % ringBufferSize /\ (Take(r) \/ Leave(r))
<1>1. PICK r : r = pos % ringBufferSize
  OBVIOUS
<1>2. r \in Positions
  BY <1>1, RealPos DEF TypeInv
<1>3. CASE pos < ringBufferSize + sendPos /\ ringBuffer[r] # 0
  <2>1. Take(r)
    BY <1>1, <1>3 DEF TriggerLoop, Take, Go
  <2> QED BY <1>1, <1>2, <2>1
<1>4. CASE ~(pos < ringBufferSize + sendPos /\ ringBuffer[r] # 0)
  <2>1. Leave(r)
    BY <1>1, <1>4 DEF TriggerLoop, Leave, Go
  <2> QED BY <1>1, <1>2, <2>1
<1> QED BY <1>3, <1>4

LEMMA TypeStep == ASSUME ForwarderAssumption, TypeInv, Next PROVE TypeInv'
<1> USE ThreadsAre
<1>1. ASSUME NEW t \in Loggers, Notify(t) PROVE TypeInv'
  <2>1. t \in Threads /\ t # Trigger /\ t # Notifier
    BY DEF ForwarderAssumption
  <2> QED BY <1>1, <2>1 DEF TypeInv, Notify, Called, Go, ringVars, netVars
<1>2. CASE NotifyAsync
  BY <1>2 DEF TypeInv, NotifyAsync, Called, Go, ringVars, netVars
<1>3. CASE Insert
  <2>1. curPos' \in Positions /\ sendPos' \in Positions
    BY <1>3, WrapValue DEF Insert, insert, TypeInv
  <2>2. inserted' \in Seq(Nat) /\ Len(inserted') = Len(inserted) + 1 /\ Len(inserted) \in Nat
    BY <1>3, Appended, InRange DEF Insert, TypeInv
  <2>3. ringBuffer' \in [Positions -> Nat]
    BY <1>3 DEF Insert, insert, TypeInv
  <2>4. /\ pc' = [pc EXCEPT ![Notifier] = "idle"] /\ element' = element
        /\ UNCHANGED <<pos, pendingActivities, replies, lost, logs, mark, queue, wire, logged,
                       flushed, stale, ringBuffMutex>>
    BY <1>3 DEF Insert, Go, netVars
  <2>5. pc' \in [Threads -> {"idle", "check", "isend", "insert", "loop", "loopCheck"}]
        /\ pc'[Trigger] = pc[Trigger]
        /\ \A t \in Threads \ {Trigger} : pc'[t] \notin {"loop", "loopCheck"}
    BY <2>4 DEF TypeInv
  <2>6. stale' \in BOOLEAN /\ mark' <= Len(inserted')
    BY <2>2, <2>4 DEF TypeInv
  <2>7. /\ ringBuffMutex' = IF pc'[Trigger] = "idle" THEN None ELSE Trigger
        /\ pc'[Trigger] \notin {"check", "insert"}
    BY <2>4, <2>5 DEF TypeInv
  <2> QED BY <2>1, <2>2, <2>3, <2>4, <2>5, <2>6, <2>7, Zenon DEF TypeInv
<1>4. ASSUME NEW t \in Threads, Check(t) PROVE TypeInv'
  BY <1>4 DEF TypeInv, Check, Go, ringVars, netVars
<1>5. ASSUME NEW t \in Threads, isend(t) PROVE TypeInv'
  <2>1. queue' \in Seq(Nat)
    BY <1>5, Appended DEF isend, TypeInv
  <2> QED BY <1>5, <2>1 DEF TypeInv, isend, Go, ringVars
<1>6. ASSUME NEW o \in Ongoing, triggerResponseForAnomaly(o) PROVE TypeInv'
  <2>1. Len(inserted) \in Nat /\ sendPos \in Nat
    BY InRange DEF TypeInv, Positions, ForwarderAssumption
  <2> QED BY <1>6, <2>1 DEF TypeInv, triggerResponseForAnomaly, Go, netVars
<1>7. CASE TriggerLoop
  <2>1. PICK r \in Positions : r = pos % ringBufferSize /\ (Take(r) \/ Leave(r))
    BY <1>7, LoopCases
  <2>2. ringBuffer[r] \in Nat
    BY DEF TypeInv
  <2>3. CASE Take(r)
    <3>1. ringBuffer' \in [Positions -> Nat]
      BY <2>3 DEF TypeInv, Take
    <3>2. flushed' \in Seq(Nat)
      BY <2>2, <2>3, Appended DEF TypeInv, Take
    <3> QED BY <2>2, <2>3, <3>1, <3>2 DEF TypeInv, Take, netVars
  <2>4. CASE Leave(r)
    BY <2>4 DEF TypeInv, Leave, netVars
  <2> QED BY <2>1, <2>3, <2>4
<1>8. CASE TriggerCheck
  BY <1>8 DEF TypeInv, TriggerCheck, Go, ringVars, netVars
<1>9. CASE clearAnomalyStatus
  BY <1>9 DEF TypeInv, clearAnomalyStatus, ringVars, netVars
<1>10. CASE start
  BY <1>10 DEF TypeInv, start, ringVars, netVars
<1>11. CASE stop
  <2>1. 0 \in Positions
    BY DEF Positions, ForwarderAssumption
  <2>2. Len(queue) \in Nat /\ Len(wire) \in Nat /\ << >> \in Seq(Nat)
    BY InRange DEF TypeInv
  <2>3. stale' \in BOOLEAN
    BY <1>11 DEF stop, TypeInv
  <2> QED BY <1>11, <2>1, <2>2, <2>3 DEF TypeInv, stop
<1>12. CASE messageSendCB
  <2>1. Len(queue) # 0
    BY <1>12 DEF messageSendCB, TypeInv
  <2>2. wire' \in Seq(Nat) /\ queue' \in Seq(Nat)
    BY <1>12, <2>1, HeadAndTail, Appended, InRange DEF messageSendCB, TypeInv
  <2> QED BY <1>12, <2>2 DEF TypeInv, messageSendCB, Unmoved, ringVars
<1>13. CASE messageReceivedCB
  <2>1. Len(wire) # 0
    BY <1>13 DEF messageReceivedCB, TypeInv
  <2>2. wire' \in Seq(Nat) /\ logged' \in Seq(Nat)
    BY <1>13, <2>1, HeadAndTail, Appended, InRange DEF messageReceivedCB, TypeInv
  <2> QED BY <1>13, <2>2 DEF TypeInv, messageReceivedCB, Unmoved, ringVars
<1>14. CASE messageResponseCB
  BY <1>14 DEF TypeInv, messageResponseCB, Unmoved, ringVars
<1>15. CASE messageTransferErrorCB
  <2>1. Len(wire) \in Nat /\ << >> \in Seq(Nat)
    BY InRange DEF TypeInv
  <2> QED BY <1>15, <2>1 DEF TypeInv, messageTransferErrorCB, Unmoved, ringVars
<1>16. CASE connectionErrorCB
  <2>1. Len(wire) \in Nat /\ << >> \in Seq(Nat)
    BY InRange DEF TypeInv
  <2> QED BY <1>16, <2>1 DEF TypeInv, connectionErrorCB, Unmoved, ringVars
<1> QED BY <1>1, <1>2, <1>3, <1>4, <1>5, <1>6, <1>7, <1>8, <1>9, <1>10, <1>11, <1>12, <1>13, <1>14,
   <1>15, <1>16 DEF Next

-----------------------------------------------------------------------------
(* The counter of pending activities.                                      *)

LEMMA SendingIs ==
    ASSUME ForwarderAssumption
    PROVE  /\ IsFiniteSet(Sending) /\ Cardinality(Sending) \in Nat
           /\ Cardinality(Sending) <= Cardinality(Threads)
<1>1. Sending \subseteq Threads /\ IsFiniteSet(Threads)
  BY ThreadsAre DEF Sending
<1> QED BY <1>1, FS_Subset, FS_CardinalityType

LEMMA SendingIsNext ==
    ASSUME ForwarderAssumption
    PROVE  Cardinality(Sending') \in Nat /\ Cardinality(Sending') <= Cardinality(Threads)
<1>1. Sending' \subseteq Threads /\ IsFiniteSet(Threads)
  BY ThreadsAre DEF Sending
<1> QED BY <1>1, FS_Subset, FS_CardinalityType

\* A thread that comes from another place than isend and goes to another one.
LEMMA SendingSame ==
    ASSUME TypeInv, NEW t \in Threads, NEW l, pc[t] # "isend", l # "isend",
           pc' = [pc EXCEPT ![t] = l]
    PROVE  Sending' = Sending
BY DEF Sending, TypeInv

\* A thread passes the check: it may be one of as many as there are, but then the
\* counter was below the limit.
LEMMA Passed ==
    ASSUME ForwarderAssumption, TypeInv, CountInv, pendingActivities < max_pending_ops,
           UNCHANGED <<pendingActivities, queue, wire, replies, lost>>
    PROVE  CountInv'
<1>1. Cardinality(Sending') <= Cardinality(Threads) /\ Cardinality(Sending') \in Nat
  BY SendingIsNext
<1>2. Cardinality(Threads) \in Nat
  BY ThreadsAre
<1> QED BY <1>1, <1>2 DEF CountInv, TypeInv, ForwarderAssumption

\* A step that changes neither the network nor who is sending.
LEMMA CountSame ==
    ASSUME CountInv, Sending' = Sending, UNCHANGED <<pendingActivities, queue, wire, replies, lost>>
    PROVE  CountInv'
BY DEF CountInv

LEMMA CountStep == ASSUME ForwarderAssumption, TypeInv, CountInv, Next PROVE CountInv'
<1> USE ThreadsAre, SendingIs
<1> DEFINE S == Cardinality(Sending)
           T == Cardinality(Threads)
<1>0. /\ Len(queue) \in Nat /\ Len(wire) \in Nat /\ replies \in Nat /\ lost \in Nat
      /\ S \in Nat /\ T \in Nat /\ T >= 1 /\ max_pending_ops \in Nat /\ pendingActivities \in Int
      /\ pendingActivities = Len(queue) + Len(wire) + replies + lost
      /\ pendingActivities + S <= max_pending_ops + T - 1
  BY InRange DEF TypeInv, CountInv, ForwarderAssumption
<1>1. ASSUME NEW t \in Loggers, Notify(t) PROVE CountInv'
  <2>1. Sending' = Sending
    BY <1>1, SendingSame DEF Notify, Called, Go
  <2> QED BY <1>1, <2>1, CountSame DEF Notify, Called, netVars
<1>2. CASE NotifyAsync
  <2>1. Sending' = Sending
    BY <1>2, SendingSame DEF NotifyAsync, Called, Go
  <2> QED BY <1>2, <2>1, CountSame DEF NotifyAsync, Called, netVars
<1>3. CASE Insert
  <2>1. Sending' = Sending
    BY <1>3, SendingSame DEF Insert, Go
  <2> QED BY <1>3, <2>1, CountSame DEF Insert, netVars
<1>4. ASSUME NEW t \in Threads, Check(t) PROVE CountInv'
  <2>1. CASE pendingActivities < max_pending_ops
    BY <1>4, <2>1, Passed DEF Check, netVars
  <2>2. CASE ~(pendingActivities < max_pending_ops)
    <3>1. Sending' = Sending
      BY <1>4, <2>2, SendingSame DEF Check, Go
    <3> QED BY <1>4, <3>1, CountSame DEF Check, netVars
  <2> QED BY <2>1, <2>2
<1>5. ASSUME NEW t \in Threads, isend(t) PROVE CountInv'
  <2>1. t \in Sending /\ Sending' = Sending \ {t}
    BY <1>5 DEF isend, Go, Sending, TypeInv
  <2>2. Cardinality(Sending') = S - 1
    BY <2>1, FS_RemoveElement
  <2>3. Len(queue') = Len(queue) + 1
    BY <1>5, Appended DEF isend, TypeInv
  <2>4. UNCHANGED <<wire, replies, lost>> /\ pendingActivities' = pendingActivities + 1
    BY <1>5 DEF isend
  <2> HIDE DEF S, T
  <2>5. /\ pendingActivities' = Len(queue') + Len(wire') + replies' + lost'
        /\ pendingActivities' + Cardinality(Sending') <= max_pending_ops + T - 1
    BY <1>0, <2>2, <2>3, <2>4
  <2> QED BY <2>5 DEF CountInv, T
<1>6. ASSUME NEW o \in Ongoing, triggerResponseForAnomaly(o) PROVE CountInv'
  <2>1. Sending' = Sending
    BY <1>6, SendingSame DEF triggerResponseForAnomaly, Go
  <2> QED BY <1>6, <2>1, CountSame DEF triggerResponseForAnomaly, netVars
<1>7. CASE TriggerLoop
  <2>1. PICK r \in Positions : Take(r) \/ Leave(r)
    BY <1>7, LoopCases
  <2>2. Sending' = Sending
    BY <2>1, SendingSame DEF Take, Leave
  <2> QED BY <2>1, <2>2, CountSame DEF Take, Leave, netVars
<1>8. CASE TriggerCheck
  <2>1. CASE pendingActivities < max_pending_ops
    BY <1>8, <2>1, Passed DEF TriggerCheck, netVars
  <2>2. CASE ~(pendingActivities < max_pending_ops)
    <3>1. Sending' = Sending
      BY <1>8, <2>2, SendingSame DEF TriggerCheck, Go
    <3> QED BY <1>8, <3>1, CountSame DEF TriggerCheck, netVars
  <2> QED BY <2>1, <2>2
<1>9. CASE clearAnomalyStatus \/ start
  <2>1. Sending' = Sending
    BY <1>9 DEF clearAnomalyStatus, start, Sending
  <2> QED BY <1>9, <2>1, CountSame DEF clearAnomalyStatus, start, netVars
<1>10. ASSUME stop \/ messageSendCB \/ messageReceivedCB \/ messageResponseCB
              \/ messageTransferErrorCB \/ connectionErrorCB
       PROVE  CountInv'
  <2>1. Sending' = Sending
    BY <1>10 DEF stop, messageSendCB, messageReceivedCB, messageResponseCB, messageTransferErrorCB,
       connectionErrorCB, Unmoved, Sending
  <2>2. queue # << >> => Len(Tail(queue)) = Len(queue) - 1 /\ Len(Append(wire, Head(queue))) = Len(wire) + 1
    BY HeadAndTail, Appended, InRange DEF TypeInv
  <2>3. wire # << >> => Len(Tail(wire)) = Len(wire) - 1
    BY HeadAndTail DEF TypeInv
  <2> HIDE DEF S, T
  <2>4. CASE stop
    BY <1>0, <2>1, <2>4 DEF CountInv, stop, S, T
  <2>5. CASE messageSendCB
    BY <1>0, <2>1, <2>2, <2>5 DEF CountInv, messageSendCB, S, T
  <2>6. CASE messageReceivedCB
    BY <1>0, <2>1, <2>3, <2>6 DEF CountInv, messageReceivedCB, S, T
  <2>7. CASE messageResponseCB
    BY <1>0, <2>1, <2>7 DEF CountInv, messageResponseCB, S, T
  <2>8. CASE messageTransferErrorCB
    BY <1>0, <2>1, <2>8 DEF CountInv, messageTransferErrorCB, S, T
  <2>9. CASE connectionErrorCB
    BY <1>0, <2>1, <2>9 DEF CountInv, connectionErrorCB, S, T
  <2> QED BY <1>10, <2>4, <2>5, <2>6, <2>7, <2>8, <2>9
<1> QED BY <1>1, <1>2, <1>3, <1>4, <1>5, <1>6, <1>7, <1>8, <1>9, <1>10 DEF Next

-----------------------------------------------------------------------------
(* An activity is at one place.                                            *)

LEMMA OnceAppend ==
    ASSUME NEW s \in Seq(Nat), Once(s), NEW e \in Nat, e \notin Range(s)
    PROVE  Once(Append(s, e))
<1> DEFINE a == Append(s, e)
           N == Len(s)
<1>1. /\ N \in Nat /\ a \in Seq(Nat) /\ Len(a) = N + 1
      /\ \A n \in 1 .. N + 1 : a[n] = IF n = N + 1 THEN e ELSE s[n]
  BY Appended, InRange
<1> HIDE DEF a
<1>2. ASSUME NEW i \in 1 .. N + 1, NEW j \in 1 .. N + 1, i # j PROVE a[i] # a[j]
  <2>1. CASE i # N + 1 /\ j # N + 1
    <3>1. i \in 1 .. N /\ j \in 1 .. N
      BY <1>1, <2>1
    <3> QED BY <1>1, <1>2, <2>1, <3>1, InRange DEF Once
  <2>2. CASE i = N + 1
    <3>1. j \in 1 .. N
      BY <1>1, <1>2, <2>2
    <3> QED BY <1>1, <1>2, <2>2, <3>1, InRange
  <2>3. CASE j = N + 1
    <3>1. i \in 1 .. N
      BY <1>1, <1>2, <2>3
    <3> QED BY <1>1, <1>2, <2>3, <3>1, InRange
  <2> QED BY <2>1, <2>2, <2>3
<1> QED BY <1>1, <1>2, InRange DEF Once, a

LEMMA OnceTail ==
    ASSUME NEW s \in Seq(Nat), Once(s), Len(s) # 0
    PROVE  Once(Tail(s)) /\ Head(s) \notin Range(Tail(s))
<1> DEFINE a == Tail(s)
           N == Len(s)
           e == Head(s)
<1>1. /\ N \in Nat /\ a \in Seq(Nat) /\ Len(a) = N - 1 /\ e = s[1]
      /\ \A n \in 1 .. N - 1 : a[n] = s[n + 1]
  BY HeadAndTail, InRange
<1> HIDE DEF a, e
<1>2. ASSUME NEW i \in 1 .. N - 1, NEW j \in 1 .. N - 1, i # j PROVE a[i] # a[j]
  <2>1. i + 1 \in DOMAIN s /\ j + 1 \in DOMAIN s /\ i + 1 # j + 1
    BY <1>1, <1>2, InRange
  <2>2. s[i + 1] # s[j + 1]
    BY <2>1 DEF Once
  <2> QED BY <1>1, <2>2
<1>3. ASSUME NEW x \in Range(a) PROVE x # e
  <2>1. PICK n \in 1 .. N - 1 : x = a[n]
    BY <1>1, InRange
  <2>2. n + 1 \in DOMAIN s /\ 1 \in DOMAIN s /\ 1 # n + 1
    <3>1. DOMAIN s = 1 .. N /\ n \in 1 .. N - 1
      BY <2>1, InRange
    <3> QED BY <1>1, <3>1
  <2>3. s[n + 1] # s[1]
    BY <2>2 DEF Once
  <2> QED BY <1>1, <2>1, <2>3
<1> QED BY <1>1, <1>2, <1>3, InRange DEF Once, a, e

LEMMA OnceEmpty == << >> \in Seq(Nat) /\ Once(<< >>) /\ Range(<< >>) = {} /\ Increasing(<< >>)
<1>1. << >> \in Seq(Nat) /\ Len(<< >>) = 0
  OBVIOUS
<1>2. Range(<< >>) = {}
  BY <1>1, InRange
<1>3. Once(<< >>) /\ Increasing(<< >>)
  BY <1>1 DEF Once, Increasing
<1> QED BY <1>1, <1>2, <1>3

\* Different slots hold different activities.
Apart(r) == \A p, q \in Positions : p # q => r[p] = 0 \/ r[p] # r[q]

\* Filling a slot with a new activity and emptying one.
LEMMA Filled ==
    ASSUME TypeInv, NEW p \in Positions, NEW e \in Nat \ {0}, e \notin Kept, Apart(ringBuffer),
           ringBuffer' = [ringBuffer EXCEPT ![p] = e]
    PROVE  Kept' \subseteq Kept \cup {e} /\ e \in Kept' /\ Apart(ringBuffer')
<1>1. /\ ringBuffer'[p] = e
      /\ \A q \in Positions : q # p => ringBuffer'[q] = ringBuffer[q]
      /\ \A q \in Positions : ringBuffer[q] # e
  BY DEF TypeInv, Kept
<1>2. Apart(ringBuffer')
  BY <1>1 DEF Apart
<1> QED BY <1>1, <1>2 DEF Kept

LEMMA Emptied ==
    ASSUME TypeInv, NEW p \in Positions, ringBuffer[p] # 0, Apart(ringBuffer),
           ringBuffer' = [ringBuffer EXCEPT ![p] = 0]
    PROVE  Kept' = Kept \ {ringBuffer[p]} /\ ringBuffer[p] \in Kept /\ Apart(ringBuffer')
<1>1. /\ ringBuffer'[p] = 0
      /\ \A q \in Positions : q # p => ringBuffer'[q] = ringBuffer[q] /\ ringBuffer[q] # ringBuffer[p]
  BY DEF TypeInv, Apart
<1>2. Apart(ringBuffer')
  BY <1>1 DEF Apart
<1> QED BY <1>1, <1>2 DEF Kept

\* What OnceInv says of the network and of the threads.
NetOnce ==
    /\ Once(queue) /\ Once(wire) /\ Once(logged)
    /\ Range(queue) \cap Range(wire) = {} /\ Range(logged) \cap (Range(queue) \cup Range(wire)) = {}
HeldApart ==
    \A t \in Held : /\ element[t] \in 1 .. logs \ (Sent \cup Kept)
                    /\ \A u \in Held \ {t} : element[u] # element[t]

LEMMA OnceParts ==
    OnceInv <=> /\ NetOnce /\ Sent \subseteq 1 .. logs /\ Kept \subseteq 1 .. logs
                /\ Sent \cap Kept = {} /\ Apart(ringBuffer) /\ HeldApart
BY DEF OnceInv, NetOnce, Apart, HeldApart

LEMMA OncePartsNext ==
    OnceInv' <=> /\ NetOnce' /\ Sent' \subseteq 1 .. logs' /\ Kept' \subseteq 1 .. logs'
                 /\ Sent' \cap Kept' = {} /\ Apart(ringBuffer') /\ HeldApart'
BY DEF OnceInv, NetOnce, Apart, HeldApart

\* A step that takes nothing new, and from which no activity is anywhere it was not.
LEMMA OnceFrame ==
    ASSUME OnceInv, NetOnce', Sent' \subseteq Sent, ringBuffer' = ringBuffer, logs' = logs,
           Held' \subseteq Held, \A t \in Held' : element'[t] = element[t]
    PROVE  OnceInv'
<1>1. Kept' = Kept /\ Apart(ringBuffer')
  BY OnceParts DEF Kept
<1>2. HeldApart'
  BY <1>1, OnceParts DEF HeldApart
<1> QED BY <1>1, <1>2, OnceParts, OncePartsNext

\* The same for the threads only.
LEMMA OnceFrameThreads ==
    ASSUME OnceInv, UNCHANGED <<queue, wire, logged>>, ringBuffer' = ringBuffer, logs' = logs,
           Held' \subseteq Held, \A t \in Held' : element'[t] = element[t]
    PROVE  OnceInv'
<1>1. NetOnce' /\ Sent' = Sent
  BY OnceParts DEF NetOnce, Sent
<1> QED BY <1>1, OnceFrame

\* The same for the network only.
LEMMA OnceFrameNet ==
    ASSUME OnceInv, NetOnce', Sent' \subseteq Sent, UNCHANGED <<ringBuffer, logs, pc, element>>
    PROVE  OnceInv'
<1>1. Held' = Held
  BY DEF Held
<1> QED BY <1>1, OnceFrame

\* A call begins, with an activity that nobody has seen.
LEMMA OnceCalled ==
    ASSUME TypeInv, OnceInv, NEW t \in Threads, Called(t), NEW l, Go(t, l)
    PROVE  OnceInv'
<1> DEFINE e == logs + 1
<1>1. /\ NetOnce' /\ Sent' = Sent /\ Kept' = Kept /\ ringBuffer' = ringBuffer
      /\ logs' = e /\ Held' \subseteq Held \cup {t} /\ t \notin Held
  BY OnceParts DEF Called, ringVars, netVars, NetOnce, Sent, Kept, Held, Go, TypeInv
<1>2. element'[t] = e /\ \A u \in Held : element'[u] = element[u]
  BY <1>1 DEF Called, TypeInv, Held
<1>3. e \in 1 .. e /\ 1 .. logs \subseteq 1 .. e /\ e \notin 1 .. logs
  BY DEF TypeInv
<1> HIDE DEF e
<1>4. HeldApart'
  BY <1>1, <1>2, <1>3, OnceParts DEF HeldApart
<1> QED BY <1>1, <1>3, <1>4, OnceParts, OncePartsNext

LEMMA OnceStep == ASSUME ForwarderAssumption, TypeInv, OnceInv, Next PROVE OnceInv'
<1> USE ThreadsAre
<1>1. ASSUME NEW t \in Loggers, Notify(t) PROVE OnceInv'
  BY <1>1, OnceCalled DEF Notify
<1>2. CASE NotifyAsync
  BY <1>2, OnceCalled DEF NotifyAsync
<1>3. CASE Insert
  <2> DEFINE e == element[Notifier]
  <2>1. Notifier \in Held /\ Held' = Held \ {Notifier} /\ element' = element /\ logs' = logs
    BY <1>3 DEF Insert, Go, Held, TypeInv
  <2>2. e \in 1 .. logs /\ e \in Nat \ {0} /\ e \notin Kept /\ e \notin Sent
    BY <2>1, OnceParts DEF HeldApart, TypeInv
  <2>3. Kept' \subseteq Kept \cup {e} /\ Apart(ringBuffer')
    BY <1>3, <2>2, Filled, OnceParts DEF Insert, insert, TypeInv
  <2>4. NetOnce' /\ Sent' = Sent
    BY <1>3, OnceParts DEF Insert, netVars, NetOnce, Sent
  <2>5. HeldApart'
    BY <2>1, <2>3, <2>4, OnceParts DEF HeldApart
  <2> HIDE DEF e
  <2> QED BY <2>1, <2>2, <2>3, <2>4, <2>5, OnceParts, OncePartsNext
<1>4. ASSUME NEW t \in Threads, Check(t) PROVE OnceInv'
  <2>1. Held' \subseteq Held /\ element' = element
    BY <1>4 DEF Check, Go, Held, TypeInv
  <2> QED BY <1>4, <2>1, OnceFrameThreads DEF Check, ringVars, netVars
<1>5. ASSUME NEW t \in Threads, isend(t) PROVE OnceInv'
  <2> DEFINE e == element[t]
  <2>1. t \in Held /\ Held' = Held \ {t} /\ element' = element /\ logs' = logs
    BY <1>5 DEF isend, Go, Held, TypeInv
  <2>2. e \in 1 .. logs /\ e \in Nat /\ e \notin Kept /\ e \notin Sent
    BY <2>1, OnceParts DEF HeldApart, TypeInv
  <2>3. ringBuffer' = ringBuffer /\ Kept' = Kept /\ UNCHANGED <<wire, logged>>
    BY <1>5 DEF isend, ringVars, Kept
  <2>4. Once(queue') /\ Range(queue') = Range(queue) \cup {e}
    BY <1>5, <2>2, OnceAppend, Appended, OnceParts DEF isend, Sent, TypeInv, NetOnce
  <2>5. Sent' = Sent \cup {e}
    BY <2>3, <2>4 DEF Sent
  <2> HIDE DEF e
  <2>6. NetOnce'
    BY <2>2, <2>3, <2>4, OnceParts DEF NetOnce, Sent
  <2>7. HeldApart'
    BY <2>1, <2>3, <2>5, OnceParts DEF HeldApart, e
  <2> QED BY <2>1, <2>2, <2>3, <2>5, <2>6, <2>7, OnceParts, OncePartsNext
<1>6. ASSUME NEW o \in Ongoing, triggerResponseForAnomaly(o) PROVE OnceInv'
  <2>1. Held' \subseteq Held /\ element' = element
    BY <1>6 DEF triggerResponseForAnomaly, Go, Held, TypeInv
  <2> QED BY <1>6, <2>1, OnceFrameThreads DEF triggerResponseForAnomaly, netVars
<1>7. CASE TriggerLoop
  <2>1. PICK r \in Positions : Take(r) \/ Leave(r)
    BY <1>7, LoopCases
  <2>2. CASE Take(r)
    <3> DEFINE e == ringBuffer[r]
    <3>1. Kept' = Kept \ {e} /\ e \in Kept /\ Apart(ringBuffer')
      BY <2>2, Emptied, OnceParts DEF Take
    <3>2. Trigger \notin Held /\ Held' = Held \cup {Trigger} /\ logs' = logs
      BY <2>2 DEF Take, Held, TypeInv
    <3>3. element'[Trigger] = e /\ \A u \in Held : element'[u] = element[u]
      BY <2>2, <3>2 DEF Take, TypeInv, Held
    <3>4. NetOnce' /\ Sent' = Sent
      BY <2>2, OnceParts DEF Take, netVars, NetOnce, Sent
    <3> HIDE DEF e
    <3>5. HeldApart'
      BY <3>1, <3>2, <3>3, <3>4, OnceParts DEF HeldApart
    <3> QED BY <3>1, <3>2, <3>4, <3>5, OnceParts, OncePartsNext
  <2>3. CASE Leave(r)
    <3>1. Trigger \notin Held /\ Held' \subseteq Held /\ \A u \in Held : element'[u] = element[u]
      BY <2>3 DEF Leave, Held, TypeInv
    <3> QED BY <2>3, <3>1, OnceFrameThreads DEF Leave, netVars
  <2> QED BY <2>1, <2>2, <2>3
<1>8. CASE TriggerCheck
  <2>1. Held' \subseteq Held /\ element' = element
    BY <1>8 DEF TriggerCheck, Go, Held, TypeInv
  <2> QED BY <1>8, <2>1, OnceFrameThreads DEF TriggerCheck, ringVars, netVars
<1>9. CASE clearAnomalyStatus \/ start
  <2>1. Held' = Held /\ element' = element
    BY <1>9 DEF clearAnomalyStatus, start, Held
  <2> QED BY <1>9, <2>1, OnceFrameThreads DEF clearAnomalyStatus, start, ringVars, netVars
<1>10. CASE stop
  <2>1. NetOnce' /\ Sent' \subseteq Sent
    BY <1>10, OnceParts, OnceEmpty DEF stop, NetOnce, Sent
  <2> QED BY <1>10, <2>1, OnceFrameNet DEF stop
<1>11. CASE messageSendCB
  <2> DEFINE e == Head(queue)
  <2>1. Len(queue) # 0
    BY <1>11 DEF messageSendCB, TypeInv
  <2>2. /\ e \in Nat /\ e \in Range(queue) /\ Range(queue) = Range(queue') \cup {e}
        /\ Once(queue') /\ e \notin Range(queue')
    BY <1>11, <2>1, HeadAndTail, OnceTail, InRange, OnceParts DEF messageSendCB, TypeInv, NetOnce
  <2>3. e \notin Range(wire) /\ e \notin Range(logged)
    BY <2>2, OnceParts DEF NetOnce
  <2>4. Once(wire') /\ Range(wire') = Range(wire) \cup {e} /\ logged' = logged
    BY <1>11, <2>2, <2>3, OnceAppend, Appended, OnceParts DEF messageSendCB, TypeInv, NetOnce
  <2> HIDE DEF e
  <2>5. NetOnce' /\ Sent' \subseteq Sent
    BY <2>2, <2>3, <2>4, OnceParts DEF NetOnce, Sent
  <2> QED BY <1>11, <2>5, OnceFrameNet DEF messageSendCB, Unmoved, ringVars
<1>12. CASE messageReceivedCB
  <2> DEFINE e == Head(wire)
  <2>1. Len(wire) # 0
    BY <1>12 DEF messageReceivedCB, TypeInv
  <2>2. /\ e \in Nat /\ e \in Range(wire) /\ Range(wire) = Range(wire') \cup {e}
        /\ Once(wire') /\ e \notin Range(wire')
    BY <1>12, <2>1, HeadAndTail, OnceTail, InRange, OnceParts DEF messageReceivedCB, TypeInv, NetOnce
  <2>3. e \notin Range(queue) /\ e \notin Range(logged)
    BY <2>2, OnceParts DEF NetOnce
  <2>4. Once(logged') /\ Range(logged') = Range(logged) \cup {e} /\ queue' = queue
    BY <1>12, <2>2, <2>3, OnceAppend, Appended, OnceParts DEF messageReceivedCB, TypeInv, NetOnce
  <2> HIDE DEF e
  <2>5. NetOnce' /\ Sent' \subseteq Sent
    BY <2>2, <2>3, <2>4, OnceParts DEF NetOnce, Sent
  <2> QED BY <1>12, <2>5, OnceFrameNet DEF messageReceivedCB, Unmoved, ringVars
<1>13. CASE messageResponseCB
  <2>1. NetOnce' /\ Sent' = Sent
    BY <1>13, OnceParts DEF messageResponseCB, NetOnce, Sent
  <2> QED BY <1>13, <2>1, OnceFrameNet DEF messageResponseCB, Unmoved, ringVars
<1>14. CASE messageTransferErrorCB \/ connectionErrorCB
  <2>1. NetOnce' /\ Sent' \subseteq Sent
    BY <1>14, OnceParts, OnceEmpty DEF messageTransferErrorCB, connectionErrorCB, NetOnce, Sent
  <2> QED BY <1>14, <2>1, OnceFrameNet DEF messageTransferErrorCB, connectionErrorCB, Unmoved, ringVars
<1> QED BY <1>1, <1>2, <1>3, <1>4, <1>5, <1>6, <1>7, <1>8, <1>9, <1>10, <1>11, <1>12, <1>13, <1>14
   DEF Next

-----------------------------------------------------------------------------
(* What was inserted and what was taken.                                   *)

LEMMA IncreasingAppend ==
    ASSUME NEW s \in Seq(Nat), Increasing(s), NEW e \in Nat, \A x \in Range(s) : x < e
    PROVE  Increasing(Append(s, e))
<1> DEFINE a == Append(s, e)
           N == Len(s)
<1>1. /\ N \in Nat /\ a \in Seq(Nat) /\ Len(a) = N + 1 /\ DOMAIN s = 1 .. N
      /\ \A n \in 1 .. N + 1 : a[n] = IF n = N + 1 THEN e ELSE s[n]
  BY Appended, InRange
<1> HIDE DEF a
<1>2. ASSUME NEW i \in 1 .. N + 1, NEW j \in 1 .. N + 1, i < j PROVE a[i] < a[j]
  <2>1. i \in 1 .. N /\ a[i] = s[i]
    BY <1>1, <1>2
  <2>2. CASE j = N + 1
    BY <1>1, <2>1, <2>2, InRange
  <2>3. CASE j # N + 1
    <3>1. j \in 1 .. N /\ a[j] = s[j]
      BY <1>1, <2>3
    <3> QED BY <1>1, <1>2, <2>1, <3>1 DEF Increasing
  <2> QED BY <2>2, <2>3
<1> QED BY <1>1, <1>2, InRange DEF Increasing, a

\* FlushInv, and the ring, stay when the ring and the activity to insert do.
LEMMA FlushFrame ==
    ASSUME FlushInv, UNCHANGED <<ringBuffer, inserted, flushed, logs>>,
           pc'[Notifier] = "insert" => pc[Notifier] = "insert" /\ element'[Notifier] = element[Notifier]
    PROVE  FlushInv'
<1>1. Kept' = Kept
  BY DEF Kept
<1> QED BY <1>1 DEF FlushInv

LEMMA FlushStep == ASSUME ForwarderAssumption, TypeInv, OnceInv, FlushInv, Next PROVE FlushInv'
<1> USE ThreadsAre
<1>1. ASSUME NEW t \in Threads, NEW l, Called(t), Go(t, l), t = Notifier \/ l # "insert"
      PROVE  FlushInv'
  <2>1. UNCHANGED <<ringBuffer, inserted, flushed>> /\ Kept' = Kept /\ logs' = logs + 1
    BY <1>1 DEF Called, ringVars, Kept
  <2>2. 1 .. logs \subseteq 1 .. logs' /\ \A x \in 1 .. logs : x < logs + 1
    BY <2>1 DEF TypeInv
  <2>3. pc'[Notifier] = "insert" => \A x \in Range(inserted) : x < element'[Notifier]
    <3>1. CASE t = Notifier
      <4>1. element'[Notifier] = logs + 1
        BY <1>1, <3>1 DEF Called, TypeInv
      <4> QED BY <2>2, <4>1 DEF FlushInv
    <3>2. CASE t # Notifier
      <4>1. pc'[Notifier] = pc[Notifier] /\ element'[Notifier] = element[Notifier]
        BY <1>1, <3>2 DEF Called, Go, TypeInv
      <4> QED BY <4>1 DEF FlushInv
    <3> QED BY <3>1, <3>2
  <2> QED BY <2>1, <2>2, <2>3 DEF FlushInv
<1>2. ASSUME NEW t \in Loggers, Notify(t) PROVE FlushInv'
  BY <1>1, <1>2 DEF Notify
<1>3. CASE NotifyAsync
  BY <1>1, <1>3 DEF NotifyAsync
<1>4. CASE Insert
  <2> DEFINE e == element[Notifier]
  <2>1. Notifier \in Held /\ pc'[Notifier] = "idle" /\ logs' = logs /\ flushed' = flushed
    BY <1>4 DEF Insert, Go, Held, TypeInv
  <2>2. e \in 1 .. logs /\ e \in Nat \ {0} /\ e \notin Kept /\ \A x \in Range(inserted) : x < e
    BY <1>4, <2>1, OnceParts DEF HeldApart, TypeInv, Insert, FlushInv
  <2>3. Kept' \subseteq Kept \cup {e}
    BY <1>4, <2>2, Filled, OnceParts DEF Insert, insert, TypeInv
  <2>4. Increasing(inserted') /\ Range(inserted') = Range(inserted) \cup {e}
    BY <1>4, <2>2, IncreasingAppend, Appended DEF Insert, FlushInv, TypeInv
  <2>5. e \notin Range(inserted)
    BY <2>2
  <2> HIDE DEF e
  <2> QED BY <2>1, <2>2, <2>3, <2>4, <2>5 DEF FlushInv
<1>5. ASSUME NEW t \in Threads, Check(t) \/ isend(t) PROVE FlushInv'
  <2>1. UNCHANGED <<ringBuffer, inserted, flushed, logs>> /\ element' = element
    BY <1>5 DEF Check, isend, ringVars
  <2>2. pc'[Notifier] = "insert" => pc[Notifier] = "insert"
    BY <1>5 DEF Check, isend, Go, TypeInv
  <2> QED BY <2>1, <2>2, FlushFrame
<1>6. ASSUME NEW o \in Ongoing, triggerResponseForAnomaly(o) PROVE FlushInv'
  BY <1>6, FlushFrame DEF triggerResponseForAnomaly, Go, TypeInv
<1>7. CASE TriggerLoop
  <2>1. PICK r \in Positions : Take(r) \/ Leave(r)
    BY <1>7, LoopCases
  <2>2. CASE Take(r)
    <3> DEFINE e == ringBuffer[r]
    <3>1. Kept' = Kept \ {e} /\ e \in Kept
      BY <2>2, Emptied, OnceParts DEF Take
    <3>2. e \in Nat /\ e \notin Range(flushed)
      BY <3>1 DEF FlushInv, TypeInv
    <3>3. Once(flushed') /\ Range(flushed') = Range(flushed) \cup {e}
      BY <2>2, <3>2, OnceAppend, Appended DEF Take, FlushInv, TypeInv
    <3>4. /\ inserted' = inserted /\ logs' = logs
          /\ pc'[Notifier] = pc[Notifier] /\ element'[Notifier] = element[Notifier]
      BY <2>2 DEF Take, TypeInv
    <3> HIDE DEF e
    <3> QED BY <3>1, <3>3, <3>4 DEF FlushInv
  <2>3. CASE Leave(r)
    BY <2>3, FlushFrame DEF Leave, TypeInv
  <2> QED BY <2>1, <2>2, <2>3
<1>8. CASE TriggerCheck
  BY <1>8, FlushFrame DEF TriggerCheck, Go, TypeInv, ringVars
<1>9. CASE clearAnomalyStatus \/ start \/ stop
  BY <1>9, FlushFrame DEF clearAnomalyStatus, start, stop, ringVars
<1>10. CASE messageSendCB \/ messageReceivedCB \/ messageResponseCB \/ messageTransferErrorCB
            \/ connectionErrorCB
  <2>1. UNCHANGED <<ringBuffer, inserted, flushed, logs, pc, element>>
    BY <1>10 DEF messageSendCB, messageReceivedCB, messageResponseCB, messageTransferErrorCB,
       connectionErrorCB, Unmoved, ringVars
  <2> QED BY <2>1, FlushFrame
<1> QED BY <1>2, <1>3, <1>4, <1>5, <1>6, <1>7, <1>8, <1>9, <1>10 DEF Next

-----------------------------------------------------------------------------
(* The ring holds the most recent activities.                              *)

LEMMA BackType ==
    ASSUME ForwarderAssumption, NEW p \in Positions, NEW d \in 0 .. ringBufferSize
    PROVE  Back(p, d) \in Positions
BY DEF ForwarderAssumption, Positions, Back

LEMMA BackInjective ==
    ASSUME ForwarderAssumption, NEW p \in Positions, NEW d \in 1 .. ringBufferSize,
           NEW e \in 1 .. ringBufferSize, Back(p, d) = Back(p, e)
    PROVE  d = e
BY DEF ForwarderAssumption, Positions, Back

LEMMA BackOnto ==
    ASSUME ForwarderAssumption, NEW p \in Positions, NEW q \in Positions
    PROVE  \E d \in 1 .. ringBufferSize : q = Back(p, d)
<1>1. CASE q < p
  <2>1. p - q \in 1 .. ringBufferSize /\ q = Back(p, p - q)
    BY <1>1 DEF ForwarderAssumption, Positions, Back
  <2> QED BY <2>1
<1>2. CASE q >= p
  <2>1. p - q + ringBufferSize \in 1 .. ringBufferSize /\ q = Back(p, p - q + ringBufferSize)
    BY <1>2 DEF ForwarderAssumption, Positions, Back
  <2> QED BY <2>1
<1> QED BY <1>1, <1>2 DEF ForwarderAssumption, Positions

LEMMA BackAround ==
    ASSUME ForwarderAssumption, NEW p \in Positions
    PROVE  /\ Back(p, 0) = p /\ Back(p, ringBufferSize) = p
           /\ \A d \in 1 .. ringBufferSize : Back(Wrap(p), d) = Back(p, d - 1)
<1>1. Wrap(p) = IF p + 1 = ringBufferSize THEN 0 ELSE p + 1
  BY WrapValue
<1> QED BY <1>1 DEF ForwarderAssumption, Positions, Back

LEMMA RingFrame ==
    ASSUME RingInv, UNCHANGED ringVars
    PROVE  RingInv'
BY DEF RingInv, Window, ringVars

LEMMA RingStep == ASSUME ForwarderAssumption, TypeInv, OnceInv, FlushInv, RingInv, Next PROVE RingInv'
<1> USE ThreadsAre
<1> DEFINE Z == ringBufferSize
           J == Len(inserted)
<1>0. /\ Z \in Nat /\ Z > 0 /\ J \in Nat /\ DOMAIN inserted = 1 .. J
      /\ \A k \in 1 .. J : inserted[k] \in Range(inserted) /\ inserted[k] # 0 /\ inserted[k] \in Nat
      /\ None # Trigger /\ curPos \in Positions
      /\ sendPos \in Nat /\ sendPos < Z /\ pos \in Nat /\ mark \in Nat /\ mark <= J
  <2>1. J \in Nat /\ DOMAIN inserted = 1 .. J
        /\ \A k \in 1 .. J : inserted[k] \in Range(inserted)
    BY InRange DEF TypeInv
  <2>2. \A x \in 1 .. logs : x # 0 /\ x \in Nat
    BY DEF TypeInv
  <2>3. \A k \in 1 .. J : inserted[k] # 0 /\ inserted[k] \in Nat
    BY <2>1, <2>2 DEF FlushInv
  <2>4. Z \in Nat /\ Z > 0 /\ sendPos \in Nat /\ sendPos < Z /\ curPos \in Positions
    BY DEF ForwarderAssumption, TypeInv, Positions
  <2> QED BY <2>1, <2>3, <2>4 DEF ForwarderAssumption, TypeInv
<1> HIDE DEF Z, J
<1>1. ASSUME ~stale
      PROVE  Increasing(flushed) /\ \E n \in 0 .. Z : Window(n)
  BY <1>1 DEF RingInv, Z
<1>2. CASE \E t \in Loggers : Notify(t)
  BY <1>2, RingFrame DEF Notify, Called
<1>3. CASE NotifyAsync
  BY <1>3, RingFrame DEF NotifyAsync, Called
<1>4. CASE Insert
  <2> SUFFICES ASSUME ~stale PROVE Increasing(flushed)' /\ \E n \in 0 .. Z : Window(n)'
    BY <1>4 DEF RingInv, Insert, Z
  <2> DEFINE e == element[Notifier]
  <2>1. PICK n \in 0 .. Z : Window(n)
    BY <1>1
  <2>2. /\ ringBuffMutex = None /\ ringBuffMutex' = None /\ pc[Notifier] = "insert"
        /\ curPos' = Wrap(curPos) /\ ringBuffer' = [ringBuffer EXCEPT ![curPos] = e]
        /\ sendPos' = IF curPos = sendPos /\ ringBuffer[curPos] # 0 THEN Wrap(sendPos) ELSE sendPos
        /\ inserted' = Append(inserted, e) /\ UNCHANGED <<flushed, mark>>
    BY <1>4 DEF Insert, insert
  <2>3. /\ n = IF J - mark < Z THEN J - mark ELSE Z
        /\ sendPos = Back(curPos, n) /\ n <= J
        /\ \A d \in 1 .. Z : ringBuffer[Back(curPos, d)] = IF d <= n THEN inserted[J - d + 1] ELSE 0
        /\ \A x \in Range(flushed), d \in 1 .. n : x < inserted[J - d + 1]
    BY <2>1, <2>2 DEF Window, Z, J
  <2>4. /\ e \in Nat /\ Len(inserted') = J + 1 /\ inserted'[J + 1] = e
        /\ \A k \in 1 .. J : inserted'[k] = inserted[k]
    <3>1. e \in Nat
      BY DEF TypeInv
    <3>2. /\ Len(Append(inserted, e)) = J + 1
          /\ \A k \in 1 .. J + 1 : Append(inserted, e)[k] = IF k = J + 1 THEN e ELSE inserted[k]
      BY <3>1, Appended DEF TypeInv, J
    <3>3. J + 1 \in 1 .. J + 1 /\ \A k \in 1 .. J : k \in 1 .. J + 1 /\ k # J + 1
      BY <1>0
    <3> QED BY <2>2, <3>1, <3>2, <3>3
  <2>5. /\ curPos = Back(curPos, Z) /\ curPos = Back(curPos, 0)
        /\ \A d \in 1 .. Z : Back(curPos', d) = Back(curPos, d - 1)
    BY <1>0, <2>2, BackAround DEF Z
  <2> DEFINE m == IF n < Z THEN n + 1 ELSE Z
  <2>6. /\ m \in 0 .. Z /\ m <= J + 1
        /\ m = IF (J + 1) - mark < Z THEN (J + 1) - mark ELSE Z
    BY <1>0, <2>3
  <2>7. ASSUME NEW d \in 1 .. Z
        PROVE  ringBuffer'[Back(curPos', d)] = IF d <= m THEN inserted'[(J + 1) - d + 1] ELSE 0
    <3>1. CASE d = 1
      <4>1. Back(curPos', d) = curPos /\ ringBuffer'[curPos] = e
        BY <1>0, <2>2, <2>5, <3>1 DEF TypeInv
      <4>2. d <= m /\ (J + 1) - d + 1 = J + 1
        BY <1>0, <3>1
      <4> QED BY <2>4, <4>1, <4>2
    <3>2. CASE d # 1
      <4> DEFINE c == d - 1
      <4>1. c \in 1 .. Z /\ c # Z /\ (d <= m <=> c <= n) /\ (J + 1) - d + 1 = J - c + 1
        BY <1>0, <3>2
      <4>2. Back(curPos, c) # curPos /\ Back(curPos, c) \in Positions
        BY <1>0, <2>5, <4>1, BackInjective, BackType DEF Z
      <4>3. ringBuffer'[Back(curPos', d)] = ringBuffer[Back(curPos, c)]
        BY <1>0, <2>2, <2>5, <4>2 DEF TypeInv
      <4>4. c <= n => J - c + 1 \in 1 .. J
        BY <1>0, <2>3, <4>1
      <4> HIDE DEF c, m
      <4> QED BY <2>3, <2>4, <4>1, <4>3, <4>4
    <3> QED BY <3>1, <3>2
  <2>8. ASSUME NEW x \in Range(flushed), NEW d \in 1 .. m
        PROVE  x < inserted'[(J + 1) - d + 1]
    <3>1. CASE d = 1
      <4>1. x < e
        BY <2>2 DEF FlushInv
      <4>2. (J + 1) - d + 1 = J + 1
        BY <1>0, <3>1
      <4> QED BY <2>4, <4>1, <4>2
    <3>2. CASE d # 1
      <4>1. d - 1 \in 1 .. n /\ J - (d - 1) + 1 \in 1 .. J /\ (J + 1) - d + 1 = J - (d - 1) + 1
        BY <1>0, <2>3, <3>2
      <4>2. x < inserted[J - (d - 1) + 1]
        BY <2>3, <4>1
      <4> QED BY <2>4, <4>1, <4>2
    <3> QED BY <3>1, <3>2
  <2>9. sendPos' = Back(curPos', m)
    <3>1. CASE n < Z
      <4>1. ringBuffer[curPos] = 0
        <5>1. Z \in 1 .. Z /\ ~(Z <= n)
          BY <1>0, <3>1
        <5> QED BY <2>3, <2>5, <5>1
      <4>2. m \in 1 .. Z /\ m - 1 = n
        BY <1>0, <3>1
      <4> QED BY <2>2, <2>3, <2>5, <4>1, <4>2
    <3>2. CASE n = Z
      <4>1. Z \in 1 .. Z /\ J - Z + 1 \in 1 .. J /\ Z <= n
        BY <1>0, <2>3, <3>2
      <4>2. ringBuffer[curPos] # 0
        BY <1>0, <2>3, <2>5, <4>1
      <4>3. sendPos' = Wrap(curPos) /\ m = Z
        BY <2>2, <2>3, <2>5, <3>2, <4>2
      <4>4. Wrap(curPos) \in Positions
        BY <1>0, WrapValue
      <4>5. Back(Wrap(curPos), Z) = Wrap(curPos)
        BY <4>4, BackAround DEF Z
      <4> HIDE DEF m
      <4> QED BY <2>2, <4>3, <4>5
    <3> QED BY <1>0, <3>1, <3>2
  <2> HIDE DEF m
  <2>10. Window(m)'
    BY <1>0, <2>2, <2>4, <2>6, <2>7, <2>8, <2>9 DEF Window, Z
  <2> QED BY <1>1, <2>2, <2>6, <2>10
<1>5. CASE \E t \in Threads : Check(t) \/ isend(t)
  BY <1>5, RingFrame DEF Check, isend
<1>6. ASSUME NEW o \in Ongoing, triggerResponseForAnomaly(o) PROVE RingInv'
  <2> SUFFICES ASSUME ~stale PROVE Increasing(flushed)' /\ \E n \in 0 .. Z : Window(n)'
    BY <1>6 DEF RingInv, triggerResponseForAnomaly, Z
  <2>1. PICK n \in 0 .. Z : Window(n)
    BY <1>1
  <2>2. /\ ringBuffMutex = None /\ ringBuffMutex' = Trigger /\ pos' = sendPos /\ mark' = J
        /\ UNCHANGED <<ringBuffer, curPos, sendPos, inserted, flushed>>
    BY <1>6 DEF triggerResponseForAnomaly, J
  <2>3. sendPos = Back(curPos, n)
    BY <2>1, <2>2 DEF Window
  <2>4. sendPos % Z = sendPos
    BY <1>0, RealPos DEF Z
  <2>5. sendPos <= sendPos /\ sendPos + n <= sendPos + Z
    BY <1>0
  <2>6. Window(n)'
    BY <1>0, <2>1, <2>2, <2>3, <2>4, <2>5 DEF Window, Z, J
  <2> QED BY <1>1, <2>2, <2>6
<1>7. CASE TriggerLoop
  <2> SUFFICES ASSUME ~stale PROVE Increasing(flushed)' /\ \E n \in 0 .. Z : Window(n)'
    BY <1>7 DEF RingInv, TriggerLoop, Z
  <2>1. PICK n \in 0 .. Z : Window(n)
    BY <1>1
  <2>2. PICK r \in Positions : r = pos % ringBufferSize /\ (Take(r) \/ Leave(r))
    BY <1>7, LoopCases
  <2>3. ringBuffMutex = Trigger
    BY <2>2 DEF Take, Leave, TypeInv
  <2>4. /\ mark = J /\ sendPos <= pos /\ pos + n <= sendPos + Z /\ r = Back(curPos, n) /\ n <= J
        /\ \A d \in 1 .. Z : ringBuffer[Back(curPos, d)] = IF d <= n THEN inserted[J - d + 1] ELSE 0
        /\ \A x \in Range(flushed), d \in 1 .. n : x < inserted[J - d + 1]
    BY <2>1, <2>2, <2>3 DEF Window, Z, J
  <2>5. Back(curPos, 0) = curPos /\ Back(curPos, Z) = curPos
    BY <1>0, BackAround DEF Z
  <2>6. CASE Take(r)
    <3> DEFINE e == ringBuffer[r]
               m == n - 1
    <3>1. n \in 1 .. Z
      <4>1. n # 0
        <5>1. Z \in 1 .. Z /\ ~(Z <= 0)
          BY <1>0
        <5>2. ringBuffer[curPos] = 0 \/ n # 0
          BY <2>4, <2>5, <5>1
        <5> QED BY <2>4, <2>5, <2>6, <5>2 DEF Take
      <4> QED BY <1>0, <4>1
    <3>2. e = inserted[J - n + 1] /\ J - n + 1 \in 1 .. J /\ e \in Nat
      <4>1. J - n + 1 \in 1 .. J /\ n <= n
        BY <1>0, <2>4, <3>1
      <4> QED BY <1>0, <2>4, <3>1, <4>1
    <3>3. \A x \in Range(flushed) : x < e
      BY <2>4, <3>1, <3>2
    <3>4. Increasing(flushed') /\ Range(flushed') = Range(flushed) \cup {e}
      <4>1. Increasing(flushed) /\ flushed \in Seq(Nat)
        BY <1>1 DEF TypeInv
      <4> QED BY <2>6, <3>2, <3>3, <4>1, IncreasingAppend, Appended DEF Take
    <3>5. /\ ringBuffer' = [ringBuffer EXCEPT ![r] = 0] /\ pos' = pos + 1 /\ pos < Z + sendPos
          /\ UNCHANGED <<curPos, sendPos, ringBuffMutex, inserted, mark>>
      BY <2>6 DEF Take, Z
    <3>6. m \in 0 .. Z /\ m <= J
      BY <1>0, <2>4, <3>1
    <3>7. ASSUME NEW d \in 1 .. Z
          PROVE  ringBuffer'[Back(curPos, d)] = IF d <= m THEN inserted[J - d + 1] ELSE 0
      <4>1. Back(curPos, d) \in Positions
        BY <1>0, BackType DEF Z
      <4>2. CASE d = n
        <5>1. ~(d <= m)
          BY <3>1, <4>2
        <5> QED BY <2>4, <3>5, <4>1, <4>2, <5>1 DEF TypeInv
      <4>3. CASE d # n
        <5>1. Back(curPos, d) # r /\ (d <= m <=> d <= n)
          BY <1>0, <2>4, <3>1, <4>3, BackInjective DEF Z
        <5>2. ringBuffer'[Back(curPos, d)] = ringBuffer[Back(curPos, d)]
          BY <3>5, <4>1, <5>1 DEF TypeInv
        <5> HIDE DEF m
        <5> QED BY <2>4, <5>1, <5>2
      <4> QED BY <4>2, <4>3
    <3>8. ASSUME NEW x \in Range(flushed'), NEW d \in 1 .. m
          PROVE  x < inserted[J - d + 1]
      <4>1. d \in 1 .. n /\ J - n + 1 < J - d + 1 /\ J - d + 1 \in 1 .. J
        BY <1>0, <2>4, <3>1
      <4>2. e < inserted[J - d + 1]
        BY <1>0, <3>2, <4>1 DEF FlushInv, Increasing
      <4> HIDE DEF e
      <4> QED BY <2>4, <3>4, <4>1, <4>2
    <3>9. sendPos <= pos + 1 /\ (pos + 1) + m <= sendPos + Z
      BY <1>0, <2>4, <3>1
    <3>10. (pos + 1) % ringBufferSize = Back(curPos, m)
      <4>1. pos + 1 \in Nat /\ pos + 1 < 2 * Z /\ pos < 2 * Z
        BY <1>0, <3>5
      <4>2. r = IF pos < Z THEN pos ELSE pos - Z
        BY <1>0, <2>2, <4>1, RealPos DEF Z
      <4>3. (pos + 1) % ringBufferSize = IF pos + 1 < Z THEN pos + 1 ELSE (pos + 1) - Z
        BY <4>1, RealPos DEF Z
      <4>4. curPos \in Nat /\ curPos < Z
        BY <1>0 DEF Positions, Z
      <4>5. /\ Back(curPos, m) = IF curPos >= m THEN curPos - m ELSE curPos + Z - m
            /\ r = IF curPos >= n THEN curPos - n ELSE curPos + Z - n
        BY <2>4 DEF Back, Z
      <4> QED BY <1>0, <3>1, <4>1, <4>2, <4>3, <4>4, <4>5
    <3> HIDE DEF m
    <3>11. Window(m)'
      BY <1>0, <2>3, <2>4, <3>5, <3>6, <3>7, <3>8, <3>9, <3>10 DEF Window, Z, J
    <3> QED BY <3>4, <3>6, <3>11
  <2>7. CASE Leave(r)
    <3>1. n = 0
      <4>1. CASE pos < Z + sendPos
        <5>1. ringBuffer[r] = 0
          BY <2>7, <4>1 DEF Leave, Z
        <5>2. n \in 1 .. Z => ringBuffer[r] = inserted[J - n + 1] /\ J - n + 1 \in 1 .. J
          <6>1. n \in 1 .. Z => n <= n /\ J - n + 1 \in 1 .. J
            BY <1>0, <2>4
          <6> QED BY <2>4, <6>1
        <5>3. n \notin 1 .. Z
          BY <1>0, <5>1, <5>2
        <5> QED BY <1>0, <5>3
      <4>2. CASE ~(pos < Z + sendPos)
        BY <1>0, <2>4, <4>2
      <4> QED BY <4>1, <4>2
    <3>2. sendPos' = curPos
      BY <2>4, <2>5, <2>7, <3>1 DEF Leave
    <3>3. ringBuffMutex' = None /\ UNCHANGED <<ringBuffer, curPos, inserted, flushed, mark>>
      BY <2>7 DEF Leave
    <3>4. 0 = IF J - mark < Z THEN J - mark ELSE Z
      BY <1>0, <2>4
    <3>5. Window(0)'
      BY <1>0, <2>1, <2>4, <2>5, <3>1, <3>2, <3>3, <3>4 DEF Window, Z, J
    <3> QED BY <1>0, <1>1, <3>3, <3>5
  <2> QED BY <2>2, <2>6, <2>7
<1>8. CASE TriggerCheck \/ clearAnomalyStatus \/ start
  BY <1>8, RingFrame DEF TriggerCheck, clearAnomalyStatus, start
<1>9. CASE stop
  <2> SUFFICES ASSUME ~stale' PROVE Increasing(flushed)' /\ \E n \in 0 .. Z : Window(n)'
    BY DEF RingInv, Z
  <2>1. ~stale /\ \A p \in Positions : ringBuffer[p] = 0
    BY <1>9 DEF stop, TypeInv
  <2>2. PICK n \in 0 .. Z : Window(n)
    BY <1>1, <2>1
  <2>3. /\ ringBuffMutex = None /\ ringBuffMutex' = None /\ curPos' = 0 /\ sendPos' = 0
        /\ UNCHANGED <<ringBuffer, inserted, flushed, mark>>
    BY <1>9 DEF stop, TypeInv
  <2>4. /\ n = IF J - mark < Z THEN J - mark ELSE Z
        /\ n <= J
        /\ \A d \in 1 .. Z : ringBuffer[Back(curPos, d)] = IF d <= n THEN inserted[J - d + 1] ELSE 0
    BY <2>2, <2>3 DEF Window, Z, J
  <2>5. n = 0
    <3>1. 1 \in 1 .. Z /\ Back(curPos, 1) \in Positions
      <4>1. 1 \in 1 .. Z
        BY <1>0
      <4>2. 1 \in 0 .. Z
        BY <1>0
      <4> QED BY <1>0, <4>1, <4>2, BackType DEF Z
    <3>2. 1 <= n => J - 1 + 1 \in 1 .. J
      BY <1>0, <2>4
    <3>3. ~(1 <= n)
      BY <1>0, <2>1, <2>4, <3>1, <3>2
    <3> QED BY <1>0, <3>3
  <2>6. 0 \in Positions
    BY <1>0 DEF Positions, Z
  <2>7. Back(0, 0) = 0 /\ \A d \in 1 .. Z : Back(0, d) \in Positions
    BY <1>0, <2>6, BackAround, BackType DEF Z
  <2>8. Window(0)'
    <3>1. /\ \A d \in 1 .. Z : ringBuffer'[Back(curPos', d)] = 0 /\ ~(d <= 0)
          /\ sendPos' = Back(curPos', 0)
      BY <1>0, <2>1, <2>3, <2>7
    <3>2. /\ Len(inserted') = J /\ 0 <= J /\ mark' = mark
          /\ 0 = IF J - mark < Z THEN J - mark ELSE Z
      BY <1>0, <2>3, <2>4, <2>5 DEF J
    <3>3. 1 .. 0 = {}
      OBVIOUS
    <3> QED BY <1>0, <2>3, <3>1, <3>2, <3>3 DEF Window, Z
  <2> QED BY <1>0, <1>1, <2>1, <2>3, <2>8
<1>10. CASE messageSendCB \/ messageReceivedCB \/ messageResponseCB \/ messageTransferErrorCB
            \/ connectionErrorCB
  <2>1. UNCHANGED ringVars
    BY <1>10 DEF messageSendCB, messageReceivedCB, messageResponseCB, messageTransferErrorCB,
       connectionErrorCB, Unmoved
  <2> QED BY <2>1, RingFrame
<1> QED BY <1>2, <1>3, <1>4, <1>5, <1>6, <1>7, <1>8, <1>9, <1>10 DEF Next

-----------------------------------------------------------------------------
\* The invariant of the forwarder holds in every reachable state.
THEOREM Invariance == ForwarderAssumption /\ Spec => []IInv
<1> SUFFICES ASSUME ForwarderAssumption PROVE Spec => []IInv
  OBVIOUS
<1>1. Init => IInv
  <2> SUFFICES ASSUME Init PROVE IInv
    OBVIOUS
  <2> USE ThreadsAre, OnceEmpty
  <2>1. Kept = {} /\ Sending = {} /\ Held = {} /\ Sent = {}
    BY DEF Init, Kept, Sending, Held, Sent
  <2>2. 0 \in Positions /\ ringBufferSize \in Nat /\ ringBufferSize > 0
    BY DEF Positions, ForwarderAssumption
  <2>3. Len(<< >>) = 0
    OBVIOUS
  <2>4. TypeInv
    <3>1. ringBuffer \in [Positions -> Nat] /\ pc[Trigger] = "idle"
      BY DEF Init
    <3>2. pc \in [Threads -> {"idle", "check", "isend", "insert", "loop", "loopCheck"}]
          /\ element \in [Threads -> Nat] /\ \A t \in Threads : pc[t] = "idle"
      BY DEF Init
    <3>3. 0 \in Nat /\ 0 \in Int /\ mark <= Len(inserted)
      BY <2>3 DEF Init
    <3>4. stale \in BOOLEAN
      BY Zenon DEF Init
    <3> QED BY <2>2, <3>1, <3>2, <3>3, <3>4 DEF TypeInv, Init
  <2>5. CountInv
    <3>1. Cardinality(Sending) = 0
      BY <2>1, FS_EmptySet
    <3>2. 0 + 0 <= max_pending_ops + Cardinality(Threads) - 1 /\ 0 = 0 + 0 + 0 + 0
      BY DEF ForwarderAssumption
    <3> QED BY <2>3, <3>1, <3>2 DEF CountInv, Init
  <2>6. OnceInv
    <3>1. NetOnce /\ HeldApart /\ Apart(ringBuffer)
      BY <2>1 DEF NetOnce, HeldApart, Apart, Init
    <3> QED BY <2>1, <3>1, OnceParts
  <2>7. FlushInv
    BY <2>1 DEF FlushInv, Init
  <2>8. RingInv
    <3>1. /\ \A d \in 1 .. ringBufferSize : Back(curPos, d) \in Positions /\ ~(d <= 0)
          /\ Back(curPos, 0) = 0 /\ curPos \in Positions /\ 1 .. 0 = {}
      BY <2>2, BackType, BackAround DEF Init
    <3>2. /\ \A d \in 1 .. ringBufferSize : ringBuffer[Back(curPos, d)] = 0
          /\ ringBuffMutex # Trigger
          /\ 0 = IF Len(inserted) - mark < ringBufferSize THEN Len(inserted) - mark ELSE ringBufferSize
      BY <2>2, <2>3, <3>1 DEF Init, ForwarderAssumption
    <3>3. Window(0)
      BY <2>3, <3>1, <3>2 DEF Window, Init
    <3>4. 0 \in 0 .. ringBufferSize
      BY <2>2
    <3> QED BY <3>3, <3>4 DEF RingInv, Init
  <2> QED BY <2>4, <2>5, <2>6, <2>7, <2>8 DEF IInv
<1>2. IInv /\ [Next]_vars => IInv'
  <2> SUFFICES ASSUME IInv, [Next]_vars PROVE IInv'
    OBVIOUS
  <2>1. CASE Next
    BY <2>1, TypeStep, CountStep, OnceStep, FlushStep, RingStep DEF IInv
  <2>2. CASE UNCHANGED vars
    <3>1. Kept' = Kept /\ Sending' = Sending /\ Held' = Held /\ Sent' = Sent
      BY <2>2 DEF vars, ringVars, netVars, Kept, Sending, Held, Sent
    <3>2. TypeInv' /\ CountInv'
      BY <2>2, <3>1 DEF IInv, vars, ringVars, netVars, TypeInv, CountInv
    <3>3. OnceInv'
      BY <2>2, <3>1, OnceFrameThreads DEF IInv, vars, ringVars, netVars
    <3>4. FlushInv' /\ RingInv'
      BY <2>2, FlushFrame, RingFrame DEF IInv, vars, ringVars
    <3> QED BY <3>2, <3>3, <3>4 DEF IInv
  <2> QED BY <2>1, <2>2
<1> QED BY <1>1, <1>2, PTL DEF Spec

\* pendingActivities counts what is queued, written, about to be answered or lost with
\* a connection, exceeds the limit by one activity per thread at most, and no activity
\* is logged by the server twice, whatever the connection does.
THEOREM Pending == ForwarderAssumption /\ Spec => []PendingIsExact
<1> SUFFICES ASSUME ForwarderAssumption PROVE Spec => []PendingIsExact
  OBVIOUS
<1>1. IInv => PendingIsExact
  <2> SUFFICES ASSUME IInv PROVE PendingIsExact
    OBVIOUS
  <2>1. Cardinality(Sending) \in Nat /\ Cardinality(Threads) \in Nat /\ max_pending_ops \in Nat
    BY SendingIs, ThreadsAre DEF ForwarderAssumption
  <2>2. pendingActivities <= max_pending_ops + Cardinality(Threads) - 1
    BY <2>1 DEF IInv, TypeInv, CountInv
  <2> QED BY <2>2 DEF IInv, CountInv, OnceInv, Once, PendingIsExact
<1>2. Spec => []IInv
  BY Invariance
<1> QED BY <1>1, <1>2, PTL

\* The trigger sends an activity of the ring once, and in order; between triggers the
\* ring holds the most recent activities that were inserted after the last one.
THEOREM RingSentOnce == ForwarderAssumption /\ Spec => []RingIsSentOnce
<1> SUFFICES ASSUME ForwarderAssumption PROVE Spec => []RingIsSentOnce
  OBVIOUS
<1>1. IInv => RingIsSentOnce
  <2> SUFFICES ASSUME IInv PROVE RingIsSentOnce
    OBVIOUS
  <2> DEFINE J == Len(inserted)
             n == IF J - mark < ringBufferSize THEN J - mark ELSE ringBufferSize
  <2>1. TypeInv /\ FlushInv /\ RingInv
    BY DEF IInv
  <2>2. \A i, j \in DOMAIN flushed : i < j => flushed[i] # flushed[j]
    <3>1. DOMAIN flushed \subseteq Nat
      BY <2>1, InRange DEF TypeInv
    <3>2. \A i, j \in Nat : i < j => i # j
      OBVIOUS
    <3> QED BY <2>1, <3>1, <3>2 DEF FlushInv, Once
  <2>3. ASSUME ~stale PROVE \A i, j \in DOMAIN flushed : i < j => flushed[i] < flushed[j]
    BY <2>1, <2>3 DEF RingInv, Increasing
  <2>4. ASSUME ~stale, ringBuffMutex = None PROVE Kept = Latest(n)
    <3>1. PICK m \in 0 .. ringBufferSize : Window(m)
      BY <2>1, <2>4 DEF RingInv
    <3>2. /\ m = n /\ m <= J
          /\ \A d \in 1 .. ringBufferSize :
                ringBuffer[Back(curPos, d)] = IF d <= m THEN inserted[J - d + 1] ELSE 0
      BY <2>4, <3>1 DEF Window
    <3>3. /\ J \in Nat /\ ringBufferSize \in Nat /\ curPos \in Positions
          /\ \A k \in 1 .. J : inserted[k] # 0
      <4>1. \A x \in 1 .. logs : x # 0
        BY <2>1 DEF TypeInv
      <4>2. J \in Nat /\ \A k \in 1 .. J : inserted[k] \in Range(inserted)
        BY <2>1, InRange DEF TypeInv
      <4> QED BY <2>1, <4>1, <4>2 DEF FlushInv, TypeInv, ForwarderAssumption
    <3> HIDE DEF J, n
    <3>4. ASSUME NEW x \in Kept PROVE x \in Latest(m)
      <4>1. PICK p \in Positions : x = ringBuffer[p] /\ x # 0
        BY <3>4 DEF Kept
      <4>2. PICK d \in 1 .. ringBufferSize : p = Back(curPos, d)
        BY <3>3, BackOnto
      <4>3. d <= m /\ x = inserted[J - d + 1]
        BY <3>2, <4>1, <4>2
      <4>4. J - d + 1 \in J - m + 1 .. J
        BY <3>2, <3>3, <4>3
      <4> QED BY <4>3, <4>4 DEF Latest, J
    <3>5. ASSUME NEW x \in Latest(m) PROVE x \in Kept
      <4>1. PICK k \in J - m + 1 .. J : x = inserted[k]
        BY <3>5 DEF Latest, J
      <4> DEFINE d == J - k + 1
      <4>2. /\ d \in 1 .. ringBufferSize /\ d \in 0 .. ringBufferSize /\ d <= m
            /\ J - d + 1 = k /\ k \in 1 .. J
        BY <3>2, <3>3
      <4> HIDE DEF d
      <4>3. ringBuffer[Back(curPos, d)] = x /\ x # 0
        BY <3>2, <3>3, <4>1, <4>2
      <4>4. Back(curPos, d) \in Positions
        BY <3>3, <4>2, BackType
      <4> QED BY <4>3, <4>4 DEF Kept
    <3> QED BY <3>2, <3>4, <3>5
  <2> QED BY <2>2, <2>3, <2>4 DEF RingIsSentOnce
<1>2. Spec => []IInv
  BY Invariance
<1> QED BY <1>1, <1>2, PTL
=============================================================================
