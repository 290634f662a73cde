---------------------- MODULE ActivityNetworkForwarder ----------------------
(***************************************************************************)
(* ActivityNetworkForwarderClient and the server it sends to: either every  *)
(* activity is forwarded when it is logged, or the most recent ones wait in *)
(* a ring until the reasoner triggers.                                      *)
(*                                                                          *)
(* Activities are numbered in the order of the calls.  The communication is *)
(* reduced to what the callbacks see: messages wait for a connection, are   *)
(* written, logged by the server and answered in order; when the connection *)
(* breaks what is written and not answered is lost without a callback.      *)
(***************************************************************************)
EXTENDS Integers, Sequences, FiniteSets, SequencesExt

CONSTANTS
    Loggers,         \* threads that log, when all activities are forwarded
    None,
    ringBufferSize,
    max_pending_ops,
    Ongoing,         \* the arguments of triggerResponseForAnomaly
    MaxLogs,         \* bound: activities
    MaxErrors,       \* bound: connections that break
    MaxStarts        \* bound: calls of start()

Notifier == "notifier"
Trigger == "trigger"
Threads == Loggers \cup {Notifier, Trigger}
Positions == 0 .. ringBufferSize - 1

\* The ring has a slot and the threads are different ones.
ForwarderAssumption ==
    /\ ringBufferSize \in Nat \ {0} /\ max_pending_ops \in Nat /\ IsFiniteSet(Loggers)
    /\ Notifier \notin Loggers /\ Trigger \notin Loggers /\ None # Trigger

VARIABLES
    forwardAllActivities, anomalyStatus,
    ringBuffer, curPos, sendPos,
    ringBuffMutex,      \* its holder, or None
    pos,                \* of the loop of the trigger
    pendingActivities, droppedActivities,
    client,             \* none, started or stopped
    pc, element,        \* pc[t], and the activity t is called for
    queue, wire, replies,  \* to be written, to be logged, answers on their way
    logged,             \* by the multiplexer of the server
    logs, errors, starts,
    lost,               \* history: messages that got no callback
    inserted, flushed,  \* history: put into the ring, and taken from it, in order
    mark,               \* history: inserted before the last trigger
    stale               \* history: stopped with activities in the ring

ringVars == <<ringBuffer, curPos, sendPos, ringBuffMutex, pos, inserted, flushed, mark, stale>>
netVars == <<queue, wire, replies, logged, errors, lost>>
vars == <<forwardAllActivities, anomalyStatus, ringVars, pendingActivities, droppedActivities,
          client, pc, element, netVars, logs, starts>>

Wrap(p) == (p + 1) % ringBufferSize

Init ==
    /\ forwardAllActivities \in BOOLEAN /\ anomalyStatus = FALSE
    /\ ringBuffer = [p \in Positions |-> 0] /\ curPos = 0 /\ sendPos = 0
    /\ ringBuffMutex = None /\ pos = 0 /\ pendingActivities = 0 /\ droppedActivities = 0
    /\ client = "none" /\ pc = [t \in Threads |-> "idle"] /\ element = [t \in Threads |-> 0]
    /\ queue = << >> /\ wire = << >> /\ replies = 0 /\ logged = << >>
    /\ logs = 0 /\ errors = 0 /\ starts = 0 /\ lost = 0
    /\ inserted = << >> /\ flushed = << >> /\ mark = 0 /\ stale = FALSE

Go(t, l) == pc' = [pc EXCEPT ![t] = l]

-----------------------------------------------------------------------------
(* The callbacks of the multiplexer.                                       *)

\* Notify is called by the thread that logs, NotifyAsync by the notifier.
Called(t) ==
    /\ client = "started" /\ pc[t] = "idle" /\ logs < MaxLogs
    /\ logs' = logs + 1 /\ element' = [element EXCEPT ![t] = logs + 1]
    /\ UNCHANGED <<forwardAllActivities, anomalyStatus, ringVars, pendingActivities,
                   droppedActivities, client, netVars, starts>>

Notify(t) == t \in Loggers /\ forwardAllActivities /\ Called(t) /\ Go(t, "check")

\* anomalyStatus is read without the lock.
NotifyAsync ==
    /\ ~forwardAllActivities /\ Called(Notifier)
    /\ Go(Notifier, IF anomalyStatus THEN "check" ELSE "insert")

\* pendingActivities is read, and incremented later.
Check(t) ==
    /\ pc[t] = "check"
    /\ IF pendingActivities < max_pending_ops
       THEN Go(t, "isend") /\ UNCHANGED droppedActivities
       ELSE Go(t, "idle") /\ droppedActivities' = droppedActivities + 1
    /\ UNCHANGED <<forwardAllActivities, anomalyStatus, ringVars, pendingActivities, client,
                   element, netVars, logs, starts>>

isend(t) ==
    /\ pc[t] = "isend"
    /\ pendingActivities' = pendingActivities + 1
    /\ queue' = Append(queue, element[t])
    /\ Go(t, IF t = Trigger THEN "loop" ELSE "idle")
    /\ UNCHANGED <<forwardAllActivities, anomalyStatus, ringVars, droppedActivities, client,
                   element, wire, replies, logged, errors, lost, logs, starts>>

\* A mutant: the position to send from is not moved along.
insertKeepsSendPos ==
    /\ ringBuffer' = [ringBuffer EXCEPT ![curPos] = element[Notifier]]
    /\ curPos' = Wrap(curPos) /\ UNCHANGED sendPos

\* The oldest entry gives way when the ring is full.
insert ==
    /\ sendPos' = IF curPos = sendPos /\ ringBuffer[curPos] # 0 THEN Wrap(sendPos) ELSE sendPos
    /\ ringBuffer' = [ringBuffer EXCEPT ![curPos] = element[Notifier]]
    /\ curPos' = Wrap(curPos)

Insert ==
    /\ pc[Notifier] = "insert" /\ ringBuffMutex = None
    /\ insert
    /\ inserted' = Append(inserted, element[Notifier])
    /\ Go(Notifier, "idle")
    /\ UNCHANGED <<forwardAllActivities, anomalyStatus, ringBuffMutex, pos, flushed, mark, stale,
                   pendingActivities, droppedActivities, client, element, netVars, logs, starts>>

-----------------------------------------------------------------------------
(* The callbacks of the reasoner, called by its thread only.               *)

triggerResponseForAnomaly(anomalyStillOngoing) ==
    /\ client = "started" /\ pc[Trigger] = "idle" /\ ringBuffMutex = None
    /\ ringBuffMutex' = Trigger /\ anomalyStatus' = anomalyStillOngoing /\ pos' = sendPos
    /\ mark' = Len(inserted) /\ Go(Trigger, "loop")
    /\ UNCHANGED <<forwardAllActivities, ringBuffer, curPos, sendPos, inserted, flushed, stale,
                   pendingActivities, droppedActivities, client, element, netVars, logs, starts>>

\* One round of the loop, up to the check of pendingActivities.
TriggerLoop ==
    /\ pc[Trigger] = "loop"
    /\ LET realPos == pos % ringBufferSize
           data == ringBuffer[realPos] IN
       IF pos < ringBufferSize + sendPos /\ data # 0
       THEN /\ ringBuffer' = [ringBuffer EXCEPT ![realPos] = 0]
            /\ flushed' = Append(flushed, data)
            /\ element' = [element EXCEPT ![Trigger] = data]
            /\ pos' = pos + 1
            /\ Go(Trigger, "loopCheck") /\ UNCHANGED <<sendPos, ringBuffMutex>>
       ELSE /\ sendPos' = IF pos < ringBufferSize + sendPos THEN realPos ELSE curPos
            /\ ringBuffMutex' = None /\ pos' = 0 /\ element' = [element EXCEPT ![Trigger] = 0]
            /\ Go(Trigger, "idle") /\ UNCHANGED <<ringBuffer, flushed>>
    /\ UNCHANGED <<forwardAllActivities, anomalyStatus, curPos, inserted, mark, stale,
                   pendingActivities, droppedActivities, client, netVars, logs, starts>>

\* What is too much is dropped, and not counted.
TriggerCheck ==
    /\ pc[Trigger] = "loopCheck"
    /\ Go(Trigger, IF pendingActivities < max_pending_ops THEN "isend" ELSE "loop")
    /\ UNCHANGED <<forwardAllActivities, anomalyStatus, ringVars, pendingActivities,
                   droppedActivities, client, element, netVars, logs, starts>>

clearAnomalyStatus ==
    /\ anomalyStatus /\ pc[Trigger] = "idle"
    /\ anomalyStatus' = FALSE
    /\ UNCHANGED <<forwardAllActivities, ringVars, pendingActivities, droppedActivities, client,
                   pc, element, netVars, logs, starts>>

-----------------------------------------------------------------------------
(* The owner.                                                              *)

start ==
    /\ client \in {"none", "stopped"} /\ starts < MaxStarts
    /\ client' = "started" /\ starts' = starts + 1
    /\ UNCHANGED <<forwardAllActivities, anomalyStatus, ringVars, pendingActivities,
                   droppedActivities, pc, element, netVars, logs>>

\* The client aborts what is not written.  The positions are set back; what is
\* in the ring stays there.  (Nobody is in a callback: but see the README.)
stop ==
    /\ client = "started" /\ \A t \in Threads : pc[t] = "idle"
    /\ client' = "stopped"
    /\ pendingActivities' = pendingActivities - Len(queue)
    /\ lost' = lost + Len(wire) + replies
    /\ queue' = << >> /\ wire' = << >> /\ replies' = 0
    /\ sendPos' = 0 /\ curPos' = 0
    /\ stale' = (stale \/ \E p \in Positions : ringBuffer[p] # 0)
    /\ UNCHANGED <<forwardAllActivities, anomalyStatus, ringBuffer, ringBuffMutex, pos, inserted,
                   flushed, mark, droppedActivities, pc, element, logged, errors, logs, starts>>

-----------------------------------------------------------------------------
(* The connection and the server.                                          *)

Unmoved == UNCHANGED <<forwardAllActivities, anomalyStatus, ringVars, droppedActivities, client,
                       pc, element, logs, starts>>

messageSendCB ==
    /\ queue # << >>
    /\ wire' = Append(wire, Head(queue)) /\ queue' = Tail(queue)
    /\ Unmoved /\ UNCHANGED <<pendingActivities, replies, logged, errors, lost>>

\* The server logs the activity, then answers.
messageReceivedCB ==
    /\ wire # << >>
    /\ logged' = Append(logged, Head(wire)) /\ wire' = Tail(wire) /\ replies' = replies + 1
    /\ Unmoved /\ UNCHANGED <<pendingActivities, queue, errors, lost>>

messageResponseCB ==
    /\ replies > 0
    /\ replies' = replies - 1 /\ pendingActivities' = pendingActivities - 1
    /\ Unmoved /\ UNCHANGED <<queue, wire, logged, errors, lost>>

\* A mutant: the message stays pending.
transferErrorKeepsPending ==
    /\ replies > 0 /\ errors < MaxErrors
    /\ errors' = errors + 1
    /\ lost' = lost + Len(wire) + replies - 1
    /\ wire' = << >> /\ replies' = 0
    /\ Unmoved /\ UNCHANGED <<pendingActivities, queue, logged>>

\* An answer arrives damaged; the connection is given up.
messageTransferErrorCB ==
    /\ replies > 0 /\ errors < MaxErrors
    /\ errors' = errors + 1 /\ pendingActivities' = pendingActivities - 1
    /\ lost' = lost + Len(wire) + replies - 1
    /\ wire' = << >> /\ replies' = 0
    /\ Unmoved /\ UNCHANGED <<queue, logged>>

\* The connection breaks; ireconnect.  What waits is sent later.
connectionErrorCB ==
    /\ client = "started" /\ errors < MaxErrors
    /\ errors' = errors + 1 /\ lost' = lost + Len(wire) + replies
    /\ wire' = << >> /\ replies' = 0
    /\ Unmoved /\ UNCHANGED <<pendingActivities, queue, logged>>

Next ==
    \/ \E t \in Loggers : Notify(t)
    \/ NotifyAsync \/ Insert
    \/ \E t \in Threads : Check(t) \/ isend(t)
    \/ (\E o \in Ongoing : triggerResponseForAnomaly(o))
    \/ TriggerLoop \/ TriggerCheck \/ clearAnomalyStatus
    \/ start \/ stop
    \/ messageSendCB \/ messageReceivedCB \/ messageResponseCB
    \/ messageTransferErrorCB \/ connectionErrorCB

Spec == Init /\ [][Next]_vars

-----------------------------------------------------------------------------
Kept == {ringBuffer[p] : p \in Positions} \ {0}
Latest(n) == {inserted[k] : k \in Len(inserted) - n + 1 .. Len(inserted)}

\* "Send the current ringbuffer away iff the activities have not been send so
\* far": the trigger takes every activity at most once and in order, and leaves
\* none behind that was in the ring; between triggers the ring holds the most
\* recent ones.  (A stop with activities in the ring spoils this: "free pending
\* messages" does not empty it.)
RingIsSentOnce ==
    /\ \A i, j \in DOMAIN flushed : i < j => flushed[i] # flushed[j]
    /\ ~stale =>
         /\ \A i, j \in DOMAIN flushed : i < j => flushed[i] < flushed[j]
         /\ ringBuffMutex = None =>
              LET n == Len(inserted) - mark IN
              Kept = Latest(IF n < ringBufferSize THEN n ELSE ringBufferSize)

\* pendingActivities is what is on its way and what was lost with a connection,
\* which takes its place for ever; threads that check at the same time exceed the
\* limit by one each.  No activity is logged twice by the server.
PendingIsExact ==
    /\ pendingActivities = Len(queue) + Len(wire) + replies + lost
    /\ pendingActivities <= max_pending_ops + Cardinality(Threads) - 1
    /\ \A i, j \in DOMAIN logged : i # j => logged[i] # logged[j]

-----------------------------------------------------------------------------
(* The inductive strengthening of the two properties.                      *)

\* Type correctness; the trigger holds the lock from its first step to its last.
TypeInv ==
    /\ ringBuffer \in [Positions -> Nat] /\ curPos \in Positions /\ sendPos \in Positions
    /\ pos \in Nat /\ pendingActivities \in Int
    /\ replies \in Nat /\ lost \in Nat /\ logs \in Nat /\ mark \in Nat
    /\ pc \in [Threads -> {"idle", "check", "isend", "insert", "loop", "loopCheck"}]
    /\ element \in [Threads -> Nat]
    /\ queue \in Seq(Nat) /\ wire \in Seq(Nat) /\ logged \in Seq(Nat)
    /\ inserted \in Seq(Nat) /\ flushed \in Seq(Nat)
    /\ mark <= Len(inserted) /\ stale \in BOOLEAN
    /\ ringBuffMutex = IF pc[Trigger] = "idle" THEN None ELSE Trigger
    /\ pc[Trigger] \notin {"check", "insert"}
    /\ \A t \in Threads \ {Trigger} : pc[t] \notin {"loop", "loopCheck"}

\* Threads that have passed the check count as if they had sent.
Sending == {t \in Threads : pc[t] = "isend"}
CountInv ==
    /\ pendingActivities = Len(queue) + Len(wire) + replies + lost
    /\ pendingActivities + Cardinality(Sending) <= max_pending_ops + Cardinality(Threads) - 1

\* An activity is with one thread, in one slot of the ring, or at one place on
\* its way to the server.
Once(s) == \A i, j \in DOMAIN s : i # j => s[i] # s[j]
Sent == Range(queue) \cup Range(wire) \cup Range(logged)
Held == {t \in Threads : pc[t] \in {"check", "isend", "insert", "loopCheck"}}
OnceInv ==
    /\ Once(queue) /\ Once(wire) /\ Once(logged)
    /\ Range(queue) \cap Range(wire) = {} /\ Range(logged) \cap (Range(queue) \cup Range(wire)) = {}
    /\ Sent \cup Kept \subseteq 1 .. logs /\ Sent \cap Kept = {}
    /\ \A p, q \in Positions : p # q => ringBuffer[p] = 0 \/ ringBuffer[p] # ringBuffer[q]
    /\ \A t \in Held : /\ element[t] \in 1 .. logs \ (Sent \cup Kept)
                       /\ \A u \in Held \ {t} : element[u] # element[t]

\* What the trigger has taken was inserted and is not in the ring again.
Increasing(s) == \A i, j \in DOMAIN s : i < j => s[i] < s[j]
FlushInv ==
    /\ Increasing(inserted) /\ Range(inserted) \subseteq 1 .. logs
    /\ pc[Notifier] = "insert" => \A x \in Range(inserted) : x < element[Notifier]
    /\ Once(flushed) /\ Kept \cup Range(flushed) \subseteq Range(inserted)
    /\ Kept \cap Range(flushed) = {}

\* The slot d places before p, and the ring that holds the n latest activities.
Back(p, d) == IF p >= d THEN p - d ELSE p + ringBufferSize - d
Window(n) ==
    /\ n <= Len(inserted)
    /\ \A d \in 1 .. ringBufferSize :
          ringBuffer[Back(curPos, d)] = IF d <= n THEN inserted[Len(inserted) - d + 1] ELSE 0
    /\ \A x \in Range(flushed), d \in 1 .. n : x < inserted[Len(inserted) - d + 1]
    /\ ringBuffMutex = None =>
          /\ n = IF Len(inserted) - mark < ringBufferSize THEN Len(inserted) - mark
                 ELSE ringBufferSize
          /\ sendPos = Back(curPos, n)
    /\ ringBuffMutex = Trigger =>
          /\ mark = Len(inserted) /\ sendPos <= pos /\ pos + n <= sendPos + ringBufferSize
          /\ pos % ringBufferSize = Back(curPos, n)
RingInv ==
    ~stale => Increasing(flushed) /\ \E n \in 0 .. ringBufferSize : Window(n)

IInv == TypeInv /\ CountInv /\ OnceInv /\ FlushInv /\ RingInv
=============================================================================
