---------------------- MODULE ActivityMultiplexerQueue ----------------------
(***************************************************************************)
(* The queue between the application threads that log activities and the  *)
(* single notifier thread that dispatches them to the asynchronous         *)
(* listeners (ActivityMultiplexerQueue and ActivityMultiplexerNotifier of  *)
(* monitoring/activity_multiplexer/ActivityMultiplexerAsync.cpp).          *)
(*                                                                         *)
(* Push serialises the producers with a mutex, Pop advances readIndex      *)
(* without it, and the flag `overloaded' is read and written by both sides *)
(* with no protection at all.  One action is one access to shared memory:  *)
(* the unlocked reads, the two stores of a push, the five accesses of      *)
(* checkOverflowMode and the steps of the condition variable are separate, *)
(* so every interleaving of the real threads is a behaviour.               *)
(*                                                                         *)
(* Abstractions.  An activity is the ordinal of its store into the buffer  *)
(* (1 for the first activity stored), and NoActivity is the null pointer.  *)
(* The indexes are kept reduced to the bits under indexMask: the code      *)
(* masks them at every use and the capacity divides 2^32.                  *)
(***************************************************************************)
EXTENDS Integers, FiniteSets

CONSTANTS
    Producers,   \* application threads that call Log
    Capacity,    \* slots of the ring buffer (256 in the code)
    MaxCalls,    \* bound: calls of Push in a behaviour
    MaxStarts    \* bound: calls of start in a behaviour

ASSUME CapacityAssumption == Capacity \in Nat /\ Capacity > 1
ASSUME ProducersAssumption == {"free", "notifier"} \cap Producers = {}
ASSUME BoundsAssumption == MaxCalls \in Nat /\ MaxStarts \in Nat

VARIABLES
    buffer,      \* buffer[Capacity], NoActivity where the pointer is null
    writeIndex,  \* written under the lock
    readIndex,   \* written by the notifier alone
    overloaded,  \* the unprotected flag
    lost,        \* activities discarded and not yet reported
    notified,    \* read by Push before it signals
    terminate,   \* asks the notifier to end
    terminated,  \* the notifier has left Pop for good
    lock,        \* holder of the mutex: a producer, Notifier or Free
    pc,          \* pc[p]: where producer p is in Push
    curSize,     \* curSize[p]: the local variable of Push
    cpc,         \* where the notifier is in Run, Pop and checkOverflowMode
    activity,    \* the activity the notifier holds
    missed,      \* the notifier's `result' of checkOverflowMode
    mpc,         \* where the thread that starts and stops the component is
    calls,       \* number of calls of Push so far
    starts,      \* number of calls of start so far
    accepted,    \* activities published by Push so far
    dropped,     \* activities discarded so far
    dispatched,  \* activities handed to dispatch so far
    lost_events, \* losses reported through dispatch so far
    mark         \* the value of `accepted' when stop was last called

ring == <<buffer, writeIndex, readIndex>>
flags == <<notified, terminate, terminated>>
queueVars == <<ring, overloaded, lost, flags, lock>>
producerVars == <<pc, curSize, calls, accepted, dropped>>
notifierVars == <<cpc, activity, missed, dispatched, lost_events>>
mainVars == <<mpc, starts, mark>>
vars == <<queueVars, producerVars, notifierVars, mainVars>>

NoActivity == 0
Free == "free"
Notifier == "notifier"

\* Mutant: an index used without indexMask.
MaskForgotten(x) == x

\* indexMask & x
Mask(x) == x % Capacity

\* indexMask & (writeIndex - readIndex)
Size == Mask(writeIndex - readIndex)

isEmpty == Size = 0

\* Control of a producer, and of the notifier.
Goes(p, from, to) == pc[p] = from /\ pc' = [pc EXCEPT ![p] = to]
NotifierGoes(from, to) == cpc = from /\ cpc' = to

-----------------------------------------------------------------------------
(* ActivityMultiplexerQueue::Push, run by any producer.                    *)

\* The read of `overloaded' that is made without the lock.
PushCheckOverloaded(p) ==
    /\ mpc # "destroyed" /\ calls < MaxCalls
    /\ Goes(p, "idle", IF overloaded THEN "discard" ELSE "lock")
    /\ calls' = calls + 1
    /\ UNCHANGED <<queueVars, curSize, accepted, dropped, notifierVars, mainVars>>

\* lost++, with the lock or without it
PushDiscard(p) ==
    /\ \/ Goes(p, "discard", "idle")
       \/ Goes(p, "discardLocked", "unlock")
    /\ lost' = lost + 1 /\ dropped' = dropped + 1
    /\ UNCHANGED <<ring, overloaded, flags, lock, curSize, calls, accepted,
                   notifierVars, mainVars>>

\* Mutant: the slot that tells a full ring from an empty one is used too.
HasRoomToTheLastSlot(size) == size < Capacity

\* May one more activity be stored?  One slot is always kept empty.
HasRoom(size) == size < Capacity - 1

\* Mutant: the producers are not serialised.
PushUnserialised(p) ==
    /\ Goes(p, "lock", IF HasRoom(Size) THEN "store" ELSE "overload")
    /\ curSize' = [curSize EXCEPT ![p] = Size]
    /\ UNCHANGED <<ring, overloaded, lost, flags, lock, calls, accepted, dropped,
                   notifierVars, mainVars>>

\* lock.lock() and the computation of curSize.
PushLock(p) ==
    /\ Goes(p, "lock", IF HasRoom(Size) THEN "store" ELSE "overload")
    /\ lock = Free /\ lock' = p
    /\ curSize' = [curSize EXCEPT ![p] = Size]
    /\ UNCHANGED <<ring, overloaded, lost, flags, calls, accepted, dropped,
                   notifierVars, mainVars>>

\* buffer[indexMask & writeIndex] = activity
PushStore(p) ==
    /\ Goes(p, "store", "publish")
    /\ buffer' = [buffer EXCEPT ![writeIndex] = accepted + 1]
    /\ UNCHANGED <<writeIndex, readIndex, overloaded, lost, flags, lock, curSize,
                   calls, accepted, dropped, notifierVars, mainVars>>

\* writeIndex++
PushPublish(p) ==
    /\ Goes(p, "publish", "unlock")
    /\ writeIndex' = Mask(writeIndex + 1) /\ accepted' = accepted + 1
    /\ UNCHANGED <<buffer, readIndex, overloaded, lost, flags, lock, curSize,
                   calls, dropped, notifierVars, mainVars>>

\* overloaded = true
PushOverload(p) ==
    /\ Goes(p, "overload", "discardLocked")
    /\ overloaded' = TRUE
    /\ UNCHANGED <<ring, lost, flags, lock, curSize, calls, accepted, dropped,
                   notifierVars, mainVars>>

\* lock.unlock() and the test that decides whether to signal.
PushUnlock(p) ==
    /\ Goes(p, "unlock", IF curSize[p] > Capacity \div 2 /\ ~notified
                         THEN "notify" ELSE "idle")
    /\ lock' = Free
    /\ UNCHANGED <<ring, overloaded, lost, flags, curSize, calls, accepted,
                   dropped, notifierVars, mainVars>>

\* What not_empty.notify_one() does to the notifier: it is lost when the
\* notifier is not blocked.
NotifyOne ==
    /\ cpc' = IF cpc = "blocked" THEN "relock" ELSE cpc
    /\ UNCHANGED <<activity, missed, dispatched, lost_events>>

PushNotify(p) ==
    /\ Goes(p, "notify", "idle")
    /\ NotifyOne
    /\ UNCHANGED <<queueVars, curSize, calls, accepted, dropped, mainVars>>

Push(p) ==
    \/ PushCheckOverloaded(p) \/ PushDiscard(p) \/ PushLock(p) \/ PushStore(p)
    \/ PushPublish(p) \/ PushOverload(p) \/ PushUnlock(p) \/ PushNotify(p)

-----------------------------------------------------------------------------
(* ActivityMultiplexerQueue::Pop, run by the notifier thread.              *)

\* The first isEmpty(); an empty queue also clears `notified'.
PopCheckEmpty ==
    /\ NotifierGoes("pop", IF isEmpty THEN "relock" ELSE "exit")
    /\ notified' = (notified /\ ~isEmpty)
    /\ UNCHANGED <<ring, overloaded, lost, terminate, terminated, lock, producerVars,
                   activity, missed, dispatched, lost_events, mainVars>>

\* Must the notifier sleep?
MustWait == isEmpty /\ ~terminate

\* The lock is taken (at first, or on return from the wait) and the
\* condition of the loop evaluated; leaving the block releases the lock.
PopTestWait ==
    /\ lock = Free
    /\ NotifierGoes("relock", IF MustWait THEN "wait" ELSE "exit")
    /\ lock' = IF MustWait THEN Notifier ELSE Free
    /\ UNCHANGED <<ring, overloaded, lost, flags, producerVars, activity, missed,
                   dispatched, lost_events, mainVars>>

\* wait_for blocks: it gives up the lock.
PopBlock ==
    /\ NotifierGoes("wait", "blocked")
    /\ lock' = Free
    /\ UNCHANGED <<ring, overloaded, lost, flags, producerVars, activity, missed,
                   dispatched, lost_events, mainVars>>

\* Mutant: a wait without timeout.
PopWaitsForSignal ==
    /\ NotifierGoes("blocked", "blocked")
    /\ UNCHANGED vars

\* The 100 ms of wait_for are over.
PopTimeout ==
    /\ NotifierGoes("blocked", "relock")
    /\ UNCHANGED <<queueVars, producerVars, activity, missed, dispatched,
                   lost_events, mainVars>>

\* Mutant: the thread ends as soon as it is told to.
MustEndAtOnce == terminate

\* Does the thread end here?
MustEnd == isEmpty /\ terminate

\* The test that ends the thread.
PopExit ==
    /\ NotifierGoes("exit", IF MustEnd THEN "ended" ELSE "read")
    /\ terminated' = (terminated \/ MustEnd)
    /\ UNCHANGED <<ring, overloaded, lost, notified, terminate, lock, producerVars,
                   activity, missed, dispatched, lost_events, mainVars>>

\* The slot is read and set to NULL.
PopRead ==
    /\ NotifierGoes("read", "advance")
    /\ activity' = buffer[readIndex]
    /\ buffer' = [buffer EXCEPT ![readIndex] = NoActivity]
    /\ UNCHANGED <<writeIndex, readIndex, overloaded, lost, flags, lock,
                   producerVars, missed, dispatched, lost_events, mainVars>>

\* readIndex++, after which producers may use the slot again.
PopAdvance ==
    /\ NotifierGoes("advance", "overflow")
    /\ readIndex' = Mask(readIndex + 1)
    /\ UNCHANGED <<buffer, writeIndex, overloaded, lost, flags, lock, producerVars,
                   activity, missed, dispatched, lost_events, mainVars>>

Pop == \/ PopCheckEmpty \/ PopTestWait \/ PopBlock \/ PopTimeout
       \/ PopExit \/ PopRead \/ PopAdvance

(* ActivityMultiplexerQueue::checkOverflowMode.                            *)

\* `!overloaded', then `!isEmpty()': losses are reported only once
\* everything queued has been taken.
OverflowTest ==
    /\ \/ NotifierGoes("overflow", IF overloaded THEN "drained" ELSE "dispatch")
       \/ NotifierGoes("drained", IF isEmpty THEN "count" ELSE "dispatch")
    /\ UNCHANGED <<queueVars, producerVars, activity, missed, dispatched,
                   lost_events, mainVars>>

\* uint64_t result = lost
OverflowReadLost ==
    /\ NotifierGoes("count", "subtract")
    /\ missed' = lost
    /\ UNCHANGED <<queueVars, producerVars, activity, dispatched, lost_events,
                   mainVars>>

\* Mutant: lost = 0.
OverflowResetLost ==
    /\ NotifierGoes("subtract", "clear")
    /\ lost' = 0
    /\ UNCHANGED <<ring, overloaded, flags, lock, producerVars, activity, missed,
                   dispatched, lost_events, mainVars>>

\* lost -= result
OverflowSubtract ==
    /\ NotifierGoes("subtract", "clear")
    /\ lost' = lost - missed
    /\ UNCHANGED <<ring, overloaded, flags, lock, producerVars, activity, missed,
                   dispatched, lost_events, mainVars>>

\* overloaded = false
OverflowClear ==
    /\ NotifierGoes("clear", "dispatch")
    /\ overloaded' = FALSE
    /\ UNCHANGED <<ring, lost, flags, lock, producerVars, activity, missed,
                   dispatched, lost_events, mainVars>>

checkOverflowMode ==
    OverflowTest \/ OverflowReadLost \/ OverflowSubtract \/ OverflowClear

\* multiplexer->dispatch( lost, activity ) and the next round of Run's loop
Dispatch ==
    /\ NotifierGoes("dispatch", "pop")
    /\ dispatched' = dispatched + 1 /\ lost_events' = lost_events + missed
    /\ activity' = NoActivity /\ missed' = 0
    /\ UNCHANGED <<queueVars, producerVars, mainVars>>

Run == Pop \/ checkOverflowMode \/ Dispatch

-----------------------------------------------------------------------------
(* ActivityMultiplexerAsync::start, ::stop and the destructor.             *)

start ==
    /\ mpc = "stopped" /\ mpc' = "running"
    /\ starts < MaxStarts /\ starts' = starts + 1
    /\ terminate' = FALSE /\ terminated' = FALSE
    /\ cpc' = "pop"
    /\ UNCHANGED <<ring, overloaded, lost, notified, lock, producerVars, activity,
                   missed, dispatched, lost_events, mark>>

\* finalize(): terminate = true.  The destructor finalizes without joining
\* the thread; it must not race with calls of Push.
finalizeRequest ==
    /\ \/ mpc = "running" /\ mpc' = "stopNotify" /\ mark' = accepted
       \/ /\ mpc \in {"running", "stopped"} /\ mpc' = "dtorNotify"
          /\ \A p \in Producers : pc[p] = "idle"
          /\ UNCHANGED mark
    /\ terminate' = TRUE
    /\ UNCHANGED <<ring, overloaded, lost, notified, terminated, lock,
                   producerVars, notifierVars, starts>>

\* finalize(): notify_one, without the lock
finalizeNotify ==
    /\ \/ mpc = "stopNotify" /\ mpc' = "stopSpin"
       \/ mpc = "dtorNotify" /\ mpc' = "dtorSpin"
    /\ NotifyOne
    /\ UNCHANGED <<queueVars, producerVars, starts, mark>>

\* Mutant: finalize() returns without waiting for the notifier.
finalizeReturns ==
    /\ \/ mpc = "stopSpin" /\ mpc' = "stopJoin"
       \/ mpc = "dtorSpin" /\ mpc' = "destroyed"
    /\ UNCHANGED <<queueVars, producerVars, notifierVars, starts, mark>>

\* finalize(): while( ! terminated ) usleep(10)
finalizeSpin ==
    /\ terminated
    /\ \/ mpc = "stopSpin" /\ mpc' = "stopJoin"
       \/ mpc = "dtorSpin" /\ mpc' = "destroyed"
    /\ UNCHANGED <<queueVars, producerVars, notifierVars, starts, mark>>

\* worker->join()
stopJoin ==
    /\ mpc = "stopJoin" /\ mpc' = "stopped"
    /\ cpc = "ended"
    /\ UNCHANGED <<queueVars, producerVars, notifierVars, starts, mark>>

Main == start \/ finalizeRequest \/ finalizeNotify \/ finalizeSpin \/ stopJoin

-----------------------------------------------------------------------------
Init ==
    /\ buffer = [i \in 0 .. Capacity - 1 |-> NoActivity]
    /\ writeIndex = 0 /\ readIndex = 0
    /\ overloaded = FALSE /\ lost = 0 /\ notified = FALSE
    /\ terminate = TRUE /\ terminated = TRUE
    /\ lock = Free
    /\ pc = [p \in Producers |-> "idle"]
    /\ curSize = [p \in Producers |-> 0]
    /\ cpc = "ended" /\ activity = NoActivity /\ missed = 0
    /\ mpc = "stopped"
    /\ calls = 0 /\ starts = 0
    /\ accepted = 0 /\ dropped = 0 /\ dispatched = 0 /\ lost_events = 0
    /\ mark = 0

Next == (\E p \in Producers : Push(p)) \/ Run \/ Main

Spec == Init /\ [][Next]_vars

\* A thread inside Push, Run or stop keeps running; a mutex that is free
\* again and again is obtained in the end.  Nobody has to call Push, start
\* or stop.
Fairness ==
    /\ \A p \in Producers :
          /\ WF_vars(Push(p) /\ pc[p] # "idle")
          /\ SF_vars(PushLock(p))
    /\ WF_vars(Run)
    /\ SF_vars(PopTestWait)
    /\ WF_vars(finalizeNotify \/ finalizeSpin \/ stopJoin)

FairSpec == Spec /\ Fairness

-----------------------------------------------------------------------------
ProducerStates == {"idle", "discard", "lock", "store", "publish", "overload",
                   "discardLocked", "unlock", "notify"}
NotifierStates == {"ended", "pop", "relock", "wait", "blocked", "exit", "read",
                   "advance", "overflow", "drained", "count", "subtract",
                   "clear", "dispatch"}
MainStates == {"stopped", "running", "stopNotify", "stopSpin", "stopJoin",
               "dtorNotify", "dtorSpin", "destroyed"}

\* Type correctness of the queue, its threads and the bookkeeping counters.
TypeOK ==
    /\ buffer \in [0 .. Capacity - 1 -> Nat]
    /\ writeIndex \in 0 .. Capacity - 1
    /\ readIndex \in 0 .. Capacity - 1
    /\ overloaded \in BOOLEAN
    /\ lost \in Nat
    /\ notified \in BOOLEAN
    /\ terminate \in BOOLEAN
    /\ terminated \in BOOLEAN
    /\ lock \in Producers \cup {Free, Notifier}
    /\ pc \in [Producers -> ProducerStates]
    /\ curSize \in [Producers -> 0 .. Capacity - 1]
    /\ cpc \in NotifierStates
    /\ activity \in Nat
    /\ missed \in Nat
    /\ mpc \in MainStates
    /\ calls \in Nat /\ starts \in Nat
    /\ accepted \in Nat /\ dropped \in Nat /\ dispatched \in Nat
    /\ lost_events \in Nat /\ mark \in Nat

\* Activities the notifier has taken out of the ring and not yet dispatched.
Holding == {"overflow", "drained", "count", "subtract", "clear", "dispatch"}
Taken == IF cpc \in Holding THEN 1 ELSE 0

\* The distance of slot i from the read index.
Offset(i) == Mask(i - readIndex)

\* The calls of Push whose activity is neither published nor discarded yet.
InFlight == {p \in Producers : pc[p] \in {"discard", "lock", "store", "publish", "overload",
                                         "discardLocked"}}

\* The inductive strengthening of the properties below, in six parts: who
\* holds the lock, ...
LockInv ==
    /\ \A p \in Producers :
          pc[p] \in {"store", "publish", "overload", "discardLocked", "unlock"}
             <=> lock = p
    /\ cpc = "wait" <=> lock = Notifier

\* ... what the slots between the two indexes contain, ...
RingInv ==
    /\ accepted = dispatched + Taken + Size
    /\ \A i \in 0 .. Capacity - 1 :
          Offset(i) < Size /\ ~(cpc = "advance" /\ i = readIndex)
             => buffer[i] = dispatched + Taken + Offset(i) + 1
    /\ \A p \in Producers :
          /\ pc[p] \in {"store", "publish"} => HasRoom(Size)
          /\ pc[p] = "publish" => buffer[writeIndex] = accepted + 1

\* ... what the notifier knows and holds, ...
NotifierInv ==
    /\ cpc \in {"read", "advance"} => ~isEmpty
    /\ cpc = "exit" => ~isEmpty \/ terminate
    /\ activity = IF cpc \in Holding \cup {"advance"} THEN dispatched + 1 ELSE NoActivity

\* ... where the losses are, ...
LossInv ==
    /\ cpc \notin {"subtract", "clear", "dispatch"} => missed = 0
    /\ cpc = "subtract" => missed <= lost
    /\ dropped = lost_events + lost
                 + IF cpc \in {"clear", "dispatch"} THEN missed ELSE 0

\* ... which calls are under way, ...
CallsInv ==
    /\ IsFiniteSet(InFlight)
    /\ calls = accepted + dropped + Cardinality(InFlight)
    /\ calls <= MaxCalls

\* ... and how the life of the notifier follows start and stop.
LifeInv ==
    /\ terminated <=> cpc = "ended"
    /\ mpc = "running" => ~terminate /\ cpc # "ended"
    /\ mpc \in {"stopped", "stopJoin", "destroyed"} => cpc = "ended"
    /\ mark <= accepted
    /\ cpc = "ended" => mark <= dispatched

IInv == TypeOK /\ LockInv /\ RingInv /\ NotifierInv /\ LossInv /\ CallsInv /\ LifeInv

\* The activity the notifier hands to dispatch is the one that follows the
\* last one dispatched: no accepted activity is skipped, duplicated,
\* reordered, or overwritten in its slot before it was read.
InOrderDelivery ==
    cpc \in Holding \cup {"advance"} => activity = dispatched + 1

\* Pop's assert( !isEmpty() ): the notifier reads a slot only when there is
\* an activity in it, whatever start, stop and Push do meanwhile.
NeverReadsNull ==
    cpc = "read" => ~isEmpty /\ buffer[readIndex] # NoActivity

\* Every call of Push, but those under way, is accounted for: its activity was
\* dispatched, is held by the notifier or sits in the queue, or it was
\* counted as lost; and every loss is waiting in `lost', on its way through
\* checkOverflowMode, or reported in lost_events.
LossesAreCounted ==
    /\ dropped = lost_events + lost
                 + IF cpc \in {"clear", "dispatch"} THEN missed ELSE 0
    /\ accepted = dispatched + Taken + Size
    /\ calls = accepted + dropped + Cardinality(InFlight)

\* stop() returns only after every activity accepted before the call has
\* been dispatched.
StopDrains == mpc = "stopped" => dispatched >= mark

\* "it might already be destructed": once the destructor has passed its spin
\* loop the notifier thread makes no access to the queue any more.
NoAccessAfterDestruction == mpc = "destroyed" => cpc = "ended"

\* The queue as its users see it.  An activity leaves it when Pop reads its
\* slot, a loss stays unreported until it is dispatched.
First == IF cpc = "advance" THEN 1 ELSE 0
Queued == [k \in 1 .. Size - First |-> buffer[Mask(readIndex + First + k - 1)]]

Abstract == INSTANCE LossyFifo WITH
    Activity <- 1 .. MaxCalls,
    Bound <- Capacity - 1,
    queue <- Queued,
    held <- activity,
    unreported <- dropped - lost_events,
    reported <- lost_events

\* Push, Pop and checkOverflowMode implement the lossy queue: between the
\* unlocked reads and the two stores of a push there is always one step that
\* makes it happen.
ImplementsLossyFifo == Abstract!Spec

\* While the component runs, every accepted activity is dispatched although
\* Push signals only when the buffer is more than half full.
AcceptedIsDispatched ==
    \A n \in 1 .. MaxCalls :
        (accepted >= n /\ mpc = "running")
            ~> (dispatched >= n)

\* stop() and the destructor return although the notification of finalize()
\* can be lost, because wait_for times out; and meanwhile nothing is left lying
\* (AcceptedIsDispatched).
StopReturns ==
    /\ AcceptedIsDispatched
    /\ (mpc \in {"stopNotify", "stopSpin", "stopJoin", "dtorNotify", "dtorSpin"})
        ~> (mpc \in {"stopped", "destroyed"})

\* An overload ends: once the queue has been drained the flag is cleared,
\* and Push adds activities again as its comment promises.
OverloadEnds ==
    (overloaded /\ mpc = "running") ~> (~overloaded \/ mpc # "running")
=============================================================================
