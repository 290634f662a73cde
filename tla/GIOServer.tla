----------------------------- MODULE GIOServer -----------------------------
(***************************************************************************)
(* The server side of the GIO communication module (GIOServer.cpp): one    *)
(* thread waits for the next connection, spawns its successor when it gets *)
(* one and then serves it; a thread that ends is joined by the next one    *)
(* that ends, the last one by the destructor.                              *)
(*                                                                         *)
(* pendingClientThreadMutex is the variable mutex: cleanTerminatedThread   *)
(* joins a thread while it holds it.  A connection's response queue is a   *)
(* counter; the job processor behind it is the module JobProcessor.  The   *)
(* clients are external and owe the server nothing: they need not connect, *)
(* send, read or close.                                                    *)
(***************************************************************************)
EXTENDS Integers, FiniteSets

CONSTANTS
    MaxThreads,   \* bound: threads created, one more than connections accepted
    MaxRequests   \* bound: requests per connection

ASSUME GIOServerAssumption == {MaxThreads, MaxRequests} \subseteq Nat

Threads == 1 .. MaxThreads
Nobody == 0
TheDestructor == MaxThreads + 1

VARIABLES
    mutex,                \* holder of pendingClientThreadMutex, or Nobody
    cancelable,           \* the server's cancelable
    cancelled,            \* the threads whose own cancelable is cancelled
    lastThreadID,         \* number of threads created
    pendingClientThreads, \* the threads registered
    finishedThread,       \* the last thread that left, not yet joined
    tpc,                  \* where each thread is
    joined,               \* how often it was joined
    dpc,                  \* the destructor: none, lock, wait, relock, join, done
    requests,             \* requests received on the thread's connection
    queued, responded, aborted,  \* responses of the connection
    broken                \* the threads whose response sender gave up

regVars == <<mutex, lastThreadID, pendingClientThreads, finishedThread, joined, dpc>>
respVars == <<requests, queued, responded, aborted, broken>>
vars == <<regVars, cancelable, cancelled, tpc, respVars>>

Go(t, l) == tpc' = [tpc EXCEPT ![t] = l]

-----------------------------------------------------------------------------
(* The registry of threads.                                                *)

\* A thread registered under the mutex; tp are the places of the others.
addAcceptorThread(tp) ==
    /\ mutex = Nobody /\ lastThreadID < MaxThreads
    /\ lastThreadID' = lastThreadID + 1
    /\ pendingClientThreads' = pendingClientThreads \cup {lastThreadID'}
    /\ tpc' = [tp EXCEPT ![lastThreadID'] = "accept"]

\* join the thread that left before, if there is one
cleanTerminatedThread ==
    /\ finishedThread # Nobody => tpc[finishedThread] = "ended"
    /\ joined' = [t \in Threads |-> IF t = finishedThread THEN joined[t] + 1 ELSE joined[t]]

\* removeAcceptorThread: take the mutex ...
removeLocks(t) ==
    /\ tpc[t] = "remove" /\ mutex = Nobody
    /\ mutex' = t /\ Go(t, "removing")
    /\ UNCHANGED <<lastThreadID, pendingClientThreads, finishedThread, joined, dpc,
                   cancelable, cancelled, respVars>>

\* Mutant: the thread before is forgotten instead of joined.
removeForgets(t) ==
    /\ tpc[t] = "removing" /\ mutex = t
    /\ finishedThread' = t /\ mutex' = Nobody
    /\ pendingClientThreads' = pendingClientThreads \ {t}
    /\ dpc' = IF pendingClientThreads' = {} /\ dpc = "wait" THEN "relock" ELSE dpc
    /\ Go(t, "leaving")
    /\ UNCHANGED <<joined, lastThreadID, cancelable, cancelled, respVars>>

\* Mutant: nobody is told that the last thread has left.
removeSilently(t) ==
    /\ tpc[t] = "removing" /\ mutex = t
    /\ cleanTerminatedThread
    /\ finishedThread' = t /\ mutex' = Nobody
    /\ pendingClientThreads' = pendingClientThreads \ {t}
    /\ Go(t, "leaving")
    /\ UNCHANGED <<dpc, lastThreadID, cancelable, cancelled, respVars>>

\* ... join the thread before, leave the registry, notify, unlock
removeAcceptorThread(t) ==
    /\ tpc[t] = "removing" /\ mutex = t
    /\ cleanTerminatedThread
    /\ finishedThread' = t /\ mutex' = Nobody
    /\ pendingClientThreads' = pendingClientThreads \ {t}
    /\ dpc' = IF pendingClientThreads' = {} /\ dpc = "wait" THEN "relock" ELSE dpc
    /\ Go(t, "leaving")
    /\ UNCHANGED <<lastThreadID, cancelable, cancelled, respVars>>

ThreadEnds(t) ==
    /\ tpc[t] = "leaving" /\ Go(t, "ended")
    /\ UNCHANGED <<regVars, cancelable, cancelled, respVars>>

-----------------------------------------------------------------------------
(* acceptThreadFunc.                                                       *)

\* A connection is waiting and g_socket_listener_accept is not cancelled ...
AcceptWait(t) ==
    /\ tpc[t] = "accept" /\ ~cancelable /\ lastThreadID < MaxThreads
    /\ Go(t, "incoming")
    /\ UNCHANGED <<regVars, cancelable, cancelled, respVars>>

\* ... and is accepted even if it is cancelled now; the response sender starts.
Accept(t) ==
    /\ tpc[t] = "incoming" /\ Go(t, "addNext")
    /\ UNCHANGED <<regVars, cancelable, cancelled, respVars>>

AcceptCancelled(t) ==
    /\ tpc[t] = "accept" /\ cancelable
    /\ Go(t, "remove")
    /\ UNCHANGED <<regVars, cancelable, cancelled, respVars>>

\* The successor is spawned, also while the server is being destroyed.
AddNext(t) ==
    /\ tpc[t] = "addNext"
    /\ addAcceptorThread([tpc EXCEPT ![t] = "receive"])
    /\ UNCHANGED <<mutex, finishedThread, joined, dpc, cancelable, cancelled, respVars>>

\* while( ! g_cancellable_is_cancelled( ... ) )
ReceiveTest(t) ==
    /\ tpc[t] = "receive" /\ Go(t, IF t \in cancelled THEN "shutdown" ELSE "read")
    /\ UNCHANGED <<regVars, cancelable, cancelled, respVars>>

\* A request: messageReceivedCB, which queues a response; an invalid one is
\* answered by an error and ends the loop.
Receive(t, valid) ==
    /\ tpc[t] = "read" /\ requests[t] < MaxRequests
    /\ requests' = [requests EXCEPT ![t] = @ + 1]
    /\ queued' = [queued EXCEPT ![t] = @ + 1]
    /\ Go(t, IF valid THEN "receive" ELSE "shutdown")
    /\ UNCHANGED <<regVars, cancelable, cancelled, responded, aborted, broken>>

\* The read was cancelled ...
ReceiveCancelled(t) ==
    /\ tpc[t] = "read" /\ t \in cancelled
    /\ Go(t, "shutdown")
    /\ UNCHANGED <<regVars, cancelable, cancelled, respVars>>

\* ... or the client has closed the connection.
ReceiveEnds(t) ==
    /\ tpc[t] = "read" /\ Go(t, "shutdown")
    /\ UNCHANGED <<regVars, cancelable, cancelled, respVars>>

\* The response sender: a response is sent, responseSendCB, delete ...
SendResponse(t) ==
    /\ t \notin broken /\ queued[t] > 0
    /\ queued' = [queued EXCEPT ![t] = @ - 1]
    /\ responded' = [responded EXCEPT ![t] = @ + 1]
    /\ UNCHANGED <<regVars, cancelable, cancelled, tpc, requests, aborted, broken>>

\* ... or the write fails: the response stays queued, the receiver is cancelled.
SendFails(t) ==
    /\ t \notin broken /\ queued[t] > 0
    /\ broken' = broken \cup {t} /\ cancelled' = cancelled \cup {t}
    /\ UNCHANGED <<regVars, cancelable, tpc, requests, queued, responded, aborted>>

\* messageSendQueueInstance.shutdown() waits for the sender, terminate() aborts
\* what it could not send.
Shutdown(t) ==
    /\ tpc[t] = "shutdown" /\ (queued[t] = 0 \/ t \in broken)
    /\ aborted' = [aborted EXCEPT ![t] = @ + queued[t]]
    /\ queued' = [queued EXCEPT ![t] = 0]
    /\ Go(t, "remove")
    /\ UNCHANGED <<regVars, cancelable, cancelled, requests, responded, broken>>

-----------------------------------------------------------------------------
(* listen and the destructor.                                              *)

listen ==
    /\ lastThreadID = 0 /\ dpc = "none"
    /\ addAcceptorThread(tpc)
    /\ UNCHANGED <<mutex, finishedThread, joined, dpc, cancelable, cancelled, respVars>>

DestructorCancels ==
    /\ dpc = "none" /\ dpc' = "lock" /\ cancelable' = TRUE
    /\ UNCHANGED <<mutex, lastThreadID, pendingClientThreads, finishedThread, joined,
                   cancelled, tpc, respVars>>

\* Under the mutex: cancel all receivers, then wait unless nobody is left.
DestructorLocks ==
    /\ dpc = "lock" /\ mutex = Nobody
    /\ cancelled' = cancelled \cup pendingClientThreads
    /\ IF pendingClientThreads = {} THEN dpc' = "join" /\ mutex' = TheDestructor
       ELSE dpc' = "wait" /\ UNCHANGED mutex
    /\ UNCHANGED <<lastThreadID, pendingClientThreads, finishedThread, joined, cancelable,
                   tpc, respVars>>

\* The condition variable has the mutex again.
DestructorRelocks ==
    /\ dpc = "relock" /\ mutex = Nobody
    /\ IF pendingClientThreads = {} THEN dpc' = "join" /\ mutex' = TheDestructor
       ELSE dpc' = "wait" /\ UNCHANGED mutex
    /\ UNCHANGED <<lastThreadID, pendingClientThreads, finishedThread, joined, cancelable,
                   cancelled, tpc, respVars>>

DestructorWakesSpuriously ==
    /\ dpc = "wait" /\ dpc' = "relock"
    /\ UNCHANGED <<mutex, lastThreadID, pendingClientThreads, finishedThread, joined,
                   cancelable, cancelled, tpc, respVars>>

DestructorJoins ==
    /\ dpc = "join" /\ cleanTerminatedThread
    /\ finishedThread' = Nobody /\ dpc' = "done" /\ mutex' = Nobody
    /\ UNCHANGED <<lastThreadID, pendingClientThreads, cancelable, cancelled, tpc, respVars>>

Destructor == DestructorLocks \/ DestructorRelocks \/ DestructorJoins

-----------------------------------------------------------------------------
Init ==
    /\ mutex = Nobody /\ cancelable = FALSE /\ cancelled = {}
    /\ lastThreadID = 0 /\ pendingClientThreads = {} /\ finishedThread = Nobody
    /\ tpc = [t \in Threads |-> "none"] /\ joined = [t \in Threads |-> 0]
    /\ dpc = "none" /\ broken = {}
    /\ requests = [t \in Threads |-> 0] /\ queued = [t \in Threads |-> 0]
    /\ responded = [t \in Threads |-> 0] /\ aborted = [t \in Threads |-> 0]

\* What a thread does without its client.
Own(t) == Accept(t) \/ AcceptCancelled(t) \/ AddNext(t) \/ ReceiveTest(t)
          \/ ReceiveCancelled(t) \/ Shutdown(t) \/ removeLocks(t)
          \/ removeAcceptorThread(t) \/ ThreadEnds(t)

Send(t) == SendResponse(t) \/ SendFails(t)

Client(t) == AcceptWait(t) \/ ReceiveEnds(t) \/ \E valid \in BOOLEAN : Receive(t, valid)

Next == \/ listen \/ DestructorCancels \/ Destructor \/ DestructorWakesSpuriously
        \/ \E t \in Threads : Own(t) \/ Send(t) \/ Client(t)

Spec == Init /\ [][Next]_vars
\* Every thread of the server is scheduled.  Weak fairness is enough for the
\* mutex, which each thread takes a bounded number of times.  Nothing is said of
\* Send: g_output_stream_write_all is called without a cancelable and blocks as long
\* as the connection is up and the client does not read.
FairSpec == /\ Spec /\ WF_vars(Destructor) /\ \A t \in Threads : WF_vars(Own(t))

-----------------------------------------------------------------------------
Alive == {t \in Threads : tpc[t] \notin {"none", "leaving", "ended"}}

\* Type correctness of the server.
TypeOK ==
    /\ mutex \in 0 .. TheDestructor /\ cancelable \in BOOLEAN
    /\ cancelled \subseteq Threads /\ broken \subseteq Threads
    /\ lastThreadID \in 0 .. MaxThreads /\ pendingClientThreads \subseteq Threads
    /\ finishedThread \in 0 .. MaxThreads
    /\ tpc \in [Threads -> {"none", "accept", "incoming", "addNext", "receive", "read",
                            "shutdown", "remove", "removing", "leaving", "ended"}]
    /\ joined \in [Threads -> Nat] /\ requests \in [Threads -> 0 .. MaxRequests]
    /\ dpc \in {"none", "lock", "wait", "relock", "join", "done"}
    /\ {queued, responded, aborted} \subseteq [Threads -> Nat]

\* A thread that left is joined exactly once, except the last one, which waits
\* in finishedThread.
JoinedOnce ==
    \A t \in Threads :
        joined[t] = IF tpc[t] \in {"leaving", "ended"} /\ t # finishedThread THEN 1 ELSE 0

\* The server accepts connections until it is destroyed: exactly one thread is
\* waiting for one or about to spawn its successor.
AlwaysAccepting ==
    (lastThreadID > 0 /\ ~cancelable)
        => Cardinality({t \in Threads : tpc[t] \in {"accept", "incoming", "addNext"}}) = 1

\* The registry names the threads that may still use the server, no other: a
\* thread leaves it before it can be joined, by its successor in that place
\* (JoinedOnce), and is replaced before it serves (AlwaysAccepting).
RegistryIsExact ==
    TypeOK /\ pendingClientThreads = Alive /\ JoinedOnce /\ AlwaysAccepting

\* When the destructor is done no thread is left that could touch the server:
\* all have ended and were joined, and a connection that ended has sent or
\* aborted every response it queued.
GoneWhenDestroyed ==
    /\ dpc = "done" => \A t \in 1 .. lastThreadID : tpc[t] = "ended" /\ joined[t] = 1
    /\ \A t \in Threads : tpc[t] \in {"remove", "removing", "leaving", "ended"} =>
          queued[t] = 0 /\ requests[t] = responded[t] + aborted[t]

\* The inductive strengthening of the two properties above, in five parts:
\* threads are numbered in the order of creation, and registered while alive, ...
ThreadsInv ==
    /\ pendingClientThreads = Alive
    /\ \A t \in Threads : tpc[t] = "none" <=> t > lastThreadID

\* ... who holds the mutex, ...
MutexInv ==
    /\ \A t \in Threads : tpc[t] = "removing" <=> mutex = t
    /\ dpc = "join" <=> mutex = TheDestructor

\* ... a thread that left is joined by the next one, so that only the last one
\* may still be on its way out, ...
JoinInv ==
    /\ JoinedOnce
    /\ finishedThread # Nobody => tpc[finishedThread] \in {"leaving", "ended"}
    /\ \A t \in Threads : tpc[t] = "leaving" => t = finishedThread
    /\ dpc = "done" => finishedThread = Nobody
    /\ dpc \in {"join", "done"} => pendingClientThreads = {}

\* ... the youngest thread is the one that accepts, ...
Accepting == {"accept", "incoming", "addNext"}
AcceptInv ==
    /\ \A t \in Threads : tpc[t] \in Accepting => t = lastThreadID
    /\ lastThreadID > 0 /\ ~cancelable => tpc[lastThreadID] \in Accepting

\* ... and a thread has responses only while it serves.
ResponseInv ==
    \A t \in Threads :
        /\ requests[t] = queued[t] + responded[t] + aborted[t]
        /\ tpc[t] \notin {"receive", "read", "shutdown"} => queued[t] = 0

IInv == TypeOK /\ ThreadsInv /\ MutexInv /\ JoinInv /\ AcceptInv /\ ResponseInv

\* The sender of the connection is in g_output_stream_write_all, or about to be.
Writing(t) == queued[t] > 0 /\ t \notin broken

\* The destructor returns although clients stay connected, connections come in
\* while it waits and threads end in any order; provided that no client leaves a
\* response unread for ever, without closing, and so blocks its sender.
DestructorReturns ==
    (\A t \in Threads : []<>~Writing(t)) => (dpc = "lock" ~> dpc = "done")
=============================================================================
