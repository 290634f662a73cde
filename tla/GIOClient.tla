----------------------------- MODULE GIOClient -----------------------------
(***************************************************************************)
(* The client side of the GIO communication module: the connection threads *)
(* of GIOClient.cpp, the sender thread of ClientMessageSendProcessor       *)
(* (GIOinternal.hpp), ireconnect, isend, dropPendingMessages and the       *)
(* destructor.  JobProcessor models the sender's job queue in detail; here *)
(* a critical section of it is one step.                                   *)
(*                                                                         *)
(* Connection thread t + 1 is created with a pointer to thread t, which it *)
(* joins.  connection_ready_mutex is locked in ireconnect and unlocked by  *)
(* the thread that ireconnect creates, so it is a flag and not a mutex     *)
(* with an owner.  Messages are numbered in the order of isend.  The       *)
(* network and the server are external: a write to a broken connection     *)
(* fails or is swallowed, an answer may be late, damaged or lost.          *)
(***************************************************************************)
EXTENDS Integers, Sequences, FiniteSets, SequencesExt

CONSTANTS
    MaxThreads,    \* bound: connection attempts
    MaxMessages,   \* bound: messages sent
    OutsideCalls   \* bound: ireconnect called other than from connectionErrorCB

GIOClientAssumption == {MaxThreads, MaxMessages, OutsideCalls} \subseteq Nat

Threads == 1 .. MaxThreads
Messages == 1 .. MaxMessages
NoMessage == 0

VARIABLES
    readyLocked,     \* connection_ready_mutex
    ongoing,         \* connection_ongoing
    established,     \* connection_established
    shutdownC,       \* shutdown_cancelable
    errorC,          \* one_thread_error_cancelable
    connectionThread,\* the last thread created, 0 for nullptr
    tpc,             \* where each connection thread is
    joined,          \* how often each connection thread was joined
    outside,         \* calls of ireconnect from outside so far
    upc,             \* the outside caller: idle, or waiting for the mutex
    dpc,             \* the destructor: none, lock, join, sender, done
    sendQueue,       \* the sender's queue
    connected,       \* of MessageSendProcessor, never reset
    status,          \* of the sender's job processor
    spc,             \* the sender: none, check, poll, wait, callback, ended
    smsg,            \* the message of the sender
    sent,            \* number of messages given to isend
    pendingResponses,
    deleted,         \* how often each message was deleted
    outcome,         \* the last callback a message got
    link,            \* is the connection up?
    written,         \* messages written, in order
    atServer,        \* messages the server can answer
    inbox            \* answers on their way: <<message, kind>>

connVars == <<readyLocked, ongoing, established, shutdownC, errorC, connectionThread,
              tpc, joined, outside, upc, dpc>>
senderVars == <<sendQueue, connected, status, spc, smsg>>
msgVars == <<sent, pendingResponses, deleted, outcome>>
netVars == <<link, written, atServer, inbox>>
vars == <<connVars, senderVars, msgVars, netVars>>

\* A callback with the message, followed by delete(msg).
Finish(M, o) ==
    /\ outcome' = [m \in Messages |-> IF m \in M THEN o ELSE outcome[m]]
    /\ deleted' = [m \in Messages |-> IF m \in M THEN deleted[m] + 1 ELSE deleted[m]]

Go(t, l) == tpc' = [tpc EXCEPT ![t] = l]

-----------------------------------------------------------------------------
(* ireconnect: lock, test, create the thread.                              *)

NextThread == connectionThread + 1

MayConnect == ~ongoing /\ ~established /\ ~shutdownC

\* tp: the places of the threads after the call
ireconnect(tp) ==
    /\ ~readyLocked
    /\ IF MayConnect /\ NextThread \in Threads
       THEN /\ readyLocked' = TRUE /\ ongoing' = TRUE
            /\ connectionThread' = NextThread
            /\ tpc' = [tp EXCEPT ![NextThread] =
                           IF connectionThread # 0 THEN "cancelLast" ELSE "connect"]
       ELSE tpc' = tp /\ UNCHANGED <<readyLocked, ongoing, connectionThread>>

\* CommunicationModule::clientFor, or a user of the client, calls ireconnect.
OutsideCall ==
    /\ upc = "idle" /\ dpc = "none" /\ outside < OutsideCalls
    /\ upc' = "ireconnect" /\ outside' = outside + 1
    /\ UNCHANGED <<readyLocked, ongoing, established, shutdownC, errorC,
                   connectionThread, tpc, joined, dpc, senderVars, msgVars, netVars>>

OutsideReconnect ==
    /\ upc = "ireconnect" /\ upc' = "idle"
    /\ ireconnect(tpc)
    /\ UNCHANGED <<established, shutdownC, errorC, joined, outside, dpc, senderVars,
                   msgVars, netVars>>

-----------------------------------------------------------------------------
(* connectionThreadFunc.                                                   *)

OtherConn == <<readyLocked, ongoing, shutdownC, connectionThread, outside, upc, dpc>>

CancelLast(t) ==
    /\ tpc[t] = "cancelLast" /\ Go(t, "joinLast")
    /\ errorC' = TRUE
    /\ UNCHANGED <<OtherConn, established, joined, senderVars, msgVars, netVars>>

JoinLast(t) ==
    /\ tpc[t] = "joinLast" /\ tpc[t - 1] = "ended" /\ Go(t, "connect")
    /\ joined' = [joined EXCEPT ![t - 1] = @ + 1]
    /\ UNCHANGED <<OtherConn, established, errorC, senderVars, msgVars, netVars>>

\* A new cancelable, g_socket_client_connect, and the release of the mutex.
Connect(t, success) ==
    /\ tpc[t] = "connect"
    /\ errorC' = FALSE /\ ongoing' = FALSE /\ readyLocked' = FALSE
    /\ IF success THEN Go(t, "connected") /\ link' = TRUE /\ inbox' = << >> /\ atServer' = {}
       ELSE Go(t, "errorCB") /\ UNCHANGED <<link, inbox, atServer>>
    /\ UNCHANGED <<established, shutdownC, connectionThread, outside, upc, dpc, joined,
                   senderVars, msgVars, written>>

Connected(t) ==
    /\ tpc[t] = "connected"
    /\ established' = TRUE
    /\ IF shutdownC THEN Go(t, "ended") /\ link' = FALSE
       ELSE Go(t, "start") /\ UNCHANGED link
    /\ UNCHANGED <<OtherConn, errorC, joined, senderVars, msgVars, written, atServer, inbox>>

\* connectionSuccessfullCB, then sendProcessor->connect.
StartSender(t) ==
    /\ tpc[t] = "start" /\ Go(t, "receive")
    /\ IF connected THEN UNCHANGED <<connected, status, spc>>
       ELSE connected' = TRUE /\ status' = "OPERATIONAL" /\ spc' = "check"
    /\ UNCHANGED <<OtherConn, established, errorC, joined, sendQueue, smsg, msgVars, netVars>>

\* while( ! g_cancellable_is_cancelled( ... ) )
ReceiveTest(t) ==
    /\ tpc[t] = "receive" /\ Go(t, IF errorC THEN "shutdown" ELSE "read")
    /\ UNCHANGED <<OtherConn, established, errorC, joined, senderVars, msgVars, netVars>>

\* An answer, an error answer or a damaged one was read; its message is looked
\* up, told and deleted.  A damaged answer ends the loop.
Receive(t) ==
    /\ tpc[t] = "read" /\ inbox # << >>
    /\ inbox' = Tail(inbox)
    /\ LET m == Head(inbox)[1] kind == Head(inbox)[2] IN
       IF m \in pendingResponses
       THEN /\ pendingResponses' = pendingResponses \ {m}
            /\ Finish({m}, IF kind = "ok" THEN "response" ELSE "error")
            /\ Go(t, IF kind = "damaged" THEN "shutdown" ELSE "receive")
       ELSE UNCHANGED <<pendingResponses, outcome, deleted>> /\ Go(t, "receive")
    /\ UNCHANGED <<OtherConn, established, errorC, joined, senderVars, sent, link,
                   written, atServer>>

\* Cancelled, or the connection has nothing more to read: msgLength is 0.
ReceiveEnds(t) ==
    /\ tpc[t] = "read" /\ (errorC \/ (~link /\ inbox = << >>))
    /\ Go(t, "shutdown")
    /\ UNCHANGED <<OtherConn, established, errorC, joined, senderVars, msgVars, netVars>>

\* sendProcessor->shutdown(), the part under the sender's mutex
ShutdownSender(t) ==
    /\ tpc[t] = "shutdown" /\ Go(t, "joinSender")
    /\ status' = "SHUTTING_DOWN"
    /\ spc' = IF spc = "wait" THEN "poll" ELSE spc
    /\ UNCHANGED <<OtherConn, established, errorC, joined, sendQueue, connected, smsg,
                   msgVars, netVars>>

\* ... its join, the close, and connectionErrorCB unless the client goes away.
JoinSender(t) ==
    /\ tpc[t] = "joinSender" /\ spc \in {"none", "ended"}
    /\ Go(t, IF shutdownC THEN "ended" ELSE "errorCB")
    /\ spc' = "none" /\ link' = FALSE /\ inbox' = << >>
    /\ UNCHANGED <<OtherConn, established, errorC, joined, sendQueue, connected, status,
                   smsg, msgVars, written, atServer>>

\* Mutant: the aborted messages stay in the queue.
dropKeepsQueue(t) ==
    /\ tpc[t] = "errorCB"
    /\ status' = "SHUTTING_DOWN"
    /\ Finish(Range(sendQueue), "aborted")
    /\ UNCHANGED <<connVars, sendQueue, connected, spc, smsg, sent, pendingResponses, netVars>>

\* dropPendingMessages(), as the reasoner's connectionErrorCB calls it: abort
\* what is queued; there is no sender thread to join.
dropPendingMessages(t) ==
    /\ tpc[t] = "errorCB"
    /\ status' = "SHUTTING_DOWN"
    /\ sendQueue' = << >> /\ Finish(Range(sendQueue), "aborted")
    /\ UNCHANGED <<connVars, connected, spc, smsg, sent, pendingResponses, netVars>>

\* connectionErrorCB calls ireconnect ...
ErrorCBCalls(t) ==
    /\ tpc[t] = "errorCB" /\ Go(t, "ireconnect")
    /\ UNCHANGED <<OtherConn, established, errorC, joined, senderVars, msgVars, netVars>>

\* ... which returns, and the thread ends ...
ErrorCBReconnects(t) ==
    /\ tpc[t] = "ireconnect"
    /\ ireconnect([tpc EXCEPT ![t] = "ended"])
    /\ UNCHANGED <<established, shutdownC, errorC, joined, outside, upc, dpc, senderVars,
                   msgVars, netVars>>

\* ... or it gives up.
ErrorCBReturns(t) ==
    /\ tpc[t] = "errorCB" /\ Go(t, "ended")
    /\ UNCHANGED <<OtherConn, established, errorC, joined, senderVars, msgVars, netVars>>

-----------------------------------------------------------------------------
(* The sender thread: SingleThreadedJobProcessor::process with             *)
(* MessageSendProcessor::processJob.                                       *)

SenderLeaves(q, l) ==
    /\ sendQueue' = q /\ spc' = l
    /\ UNCHANGED <<connVars, connected, msgVars>>

SenderCheck ==
    /\ spc = "check"
    /\ SenderLeaves(sendQueue, IF status = "STOPPING" THEN "ended" ELSE "poll")
    /\ UNCHANGED <<status, smsg, netVars>>

SenderPoll ==
    /\ spc = "poll"
    /\ IF sendQueue = << >>
       THEN /\ SenderLeaves(sendQueue, IF status = "SHUTTING_DOWN" THEN "ended" ELSE "wait")
            /\ UNCHANGED smsg
       ELSE SenderLeaves(Tail(sendQueue), "write") /\ smsg' = Head(sendQueue)
    /\ UNCHANGED <<status, netVars>>

\* The write succeeds; on a broken connection the bytes are swallowed.
SenderWrites ==
    /\ spc = "write"
    /\ SenderLeaves(sendQueue, "callback")
    /\ written' = Append(written, smsg)
    /\ atServer' = IF link THEN atServer \cup {smsg} ELSE atServer
    /\ UNCHANGED <<status, smsg, link, inbox>>

\* The write fails: stopProcessing() ...
SenderFails ==
    /\ spc = "write" /\ ~link
    /\ SenderLeaves(sendQueue, "requeue")
    /\ status' = "STOPPING"
    /\ UNCHANGED <<smsg, netVars>>

\* ... then enqueueFront, and the receiver is cancelled.
SenderRequeues ==
    /\ spc = "requeue"
    /\ sendQueue' = <<smsg>> \o sendQueue /\ spc' = "check" /\ smsg' = NoMessage
    /\ errorC' = TRUE
    /\ UNCHANGED <<OtherConn, established, tpc, joined, connected, status, msgVars, netVars>>

\* messageSendCB( msg )
SenderCallback ==
    /\ spc = "callback" /\ SenderLeaves(sendQueue, "check")
    /\ smsg' = NoMessage
    /\ UNCHANGED <<status, netVars>>

\* What the sender does without the server, and the write, which may block.
SenderOwn == SenderCheck \/ SenderPoll \/ SenderRequeues \/ SenderCallback
Sender == SenderOwn \/ SenderWrites \/ SenderFails

-----------------------------------------------------------------------------
(* The user: isend, and the destructor.                                    *)

isend ==
    /\ sent < MaxMessages /\ dpc = "none"
    /\ sent' = sent + 1
    /\ pendingResponses' = pendingResponses \cup {sent'}
    /\ sendQueue' = Append(sendQueue, sent')
    /\ spc' = IF status = "OPERATIONAL" /\ spc = "wait" THEN "poll" ELSE spc
    /\ UNCHANGED <<connVars, connected, status, smsg, deleted, outcome, netVars>>

\* ~GIOClient, called once no other call of the user is in progress
DestructorCancels ==
    /\ dpc = "none" /\ upc = "idle" /\ dpc' = "lock"
    /\ shutdownC' = TRUE
    /\ UNCHANGED <<readyLocked, ongoing, established, errorC, connectionThread, tpc,
                   joined, outside, upc, senderVars, msgVars, netVars>>

DestructorLocks ==
    /\ dpc = "lock" /\ ~readyLocked
    /\ IF connectionThread # 0
       THEN dpc' = "join" /\ errorC' = TRUE /\ UNCHANGED readyLocked
       ELSE dpc' = "sender" /\ readyLocked' = TRUE /\ UNCHANGED errorC
    /\ UNCHANGED <<ongoing, established, shutdownC, connectionThread, tpc, joined,
                   outside, upc, senderVars, msgVars, netVars>>

DestructorJoins ==
    /\ dpc = "join" /\ tpc[connectionThread] = "ended"
    /\ dpc' = "sender"
    /\ joined' = [joined EXCEPT ![connectionThread] = @ + 1]
    /\ UNCHANGED <<readyLocked, ongoing, established, shutdownC, errorC, connectionThread,
                   tpc, outside, upc, senderVars, msgVars, netVars>>

\* Mutant: the destructor leaves the queue to the queue's destructor.
DestructorShutsDownOnly ==
    /\ dpc = "sender" /\ spc \in {"none", "ended"} /\ dpc' = "done"
    /\ status' = "SHUTTING_DOWN"
    /\ UNCHANGED <<readyLocked, ongoing, established, shutdownC, errorC, connectionThread,
                   tpc, joined, outside, upc, sendQueue, connected, spc, smsg, msgVars, netVars>>

\* sendProcessor->shutdown() and terminate()
DestructorTerminates ==
    /\ dpc = "sender" /\ spc \in {"none", "ended"}
    /\ dpc' = "done" /\ status' = "SHUTTING_DOWN"
    /\ sendQueue' = << >> /\ Finish(Range(sendQueue), "aborted")
    /\ UNCHANGED <<readyLocked, ongoing, established, shutdownC, errorC, connectionThread,
                   tpc, joined, outside, upc, connected, spc, smsg, sent, pendingResponses,
                   netVars>>

Destructor == DestructorLocks \/ DestructorJoins \/ DestructorTerminates

-----------------------------------------------------------------------------
(* The network and the server.                                             *)

ServerAnswers(m, kind) ==
    /\ link /\ m \in atServer
    /\ atServer' = atServer \ {m}
    /\ inbox' = Append(inbox, <<m, kind>>)
    /\ UNCHANGED <<connVars, senderVars, msgVars, link, written>>

\* The connection breaks; answers on their way may be lost with it.
Break(lost) ==
    /\ link /\ link' = FALSE
    /\ inbox' = IF lost THEN << >> ELSE inbox
    /\ UNCHANGED <<connVars, senderVars, msgVars, written, atServer>>

Network == \/ \E m \in Messages, kind \in {"ok", "error", "damaged"} : ServerAnswers(m, kind)
           \/ \E lost \in BOOLEAN : Break(lost)

-----------------------------------------------------------------------------
Init ==
    /\ readyLocked = FALSE /\ ongoing = FALSE /\ established = FALSE
    /\ shutdownC = FALSE /\ errorC = FALSE /\ connectionThread = 0
    /\ tpc = [t \in Threads |-> "none"] /\ joined = [t \in Threads |-> 0]
    /\ outside = 0 /\ upc = "idle" /\ dpc = "none"
    /\ sendQueue = << >> /\ connected = FALSE /\ status = "OPERATIONAL"
    /\ spc = "none" /\ smsg = NoMessage
    /\ sent = 0 /\ pendingResponses = {}
    /\ deleted = [m \in Messages |-> 0] /\ outcome = [m \in Messages |-> "none"]
    /\ link = FALSE /\ written = << >> /\ atServer = {} /\ inbox = << >>

\* What a connection thread does without the network; a read is cancelled.
ConnectionOwn(t) ==
    \/ CancelLast(t) \/ JoinLast(t) \/ Connected(t) \/ StartSender(t)
    \/ ReceiveTest(t) \/ Receive(t) \/ ReceiveEnds(t) \/ ShutdownSender(t) \/ JoinSender(t)
    \/ dropPendingMessages(t) \/ ErrorCBCalls(t) \/ ErrorCBReconnects(t)
    \/ ErrorCBReturns(t)

ConnectionThread(t) == ConnectionOwn(t) \/ \E success \in BOOLEAN : Connect(t, success)

Next == \/ OutsideCall \/ OutsideReconnect
        \/ \E t \in Threads : ConnectionThread(t)
        \/ Sender \/ isend \/ DestructorCancels \/ Destructor \/ Network

Spec == Init /\ [][Next]_vars
\* The threads are scheduled.  g_socket_client_connect and g_output_stream_write_all,
\* which are called without a cancelable, need not return.
FairSpec == /\ Spec /\ WF_vars(SenderOwn) /\ WF_vars(Destructor) /\ WF_vars(OutsideReconnect)
            /\ \A t \in Threads : WF_vars(ConnectionOwn(t))

-----------------------------------------------------------------------------
Places == {"none", "cancelLast", "joinLast", "connect", "connected", "start", "receive", "read",
           "shutdown", "joinSender", "errorCB", "ireconnect", "ended"}

\* Type correctness of the client.
TypeOK ==
    /\ {readyLocked, ongoing, established, shutdownC, errorC, connected, link} \subseteq BOOLEAN
    /\ connectionThread \in 0 .. MaxThreads
    /\ tpc \in [Threads -> Places]
    /\ joined \in [Threads -> Nat]
    /\ upc \in {"idle", "ireconnect"} /\ dpc \in {"none", "lock", "join", "sender", "done"}
    /\ sendQueue \in Seq(Messages)
    /\ status \in {"OPERATIONAL", "SHUTTING_DOWN", "STOPPING"}
    /\ spc \in {"none", "check", "poll", "wait", "write", "callback", "requeue", "ended"}
    /\ smsg \in 0 .. MaxMessages
    /\ sent \in 0 .. MaxMessages /\ pendingResponses \subseteq Messages
    /\ deleted \in [Messages -> Nat]
    /\ outcome \in [Messages -> {"none", "response", "error", "aborted"}]

\* The messages leave in the order of isend and each at most once, whichever
\* writes fail.
WrittenInOrder ==
    \A m, n \in DOMAIN written : m < n => written[m] < written[n]

\* A message is deleted at most once, and exactly when one callback said how it
\* ended: an answer, a damaged answer and an abort exclude each other, through
\* failed writes that are tried again and connections that break at any point.
\* What is queued or being written is not deleted.  (After the write the
\* receiver may delete it before the sender has called messageSendCB.)  And the
\* queue is a queue (WrittenInOrder).
DeletedOnce ==
    /\ TypeOK /\ WrittenInOrder
    /\ \A m \in Messages : deleted[m] <= 1 /\ (deleted[m] = 1 <=> outcome[m] # "none")
    /\ \A n \in DOMAIN sendQueue : deleted[sendQueue[n]] = 0
    /\ spc \in {"write", "requeue"} => deleted[smsg] = 0

\* When the destructor is done every connection thread was joined exactly once,
\* the sender is gone, and each message that was never written has been aborted.
DestroyedClean ==
    dpc = "done" =>
        /\ \A t \in 1 .. connectionThread : tpc[t] = "ended" /\ joined[t] = 1
        /\ spc \in {"none", "ended"}
        /\ \A m \in 1 .. sent : outcome[m] # "none" \/ m \in Range(written)

\* A second ireconnect by a user, one that is not called "from within
\* connectionErrorCB()", can wait for that of the callback and the callback's
\* for it: the new thread joins the old one before it releases the mutex.
CalledAsTold == outside <= 1

\* ireconnect: "Try to reconnect asynchronously ... Should be called from within
\* connectionErrorCB()": the call starts a connection attempt if none is under
\* way and the connection of the caller is gone.
ReconnectStarts ==
    [][\A t \in Threads :
         (/\ tpc[t] = "ireconnect" /\ tpc'[t] = "ended"
          /\ t = connectionThread /\ ~shutdownC /\ NextThread \in Threads)
            => connectionThread' = NextThread]_vars

\* Somebody is in ireconnect or in the destructor.
Waiting == dpc \notin {"none", "done"} \/ upc = "ireconnect" \/ \E t \in Threads : tpc[t] = "ireconnect"

\* ireconnect and the destructor return, whatever the threads do when they are
\* called, provided that no connection attempt and no write blocks for ever: a server
\* that is connected and does not read blocks the sender, and with it the destructor.
\* (Finitely many calls are made, so that all of them have returned whenever nobody
\* waits.)
CallsReturn ==
    (/\ []<>(spc # "write")
     /\ \A t \in Threads : []<>(tpc[t] # "connect"))
    => (Waiting ~> (~Waiting \/ ~CalledAsTold))
-----------------------------------------------------------------------------
(* The inductive invariant of DeletedOnce and DestroyedClean.              *)

\* The sender holds a message it has not written.
Holds == spc \in {"write", "requeue"}

\* What was written, what the sender holds and what is queued: in this order,
\* the order of isend.
OrderInv ==
    /\ written \in Seq(Messages) /\ WrittenInOrder
    /\ \A m, n \in DOMAIN sendQueue : m < n => sendQueue[m] < sendQueue[n]
    /\ \A m \in DOMAIN written : /\ written[m] <= sent
                                 /\ \A n \in DOMAIN sendQueue : written[m] < sendQueue[n]
                                 /\ Holds => written[m] < smsg
    /\ \A n \in DOMAIN sendQueue : sendQueue[n] <= sent /\ (Holds => smsg < sendQueue[n])
    /\ Holds => smsg \in 1 .. sent

\* Only what was written is answered, and what waits for an answer is not deleted.
DeletedInv ==
    /\ \A m \in Messages : /\ deleted[m] <= 1 /\ (deleted[m] = 1 <=> outcome[m] # "none")
                           /\ m > sent => deleted[m] = 0
    /\ \A n \in DOMAIN sendQueue : deleted[sendQueue[n]] = 0
    /\ Holds => deleted[smsg] = 0
    /\ \A m \in DOMAIN written : written[m] \in pendingResponses => deleted[written[m]] = 0
    /\ atServer \subseteq Range(written)
    /\ inbox \in Seq(Messages \X {"ok", "error", "damaged"})
    /\ \A n \in DOMAIN inbox : inbox[n][1] \in Range(written)

\* A message that has not ended is somewhere.
KeptInv ==
    /\ \A m \in 1 .. sent :
         outcome[m] # "none" \/ m \in Range(written) \/ m \in Range(sendQueue) \/ (Holds /\ m = smsg)
    /\ ~connected => spc = "none"
    /\ dpc = "done" => sendQueue = << >> /\ spc \in {"none", "ended"}

BeforeJoin == {"cancelLast", "joinLast"}

\* A thread is joined by the next one, the last one by the destructor, and none
\* is created before the one before it has released connection_ready_mutex.
ThreadInv ==
    /\ \A t \in Threads :
         /\ t > connectionThread <=> tpc[t] = "none"
         /\ tpc[t] \in BeforeJoin \cup {"connect"} => t = connectionThread /\ readyLocked
         /\ tpc[t] \in BeforeJoin => t > 1
         /\ joined[t] = IF \/ t < connectionThread /\ tpc[t + 1] \notin BeforeJoin
                           \/ t = connectionThread /\ dpc \in {"sender", "done"}
                        THEN 1 ELSE 0
         /\ joined[t] = 1 => tpc[t] = "ended"
    /\ dpc # "none" => shutdownC
    /\ dpc = "join" => connectionThread # 0

IInv == TypeOK /\ OrderInv /\ DeletedInv /\ KeptInv /\ ThreadInv
=============================================================================
