---------------------------- MODULE JobProcessor ----------------------------
(***************************************************************************)
(* SingleThreadedJobProcessor with a FIFOProcessorQueue inside a           *)
(* ProcessorQueueDiscardWrapper (util/JobProcessors, include/util), and    *)
(* the processJob of GIO's MessageSendProcessor, which on failure stops    *)
(* its own thread and puts the job back in front.                          *)
(*                                                                         *)
(* Users submit and cancel jobs, one owner thread starts, stops and shuts  *)
(* down, and the worker runs process().  Every region protected by the     *)
(* mutex is one step (none blocks inside it except in cv.wait); what the   *)
(* code does outside the mutex, the test of `status' in the loop, the join *)
(* and the two halves of a failing processJob, are steps of their own.     *)
(* Jobs are numbered in the order in which they are submitted.             *)
(***************************************************************************)
EXTENDS Integers, Sequences, FiniteSets, SequencesExt

CONSTANTS
    MaxJobs,         \* bound: jobs submitted
    MaxPendingJobs,  \* of the ProcessorQueueDiscardWrapper
    MaxFails,        \* bound: calls of processJob that fail
    MaxOwnerCalls    \* bound: calls of the owner

ASSUME JobProcessorAssumption ==
    {MaxJobs, MaxPendingJobs, MaxFails, MaxOwnerCalls} \subseteq Nat

NoJob == 0

VARIABLES
    pendingJobs,  \* the FIFO
    currentJobs,  \* the wrapper's count of them
    status,       \* OPERATIONAL, SHUTTING_DOWN or STOPPING
    myThread,     \* is there a thread object?
    wpc,          \* the worker: none, check, lock, waiting, process, requeue, ended
    job,          \* the job the worker processes
    opc,          \* the owner: idle, or waiting in join
    submitted,    \* number of jobs submitted
    done,         \* jobs processed, in order
    aborted,      \* jobs handed to jobAborted
    cancelled,    \* jobs removed by iCancelJob
    fails,        \* number of failures so far
    ownerCalls,   \* number of calls of the owner so far
    shutdownKind, \* of the last shutdown: terminate, or complete if it met a
                  \* worker that nobody had stopped
    mark,         \* jobs pending or in process when shutdown was called
    outsideStop   \* has a thread other than worker and owner called stopProcessing?

queueVars == <<pendingJobs, currentJobs>>
ownerVars == <<opc, ownerCalls, shutdownKind, mark>>
history == <<submitted, done, aborted, cancelled, fails, outsideStop>>
vars == <<queueVars, status, myThread, wpc, job, ownerVars, history>>

\* cv.notify_one(): the worker looks at the queue again.
Notified == IF wpc = "waiting" THEN "lock" ELSE wpc

-----------------------------------------------------------------------------
(* The queue.                                                              *)

mayEnqueue == currentJobs < MaxPendingJobs

empty == currentJobs = 0

enqueueJob(j) ==
    pendingJobs' = Append(pendingJobs, j) /\ currentJobs' = currentJobs + 1

\* Mutant: the job goes to the end.
enqueueBack(j) ==
    pendingJobs' = Append(pendingJobs, j) /\ currentJobs' = currentJobs + 1

\* "we must obey and enqueue the operation", even above MaxPendingJobs
enqueueFront(j) ==
    pendingJobs' = <<j>> \o pendingJobs /\ currentJobs' = currentJobs + 1

pollNextJob ==
    pendingJobs' = Tail(pendingJobs) /\ currentJobs' = currentJobs - 1

\* pendingJobs.remove( job ): list::remove goes through the list from the front.
without(s, j) ==
    LET kept[n \in 0 .. Len(s)] ==
          IF n = 0 THEN << >>
          ELSE IF s[n] = j THEN kept[n - 1] ELSE Append(kept[n - 1], s[n])
    IN  kept[Len(s)]

removeJob(j) ==
    /\ pendingJobs' = without(pendingJobs, j)
    /\ currentJobs' = IF Len(pendingJobs') # Len(pendingJobs) THEN currentJobs - 1
                      ELSE currentJobs

-----------------------------------------------------------------------------
(* Users of the processor.                                                 *)

iStartJob ==
    /\ submitted < MaxJobs
    /\ submitted' = submitted + 1
    /\ IF mayEnqueue
       THEN /\ enqueueJob(submitted')
            /\ wpc' = IF status = "OPERATIONAL" THEN Notified ELSE wpc
            /\ UNCHANGED aborted
       ELSE /\ aborted' = aborted \cup {submitted'}
            /\ UNCHANGED <<queueVars, wpc>>
    /\ UNCHANGED <<status, myThread, job, ownerVars, done, cancelled, fails,
                   outsideStop>>

iCancelJob(j) ==
    /\ j \in 1 .. submitted
    /\ removeJob(j)
    /\ cancelled' = cancelled \cup (Range(pendingJobs) \ Range(pendingJobs'))
    /\ UNCHANGED <<status, myThread, wpc, job, ownerVars, submitted, done, aborted,
                   fails, outsideStop>>

\* stopProcessing from a thread that is neither the worker nor the owner.
stopProcessingOutside ==
    /\ outsideStop' = TRUE
    /\ status' = "STOPPING"
    /\ wpc' = Notified
    /\ UNCHANGED <<queueVars, myThread, job, ownerVars, submitted, done, aborted, cancelled,
                   fails>>

-----------------------------------------------------------------------------
(* The owner.                                                              *)

OwnerCalls == opc = "idle" /\ ownerCalls < MaxOwnerCalls
              /\ ownerCalls' = ownerCalls + 1

startProcessing ==
    /\ OwnerCalls
    /\ IF myThread THEN UNCHANGED <<status, myThread, wpc>>
       ELSE status' = "OPERATIONAL" /\ myThread' = TRUE /\ wpc' = "check"
    /\ UNCHANGED <<queueVars, job, opc, shutdownKind, mark, history>>

stopProcessing ==
    /\ OwnerCalls
    /\ status' = "STOPPING"
    /\ wpc' = Notified
    /\ UNCHANGED <<queueVars, myThread, job, opc, shutdownKind, mark, history>>

\* abortPendingJobs()
abortPendingJobs ==
    /\ aborted' = aborted \cup Range(pendingJobs)
    /\ pendingJobs' = << >> /\ currentJobs' = 0

\* Mutant: shutdown does not notify the worker.
shutdownSilent(terminate) ==
    /\ OwnerCalls
    /\ status' = "SHUTTING_DOWN"
    /\ IF terminate THEN abortPendingJobs ELSE UNCHANGED <<queueVars, aborted>>
    /\ opc' = IF myThread THEN "join" ELSE "idle"
    /\ UNCHANGED <<myThread, wpc, job, shutdownKind, mark, submitted, done, cancelled,
                   fails, outsideStop>>

\* The part of shutdown(terminate) under the mutex.
shutdown(terminate) ==
    /\ OwnerCalls
    /\ status' = "SHUTTING_DOWN"
    /\ IF terminate THEN abortPendingJobs ELSE UNCHANGED <<queueVars, aborted>>
    /\ wpc' = Notified
    /\ opc' = IF myThread THEN "join" ELSE "idle"
    /\ shutdownKind' = IF terminate THEN "terminate"
                       ELSE IF status = "OPERATIONAL" /\ myThread THEN "complete"
                       ELSE "none"
    /\ mark' = Range(pendingJobs) \cup ({job} \ {NoJob})
    /\ UNCHANGED <<myThread, job, submitted, done, cancelled, fails, outsideStop>>

\* join, delete and clear myThread, after the mutex was released.
shutdownJoin ==
    /\ opc = "join" /\ wpc = "ended"
    /\ opc' = "idle" /\ myThread' = FALSE /\ wpc' = "none"
    /\ UNCHANGED <<queueVars, status, job, ownerCalls, shutdownKind, mark, history>>

-----------------------------------------------------------------------------
(* The worker.                                                             *)

\* while( status != STOPPING ), read without the mutex
processTestStatus ==
    /\ wpc = "check"
    /\ wpc' = IF status = "STOPPING" THEN "ended" ELSE "lock"
    /\ UNCHANGED <<queueVars, status, myThread, job, ownerVars, history>>

\* Mutant: the worker leaves on shutdown although jobs are pending.
processPollEager ==
    /\ wpc = "lock"
    /\ IF status = "SHUTTING_DOWN"
       THEN wpc' = "ended" /\ UNCHANGED <<queueVars, job>>
       ELSE IF empty THEN wpc' = "waiting" /\ UNCHANGED <<queueVars, job>>
       ELSE wpc' = "process" /\ job' = Head(pendingJobs) /\ pollNextJob
    /\ UNCHANGED <<status, myThread, ownerVars, history>>

\* The inner loop: leave on shutdown, wait, or take the next job.
processPoll ==
    /\ wpc = "lock"
    /\ IF empty
       THEN /\ wpc' = IF status = "SHUTTING_DOWN" THEN "ended" ELSE "waiting"
            /\ UNCHANGED <<queueVars, job>>
       ELSE wpc' = "process" /\ job' = Head(pendingJobs) /\ pollNextJob
    /\ UNCHANGED <<status, myThread, ownerVars, history>>

\* cv.wait may return without a notification.
processSpuriousWakeup ==
    /\ wpc = "waiting" /\ wpc' = "lock"
    /\ UNCHANGED <<queueVars, status, myThread, job, ownerVars, history>>

processJobSucceeds ==
    /\ wpc = "process" /\ wpc' = "check"
    /\ done' = Append(done, job) /\ job' = NoJob
    /\ UNCHANGED <<queueVars, status, myThread, ownerVars, submitted, aborted,
                   cancelled, fails, outsideStop>>

\* The send failed: stopProcessing() by the worker itself ...
processJobFails ==
    /\ wpc = "process" /\ wpc' = "requeue"
    /\ fails < MaxFails /\ fails' = fails + 1
    /\ status' = "STOPPING"
    /\ UNCHANGED <<queueVars, myThread, job, ownerVars, submitted, done, aborted,
                   cancelled, outsideStop>>

\* ... and then, with the mutex again, enqueueFront.
processJobRequeues ==
    /\ wpc = "requeue" /\ wpc' = "check"
    /\ enqueueFront(job) /\ job' = NoJob
    /\ UNCHANGED <<status, myThread, ownerVars, history>>

process == processTestStatus \/ processPoll \/ processJobSucceeds
           \/ processJobFails \/ processJobRequeues

-----------------------------------------------------------------------------
Init ==
    /\ pendingJobs = << >> /\ currentJobs = 0
    /\ status = "OPERATIONAL" /\ myThread = FALSE
    /\ wpc = "none" /\ job = NoJob /\ opc = "idle"
    /\ submitted = 0 /\ done = << >> /\ aborted = {} /\ cancelled = {}
    /\ fails = 0 /\ ownerCalls = 0 /\ shutdownKind = "none" /\ mark = {}
    /\ outsideStop = FALSE

Owner == startProcessing \/ stopProcessing \/ shutdownJoin
         \/ \E terminate \in BOOLEAN : shutdown(terminate)

Next == iStartJob \/ (\E j \in 1 .. MaxJobs : iCancelJob(j)) \/ Owner
        \/ stopProcessingOutside \/ process \/ processSpuriousWakeup

Spec == Init /\ [][Next]_vars

\* The worker runs, and a join returns once the thread has ended; a spurious
\* wake-up may happen but need not.
FairSpec == Spec /\ WF_vars(process) /\ WF_vars(shutdownJoin)

-----------------------------------------------------------------------------
\* Type correctness of the processor.
TypeOK ==
    /\ pendingJobs \in Seq(1 .. MaxJobs)
    /\ currentJobs \in Int
    /\ status \in {"OPERATIONAL", "SHUTTING_DOWN", "STOPPING"}
    /\ myThread \in BOOLEAN
    /\ wpc \in {"none", "check", "lock", "waiting", "process", "requeue", "ended"}
    /\ job \in 0 .. MaxJobs
    /\ opc \in {"idle", "join"}
    /\ submitted \in 0 .. MaxJobs
    /\ aborted \subseteq 1 .. MaxJobs /\ cancelled \subseteq 1 .. MaxJobs
    /\ mark \subseteq 1 .. MaxJobs /\ outsideStop \in BOOLEAN

\* Jobs are completed in the order of submission, also when a failing job had
\* to be put back.
CompletedInOrder ==
    \A m, n \in DOMAIN done : m < n => done[m] < done[n]

\* "Try to complete all pending jobs or abort them if terminate = true": when
\* shutdown returns, no job that was pending when it was called still is.
\* (shutdown(false) needs a worker that nobody stopped.  A job that fails
\* meanwhile is put back, also after the others were aborted, and stays.)
ShutdownEmpties ==
    (/\ opc = "idle" /\ fails = 0
     /\ shutdownKind = "terminate" \/ (shutdownKind = "complete" /\ ~outsideStop))
        => mark \cap Range(pendingJobs) = {}

\* A submitted job is at every moment in exactly one place: pending, in
\* process, processed, aborted or cancelled; and the wrapper's counter is the
\* length of the queue it wraps, through polls, cancellations of jobs that are
\* not there and requeues, which exceed the limit by one job at most.  No job
\* overtakes another one (CompletedInOrder).
NoJobIsLost ==
    /\ TypeOK /\ CompletedInOrder /\ ShutdownEmpties
    /\ currentJobs = Len(pendingJobs) /\ currentJobs <= MaxPendingJobs + 1
    /\ \A j \in 1 .. submitted :
        Cardinality({n \in DOMAIN pendingJobs : pendingJobs[n] = j})
        + (IF job = j THEN 1 ELSE 0)
        + Cardinality({n \in DOMAIN done : done[n] = j})
        + (IF j \in aborted THEN 1 ELSE 0)
        + (IF j \in cancelled THEN 1 ELSE 0) = 1

\* shutdown returns: the worker sees the request wherever it is.  (Unless
\* another thread calls stopProcessing: it overwrites SHUTTING_DOWN, and a
\* worker that waits for jobs is not told to end.)
ShutdownReturns == opc = "join" ~> (opc = "idle" \/ outsideStop)

-----------------------------------------------------------------------------
\* The inductive strengthening of NoJobIsLost.  The queue is sorted, the job in
\* process was submitted before what is pending and after what is done, ...
OrderInv ==
    /\ \A m, n \in DOMAIN pendingJobs : m < n => pendingJobs[m] < pendingJobs[n]
    /\ \A m, n \in DOMAIN done : m < n => done[m] < done[n]
    /\ \A m \in DOMAIN done, n \in DOMAIN pendingJobs : done[m] < pendingJobs[n]
    /\ job # NoJob => /\ \A n \in DOMAIN pendingJobs : job < pendingJobs[n]
                      /\ \A m \in DOMAIN done : done[m] < job

\* ... every job is in one place, ...
PlaceInv ==
    /\ 1 .. submitted
          = Range(pendingJobs) \cup ({job} \ {NoJob}) \cup Range(done) \cup aborted \cup cancelled
    /\ aborted \cap cancelled = {}
    /\ (aborted \cup cancelled) \cap (Range(pendingJobs) \cup {job} \cup Range(done)) = {}

\* ... the worker has the place in the queue that its job may need, ...
WorkerInv ==
    /\ done \in Seq(1 .. MaxJobs) /\ fails \in Nat
    /\ currentJobs = Len(pendingJobs)
    /\ currentJobs <= MaxPendingJobs + (IF job = NoJob THEN 1 ELSE 0)
    /\ job # NoJob <=> wpc \in {"process", "requeue"}
    /\ myThread <=> wpc # "none"
    /\ opc = "join" => myThread
    /\ status = "OPERATIONAL" => wpc # "ended"
    /\ wpc = "requeue" => fails > 0

\* ... and a shutdown that nobody disturbs ends with the jobs it found.
ShutdownInv ==
    /\ mark \subseteq 1 .. submitted
    /\ fails = 0 /\ shutdownKind = "terminate" => mark \cap Range(pendingJobs) = {}
    /\ fails = 0 /\ shutdownKind = "complete" /\ ~outsideStop =>
         /\ opc = "join" => status = "SHUTTING_DOWN"
         /\ opc = "idle" \/ wpc = "ended" => mark \cap Range(pendingJobs) = {}

IInv == TypeOK /\ OrderInv /\ PlaceInv /\ WorkerInv /\ ShutdownInv
=============================================================================
