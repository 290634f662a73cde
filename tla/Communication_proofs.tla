------------------------ MODULE Communication_proofs ------------------------
(***************************************************************************)
(* Proofs about the GIO server, the configurator, the GIO client and the   *)
(* catalogs kept in files.  The server, for every number of connections    *)
(* and of requests: the registry names exactly the threads that may still  *)
(* use the server, each thread is joined once, and nothing is left when    *)
(* the destructor is done.  The invariant rests on the chain of joins:     *)
(* only the last thread that left may not have been joined yet.  The       *)
(* others are parts of MCCommunication, and the theorems about them are    *)
(* about MCSpec.                                                           *)
(***************************************************************************)
EXTENDS MCCommunication, Sequences, FiniteSetTheorems, TLAPS

\* Every step of a thread, of its client and of the destructor preserves the
\* inductive invariant.
LEMMA Inductive == IInv /\ [Next]_vars => IInv'
<1> SUFFICES ASSUME IInv, [Next]_vars PROVE IInv'
  OBVIOUS
<1> USE GIOServerAssumption DEF Threads, Nobody, TheDestructor, regVars, respVars, Go, IInv
<1>t. /\ queued \in [Threads -> Nat] /\ responded \in [Threads -> Nat] /\ aborted \in [Threads -> Nat]
      /\ requests \in [Threads -> Nat]
  BY DEF TypeOK
<1>1. ASSUME listen PROVE IInv'
  <2>1. TypeOK'
    BY <1>1 DEF TypeOK, listen, addAcceptorThread
  <2>2. ThreadsInv'
    BY <1>1 DEF TypeOK, ThreadsInv, Alive, listen, addAcceptorThread
  <2>3. MutexInv'
    BY <1>1 DEF TypeOK, MutexInv, listen, addAcceptorThread
  <2>4. JoinInv'
    BY <1>1 DEF TypeOK, JoinInv, JoinedOnce, listen, addAcceptorThread, ThreadsInv, Alive,
       MutexInv
  <2>5. AcceptInv'
    BY <1>1 DEF TypeOK, AcceptInv, Accepting, listen, addAcceptorThread, ThreadsInv
  <2>6. ResponseInv'
    BY <1>1 DEF TypeOK, ThreadsInv, ResponseInv, listen, addAcceptorThread
  <2> QED BY <2>1, <2>2, <2>3, <2>4, <2>5, <2>6
<1>2. ASSUME DestructorCancels PROVE IInv'
  <2>1. TypeOK'
    BY <1>2 DEF TypeOK, DestructorCancels
  <2>2. ThreadsInv'
    BY <1>2 DEF TypeOK, ThreadsInv, Alive, DestructorCancels
  <2>3. MutexInv'
    BY <1>2 DEF TypeOK, MutexInv, DestructorCancels
  <2>4. JoinInv'
    BY <1>2 DEF TypeOK, JoinInv, JoinedOnce, DestructorCancels, ThreadsInv, Alive, MutexInv
  <2>5. AcceptInv'
    BY <1>2 DEF TypeOK, AcceptInv, Accepting, DestructorCancels, ThreadsInv
  <2>6. ResponseInv'
    BY <1>2 DEF TypeOK, ThreadsInv, ResponseInv, DestructorCancels
  <2> QED BY <2>1, <2>2, <2>3, <2>4, <2>5, <2>6
<1>3. ASSUME DestructorLocks PROVE IInv'
  <2>1. TypeOK'
    BY <1>3 DEF TypeOK, DestructorLocks
  <2>2. ThreadsInv'
    BY <1>3 DEF TypeOK, ThreadsInv, Alive, DestructorLocks
  <2>3. MutexInv'
    BY <1>3 DEF TypeOK, MutexInv, DestructorLocks
  <2>4. JoinInv'
    BY <1>3 DEF TypeOK, JoinInv, JoinedOnce, DestructorLocks, ThreadsInv, Alive, MutexInv
  <2>5. AcceptInv'
    BY <1>3 DEF TypeOK, AcceptInv, Accepting, DestructorLocks, ThreadsInv
  <2>6. ResponseInv'
    BY <1>3 DEF TypeOK, ThreadsInv, ResponseInv, DestructorLocks
  <2> QED BY <2>1, <2>2, <2>3, <2>4, <2>5, <2>6
<1>4. ASSUME DestructorRelocks PROVE IInv'
  <2>1. TypeOK'
    BY <1>4 DEF TypeOK, DestructorRelocks
  <2>2. ThreadsInv'
    BY <1>4 DEF TypeOK, ThreadsInv, Alive, DestructorRelocks
  <2>3. MutexInv'
    BY <1>4 DEF TypeOK, MutexInv, DestructorRelocks
  <2>4. JoinInv'
    BY <1>4 DEF TypeOK, JoinInv, JoinedOnce, DestructorRelocks, ThreadsInv, Alive, MutexInv
  <2>5. AcceptInv'
    BY <1>4 DEF TypeOK, AcceptInv, Accepting, DestructorRelocks, ThreadsInv
  <2>6. ResponseInv'
    BY <1>4 DEF TypeOK, ThreadsInv, ResponseInv, DestructorRelocks
  <2> QED BY <2>1, <2>2, <2>3, <2>4, <2>5, <2>6
<1>5. ASSUME DestructorJoins PROVE IInv'
  <2>1. TypeOK'
    BY <1>5 DEF TypeOK, DestructorJoins, cleanTerminatedThread
  <2>2. ThreadsInv'
    BY <1>5 DEF TypeOK, ThreadsInv, Alive, DestructorJoins, cleanTerminatedThread
  <2>3. MutexInv'
    BY <1>5 DEF TypeOK, MutexInv, DestructorJoins, cleanTerminatedThread
  <2>4. JoinInv'
    BY <1>5 DEF TypeOK, JoinInv, JoinedOnce, DestructorJoins, cleanTerminatedThread,
       ThreadsInv, Alive, MutexInv
  <2>5. AcceptInv'
    BY <1>5 DEF TypeOK, AcceptInv, Accepting, DestructorJoins, cleanTerminatedThread,
       ThreadsInv
  <2>6. ResponseInv'
    BY <1>5 DEF TypeOK, ThreadsInv, ResponseInv, DestructorJoins, cleanTerminatedThread
  <2> QED BY <2>1, <2>2, <2>3, <2>4, <2>5, <2>6
<1>6. ASSUME DestructorWakesSpuriously PROVE IInv'
  <2>1. TypeOK'
    BY <1>6 DEF TypeOK, DestructorWakesSpuriously
  <2>2. ThreadsInv'
    BY <1>6 DEF TypeOK, ThreadsInv, Alive, DestructorWakesSpuriously
  <2>3. MutexInv'
    BY <1>6 DEF TypeOK, MutexInv, DestructorWakesSpuriously
  <2>4. JoinInv'
    BY <1>6 DEF TypeOK, JoinInv, JoinedOnce, DestructorWakesSpuriously, ThreadsInv, Alive,
       MutexInv
  <2>5. AcceptInv'
    BY <1>6 DEF TypeOK, AcceptInv, Accepting, DestructorWakesSpuriously, ThreadsInv
  <2>6. ResponseInv'
    BY <1>6 DEF TypeOK, ThreadsInv, ResponseInv, DestructorWakesSpuriously
  <2> QED BY <2>1, <2>2, <2>3, <2>4, <2>5, <2>6
<1>7. ASSUME NEW t \in Threads, Accept(t) PROVE IInv'
  <2>1. TypeOK'
    BY <1>7 DEF TypeOK, Accept
  <2>2. ThreadsInv'
    BY <1>7 DEF TypeOK, ThreadsInv, Alive, Accept
  <2>3. MutexInv'
    BY <1>7 DEF TypeOK, MutexInv, Accept
  <2>4. JoinInv'
    BY <1>7 DEF TypeOK, JoinInv, JoinedOnce, Accept, ThreadsInv, Alive, MutexInv
  <2>5. AcceptInv'
    BY <1>7 DEF TypeOK, AcceptInv, Accepting, Accept, ThreadsInv
  <2>6. ResponseInv'
    BY <1>7 DEF TypeOK, ThreadsInv, ResponseInv, Accept
  <2> QED BY <2>1, <2>2, <2>3, <2>4, <2>5, <2>6
<1>8. ASSUME NEW t \in Threads, AcceptCancelled(t) PROVE IInv'
  <2>1. TypeOK'
    BY <1>8 DEF TypeOK, AcceptCancelled
  <2>2. ThreadsInv'
    BY <1>8 DEF TypeOK, ThreadsInv, Alive, AcceptCancelled
  <2>3. MutexInv'
    BY <1>8 DEF TypeOK, MutexInv, AcceptCancelled
  <2>4. JoinInv'
    BY <1>8 DEF TypeOK, JoinInv, JoinedOnce, AcceptCancelled, ThreadsInv, Alive, MutexInv
  <2>5. AcceptInv'
    BY <1>8 DEF TypeOK, AcceptInv, Accepting, AcceptCancelled, ThreadsInv
  <2>6. ResponseInv'
    BY <1>8 DEF TypeOK, ThreadsInv, ResponseInv, AcceptCancelled
  <2> QED BY <2>1, <2>2, <2>3, <2>4, <2>5, <2>6
<1>9. ASSUME NEW t \in Threads, AddNext(t) PROVE IInv'
  <2>1. TypeOK'
    <3>1. lastThreadID' \in 1 .. MaxThreads /\ lastThreadID' = lastThreadID + 1
      BY <1>9 DEF TypeOK, AddNext, addAcceptorThread
    <3>2. tpc' = [[tpc EXCEPT ![t] = "receive"] EXCEPT ![lastThreadID'] = "accept"]
      BY <1>9 DEF AddNext, addAcceptorThread
    <3>3. tpc' \in [Threads -> {"none", "accept", "incoming", "addNext", "receive", "read",
                                "shutdown", "remove", "removing", "leaving", "ended"}]
      BY <3>1, <3>2 DEF TypeOK
    <3>4. pendingClientThreads' \subseteq Threads
      BY <1>9, <3>1 DEF TypeOK, AddNext, addAcceptorThread
    <3> QED BY <1>9, <3>1, <3>3, <3>4 DEF TypeOK, AddNext
  <2>2. ThreadsInv'
    BY <1>9 DEF TypeOK, ThreadsInv, Alive, AddNext, addAcceptorThread
  <2>3. MutexInv'
    BY <1>9 DEF TypeOK, MutexInv, AddNext, addAcceptorThread
  <2>4. JoinInv'
    BY <1>9 DEF TypeOK, JoinInv, JoinedOnce, AddNext, addAcceptorThread, ThreadsInv, Alive,
       MutexInv
  <2>5. AcceptInv'
    BY <1>9 DEF TypeOK, AcceptInv, Accepting, AddNext, addAcceptorThread, ThreadsInv
  <2>6. ResponseInv'
    BY <1>9 DEF TypeOK, ThreadsInv, ResponseInv, AddNext, addAcceptorThread
  <2> QED BY <2>1, <2>2, <2>3, <2>4, <2>5, <2>6
<1>10. ASSUME NEW t \in Threads, ReceiveTest(t) PROVE IInv'
  <2>1. TypeOK'
    BY <1>10 DEF TypeOK, ReceiveTest
  <2>2. ThreadsInv'
    BY <1>10 DEF TypeOK, ThreadsInv, Alive, ReceiveTest
  <2>3. MutexInv'
    BY <1>10 DEF TypeOK, MutexInv, ReceiveTest
  <2>4. JoinInv'
    BY <1>10 DEF TypeOK, JoinInv, JoinedOnce, ReceiveTest, ThreadsInv, Alive, MutexInv
  <2>5. AcceptInv'
    BY <1>10 DEF TypeOK, AcceptInv, Accepting, ReceiveTest, ThreadsInv
  <2>6. ResponseInv'
    BY <1>10 DEF TypeOK, ThreadsInv, ResponseInv, ReceiveTest
  <2> QED BY <2>1, <2>2, <2>3, <2>4, <2>5, <2>6
<1>11. ASSUME NEW t \in Threads, ReceiveCancelled(t) PROVE IInv'
  <2>1. TypeOK'
    BY <1>11 DEF TypeOK, ReceiveCancelled
  <2>2. ThreadsInv'
    BY <1>11 DEF TypeOK, ThreadsInv, Alive, ReceiveCancelled
  <2>3. MutexInv'
    BY <1>11 DEF TypeOK, MutexInv, ReceiveCancelled
  <2>4. JoinInv'
    BY <1>11 DEF TypeOK, JoinInv, JoinedOnce, ReceiveCancelled, ThreadsInv, Alive, MutexInv
  <2>5. AcceptInv'
    BY <1>11 DEF TypeOK, AcceptInv, Accepting, ReceiveCancelled, ThreadsInv
  <2>6. ResponseInv'
    BY <1>11 DEF TypeOK, ThreadsInv, ResponseInv, ReceiveCancelled
  <2> QED BY <2>1, <2>2, <2>3, <2>4, <2>5, <2>6
<1>12. ASSUME NEW t \in Threads, Shutdown(t) PROVE IInv'
  <2>1. TypeOK'
    <3>1. {queued', responded', aborted'} \subseteq [Threads -> Nat]
      BY <1>12, <1>t DEF Shutdown
    <3>2. requests' \in [Threads -> 0 .. MaxRequests]
      BY <1>12, <1>t DEF TypeOK, Shutdown
    <3> QED BY <1>12, <3>1, <3>2 DEF TypeOK, Shutdown
  <2>2. ThreadsInv'
    BY <1>12 DEF TypeOK, ThreadsInv, Alive, Shutdown
  <2>3. MutexInv'
    BY <1>12 DEF TypeOK, MutexInv, Shutdown
  <2>4. JoinInv'
    BY <1>12 DEF TypeOK, JoinInv, JoinedOnce, Shutdown, ThreadsInv, Alive, MutexInv
  <2>5. AcceptInv'
    BY <1>12 DEF TypeOK, AcceptInv, Accepting, Shutdown, ThreadsInv
  <2>6. ResponseInv'
    BY <1>12, <1>t DEF ResponseInv, Shutdown
  <2> QED BY <2>1, <2>2, <2>3, <2>4, <2>5, <2>6
<1>13. ASSUME NEW t \in Threads, removeLocks(t) PROVE IInv'
  <2>1. TypeOK'
    BY <1>13 DEF TypeOK, removeLocks
  <2>2. ThreadsInv'
    BY <1>13 DEF TypeOK, ThreadsInv, Alive, removeLocks
  <2>3. MutexInv'
    BY <1>13 DEF TypeOK, MutexInv, removeLocks
  <2>4. JoinInv'
    BY <1>13 DEF TypeOK, JoinInv, JoinedOnce, removeLocks, ThreadsInv, Alive, MutexInv
  <2>5. AcceptInv'
    BY <1>13 DEF TypeOK, AcceptInv, Accepting, removeLocks, ThreadsInv
  <2>6. ResponseInv'
    BY <1>13 DEF TypeOK, ThreadsInv, ResponseInv, removeLocks
  <2> QED BY <2>1, <2>2, <2>3, <2>4, <2>5, <2>6
<1>14. ASSUME NEW t \in Threads, removeAcceptorThread(t) PROVE IInv'
  <2>1. TypeOK'
    BY <1>14 DEF TypeOK, removeAcceptorThread, cleanTerminatedThread
  <2>2. ThreadsInv'
    BY <1>14 DEF TypeOK, ThreadsInv, Alive, removeAcceptorThread, cleanTerminatedThread
  <2>3. MutexInv'
    BY <1>14 DEF TypeOK, MutexInv, removeAcceptorThread, cleanTerminatedThread
  <2>4. JoinInv'
    BY <1>14 DEF TypeOK, JoinInv, JoinedOnce, removeAcceptorThread, cleanTerminatedThread,
       ThreadsInv, Alive, MutexInv
  <2>5. AcceptInv'
    BY <1>14 DEF TypeOK, AcceptInv, Accepting, removeAcceptorThread, cleanTerminatedThread,
       ThreadsInv
  <2>6. ResponseInv'
    BY <1>14 DEF TypeOK, ThreadsInv, ResponseInv, removeAcceptorThread,
       cleanTerminatedThread
  <2> QED BY <2>1, <2>2, <2>3, <2>4, <2>5, <2>6
<1>15. ASSUME NEW t \in Threads, ThreadEnds(t) PROVE IInv'
  <2>1. TypeOK'
    BY <1>15 DEF TypeOK, ThreadEnds
  <2>2. ThreadsInv'
    BY <1>15 DEF TypeOK, ThreadsInv, Alive, ThreadEnds
  <2>3. MutexInv'
    BY <1>15 DEF TypeOK, MutexInv, ThreadEnds
  <2>4. JoinInv'
    BY <1>15 DEF TypeOK, JoinInv, JoinedOnce, ThreadEnds, ThreadsInv, Alive, MutexInv
  <2>5. AcceptInv'
    BY <1>15 DEF TypeOK, AcceptInv, Accepting, ThreadEnds, ThreadsInv
  <2>6. ResponseInv'
    BY <1>15 DEF TypeOK, ThreadsInv, ResponseInv, ThreadEnds
  <2> QED BY <2>1, <2>2, <2>3, <2>4, <2>5, <2>6
<1>16. ASSUME NEW t \in Threads, SendResponse(t) PROVE IInv'
  <2>1. TypeOK'
    <3>1. {queued', responded', aborted'} \subseteq [Threads -> Nat]
      BY <1>16, <1>t DEF SendResponse
    <3>2. requests' \in [Threads -> 0 .. MaxRequests]
      BY <1>16, <1>t DEF TypeOK, SendResponse
    <3> QED BY <1>16, <3>1, <3>2 DEF TypeOK, SendResponse
  <2>2. ThreadsInv'
    BY <1>16 DEF TypeOK, ThreadsInv, Alive, SendResponse
  <2>3. MutexInv'
    BY <1>16 DEF TypeOK, MutexInv, SendResponse
  <2>4. JoinInv'
    BY <1>16 DEF TypeOK, JoinInv, JoinedOnce, SendResponse, ThreadsInv, Alive, MutexInv
  <2>5. AcceptInv'
    BY <1>16 DEF TypeOK, AcceptInv, Accepting, SendResponse, ThreadsInv
  <2>6. ResponseInv'
    <3>1. tpc[t] \in {"receive", "read", "shutdown"}
      BY <1>16, <1>t DEF TypeOK, ResponseInv, SendResponse
    <3>2. queued'[t] = queued[t] - 1 /\ responded'[t] = responded[t] + 1
      BY <1>16, <1>t DEF SendResponse
    <3>3. \A u \in Threads \ {t} :
             /\ queued'[u] = queued[u] /\ responded'[u] = responded[u] /\ tpc'[u] = tpc[u]
      BY <1>16, <1>t DEF TypeOK, SendResponse
    <3>4. requests' = requests /\ aborted' = aborted /\ tpc' = tpc
      BY <1>16 DEF SendResponse
    <3>5. ASSUME NEW u \in Threads, u # t
          PROVE  /\ requests'[u] = queued'[u] + responded'[u] + aborted'[u]
                 /\ tpc'[u] \notin {"receive", "read", "shutdown"} => queued'[u] = 0
      BY <3>3, <3>4, <3>5 DEF ResponseInv
    <3>6. requests'[t] = queued'[t] + responded'[t] + aborted'[t]
      BY <1>t, <3>2, <3>4 DEF ResponseInv
    <3> QED BY <3>1, <3>4, <3>5, <3>6 DEF ResponseInv
  <2> QED BY <2>1, <2>2, <2>3, <2>4, <2>5, <2>6
<1>17. ASSUME NEW t \in Threads, SendFails(t) PROVE IInv'
  <2>1. TypeOK'
    BY <1>17 DEF TypeOK, SendFails
  <2>2. ThreadsInv'
    BY <1>17 DEF TypeOK, ThreadsInv, Alive, SendFails
  <2>3. MutexInv'
    BY <1>17 DEF TypeOK, MutexInv, SendFails
  <2>4. JoinInv'
    BY <1>17 DEF TypeOK, JoinInv, JoinedOnce, SendFails, ThreadsInv, Alive, MutexInv
  <2>5. AcceptInv'
    BY <1>17 DEF TypeOK, AcceptInv, Accepting, SendFails, ThreadsInv
  <2>6. ResponseInv'
    BY <1>17 DEF TypeOK, ThreadsInv, ResponseInv, SendFails
  <2> QED BY <2>1, <2>2, <2>3, <2>4, <2>5, <2>6
<1>18. ASSUME NEW t \in Threads, AcceptWait(t) PROVE IInv'
  <2>1. TypeOK'
    BY <1>18 DEF TypeOK, AcceptWait
  <2>2. ThreadsInv'
    BY <1>18 DEF TypeOK, ThreadsInv, Alive, AcceptWait
  <2>3. MutexInv'
    BY <1>18 DEF TypeOK, MutexInv, AcceptWait
  <2>4. JoinInv'
    BY <1>18 DEF TypeOK, JoinInv, JoinedOnce, AcceptWait, ThreadsInv, Alive, MutexInv
  <2>5. AcceptInv'
    BY <1>18 DEF TypeOK, AcceptInv, Accepting, AcceptWait, ThreadsInv
  <2>6. ResponseInv'
    BY <1>18 DEF TypeOK, ThreadsInv, ResponseInv, AcceptWait
  <2> QED BY <2>1, <2>2, <2>3, <2>4, <2>5, <2>6
<1>19. ASSUME NEW t \in Threads, ReceiveEnds(t) PROVE IInv'
  <2>1. TypeOK'
    BY <1>19 DEF TypeOK, ReceiveEnds
  <2>2. ThreadsInv'
    BY <1>19 DEF TypeOK, ThreadsInv, Alive, ReceiveEnds
  <2>3. MutexInv'
    BY <1>19 DEF TypeOK, MutexInv, ReceiveEnds
  <2>4. JoinInv'
    BY <1>19 DEF TypeOK, JoinInv, JoinedOnce, ReceiveEnds, ThreadsInv, Alive, MutexInv
  <2>5. AcceptInv'
    BY <1>19 DEF TypeOK, AcceptInv, Accepting, ReceiveEnds, ThreadsInv
  <2>6. ResponseInv'
    BY <1>19 DEF TypeOK, ThreadsInv, ResponseInv, ReceiveEnds
  <2> QED BY <2>1, <2>2, <2>3, <2>4, <2>5, <2>6
<1>20. ASSUME NEW t \in Threads, NEW valid \in BOOLEAN, Receive(t, valid) PROVE IInv'
  <2>1. TypeOK'
    <3>1. {queued', responded', aborted'} \subseteq [Threads -> Nat]
      BY <1>20, <1>t DEF Receive
    <3>2. requests' \in [Threads -> 0 .. MaxRequests]
      <4>1. requests \in [Threads -> 0 .. MaxRequests] /\ requests[t] < MaxRequests
        BY <1>20 DEF TypeOK, Receive
      <4>2. requests' = [requests EXCEPT ![t] = @ + 1]
        BY <1>20 DEF Receive
      <4> QED BY <4>1, <4>2
    <3> QED BY <1>20, <3>1, <3>2 DEF TypeOK, Receive
  <2>2. ThreadsInv'
    BY <1>20 DEF TypeOK, ThreadsInv, Alive, Receive
  <2>3. MutexInv'
    BY <1>20 DEF TypeOK, MutexInv, Receive
  <2>4. JoinInv'
    BY <1>20 DEF TypeOK, JoinInv, JoinedOnce, Receive, ThreadsInv, Alive, MutexInv
  <2>5. AcceptInv'
    BY <1>20 DEF TypeOK, AcceptInv, Accepting, Receive, ThreadsInv
  <2>6. ResponseInv'
    <3>1. tpc[t] = "read" /\ tpc'[t] \in {"receive", "shutdown"}
      BY <1>20 DEF TypeOK, Receive
    <3>2. queued'[t] = queued[t] + 1 /\ requests'[t] = requests[t] + 1
      BY <1>20, <1>t DEF Receive
    <3>3. \A u \in Threads \ {t} :
             /\ queued'[u] = queued[u] /\ requests'[u] = requests[u] /\ tpc'[u] = tpc[u]
      BY <1>20, <1>t DEF TypeOK, Receive
    <3>4. responded' = responded /\ aborted' = aborted
      BY <1>20 DEF Receive
    <3>5. ASSUME NEW u \in Threads, u # t
          PROVE  /\ requests'[u] = queued'[u] + responded'[u] + aborted'[u]
                 /\ tpc'[u] \notin {"receive", "read", "shutdown"} => queued'[u] = 0
      BY <3>3, <3>4, <3>5 DEF ResponseInv
    <3>6. requests'[t] = queued'[t] + responded'[t] + aborted'[t]
      BY <1>t, <3>2, <3>4 DEF ResponseInv
    <3> QED BY <3>1, <3>4, <3>5, <3>6 DEF ResponseInv
  <2> QED BY <2>1, <2>2, <2>3, <2>4, <2>5, <2>6
<1>21. CASE UNCHANGED vars
  BY <1>21 DEF vars, TypeOK, ThreadsInv, MutexInv, JoinInv, AcceptInv, ResponseInv, Alive,
     JoinedOnce, Accepting
<1> QED BY <1>1, <1>2, <1>3, <1>4, <1>5, <1>6, <1>7, <1>8, <1>9, <1>10, <1>11, <1>12, <1>13, <1>14,
   <1>15, <1>16, <1>17, <1>18, <1>19, <1>20, <1>21 DEF Next, Own, Send, Client, Destructor

LEMMA InitialInv == Init => IInv
<1> SUFFICES ASSUME Init PROVE IInv
  OBVIOUS
<1>1. TypeOK
  <2>1. {queued, responded, aborted} \subseteq [Threads -> Nat] /\ joined \in [Threads -> Nat]
    BY DEF Init
  <2>2. requests \in [Threads -> 0 .. MaxRequests] /\ mutex \in 0 .. TheDestructor
    BY GIOServerAssumption DEF Init, Nobody, TheDestructor
  <2>3. /\ finishedThread \in 0 .. MaxThreads /\ lastThreadID \in 0 .. MaxThreads
        /\ pendingClientThreads \subseteq Threads /\ cancelled \subseteq Threads
        /\ broken \subseteq Threads
    BY GIOServerAssumption DEF Init, Nobody
  <2> QED BY <2>1, <2>2, <2>3, Zenon DEF Init, TypeOK
<1>2. ThreadsInv /\ AcceptInv
  BY GIOServerAssumption DEF Init, ThreadsInv, AcceptInv, Alive, Accepting, Threads
<1>3. MutexInv /\ JoinInv
  BY GIOServerAssumption DEF Init, MutexInv, JoinInv, JoinedOnce, Threads, Nobody,
     TheDestructor
<1>4. ResponseInv
  BY DEF Init, ResponseInv
<1> QED BY <1>1, <1>2, <1>3, <1>4 DEF IInv

\* The inductive invariant holds in every state.
THEOREM Invariance == Spec => []IInv
BY InitialInv, Inductive, PTL DEF Spec

\* The registry of the server is exact: a registered thread may still use the
\* server and no other one does, a thread that left is joined exactly once, and
\* until the server is destroyed exactly one thread accepts connections.
THEOREM RegistryExact == Spec => []RegistryIsExact
<1>1. IInv => RegistryIsExact
  <2> SUFFICES ASSUME IInv PROVE RegistryIsExact
    OBVIOUS
  <2>1. ASSUME lastThreadID > 0, ~cancelable
        PROVE  Cardinality({t \in Threads : tpc[t] \in {"accept", "incoming", "addNext"}}) = 1
    <3>1. {t \in Threads : tpc[t] \in {"accept", "incoming", "addNext"}} = {lastThreadID}
      BY <2>1, GIOServerAssumption DEF IInv, TypeOK, AcceptInv, Accepting, Threads
    <3> QED BY <3>1, FS_Singleton
  <2> QED BY <2>1 DEF IInv, ThreadsInv, JoinInv, AlwaysAccepting, RegistryIsExact
<1> QED BY <1>1, Invariance, PTL

LEMMA GoneInv == IInv => GoneWhenDestroyed
<1> SUFFICES ASSUME IInv PROVE GoneWhenDestroyed
  OBVIOUS
<1>1. ASSUME dpc = "done", NEW t \in 1 .. lastThreadID PROVE tpc[t] = "ended" /\ joined[t] = 1
  <2>1. t \in Threads /\ t \notin Alive /\ tpc[t] # "none" /\ t # finishedThread
    BY <1>1, GIOServerAssumption DEF IInv, TypeOK, ThreadsInv, JoinInv, Threads, Nobody
  <2>2. tpc[t] = "ended"
    BY <2>1 DEF IInv, JoinInv, Alive
  <2> QED BY <2>1, <2>2 DEF IInv, JoinInv, JoinedOnce
<1>2. ASSUME NEW t \in Threads, tpc[t] \in {"remove", "removing", "leaving", "ended"}
      PROVE  queued[t] = 0 /\ requests[t] = responded[t] + aborted[t]
  <2>1. queued[t] = 0 /\ requests[t] = queued[t] + responded[t] + aborted[t]
    BY <1>2 DEF IInv, ResponseInv
  <2>2. responded \in [Threads -> Nat] /\ aborted \in [Threads -> Nat]
    BY DEF IInv, TypeOK
  <2> QED BY <2>1, <2>2
<1> QED BY <1>1, <1>2 DEF GoneWhenDestroyed

\* The destructor leaves nothing behind: all threads have ended and were joined,
\* and a connection that ended has sent or aborted every response.
THEOREM NothingIsLeft == Spec => []GoneWhenDestroyed
BY GoneInv, Invariance, PTL

-----------------------------------------------------------------------------
(* AutoConfigurator.                                                       *)

\* A section is a sequence of modules, whose numbers are positive and differ.
LEMMA SectionFacts ==
    ASSUME NEW s \in DOMAIN Config
    PROVE  /\ Len(Config[s]) \in Nat /\ DOMAIN Config[s] = 1 .. Len(Config[s])
           /\ \A k \in 1 .. Len(Config[s]) :
                /\ Config[s][k].id \in Nat \ {0} /\ Config[s][k].mandatory \in BOOLEAN
                /\ \A r \in Config[s][k].refs :
                     /\ r.id \in Nat \ {0} /\ r.global \in BOOLEAN
                     /\ r.global => s \in Conf!Interfaces
                                    /\ r.id \in Conf!Ids("host") \cap Conf!Ids("global")
                /\ \A l \in 1 .. Len(Config[s]) : Config[s][k].id = Config[s][l].id => k = l
<1> DEFINE M == [id : Nat \ {0}, mandatory : BOOLEAN,
                 refs : SUBSET [id : Nat \ {0}, global : BOOLEAN]]
<1>1. Config[s] \in Seq(M)
  BY SectionsAssumption DEF Conf!ConfigAssumption
<1>2. Len(Config[s]) \in Nat /\ DOMAIN Config[s] = 1 .. Len(Config[s])
      /\ \A k \in 1 .. Len(Config[s]) : Config[s][k] \in M
  <2> HIDE DEF M
  <2> QED BY <1>1
<1>3. ASSUME NEW k \in 1 .. Len(Config[s])
      PROVE  /\ Config[s][k].id \in Nat \ {0} /\ Config[s][k].mandatory \in BOOLEAN
             /\ \A r \in Config[s][k].refs : r.id \in Nat \ {0} /\ r.global \in BOOLEAN
  BY <1>2
<1>4. ASSUME NEW k \in 1 .. Len(Config[s])
      PROVE  /\ \A r \in Config[s][k].refs :
                   r.global => s \in Conf!Interfaces
                               /\ r.id \in Conf!Ids("host") \cap Conf!Ids("global")
             /\ \A l \in 1 .. Len(Config[s]) : Config[s][k].id = Config[s][l].id => k = l
  <2> HIDE DEF M
  <2> QED BY <1>2, SectionsAssumption DEF Conf!ConfigAssumption
<1> HIDE DEF M
<1> QED
  BY <1>2, <1>3, <1>4

LEMMA SectionNames ==
    /\ "host" \in DOMAIN Config /\ "global" \in DOMAIN Config
    /\ Conf!Interfaces = DOMAIN Config \ {"host", "global"}
BY SectionsAssumption DEF Conf!ConfigAssumption, Conf!Interfaces

\* Steps that leave the components alone.
LEMMA AutoLoads ==
    ASSUME Conf!IInv, UNCHANGED list,
           \/ \E s \in DOMAIN Config : Conf!LoadConfiguration(s)
           \/ Conf!getConfiguration \/ Conf!lock \/ Conf!parseFails
           \/ Conf!module_create_instance \/ Conf!SetConfigurationFails \/ Conf!unlock
           \/ Conf!initAllComponents /\ next' = next
    PROVE  Conf!IInv'
<1> USE SectionNames DEF Conf!IInv, Conf!registrarVars, Conf!loadVars
<1>l. Len(list) \in Nat /\ DOMAIN list = 1 .. Len(list)
      /\ Len(Config[section]) \in Nat /\ DOMAIN Config[section] = 1 .. Len(Config[section])
  BY SectionFacts DEF Conf!TypeOK
<1>f. \A s, n : Conf!FirstAre(s, n)' <=> Conf!FirstAre(s, n)
  BY DEF Conf!FirstAre
<1>n. \A i \in DOMAIN list : list[i].load \in Nat /\ list[i].nr \in Int
  <2>1. \A i \in DOMAIN list : list[i] \in Conf!Component
    BY DEF Conf!TypeOK
  <2> QED
    BY <2>1 DEF Conf!Component
<1>1. CASE \E s \in DOMAIN Config : Conf!LoadConfiguration(s)
  <2>1. Conf!TypeOK'
    BY <1>1 DEF Conf!TypeOK, Conf!LoadConfiguration
  <2>2. Conf!NumbersInv'
    BY <1>1 DEF Conf!NumbersInv, Conf!NumbersAreUnique, Conf!LoadConfiguration
  <2>3. Conf!MainInv'
    <3>1. PICK s \in DOMAIN Config : Conf!LoadConfiguration(s)
      BY <1>1
    <3>2. CASE pc = "none" /\ s = "host"
      BY <3>1, <3>2 DEF Conf!MainInv, Conf!LoadConfiguration, Conf!TypeOK
    <3>3. CASE pc = "ready" /\ s \in Conf!Interfaces
      BY <1>f, <3>1, <3>3 DEF Conf!MainInv, Conf!LoadConfiguration
    <3> QED
      BY <3>1, <3>2, <3>3 DEF Conf!LoadConfiguration
  <2>4. Conf!RefsInv'
    BY <1>1 DEF Conf!RefsInv, Conf!LoadConfiguration
  <2>5. Conf!StartInv'
    BY <1>1 DEF Conf!StartInv, Conf!Initialised, Conf!LoadConfiguration
  <2>6. Conf!AliveInv'
    BY <1>1 DEF Conf!AliveInv, Conf!LoadConfiguration
  <2> QED BY <2>1, <2>2, <2>3, <2>4, <2>5, <2>6
<1>2. CASE Conf!getConfiguration
  <2>1. Conf!TypeOK'
    BY <1>2 DEF Conf!TypeOK, Conf!getConfiguration, Conf!Throw
  <2>2. Conf!NumbersInv'
    <3>1. loads \in Nat /\ loads' = loads + 1 /\ pc' \notin {"parse", "reported", "shutdown"}
          /\ pc = "call"
      BY <1>2 DEF Conf!TypeOK, Conf!getConfiguration, Conf!Throw
    <3>2. Conf!NumbersAreUnique'
      BY <1>2 DEF Conf!NumbersInv, Conf!NumbersAreUnique, Conf!getConfiguration, Conf!Throw
    <3> QED
      BY <1>2, <1>n, <3>1, <3>2 DEF Conf!NumbersInv, Conf!getConfiguration
  <2>3. Conf!MainInv'
    BY <1>2 DEF Conf!MainInv, Conf!FirstAre, Conf!getConfiguration, Conf!Throw, Conf!TypeOK
  <2>4. Conf!RefsInv'
    BY <1>2 DEF Conf!RefsInv, Conf!getConfiguration
  <2>5. Conf!StartInv'
    BY <1>2 DEF Conf!StartInv, Conf!Initialised, Conf!getConfiguration, Conf!Throw
  <2>6. Conf!AliveInv'
    BY <1>2 DEF Conf!AliveInv, Conf!getConfiguration, Conf!Throw
  <2> QED BY <2>1, <2>2, <2>3, <2>4, <2>5, <2>6
<1>3. CASE Conf!lock
  <2>1. Conf!TypeOK'
    BY <1>3 DEF Conf!TypeOK, Conf!lock
  <2>2. Conf!NumbersInv'
    BY <1>3, <1>l DEF Conf!TypeOK, Conf!NumbersInv, Conf!NumbersAreUnique, Conf!lock
  <2>3. Conf!MainInv'
    BY <1>3, <1>l DEF Conf!MainInv, Conf!FirstAre, Conf!lock, Conf!TypeOK
  <2>4. Conf!RefsInv'
    BY <1>3 DEF Conf!RefsInv, Conf!lock
  <2>5. Conf!StartInv'
    BY <1>3, <1>l DEF Conf!StartInv, Conf!Initialised, Conf!lock
  <2>6. Conf!AliveInv'
    BY <1>3 DEF Conf!AliveInv, Conf!lock
  <2> QED BY <2>1, <2>2, <2>3, <2>4, <2>5, <2>6
<1>4. CASE Conf!parseFails
  <2>1. Conf!TypeOK'
    BY <1>4 DEF Conf!TypeOK, Conf!parseFails, Conf!Throw
  <2>2. Conf!NumbersInv'
    BY <1>4 DEF Conf!NumbersInv, Conf!NumbersAreUnique, Conf!parseFails, Conf!Throw
  <2>3. Conf!MainInv'
    <3>1. CASE aBroken'
      BY <3>1 DEF Conf!MainInv
    <3>2. CASE ~aBroken'
      <4>0. aBroken' = (aBroken \/ next > 1) /\ pc = "parse" /\ next \in Nat \ {0}
        BY <1>4 DEF Conf!parseFails, Conf!TypeOK
      <4>a. ~(next > 1) /\ ~aBroken
        BY <3>2, <4>0, Zenon
      <4>1. next = 1 /\ ~aBroken /\ pc = "parse"
        BY <4>0, <4>a
      <4>2. section \notin Conf!Interfaces => list = << >> /\ maxComponentNumber = 0
        BY <1>l, <4>1 DEF Conf!MainInv, Conf!TypeOK
      <4> QED
        BY <1>4, <1>f, <4>1, <4>2 DEF Conf!MainInv, Conf!parseFails, Conf!Throw, Conf!TypeOK
    <3> QED BY <3>1, <3>2
  <2>4. Conf!RefsInv'
    BY <1>4 DEF Conf!RefsInv, Conf!parseFails
  <2>5. Conf!StartInv'
    <3>1. CASE aBroken'
      BY <3>1 DEF Conf!StartInv
    <3>2. CASE ~aBroken'
      <4>0. aBroken' = (aBroken \/ next > 1) /\ pc = "parse" /\ next \in Nat \ {0}
        BY <1>4 DEF Conf!parseFails, Conf!TypeOK
      <4>a. ~(next > 1) /\ ~aBroken
        BY <3>2, <4>0, Zenon
      <4>1. next = 1 /\ ~aBroken /\ pc = "parse"
        BY <4>0, <4>a
      <4>2. Conf!Initialised = Len(list)
        BY <1>l, <4>1 DEF Conf!Initialised
      <4> QED
        BY <1>l, <4>1, <4>2 DEF Conf!StartInv
    <3> QED BY <3>1, <3>2
  <2>6. Conf!AliveInv'
    BY <1>4 DEF Conf!AliveInv, Conf!parseFails, Conf!Throw
  <2> QED BY <2>1, <2>2, <2>3, <2>4, <2>5, <2>6
<1>5. CASE Conf!module_create_instance
  <2>1. Conf!TypeOK'
    BY <1>5 DEF Conf!TypeOK, Conf!module_create_instance
  <2>2. Conf!NumbersInv'
    BY <1>5 DEF Conf!NumbersInv, Conf!NumbersAreUnique, Conf!module_create_instance
  <2>3. Conf!MainInv'
    BY <1>5 DEF Conf!MainInv, Conf!FirstAre, Conf!module_create_instance
  <2>4. Conf!RefsInv'
    BY <1>5 DEF Conf!RefsInv, Conf!module_create_instance
  <2>5. Conf!StartInv'
    BY <1>5, <1>l DEF Conf!StartInv, Conf!Initialised, Conf!module_create_instance
  <2>6. Conf!AliveInv'
    BY <1>5 DEF Conf!AliveInv, Conf!module_create_instance
  <2> QED BY <2>1, <2>2, <2>3, <2>4, <2>5, <2>6
<1>6. ASSUME Conf!Throw, aBroken', pc \in {"parse", "init"},
             UNCHANGED <<maxComponentNumber, registrarMutex, autoConfiguratorOffset, next, loads>>
      PROVE  Conf!IInv'
  <2>1. Conf!TypeOK'
    BY <1>6 DEF Conf!TypeOK, Conf!Throw
  <2>2. Conf!NumbersInv'
    BY <1>6 DEF Conf!NumbersInv, Conf!NumbersAreUnique, Conf!Throw
  <2>3. Conf!MainInv' /\ Conf!StartInv'
    BY <1>6 DEF Conf!MainInv, Conf!StartInv
  <2>4. Conf!RefsInv'
    BY <1>6 DEF Conf!RefsInv
  <2>5. Conf!AliveInv'
    BY <1>6 DEF Conf!AliveInv, Conf!Throw
  <2> QED BY <2>1, <2>2, <2>3, <2>4, <2>5
<1>7. CASE Conf!SetConfigurationFails
  BY <1>6, <1>7 DEF Conf!SetConfigurationFails
<1>8. CASE Conf!unlock
  <2>1. Conf!TypeOK'
    <3>0. pc = "parse" /\ next > Len(Config[section]) /\ next \in Nat
      BY <1>8 DEF Conf!TypeOK, Conf!unlock
    <3>1. next \in Nat /\ next <= Len(list) + 1 /\ next = Len(Config[section]) + 1
      BY <1>l, <3>0 DEF Conf!NumbersInv
    <3>2. Len(list) - Len(Config[section]) + 1 \in Nat \ {0}
      BY <1>l, <3>1
    <3> QED
      BY <1>8, <3>2 DEF Conf!TypeOK, Conf!unlock
  <2>2. Conf!NumbersInv'
    BY <1>8 DEF Conf!NumbersInv, Conf!NumbersAreUnique, Conf!unlock
  <2>3. Conf!MainInv'
    <3>0. /\ pc = "parse" /\ next > Len(Config[section]) /\ pc' = "init"
          /\ section' = section /\ aBroken' = aBroken /\ section \in DOMAIN Config
      BY <1>8 DEF Conf!TypeOK, Conf!unlock
    <3>1. next \in Nat /\ next <= Len(Config[section]) + 1 /\ Len(Config[section]) \in Nat
      BY <1>l, <3>0 DEF Conf!NumbersInv, Conf!TypeOK
    <3>2. next - 1 = Len(Config[section])
      BY <3>0, <3>1
    <3> SUFFICES ASSUME ~aBroken
                 PROVE  \E s \in {"host", "global"} : Conf!FirstAre(s, Len(Config[s]))
      BY <3>0 DEF Conf!MainInv, Conf!FirstAre
    <3>3. CASE section \in Conf!Interfaces
      BY <3>3 DEF Conf!MainInv
    <3>4. CASE section \notin Conf!Interfaces
      <4>1. Conf!FirstAre(section, Len(Config[section]))
        BY <3>0, <3>2, <3>4 DEF Conf!MainInv
      <4>2. section \in {"host", "global"}
        BY <3>0, <3>4 DEF Conf!Interfaces
      <4> QED BY <4>1, <4>2
    <3> QED BY <3>3, <3>4
  <2>4. Conf!RefsInv'
    BY <1>8 DEF Conf!RefsInv, Conf!unlock
  <2>5. Conf!StartInv'
    BY <1>8, <1>l DEF Conf!StartInv, Conf!Initialised, Conf!unlock, Conf!NumbersInv, Conf!TypeOK
  <2>6. Conf!AliveInv'
    BY <1>8 DEF Conf!AliveInv, Conf!unlock
  <2> QED BY <2>1, <2>2, <2>3, <2>4, <2>5, <2>6
<1>9. CASE Conf!initAllComponents /\ next' = next
  <2>1. CASE Conf!Throw /\ aBroken' = TRUE
    BY <1>6, <1>9, <2>1 DEF Conf!initAllComponents
  <2>2. CASE next' = next + 1
    BY <1>9, <2>2 DEF Conf!TypeOK
  <2> QED
    BY <1>9, <2>1, <2>2 DEF Conf!initAllComponents
<1> QED
  BY <1>1, <1>2, <1>3, <1>4, <1>5, <1>7, <1>8, <1>9

\* The components are those they were, but for the flags.
SameComponents ==
    /\ list' \in Seq(Conf!Component) /\ Len(list') = Len(list)
    /\ \A i \in 1 .. Len(list) :
         /\ list'[i].nr = list[i].nr /\ list'[i].id = list[i].id
         /\ list'[i].section = list[i].section /\ list'[i].load = list[i].load
         /\ list'[i].refs = list[i].refs

LEMMA SetFlags ==
    ASSUME Conf!TypeOK, NEW S, NEW v \in BOOLEAN, Conf!Set(S, v)
    PROVE  /\ SameComponents
           /\ \A i \in 1 .. Len(list) :
                /\ list'[i].inited = list[i].inited /\ list'[i].alive = list[i].alive
                /\ list'[i].started = IF i \in S THEN v ELSE list[i].started
<1> DEFINE g(c) == [c EXCEPT !.started = v]
<1>1. DOMAIN list = 1 .. Len(list) /\ Len(list) \in Nat /\ list \in Seq(Conf!Component)
      /\ \A i \in 1 .. Len(list) : list[i] \in Conf!Component
  BY DEF Conf!TypeOK
<1>2. ASSUME NEW c \in Conf!Component
      PROVE  /\ g(c) \in Conf!Component
             /\ g(c).nr = c.nr /\ g(c).id = c.id /\ g(c).section = c.section
             /\ g(c).load = c.load /\ g(c).refs = c.refs /\ g(c).inited = c.inited
             /\ g(c).alive = c.alive /\ g(c).started = v
  BY DEF Conf!Component
<1>3. list' = [i \in 1 .. Len(list) |-> IF i \in S THEN g(list[i]) ELSE list[i]]
  BY <1>1 DEF Conf!Set
<1> HIDE DEF g
<1>4. list' \in Seq(Conf!Component) /\ Len(list') = Len(list)
  BY <1>1, <1>2, <1>3
<1>5. \A i \in 1 .. Len(list) : list'[i] = IF i \in S THEN g(list[i]) ELSE list[i]
  BY <1>1, <1>3
<1> QED
  BY <1>1, <1>2, <1>4, <1>5 DEF SameComponents

LEMMA InitFlag ==
    ASSUME Conf!TypeOK, NEW n \in DOMAIN list, list' = [list EXCEPT ![n].inited = TRUE]
    PROVE  /\ SameComponents
           /\ \A i \in 1 .. Len(list) :
                /\ list'[i].inited = IF i = n THEN TRUE ELSE list[i].inited
                /\ list'[i].alive = list[i].alive /\ list'[i].started = list[i].started
<1> DEFINE g(c) == [c EXCEPT !.inited = TRUE]
<1>1. DOMAIN list = 1 .. Len(list) /\ Len(list) \in Nat /\ list \in Seq(Conf!Component)
      /\ \A i \in 1 .. Len(list) : list[i] \in Conf!Component
  BY DEF Conf!TypeOK
<1>2. ASSUME NEW c \in Conf!Component
      PROVE  /\ g(c) \in Conf!Component
             /\ g(c).nr = c.nr /\ g(c).id = c.id /\ g(c).section = c.section
             /\ g(c).load = c.load /\ g(c).refs = c.refs /\ g(c).started = c.started
             /\ g(c).alive = c.alive /\ g(c).inited = TRUE
  BY DEF Conf!Component
<1>3. list' = [i \in 1 .. Len(list) |-> IF i = n THEN g(list[i]) ELSE list[i]]
  BY <1>1
<1> HIDE DEF g
<1>a. \A i \in 1 .. Len(list) : (IF i = n THEN g(list[i]) ELSE list[i]) \in Conf!Component
  BY <1>1, <1>2
<1>b. list' \in [1 .. Len(list) -> Conf!Component]
  BY <1>3, <1>a
<1>4. list' \in Seq(Conf!Component) /\ Len(list') = Len(list)
  BY <1>1, <1>b
<1>5. \A i \in 1 .. Len(list) : list'[i] = IF i = n THEN g(list[i]) ELSE list[i]
  BY <1>1, <1>3
<1> QED
  BY <1>1, <1>2, <1>4, <1>5 DEF SameComponents

LEMMA AliveFlag ==
    ASSUME Conf!TypeOK, NEW n \in DOMAIN list, list' = [list EXCEPT ![n].alive = FALSE]
    PROVE  /\ SameComponents
           /\ \A i \in 1 .. Len(list) :
                /\ list'[i].alive = IF i = n THEN FALSE ELSE list[i].alive
                /\ list'[i].inited = list[i].inited /\ list'[i].started = list[i].started
<1> DEFINE g(c) == [c EXCEPT !.alive = FALSE]
<1>1. DOMAIN list = 1 .. Len(list) /\ Len(list) \in Nat /\ list \in Seq(Conf!Component)
      /\ \A i \in 1 .. Len(list) : list[i] \in Conf!Component
  BY DEF Conf!TypeOK
<1>2. ASSUME NEW c \in Conf!Component
      PROVE  /\ g(c) \in Conf!Component
             /\ g(c).nr = c.nr /\ g(c).id = c.id /\ g(c).section = c.section
             /\ g(c).load = c.load /\ g(c).refs = c.refs /\ g(c).started = c.started
             /\ g(c).inited = c.inited /\ g(c).alive = FALSE
  BY DEF Conf!Component
<1>3. list' = [i \in 1 .. Len(list) |-> IF i = n THEN g(list[i]) ELSE list[i]]
  BY <1>1
<1> HIDE DEF g
<1>a. \A i \in 1 .. Len(list) : (IF i = n THEN g(list[i]) ELSE list[i]) \in Conf!Component
  BY <1>1, <1>2
<1>b. list' \in [1 .. Len(list) -> Conf!Component]
  BY <1>3, <1>a
<1>4. list' \in Seq(Conf!Component) /\ Len(list') = Len(list)
  BY <1>1, <1>b
<1>5. \A i \in 1 .. Len(list) : list'[i] = IF i = n THEN g(list[i]) ELSE list[i]
  BY <1>1, <1>3
<1> QED
  BY <1>1, <1>2, <1>4, <1>5 DEF SameComponents

\* A step of a finished load that changes flags keeps numbers and references.
LEMMA FlagsKeep ==
    ASSUME Conf!IInv, SameComponents,
           UNCHANGED <<maxComponentNumber, autoConfiguratorOffset, section, loads, aBroken>>,
           next' \in Nat \ {0}, pc \in {"init", "ready", "forking", "report", "reported", "shutdown"},
           pc' \in {"init", "ready", "forking", "report", "reported", "shutdown"},
           pc \in {"reported", "shutdown"} => pc' = "shutdown"
    PROVE  Conf!TypeOK' /\ Conf!NumbersInv' /\ Conf!MainInv' /\ Conf!RefsInv'
<1> USE DEF Conf!IInv, SameComponents
<1>1. DOMAIN list = 1 .. Len(list) /\ Len(list) \in Nat /\ DOMAIN list' = 1 .. Len(list)
      /\ Len(list') = Len(list)
  BY DEF Conf!TypeOK
<1>2. Conf!TypeOK'
  BY DEF Conf!TypeOK
<1>3. Conf!NumbersInv'
  <2>1. Conf!NumbersAreUnique'
    <3>1. \A i, j \in 1 .. Len(list) : list[i].nr # 0 /\ (list[i].nr = list[j].nr => i = j)
      BY <1>1 DEF Conf!NumbersInv, Conf!NumbersAreUnique
    <3>2. \A i, j \in 1 .. Len(list) : list'[i].nr # 0 /\ (list'[i].nr = list'[j].nr => i = j)
      BY <3>1
    <3> QED
      BY <1>1, <3>2 DEF Conf!NumbersAreUnique
  <2>2. /\ \A i \in 1 .. Len(list) : list'[i].nr <= maxComponentNumber /\ list'[i].load <= loads + 1
        /\ pc \notin {"reported", "shutdown"} =>
             \A i \in 1 .. Len(list) : list'[i].nr > 0 /\ list'[i].load <= loads
    BY <1>1 DEF Conf!NumbersInv
  <2> QED
    BY <1>1, <2>1, <2>2 DEF Conf!NumbersInv
<1>4. Conf!MainInv'
  <2>1. ASSUME NEW s, NEW n \in Nat, Conf!FirstAre(s, n)
        PROVE  Conf!FirstAre(s, n)'
    <3>1. n <= Len(list) /\ \A k \in 1 .. n : k \in 1 .. Len(list)
      BY <1>1, <2>1 DEF Conf!FirstAre
    <3> QED
      BY <1>1, <2>1, <3>1 DEF Conf!FirstAre
  <2>2. \A s \in {"host", "global"} : Len(Config[s]) \in Nat
    BY SectionNames, SectionFacts
  <2> QED
    BY <2>1, <2>2 DEF Conf!MainInv
<1>5. Conf!RefsInv'
  BY <1>1 DEF Conf!RefsInv
<1> QED
  BY <1>2, <1>3, <1>4, <1>5

\* Components are initialised one by one, started and stopped together, and
\* destroyed when all have stopped, the last one first.
LEMMA AutoFlags ==
    ASSUME Conf!IInv,
           \/ Conf!initAllComponents /\ next' = next + 1
           \/ Conf!start \/ Conf!stop \/ Conf!stopNonMandatoryModules \/ Conf!stopAll
           \/ Conf!shutdown
    PROVE  Conf!IInv'
<1>t. Conf!TypeOK /\ Conf!StartInv /\ Conf!AliveInv
  BY DEF Conf!IInv
<1>l. Len(list) \in Nat /\ DOMAIN list = 1 .. Len(list) /\ next \in Nat \ {0} /\ aBroken \in BOOLEAN
  BY <1>t DEF Conf!TypeOK
<1>d. SameComponents => Len(list') = Len(list) /\ DOMAIN list' = 1 .. Len(list)
  BY <1>l DEF SameComponents
<1> USE DEF Conf!loadVars
<1>1. CASE Conf!initAllComponents /\ next' = next + 1
  <2>1. /\ next \in 1 .. Len(list) /\ list' = [list EXCEPT ![next].inited = TRUE]
        /\ pc = "init" /\ UNCHANGED <<pc, section, aBroken, maxComponentNumber,
                                      autoConfiguratorOffset, loads>>
    BY <1>1, <1>l DEF Conf!initAllComponents
  <2>2. /\ SameComponents
        /\ \A i \in 1 .. Len(list) :
              /\ list'[i].inited = IF i = next THEN TRUE ELSE list[i].inited
              /\ list'[i].alive = list[i].alive /\ list'[i].started = list[i].started
    BY <1>t, <1>l, <2>1, InitFlag
  <2>3. Conf!TypeOK' /\ Conf!NumbersInv' /\ Conf!MainInv' /\ Conf!RefsInv'
    BY <1>1, <1>l, <2>1, <2>2, FlagsKeep
  <2>4. Conf!StartInv'
    <3>1. Conf!Initialised = next - 1 /\ Conf!Initialised' = next
      BY <1>1, <1>l, <2>1 DEF Conf!Initialised
    <3> QED
      BY <1>t, <1>l, <1>d, <2>1, <2>2, <3>1 DEF Conf!StartInv
  <2>5. Conf!AliveInv'
    BY <1>t, <1>l, <1>d, <2>1, <2>2 DEF Conf!AliveInv
  <2> QED BY <2>3, <2>4, <2>5 DEF Conf!IInv
<1>2. CASE Conf!start
  <2>1. /\ Conf!Set(DOMAIN list, TRUE) /\ pc \in {"init", "forking"} /\ pc' = "ready"
        /\ UNCHANGED <<next, section, aBroken, maxComponentNumber, autoConfiguratorOffset, loads>>
    BY <1>2 DEF Conf!start
  <2>2. /\ SameComponents
        /\ \A i \in 1 .. Len(list) :
             /\ list'[i].inited = list[i].inited /\ list'[i].alive = list[i].alive
             /\ list'[i].started = IF i \in DOMAIN list THEN TRUE ELSE list[i].started
    BY <1>t, <2>1, SetFlags
  <2>3. Conf!TypeOK' /\ Conf!NumbersInv' /\ Conf!MainInv' /\ Conf!RefsInv'
    BY <1>l, <2>1, <2>2, FlagsKeep
  <2>4. Conf!StartInv'
    <3>1. Conf!Initialised >= Len(list) /\ Conf!Initialised \in Int
      BY <1>2, <1>l DEF Conf!Initialised, Conf!start
    <3>a. \A i \in 1 .. Len(list) : i <= Conf!Initialised
      BY <1>l, <3>1
    <3>b. ~aBroken => \A i \in 1 .. Len(list) : list[i].inited
      BY <1>t, <1>l, <3>a DEF Conf!StartInv
    <3>2. ~aBroken => \A i \in 1 .. Len(list) : list'[i].inited
      BY <2>2, <3>b
    <3> QED
      BY <1>d, <2>1, <2>2, <3>2 DEF Conf!StartInv
  <2>5. Conf!AliveInv'
    BY <1>t, <1>l, <1>d, <2>1, <2>2 DEF Conf!AliveInv
  <2> QED BY <2>3, <2>4, <2>5 DEF Conf!IInv
<1>3. ASSUME NEW S, Conf!Set(S, FALSE),
             UNCHANGED <<next, section, aBroken, maxComponentNumber, autoConfiguratorOffset, loads>>,
             \/ pc = "ready" /\ pc' \in {"forking", "report"}
             \/ pc \in {"report", "reported"} /\ pc' = "shutdown" /\ S = DOMAIN list
      PROVE  Conf!IInv'
  <2>2. /\ SameComponents
        /\ \A i \in 1 .. Len(list) :
             /\ list'[i].inited = list[i].inited /\ list'[i].alive = list[i].alive
             /\ list'[i].started = IF i \in S THEN FALSE ELSE list[i].started
    BY <1>t, <1>3, SetFlags
  <2>3. Conf!TypeOK' /\ Conf!NumbersInv' /\ Conf!MainInv' /\ Conf!RefsInv'
    BY <1>l, <1>3, <2>2, FlagsKeep
  <2>4. Conf!StartInv'
    <3>1. ~aBroken => \A i, j \in 1 .. Len(list) : list'[i].started /\ j <= i => list'[j].inited
      BY <1>t, <1>l, <2>2 DEF Conf!StartInv
    <3>2. ~aBroken => \A i \in 1 .. Len(list) : i <= Conf!Initialised' => list'[i].inited
      <4>1. CASE pc = "ready"
        <5>1. Conf!Initialised = Len(list)
          BY <4>1 DEF Conf!Initialised
        <5>2. ~aBroken => \A i \in 1 .. Len(list) : list[i].inited
          BY <1>t, <1>l, <5>1 DEF Conf!StartInv
        <5> QED BY <2>2, <5>2
      <4>2. CASE pc' = "shutdown"
        BY <1>l, <4>2 DEF Conf!Initialised
      <4> QED BY <1>3, <4>1, <4>2
    <3> QED
      BY <1>3, <1>d, <2>2, <3>1, <3>2 DEF Conf!StartInv
  <2>5. Conf!AliveInv'
    BY <1>t, <1>l, <1>d, <1>3, <2>2 DEF Conf!AliveInv
  <2> QED BY <2>3, <2>4, <2>5 DEF Conf!IInv
<1>4. CASE Conf!stop
  BY <1>3, <1>4 DEF Conf!stop
<1>5. CASE Conf!stopNonMandatoryModules
  BY <1>3, <1>5 DEF Conf!stopNonMandatoryModules
<1>6. CASE Conf!stopAll
  BY <1>3, <1>6 DEF Conf!stopAll
<1>7. CASE Conf!shutdown
  <2>1. PICK n \in 0 .. Len(list) : \A i \in DOMAIN list : list[i].alive <=> i <= n
    BY <1>t DEF Conf!AliveInv
  <2>2. Conf!Alive = 1 .. n /\ n \in 1 .. Len(list)
    BY <1>7, <1>l, <2>1 DEF Conf!shutdown, Conf!Alive
  <2>3. Conf!Max(Conf!Alive) = n
    BY <2>2 DEF Conf!Max
  <2>4. /\ list' = [list EXCEPT ![n].alive = FALSE] /\ pc = "shutdown"
        /\ UNCHANGED <<pc, next, section, aBroken, maxComponentNumber, autoConfiguratorOffset, loads>>
    BY <1>7, <2>3 DEF Conf!shutdown
  <2>5. /\ SameComponents
        /\ \A i \in 1 .. Len(list) :
             /\ list'[i].alive = IF i = n THEN FALSE ELSE list[i].alive
             /\ list'[i].inited = list[i].inited /\ list'[i].started = list[i].started
    BY <1>t, <1>l, <2>2, <2>4, AliveFlag
  <2>6. Conf!TypeOK' /\ Conf!NumbersInv' /\ Conf!MainInv' /\ Conf!RefsInv'
    BY <1>l, <2>4, <2>5, FlagsKeep
  <2>7. Conf!StartInv'
    BY <1>t, <1>l, <1>d, <2>4, <2>5 DEF Conf!StartInv, Conf!Initialised
  <2>8. Conf!AliveInv'
    <3>a. \A i \in 1 .. Len(list) : i <= n - 1 <=> (i <= n /\ i # n)
      BY <1>l, <2>2
    <3>1. \A i \in 1 .. Len(list) : list'[i].alive <=> i <= n - 1
      <4> SUFFICES ASSUME NEW i \in 1 .. Len(list)
                   PROVE  list'[i].alive <=> i <= n - 1
        OBVIOUS
      <4>1. list[i].alive <=> i <= n
        BY <1>l, <2>1
      <4>2. list'[i].alive = IF i = n THEN FALSE ELSE list[i].alive
        BY <2>5
      <4>3. i <= n - 1 <=> (i <= n /\ i # n)
        BY <3>a
      <4>4. CASE i = n
        BY <4>2, <4>3, <4>4
      <4>5. CASE i # n
        BY <4>1, <4>2, <4>3, <4>5, Zenon
      <4> QED BY <4>4, <4>5
    <3>2. n - 1 \in 0 .. Len(list)
      BY <1>l, <2>2
    <3>3. \A i \in 1 .. Len(list) : ~list'[i].started
      BY <1>t, <1>l, <2>4, <2>5 DEF Conf!AliveInv
    <3> QED
      BY <1>d, <2>4, <2>5, <3>1, <3>2, <3>3 DEF Conf!AliveInv
  <2> QED BY <2>6, <2>7, <2>8 DEF Conf!IInv
<1> QED
  BY <1>1, <1>2, <1>4, <1>5, <1>6, <1>7
\* A component is registered as c, behind those there are.
Registered(c) ==
    /\ list' \in Seq(Conf!Component) /\ Len(list') = Len(list) + 1
    /\ DOMAIN list' = 1 .. Len(list) + 1
    /\ list'[Len(list) + 1] = c
    /\ \A i \in 1 .. Len(list) : list'[i] = list[i]

LEMMA AppendRegisters ==
    ASSUME Conf!TypeOK, NEW c \in Conf!Component, list' = Append(list, c)
    PROVE  Registered(c)
BY DEF Conf!TypeOK, Registered

\* What holds of the components there are holds of them still.
LEMMA RegisteredKeeps ==
    ASSUME Conf!IInv, NEW c, Registered(c), UNCHANGED aBroken
    PROVE  /\ \A s, n : n \in Nat /\ Conf!FirstAre(s, n) => Conf!FirstAre(s, n)'
           /\ \A i \in 1 .. Len(list) : \A r \in list'[i].refs :
                /\ r.to \in 1 .. i - 1
                /\ ~r.global => list'[r.to].load = list'[i].load /\ list'[r.to].id = r.id
                /\ ~aBroken /\ r.global =>
                     list'[r.to].section \in {"host", "global"} /\ list'[r.to].id = r.id
<1>1. Len(list) \in Nat /\ DOMAIN list = 1 .. Len(list)
  BY DEF Conf!IInv, Conf!TypeOK
<1>2. ASSUME NEW s, NEW n \in Nat, Conf!FirstAre(s, n)
      PROVE  Conf!FirstAre(s, n)'
  <2>1. n <= Len(list) /\ \A k \in 1 .. n : k \in 1 .. Len(list)
    BY <1>1, <1>2 DEF Conf!FirstAre
  <2> QED
    BY <1>1, <1>2, <2>1 DEF Conf!FirstAre, Registered
<1>3. ASSUME NEW i \in 1 .. Len(list), NEW r \in list'[i].refs
      PROVE  /\ r.to \in 1 .. i - 1
             /\ ~r.global => list'[r.to].load = list'[i].load /\ list'[r.to].id = r.id
             /\ ~aBroken /\ r.global =>
                  list'[r.to].section \in {"host", "global"} /\ list'[r.to].id = r.id
  <2>1. list'[i] = list[i] /\ r \in list[i].refs
    BY DEF Registered
  <2>2. /\ r.to \in 1 .. i - 1
        /\ ~r.global => list[r.to].load = list[i].load /\ list[r.to].id = r.id
        /\ ~aBroken /\ r.global => list[r.to].section \in {"host", "global"} /\ list[r.to].id = r.id
    BY <1>1, <2>1 DEF Conf!IInv, Conf!RefsInv
  <2>3. list'[r.to] = list[r.to]
    BY <1>1, <2>2 DEF Registered
  <2> QED
    BY <2>1, <2>2, <2>3
<1> QED
  BY <1>2, <1>3

\* The component registered for a module: its number is new, and its references
\* lead where they should.
LEMMA AutoRegisters ==
    ASSUME Conf!IInv, Conf!SetConfiguration
    PROVE  Conf!IInv'
<1> DEFINE m == Config[section][next]
           nr == m.id + autoConfiguratorOffset
           to(r) == CHOOSE i \in Conf!Numbered(Conf!Target(r)) : TRUE
           ref(r) == [to |-> to(r), id |-> r.id, global |-> r.global]
           c == [nr |-> nr, id |-> m.id, section |-> section, load |-> loads,
                 refs |-> {ref(r) : r \in m.refs},
                 mandatory |-> m.mandatory, inited |-> FALSE, started |-> FALSE, alive |-> TRUE]
<1>t. Conf!TypeOK /\ Conf!NumbersInv /\ Conf!MainInv /\ Conf!StartInv /\ Conf!AliveInv
  BY DEF Conf!IInv
<1>l. /\ Len(list) \in Nat /\ DOMAIN list = 1 .. Len(list) /\ next \in Nat \ {0}
      /\ {maxComponentNumber, autoConfiguratorOffset, loads} \subseteq Nat /\ aBroken \in BOOLEAN
      /\ section \in DOMAIN Config
      /\ \A i \in 1 .. Len(list) : list[i] \in Conf!Component
  BY <1>t DEF Conf!TypeOK
<1>n. \A i \in 1 .. Len(list) : list[i].load \in Nat /\ list[i].nr \in Int /\ list[i].id \in Int
  BY <1>l DEF Conf!Component
<1>s. /\ pc = "parse" /\ next <= Len(Config[section]) /\ Conf!Resolves(m)
      /\ list' = Append(list, c) /\ maxComponentNumber' = Conf!Max({maxComponentNumber, nr})
      /\ next' = next + 1
      /\ UNCHANGED <<registrarMutex, autoConfiguratorOffset, pc, section, loads, aBroken>>
  BY DEF Conf!SetConfiguration, Conf!registerComponent
<1>c. /\ Len(Config[section]) \in Nat /\ next \in 1 .. Len(Config[section])
      /\ m.id \in Nat \ {0} /\ m.mandatory \in BOOLEAN
      /\ \A r \in m.refs : /\ r.id \in Nat \ {0} /\ r.global \in BOOLEAN
                           /\ r.global => section \in Conf!Interfaces
                                /\ r.id \in Conf!Ids("host") \cap Conf!Ids("global")
      /\ \A k \in 1 .. next - 1 : Config[section][k].id # m.id
  <2>1. Len(Config[section]) \in Nat /\ next \in 1 .. Len(Config[section])
    BY <1>l, <1>s, SectionFacts
  <2> QED
    BY <1>l, <2>1, SectionFacts
<1>r. ASSUME NEW r \in m.refs
      PROVE  to(r) \in 1 .. Len(list) /\ list[to(r)].nr = Conf!Target(r)
  <2>1. Conf!Numbered(Conf!Target(r)) # {}
    BY <1>s DEF Conf!Resolves
  <2>2. to(r) \in Conf!Numbered(Conf!Target(r))
    BY <2>1
  <2> QED
    BY <1>l, <2>2 DEF Conf!Numbered
<1> HIDE DEF to
<1>k. c \in Conf!Component
  <2>1. \A r \in m.refs : ref(r) \in [to : Nat, id : Nat, global : BOOLEAN]
    BY <1>l, <1>c, <1>r
  <2>2. {ref(r) : r \in m.refs} \subseteq [to : Nat, id : Nat, global : BOOLEAN]
    BY <2>1
  <2> HIDE DEF ref
  <2> QED
    BY <1>l, <1>c, <2>2 DEF Conf!Component
<1>f. /\ c.nr = nr /\ c.id = m.id /\ c.section = section /\ c.load = loads /\ c.inited = FALSE
      /\ c.started = FALSE /\ c.alive = TRUE /\ c.refs = {ref(r) : r \in m.refs}
  OBVIOUS
<1> HIDE DEF c
<1>a. Registered(c)
  BY <1>t, <1>k, <1>s, AppendRegisters
<1>m. /\ maxComponentNumber' \in Nat /\ maxComponentNumber' >= maxComponentNumber
      /\ maxComponentNumber' >= nr /\ nr \in Nat /\ nr > autoConfiguratorOffset
  <2>1. nr \in Nat /\ nr > autoConfiguratorOffset
    BY <1>l, <1>c
  <2> HIDE DEF nr
  <2>2. Conf!Max({maxComponentNumber, nr})
          = IF maxComponentNumber >= nr THEN maxComponentNumber ELSE nr
    BY <1>l, <2>1 DEF Conf!Max
  <2> QED
    BY <1>l, <1>s, <2>1, <2>2
<1>o. \A i \in 1 .. Len(list) :
        /\ list[i].load <= loads
        /\ IF list[i].load < loads THEN list[i].nr <= autoConfiguratorOffset
           ELSE /\ list[i].nr = list[i].id + autoConfiguratorOffset
                /\ \E k \in 1 .. next - 1 : list[i].id = Config[section][k].id
  BY <1>t, <1>l, <1>s DEF Conf!NumbersInv
<1>u. ASSUME NEW i \in 1 .. Len(list)
      PROVE  list[i].nr # nr
  <2>1. CASE list[i].load < loads
    <3>1. list[i].nr <= autoConfiguratorOffset /\ list[i].nr \in Int
      BY <1>n, <1>o, <2>1
    <3> HIDE DEF nr
    <3> QED BY <1>l, <1>m, <3>1
  <2>2. CASE ~(list[i].load < loads)
    <3>1. list[i].nr = list[i].id + autoConfiguratorOffset /\ list[i].id # m.id
      BY <1>o, <1>c, <2>2
    <3>2. list[i].id \in Int /\ m.id \in Int /\ autoConfiguratorOffset \in Int
      BY <1>l, <1>n, <1>c
    <3> QED BY <3>1, <3>2
  <2> QED BY <2>1, <2>2
<1>1. Conf!TypeOK'
  BY <1>t, <1>l, <1>s, <1>a, <1>m DEF Conf!TypeOK, Registered
<1>2. Conf!NumbersInv'
  <2>1. \A i \in 1 .. Len(list) : list[i].nr > 0 /\ list[i].nr <= maxComponentNumber
    BY <1>t, <1>l, <1>s DEF Conf!NumbersInv
  <2>2. \A i, j \in 1 .. Len(list) : list[i].nr = list[j].nr => i = j
    BY <1>t, <1>l DEF Conf!NumbersInv, Conf!NumbersAreUnique
  <2>3. nr > 0
    BY <1>l, <1>m
  <2> HIDE DEF nr
  <2>a. \A i \in 1 .. Len(list) + 1 :
          \/ i \in 1 .. Len(list) /\ list'[i] = list[i]
          \/ i = Len(list) + 1 /\ list'[i] = c
    BY <1>l, <1>a DEF Registered
  <2>4. \A i, j \in 1 .. Len(list) + 1 : list'[i].nr # 0 /\ (list'[i].nr = list'[j].nr => i = j)
    BY <1>l, <1>n, <1>f, <1>u, <2>1, <2>2, <2>3, <2>a
  <2>5. Conf!NumbersAreUnique'
    BY <1>a, <1>s, <2>4 DEF Conf!NumbersAreUnique, Registered
  <2>6. \A i \in 1 .. Len(list) + 1 :
          list'[i].nr > 0 /\ list'[i].nr <= maxComponentNumber' /\ list'[i].load <= loads
    BY <1>l, <1>n, <1>m, <1>f, <1>o, <2>1, <2>3, <2>a
  <2>b. \A i \in 1 .. Len(list) + 1 : list'[i].load \in Nat
    BY <1>l, <1>n, <1>f, <2>a
  <2>7. next' <= Len(Config[section]) + 1 /\ next' <= Len(list') + 1
    BY <1>t, <1>l, <1>c, <1>s, <1>a DEF Conf!NumbersInv, Registered
  <2>8. \A i \in 1 .. Len(list) + 1 :
          IF list'[i].load < loads THEN list'[i].nr <= autoConfiguratorOffset
          ELSE /\ list'[i].nr = list'[i].id + autoConfiguratorOffset
               /\ \E k \in 1 .. next' - 1 : list'[i].id = Config[section][k].id
    <3> SUFFICES ASSUME NEW i \in 1 .. Len(list) + 1
                 PROVE  IF list'[i].load < loads THEN list'[i].nr <= autoConfiguratorOffset
                        ELSE /\ list'[i].nr = list'[i].id + autoConfiguratorOffset
                             /\ \E k \in 1 .. next' - 1 : list'[i].id = Config[section][k].id
      OBVIOUS
    <3>0. next \in 1 .. next' - 1 /\ \A k \in 1 .. next - 1 : k \in 1 .. next' - 1
      BY <1>l, <1>s
    <3>1. CASE i \in 1 .. Len(list) /\ list'[i] = list[i]
      BY <1>o, <3>0, <3>1
    <3>2. CASE list'[i] = c
      <4>1. ~(loads < loads)
        BY <1>l
      <4> QED
        BY <1>f, <3>0, <3>2, <4>1 DEF nr
    <3> QED BY <2>a, <3>1, <3>2
  <2>9. \A i \in 1 .. Len(list) + 1 : list'[i].load <= loads + 1
    BY <1>l, <2>b, <2>6
  <2>c. DOMAIN list' = 1 .. Len(list) + 1 /\ loads' = loads /\ pc' = "parse"
    BY <1>a, <1>s DEF Registered
  <2>d. \A i \in DOMAIN list' :
          IF list'[i].load < loads' THEN list'[i].nr <= autoConfiguratorOffset'
          ELSE /\ list'[i].nr = list'[i].id + autoConfiguratorOffset'
               /\ \E k \in 1 .. next' - 1 : list'[i].id = Config[section'][k].id
    BY <1>s, <2>c, <2>8
  <2> QED
    BY <1>s, <2>5, <2>6, <2>7, <2>9, <2>c, <2>d DEF Conf!NumbersInv
<1>3. Conf!MainInv'
  <2>1. \A s, n : n \in Nat /\ Conf!FirstAre(s, n) => Conf!FirstAre(s, n)'
    BY <1>a, <1>s, RegisteredKeeps
  <2>2. \A s \in {"host", "global"} : Len(Config[s]) \in Nat
    BY SectionNames, SectionFacts
  <2>3. CASE section \in Conf!Interfaces
    BY <1>t, <1>s, <2>1, <2>2, <2>3 DEF Conf!MainInv
  <2>4. CASE section \notin Conf!Interfaces /\ ~aBroken
    <3>1. autoConfiguratorOffset = 0 /\ Len(list) = next - 1 /\ Conf!FirstAre(section, next - 1)
      BY <1>t, <1>s, <2>4 DEF Conf!MainInv
    <3>2. /\ next <= Len(list')
          /\ \A k \in 1 .. next : /\ list'[k].nr = Config[section][k].id
                                  /\ list'[k].id = Config[section][k].id
                                  /\ list'[k].section = section
      <4>1. next <= Len(list') /\ Len(list) + 1 = next
        BY <1>l, <1>a, <3>1 DEF Registered
      <4>2. list'[next].nr = m.id /\ list'[next].id = m.id /\ list'[next].section = section
        BY <1>l, <1>a, <1>f, <1>c, <3>1, <4>1 DEF Registered
      <4>3. \A k \in 1 .. next - 1 : /\ list'[k].nr = Config[section][k].id
                                     /\ list'[k].id = Config[section][k].id
                                     /\ list'[k].section = section
        BY <1>l, <1>a, <3>1 DEF Registered, Conf!FirstAre
      <4>4. \A k \in 1 .. next : k = next \/ k \in 1 .. next - 1
        BY <1>l
      <4> QED
        BY <4>1, <4>2, <4>3, <4>4
    <3>3. next' - 1 = next /\ next' # 1 /\ Len(list') = next' - 1
      BY <1>l, <1>s, <1>a, <3>1 DEF Registered
    <3>4. Conf!FirstAre(section, next - 1)'
      BY <3>2, <3>3, <1>s DEF Conf!FirstAre
    <3> QED
      BY <1>s, <2>4, <3>1, <3>3, <3>4 DEF Conf!MainInv
  <2> QED
    BY <1>s, <2>3, <2>4 DEF Conf!MainInv
<1>4. Conf!RefsInv'
  <2>1. ASSUME NEW q \in c.refs
        PROVE  /\ q.to \in 1 .. Len(list)
               /\ ~q.global => list[q.to].load = loads /\ list[q.to].id = q.id
               /\ ~aBroken /\ q.global =>
                    list[q.to].section \in {"host", "global"} /\ list[q.to].id = q.id
    <3>1. PICK r \in m.refs : q = ref(r)
      BY <1>f
    <3>2. q.to = to(r) /\ q.id = r.id /\ q.global = r.global
      BY <3>1
    <3>3. q.to \in 1 .. Len(list) /\ list[q.to].nr = Conf!Target(r)
      BY <1>r, <3>2
    <3>4. ASSUME ~q.global
          PROVE  list[q.to].load = loads /\ list[q.to].id = q.id
      <4>1. list[q.to].nr = r.id + autoConfiguratorOffset /\ r.id \in Nat \ {0}
        BY <1>c, <3>2, <3>3, <3>4 DEF Conf!Target
      <4>2. ~(list[q.to].nr <= autoConfiguratorOffset)
        BY <1>l, <4>1
      <4>3. /\ list[q.to].load \in Nat /\ list[q.to].id \in Int /\ list[q.to].load <= loads
            /\ ~(list[q.to].load < loads)
            /\ list[q.to].nr = list[q.to].id + autoConfiguratorOffset
        BY <1>n, <1>o, <3>3, <4>2
      <4> QED
        BY <1>l, <3>2, <4>1, <4>3
    <3>5. ASSUME ~aBroken, q.global
          PROVE  list[q.to].section \in {"host", "global"} /\ list[q.to].id = q.id
      <4>a. r.global /\ r.id \in Nat
        BY <1>c, <3>2, <3>5
      <4>b. list[q.to].nr = r.id
        BY <3>3, <4>a DEF Conf!Target
      <4>1. /\ list[q.to].nr = r.id /\ r.id \in Nat /\ section \in Conf!Interfaces
            /\ r.id \in Conf!Ids("host") \cap Conf!Ids("global")
        BY <1>c, <4>a, <4>b
      <4>2. PICK s \in {"host", "global"} : Conf!FirstAre(s, Len(Config[s]))
        BY <1>t, <3>5, <4>1 DEF Conf!MainInv
      <4>3. s \in DOMAIN Config /\ DOMAIN Config[s] = 1 .. Len(Config[s])
        BY SectionNames, SectionFacts
      <4>4. PICK k \in 1 .. Len(Config[s]) : r.id = Config[s][k].id
        BY <4>1, <4>3 DEF Conf!Ids
      <4>5. k \in 1 .. Len(list) /\ list[k].nr = r.id /\ list[k].id = r.id /\ list[k].section = s
        <5>1. Len(Config[s]) \in Nat
          BY <4>3, SectionFacts
        <5> QED BY <1>l, <4>2, <4>4, <5>1 DEF Conf!FirstAre
      <4>6. q.to = k
        BY <1>t, <1>l, <3>3, <4>1, <4>5 DEF Conf!NumbersInv, Conf!NumbersAreUnique
      <4> QED
        BY <3>2, <4>5, <4>6
    <3> QED BY <3>3, <3>4, <3>5
  <2>2. ASSUME NEW i \in 1 .. Len(list) + 1, NEW q \in list'[i].refs
        PROVE  /\ q.to \in 1 .. i - 1
               /\ ~q.global => list'[q.to].load = list'[i].load /\ list'[q.to].id = q.id
               /\ ~aBroken /\ q.global =>
                     list'[q.to].section \in {"host", "global"} /\ list'[q.to].id = q.id
    <3>1. CASE i \in 1 .. Len(list)
      BY <1>a, <1>s, <3>1, RegisteredKeeps
    <3>2. CASE i \notin 1 .. Len(list)
      <4>1. i = Len(list) + 1 /\ list'[i] = c /\ i - 1 = Len(list)
        BY <1>l, <1>a, <3>2 DEF Registered
      <4>2. q.to \in 1 .. Len(list) /\ list'[q.to] = list[q.to]
        BY <1>a, <2>1, <4>1 DEF Registered
      <4> QED
        BY <1>f, <2>1, <4>1, <4>2
    <3> QED BY <3>1, <3>2
  <2> QED
    BY <1>a, <1>s, <2>2 DEF Conf!RefsInv, Registered
<1>5. Conf!StartInv'
  <2>1. Conf!Initialised = Len(list) - (next - 1) /\ Conf!Initialised' = Len(list') - (next' - 1)
    BY <1>s DEF Conf!Initialised
  <2>2. Conf!Initialised' = Conf!Initialised /\ Conf!Initialised \in Int
        /\ Conf!Initialised <= Len(list)
    BY <1>l, <1>s, <1>a, <2>1 DEF Registered
  <2>3. ~aBroken => \A i \in 1 .. Len(list) : i <= Conf!Initialised => list[i].inited
    BY <1>t, <1>l DEF Conf!StartInv
  <2>4. ~aBroken => \A i, j \in 1 .. Len(list) : list[i].started /\ j <= i => list[j].inited
    BY <1>t, <1>l DEF Conf!StartInv
  <2>a. \A i \in 1 .. Len(list) + 1 :
          \/ i \in 1 .. Len(list) /\ list'[i] = list[i]
          \/ i = Len(list) + 1 /\ list'[i] = c
    BY <1>l, <1>a DEF Registered
  <2>5. ~aBroken => \A i \in 1 .. Len(list) + 1 : i <= Conf!Initialised => list'[i].inited
    BY <1>l, <2>2, <2>3, <2>a
  <2>6. ~aBroken => \A i, j \in 1 .. Len(list) + 1 : list'[i].started /\ j <= i => list'[j].inited
    BY <1>l, <1>f, <2>4, <2>a
  <2> QED
    BY <1>s, <1>a, <2>2, <2>5, <2>6 DEF Conf!StartInv, Registered
<1>6. Conf!AliveInv'
  <2>1. \A i \in 1 .. Len(list) : list[i].alive
    BY <1>t, <1>l, <1>s DEF Conf!AliveInv
  <2>2. \A i \in 1 .. Len(list) + 1 : list'[i].alive
    BY <1>l, <1>a, <1>f, <2>1 DEF Registered
  <2>3. Len(list) + 1 \in 0 .. Len(list') /\ \A i \in 1 .. Len(list) + 1 : i <= Len(list) + 1
    BY <1>l, <1>a DEF Registered
  <2> QED
    BY <1>s, <1>a, <2>2, <2>3 DEF Conf!AliveInv, Registered
<1> QED
  BY <1>1, <1>2, <1>3, <1>4, <1>5, <1>6 DEF Conf!IInv

\* The overhead statistics, registered at the end without a number of their own.
LEMMA AutoReports ==
    ASSUME Conf!IInv, Conf!reportOverhead
    PROVE  Conf!IInv'
<1> DEFINE c == [nr |-> -1, id |-> -1, section |-> "generic", load |-> loads + 1, refs |-> {},
                 mandatory |-> FALSE, inited |-> FALSE, started |-> FALSE, alive |-> TRUE]
<1>t. Conf!TypeOK /\ Conf!NumbersInv /\ Conf!MainInv /\ Conf!StartInv /\ Conf!AliveInv
  BY DEF Conf!IInv
<1>l. /\ Len(list) \in Nat /\ DOMAIN list = 1 .. Len(list) /\ aBroken \in BOOLEAN
      /\ {maxComponentNumber, loads} \subseteq Nat
      /\ \A i \in 1 .. Len(list) : list[i] \in Conf!Component
  BY <1>t DEF Conf!TypeOK
<1>n. \A i \in 1 .. Len(list) : list[i].load \in Nat /\ list[i].nr \in Int /\ list[i].id \in Int
  BY <1>l DEF Conf!Component
<1>s. /\ pc = "report" /\ pc' = "reported" /\ list' = Append(list, c)
      /\ UNCHANGED <<maxComponentNumber, autoConfiguratorOffset, section, next, loads, aBroken>>
  BY DEF Conf!reportOverhead, Conf!loadVars
<1>k. c \in Conf!Component
  BY <1>l DEF Conf!Component
<1>f. c.nr = -1 /\ c.load = loads + 1 /\ c.refs = {} /\ c.started = FALSE /\ c.alive = TRUE
  OBVIOUS
<1> HIDE DEF c
<1>r. Registered(c)
  BY <1>t, <1>k, <1>s, AppendRegisters
<1>a. \A i \in 1 .. Len(list) + 1 :
        \/ i \in 1 .. Len(list) /\ list'[i] = list[i]
        \/ i = Len(list) + 1 /\ list'[i] = c
  BY <1>l, <1>r DEF Registered
<1>1. Conf!TypeOK'
  BY <1>t, <1>s, <1>r DEF Conf!TypeOK, Registered
<1>2. Conf!NumbersInv'
  <2>1. \A i \in 1 .. Len(list) :
          list[i].nr > 0 /\ list[i].nr <= maxComponentNumber /\ list[i].load <= loads
    BY <1>t, <1>l, <1>s DEF Conf!NumbersInv
  <2>2. \A i, j \in 1 .. Len(list) : list[i].nr = list[j].nr => i = j
    BY <1>t, <1>l DEF Conf!NumbersInv, Conf!NumbersAreUnique
  <2>3. \A i, j \in 1 .. Len(list) + 1 : list'[i].nr # 0 /\ (list'[i].nr = list'[j].nr => i = j)
    BY <1>l, <1>n, <1>f, <1>a, <2>1, <2>2
  <2>4. Conf!NumbersAreUnique'
    BY <1>r, <1>s, <2>3 DEF Conf!NumbersAreUnique, Registered
  <2>5. \A i \in 1 .. Len(list) + 1 : list'[i].nr <= maxComponentNumber /\ list'[i].load <= loads + 1
    BY <1>l, <1>n, <1>f, <1>a, <2>1
  <2> QED
    BY <1>r, <1>s, <2>4, <2>5 DEF Conf!NumbersInv, Registered
<1>3. Conf!MainInv'
  <2>1. \A s, n : n \in Nat /\ Conf!FirstAre(s, n) => Conf!FirstAre(s, n)'
    BY <1>r, <1>s, RegisteredKeeps
  <2>2. \A s \in {"host", "global"} : Len(Config[s]) \in Nat
    BY SectionNames, SectionFacts
  <2> QED
    BY <1>t, <1>s, <2>1, <2>2 DEF Conf!MainInv
<1>4. Conf!RefsInv'
  <2>1. ASSUME NEW i \in 1 .. Len(list) + 1, NEW q \in list'[i].refs
        PROVE  i \in 1 .. Len(list)
    BY <1>a, <1>f
  <2> QED
    BY <1>r, <1>s, <2>1, RegisteredKeeps DEF Conf!RefsInv, Registered
<1>5. Conf!StartInv'
  <2>1. Conf!Initialised' = 0
    BY <1>s DEF Conf!Initialised
  <2>2. ~aBroken => \A i, j \in 1 .. Len(list) : list[i].started /\ j <= i => list[j].inited
    BY <1>t, <1>l DEF Conf!StartInv
  <2>3. ~aBroken => \A i, j \in 1 .. Len(list) + 1 : list'[i].started /\ j <= i => list'[j].inited
    BY <1>l, <1>f, <1>a, <2>2
  <2>4. \A i \in 1 .. Len(list) + 1 : ~(i <= 0)
    BY <1>l
  <2> QED
    BY <1>s, <1>r, <2>1, <2>3, <2>4 DEF Conf!StartInv, Registered
<1>6. Conf!AliveInv'
  <2>1. \A i \in 1 .. Len(list) : list[i].alive
    BY <1>t, <1>l, <1>s DEF Conf!AliveInv
  <2>2. \A i \in 1 .. Len(list) + 1 : list'[i].alive
    BY <1>l, <1>a, <1>f, <2>1
  <2>3. Len(list) + 1 \in 0 .. Len(list') /\ \A i \in 1 .. Len(list) + 1 : i <= Len(list) + 1
    BY <1>l, <1>r DEF Registered
  <2> QED
    BY <1>s, <1>r, <2>2, <2>3 DEF Conf!AliveInv, Registered
<1> QED
  BY <1>1, <1>2, <1>3, <1>4, <1>5, <1>6 DEF Conf!IInv

LEMMA ConfInductive ==
    Conf!IInv /\ [MCNext]_allVars => Conf!IInv'
<1> SUFFICES ASSUME Conf!IInv, [MCNext]_allVars
             PROVE  Conf!IInv'
  OBVIOUS
<1>1. CASE UNCHANGED autoVars
  BY <1>1 DEF autoVars, Conf!IInv, Conf!TypeOK, Conf!NumbersInv, Conf!NumbersAreUnique,
     Conf!MainInv, Conf!FirstAre, Conf!RefsInv, Conf!StartInv, Conf!Initialised, Conf!AliveInv
<1>2. CASE Conf!Next
  <2>1. CASE \/ \E s \in DOMAIN Config : Conf!LoadConfiguration(s)
             \/ Conf!getConfiguration \/ Conf!lock \/ Conf!parseFails
             \/ Conf!module_create_instance \/ Conf!SetConfigurationFails \/ Conf!unlock
    <3>1. UNCHANGED list
      BY <2>1 DEF Conf!LoadConfiguration, Conf!getConfiguration, Conf!lock, Conf!parseFails,
         Conf!module_create_instance, Conf!SetConfigurationFails, Conf!unlock, Conf!registrarVars
    <3> QED
      BY <2>1, <3>1, AutoLoads
  <2>2. CASE Conf!initAllComponents
    <3>1. CASE next' = next + 1
      BY <2>2, <3>1, AutoFlags
    <3>2. CASE UNCHANGED <<list, next>>
      BY <2>2, <3>2, AutoLoads
    <3> QED
      BY <2>2, <3>1, <3>2 DEF Conf!initAllComponents
  <2>3. CASE Conf!start \/ Conf!stop \/ Conf!stopNonMandatoryModules \/ Conf!stopAll \/ Conf!shutdown
    BY <2>3, AutoFlags
  <2>4. CASE Conf!SetConfiguration
    BY <2>4, AutoRegisters
  <2>5. CASE Conf!reportOverhead
    BY <2>5, AutoReports
  <2> QED
    BY <1>2, <2>1, <2>2, <2>3, <2>4, <2>5 DEF Conf!Next, Conf!Load
<1> QED
  BY <1>1, <1>2 DEF MCNext, allVars

LEMMA ConfInvariant ==
    MCSpec => []Conf!IInv
<1>1. MCInit => Conf!IInv
  <2> SUFFICES ASSUME MCInit
               PROVE  Conf!IInv
    OBVIOUS
  <2>1. /\ list = << >> /\ maxComponentNumber = 0 /\ autoConfiguratorOffset = 0
        /\ pc = "none" /\ section = "host" /\ next = 1 /\ loads = 0 /\ aBroken = FALSE
    BY DEF MCInit, Conf!Init
  <2>2. list \in Seq(Conf!Component) /\ Len(list) = 0 /\ DOMAIN list = {}
    BY <2>1
  <2>a. maxComponentNumber \in Nat /\ autoConfiguratorOffset \in Nat /\ loads \in Nat
        /\ next \in Nat \ {0} /\ section \in DOMAIN Config
    BY <2>1, SectionNames
  <2>b. aBroken \in BOOLEAN
    BY <2>1, Zenon
  <2>3. Conf!TypeOK
    BY <2>1, <2>2, <2>a, <2>b DEF Conf!TypeOK
  <2>4. Conf!NumbersInv /\ Conf!RefsInv /\ Conf!StartInv
    BY <2>1, <2>2 DEF Conf!NumbersInv, Conf!NumbersAreUnique, Conf!RefsInv, Conf!StartInv
  <2>5. Conf!MainInv
    BY <2>1, SectionNames DEF Conf!MainInv
  <2>6. Conf!AliveInv
    BY <2>1, <2>2 DEF Conf!AliveInv
  <2> QED
    BY <2>3, <2>4, <2>5, <2>6 DEF Conf!IInv
<1> QED
  BY <1>1, ConfInductive, PTL DEF MCSpec

\* AutoConfigurator, for every configuration with different numbers in a section,
\* every subset of the failures and any number of loads and forks: no two
\* components share a number, a reference leads to an earlier component, the one
\* the section means, and a component is started only after what it refers to
\* was initialised.
THEOREM ReferenceResolution == MCSpec => []ReferencesResolve
<1>1. Conf!IInv => ReferencesResolve
  <2> SUFFICES ASSUME Conf!IInv
               PROVE  Conf!ReferencesResolve
    BY DEF ReferencesResolve
  <2>1. Conf!NumbersAreUnique
    BY DEF Conf!IInv, Conf!NumbersInv
  <2>2. Len(list) \in Nat /\ DOMAIN list = 1 .. Len(list)
    BY DEF Conf!IInv, Conf!TypeOK
  <2>3. ASSUME NEW i \in DOMAIN list, NEW r \in list[i].refs
        PROVE  /\ r.to < i
               /\ ~r.global => list[r.to].load = list[i].load /\ list[r.to].id = r.id
               /\ ~aBroken /\ r.global =>
                    list[r.to].section \in {"host", "global"} /\ list[r.to].id = r.id
               /\ ~aBroken /\ list[i].started => list[r.to].inited
    <3>1. /\ r.to \in 1 .. i - 1
          /\ ~r.global => list[r.to].load = list[i].load /\ list[r.to].id = r.id
          /\ ~aBroken /\ r.global =>
               list[r.to].section \in {"host", "global"} /\ list[r.to].id = r.id
      BY DEF Conf!IInv, Conf!RefsInv
    <3>2. r.to < i /\ r.to <= i /\ r.to \in DOMAIN list
      BY <2>2, <3>1
    <3>3. ~aBroken /\ list[i].started => list[r.to].inited
      BY <3>2 DEF Conf!IInv, Conf!StartInv
    <3> QED BY <3>1, <3>2, <3>3
  <2> QED
    BY <2>1, <2>3 DEF Conf!ReferencesResolve
<1> QED
  BY <1>1, ConfInvariant, PTL

\* AutoConfigurator, for every configuration: a component is destroyed after all
\* that refer to it, and not before everything has stopped.
THEOREM DestructionOrder == MCSpec => []DestroyedInOrder
<1>1. Conf!IInv => DestroyedInOrder
  <2> SUFFICES ASSUME Conf!IInv
               PROVE  Conf!DestroyedInOrder
    BY DEF DestroyedInOrder
  <2>1. Len(list) \in Nat /\ DOMAIN list = 1 .. Len(list)
    BY DEF Conf!IInv, Conf!TypeOK
  <2>2. PICK n \in 0 .. Len(list) : \A i \in DOMAIN list : list[i].alive <=> i <= n
    BY DEF Conf!IInv, Conf!AliveInv
  <2>3. ASSUME NEW i \in DOMAIN list, list[i].alive, NEW r \in list[i].refs
        PROVE  list[r.to].alive
    <3>1. r.to \in 1 .. i - 1
      BY DEF Conf!IInv, Conf!RefsInv
    <3>2. i <= n
      BY <2>2, <2>3
    <3>3. r.to \in DOMAIN list /\ r.to <= n
      BY <2>1, <3>1, <3>2
    <3> QED BY <2>2, <3>3
  <2>4. ASSUME NEW i \in DOMAIN list, ~list[i].alive
        PROVE  \A j \in DOMAIN list : ~list[j].started
    BY <2>4 DEF Conf!IInv, Conf!AliveInv
  <2> QED
    BY <2>3, <2>4 DEF Conf!DestroyedInOrder
<1> QED
  BY <1>1, ConfInvariant, PTL

-----------------------------------------------------------------------------
(* GIOClient.                                                              *)

LEMMA TailFacts ==
    ASSUME NEW S, NEW q \in Seq(S), q # << >>
    PROVE  /\ Len(q) \in Nat \ {0} /\ DOMAIN q = 1 .. Len(q) /\ 1 \in 1 .. Len(q)
           /\ Tail(q) \in Seq(S) /\ DOMAIN Tail(q) = 1 .. Len(q) - 1
           /\ \A n \in 1 .. Len(q) - 1 : n + 1 \in 1 .. Len(q) /\ Tail(q)[n] = q[n + 1]
           /\ Head(q) = q[1] /\ q[1] \in S
           /\ \A n \in 1 .. Len(q) : n = 1 \/ (n - 1 \in 1 .. Len(q) - 1 /\ Tail(q)[n - 1] = q[n])
OBVIOUS

LEMMA AppendFacts ==
    ASSUME NEW S, NEW q \in Seq(S), NEW x \in S
    PROVE  /\ Len(q) \in Nat /\ DOMAIN q = 1 .. Len(q)
           /\ Append(q, x) \in Seq(S) /\ DOMAIN Append(q, x) = 1 .. Len(q) + 1
           /\ \A n \in 1 .. Len(q) : Append(q, x)[n] = q[n]
           /\ Append(q, x)[Len(q) + 1] = x
           /\ \A n \in 1 .. Len(q) + 1 : n \in 1 .. Len(q) \/ n = Len(q) + 1
OBVIOUS

LEMMA FrontFacts ==
    ASSUME NEW S, NEW q \in Seq(S), NEW x \in S
    PROVE  /\ Len(q) \in Nat /\ DOMAIN q = 1 .. Len(q)
           /\ <<x>> \o q \in Seq(S) /\ DOMAIN (<<x>> \o q) = 1 .. Len(q) + 1
           /\ (<<x>> \o q)[1] = x
           /\ \A n \in 1 .. Len(q) : n + 1 \in 1 .. Len(q) + 1 /\ (<<x>> \o q)[n + 1] = q[n]
           /\ \A n \in 1 .. Len(q) + 1 :
                 n = 1 \/ (n - 1 \in 1 .. Len(q) /\ (<<x>> \o q)[n] = q[n - 1])
<1>1. Len(q) \in Nat /\ DOMAIN q = 1 .. Len(q) /\ <<x>> \in Seq(S) /\ Len(<<x>>) = 1
  OBVIOUS
<1>2. <<x>> \o q \in Seq(S) /\ Len(<<x>> \o q) = 1 + Len(q)
      /\ \A n \in 1 .. 1 + Len(q) : (<<x>> \o q)[n] = IF n <= 1 THEN <<x>>[n] ELSE q[n - 1]
  BY <1>1
<1> HIDE <1>1
<1>3. Len(q) \in Nat /\ DOMAIN q = 1 .. Len(q)
  BY <1>1
<1> QED
  BY <1>2, <1>3

\* The messages and the threads of the client are numbered.
LEMMA PeerNumbers ==
    /\ MaxAttempts \in Nat /\ MaxMessages \in Nat
    /\ Peer!Messages = 1 .. MaxMessages /\ Peer!Threads = 1 .. MaxAttempts
BY ClientAssumption DEF Peer!GIOClientAssumption, Peer!Messages, Peer!Threads

\* What the type invariant says of the messages.
PeerTypes ==
    /\ sendQueue \in Seq(Peer!Messages) /\ smsg \in 0 .. MaxMessages /\ sent \in 0 .. MaxMessages
    /\ pendingResponses \subseteq Peer!Messages
    /\ deleted \in [Peer!Messages -> Nat]
    /\ outcome \in [Peer!Messages -> {"none", "response", "error", "aborted"}]

LEMMA PeerFacts ==
    ASSUME Peer!IInv
    PROVE  /\ Peer!TypeOK /\ Peer!OrderInv /\ Peer!DeletedInv /\ Peer!KeptInv /\ Peer!ThreadInv
           /\ PeerTypes
BY DEF Peer!IInv, Peer!TypeOK, PeerTypes

\* A callback and delete for the messages of a set.
LEMMA FinishFacts ==
    ASSUME PeerTypes, NEW M, NEW o \in {"response", "error", "aborted"}, Peer!Finish(M, o)
    PROVE  /\ deleted' \in [Peer!Messages -> Nat]
           /\ outcome' \in [Peer!Messages -> {"none", "response", "error", "aborted"}]
           /\ \A m \in Peer!Messages :
                /\ deleted'[m] = IF m \in M THEN deleted[m] + 1 ELSE deleted[m]
                /\ outcome'[m] = IF m \in M THEN o ELSE outcome[m]
BY DEF PeerTypes, Peer!Finish

-----------------------------------------------------------------------------
(* The messages of the client: order, deletion, whereabouts.               *)

MessageInv == Peer!OrderInv /\ Peer!DeletedInv /\ Peer!KeptInv

\* Steps of threads that leave messages, sender and network alone.
LEMMA MessagesStay ==
    ASSUME Peer!IInv, UNCHANGED <<Peer!senderVars, Peer!msgVars, Peer!netVars>>,
           cDpc' = "done" => cDpc = "done"
    PROVE  MessageInv'
BY DEF Peer!IInv, MessageInv, Peer!OrderInv, Peer!DeletedInv, Peer!KeptInv, Peer!Holds,
   Peer!WrittenInOrder, Peer!senderVars, Peer!msgVars, Peer!netVars

\* Steps that move the sender, other than to or from a message, or that lose
\* answers.
LEMMA SenderMoves ==
    ASSUME Peer!IInv, UNCHANGED <<sendQueue, sent, pendingResponses, deleted, outcome, written>>,
           UNCHANGED <<smsg, atServer>> \/ (UNCHANGED smsg /\ atServer' = {})
             \/ (UNCHANGED atServer /\ spc = "callback"),
           UNCHANGED inbox \/ inbox' = << >>,
           Peer!Holds' <=> Peer!Holds,
           cDpc' = "done" => cDpc = "done",
           connected => connected',
           ~connected' => spc' = "none",
           cDpc = "done" => spc' \in {"none", "ended"}
    PROVE  MessageInv'
<1> USE PeerFacts
<1>0. Peer!Holds => spc # "callback"
  BY DEF Peer!Holds
<1>1. Peer!OrderInv'
  BY <1>0 DEF Peer!OrderInv, Peer!WrittenInOrder
<1>2. Peer!DeletedInv'
  <2>1. inbox' \in Seq(Peer!Messages \X {"ok", "error", "damaged"})
        /\ \A n \in DOMAIN inbox' : inbox'[n][1] \in Peer!Range(written)
    <3>1. CASE UNCHANGED inbox
      BY <3>1 DEF Peer!DeletedInv
    <3>2. CASE inbox' = << >>
      <4>1. ASSUME NEW S PROVE << >> \in Seq(S) /\ DOMAIN << >> = {}
        OBVIOUS
      <4> QED BY <3>2, <4>1
    <3> QED BY <3>1, <3>2
  <2>2. atServer' \subseteq Peer!Range(written)
    BY DEF Peer!DeletedInv
  <2> QED
    BY <1>0, <2>1, <2>2 DEF Peer!DeletedInv, Peer!Range
<1>3. Peer!KeptInv'
  BY <1>0 DEF Peer!KeptInv, Peer!Range
<1> QED
  BY <1>1, <1>2, <1>3 DEF MessageInv

\* The queue is aborted.
LEMMA QueueAborted ==
    ASSUME Peer!IInv, sendQueue' = << >>, Peer!Finish(Peer!Range(sendQueue), "aborted"),
           UNCHANGED <<connected, spc, smsg, sent, pendingResponses, Peer!netVars>>,
           cDpc' = "done" => spc \in {"none", "ended"}
    PROVE  MessageInv'
<1> USE PeerFacts, PeerNumbers DEF Peer!netVars
<1>q. DOMAIN sendQueue' = {}
  OBVIOUS
<1>h. Peer!Holds' <=> Peer!Holds
  BY DEF Peer!Holds
<1>f. \A m \in Peer!Messages :
        /\ deleted'[m] = IF m \in Peer!Range(sendQueue) THEN deleted[m] + 1 ELSE deleted[m]
        /\ outcome'[m] = IF m \in Peer!Range(sendQueue) THEN "aborted" ELSE outcome[m]
  BY FinishFacts
<1>d. \A m \in Peer!Messages : deleted[m] \in Nat /\ (m \in Peer!Range(sendQueue) => deleted[m] = 0)
  BY DEF Peer!DeletedInv, Peer!Range, PeerTypes
<1>n. \A m \in DOMAIN written : written[m] \in Peer!Messages /\ written[m] \notin Peer!Range(sendQueue)
  <2>1. \A m \in DOMAIN written : written[m] \in Peer!Messages
    BY DEF Peer!OrderInv
  <2>2. \A m \in DOMAIN written, n \in DOMAIN sendQueue : written[m] # sendQueue[n]
    BY <2>1 DEF Peer!OrderInv
  <2> QED BY <2>1, <2>2 DEF Peer!Range
<1>s. Peer!Holds => smsg \in Peer!Messages /\ smsg \notin Peer!Range(sendQueue)
  <2>1. Peer!Holds => smsg \in Peer!Messages
    BY DEF Peer!OrderInv, PeerTypes
  <2>2. \A n \in DOMAIN sendQueue : Peer!Holds => smsg # sendQueue[n]
    BY <2>1 DEF Peer!OrderInv
  <2> QED BY <2>1, <2>2 DEF Peer!Range
<1>1. Peer!OrderInv'
  BY <1>q, <1>h DEF Peer!OrderInv, Peer!WrittenInOrder
<1>2. Peer!DeletedInv'
  <2>1. ASSUME NEW m \in Peer!Messages
        PROVE  /\ deleted'[m] <= 1 /\ (deleted'[m] = 1 <=> outcome'[m] # "none")
               /\ m > sent => deleted'[m] = 0
    <3>1. CASE m \in Peer!Range(sendQueue)
      <4>1. deleted'[m] = 1 /\ outcome'[m] = "aborted"
        BY <1>f, <1>d, <3>1
      <4>2. m <= sent /\ sent \in Nat
        BY <3>1 DEF Peer!Range, Peer!OrderInv, PeerTypes
      <4> QED BY <4>1, <4>2
    <3>2. CASE m \notin Peer!Range(sendQueue)
      BY <1>f, <3>2 DEF Peer!DeletedInv
    <3> QED BY <3>1, <3>2
  <2>2. Peer!Holds => deleted'[smsg] = 0
    BY <1>f, <1>s DEF Peer!DeletedInv
  <2>3. \A m \in DOMAIN written : written[m] \in pendingResponses => deleted'[written[m]] = 0
    BY <1>f, <1>n DEF Peer!DeletedInv
  <2> QED
    BY <1>q, <1>h, <2>1, <2>2, <2>3 DEF Peer!DeletedInv, Peer!Range
<1>3. Peer!KeptInv'
  <2>1. ASSUME NEW m \in 1 .. sent
        PROVE  outcome'[m] # "none" \/ m \in Peer!Range(written) \/ (Peer!Holds /\ m = smsg)
    <3>1. m \in Peer!Messages
      BY DEF PeerTypes
    <3> QED
      BY <1>f, <3>1 DEF Peer!KeptInv
  <2> QED
    BY <1>h, <2>1 DEF Peer!KeptInv, Peer!Range
<1> QED
  BY <1>1, <1>2, <1>3 DEF MessageInv

\* An answer is read.
LEMMA AnswerRead ==
    ASSUME Peer!IInv, NEW t \in Peer!Threads, Peer!Receive(t)
    PROVE  MessageInv' /\ PeerTypes'
<1> DEFINE a == Head(inbox)[1]
           kind == Head(inbox)[2]
<1> USE PeerFacts, PeerNumbers DEF Peer!senderVars, Peer!OtherConn
<1>s. /\ inbox # << >> /\ inbox' = Tail(inbox)
      /\ UNCHANGED <<sendQueue, connected, spc, smsg, sent, written, atServer, cDpc>>
      /\ \/ /\ a \in pendingResponses /\ pendingResponses' = pendingResponses \ {a}
            /\ Peer!Finish({a}, IF kind = "ok" THEN "response" ELSE "error")
         \/ UNCHANGED <<pendingResponses, outcome, deleted>>
  BY DEF Peer!Receive
<1>i. /\ \A n \in DOMAIN inbox' : inbox'[n][1] \in Peer!Range(written)
      /\ inbox' \in Seq(Peer!Messages \X {"ok", "error", "damaged"})
      /\ a \in Peer!Range(written) /\ a \in Peer!Messages
  <2> DEFINE S == Peer!Messages \X {"ok", "error", "damaged"}
  <2>1. inbox \in Seq(S) /\ \A n \in DOMAIN inbox : inbox[n][1] \in Peer!Range(written)
    BY DEF Peer!DeletedInv
  <2> HIDE DEF S
  <2>2. /\ DOMAIN inbox = 1 .. Len(inbox) /\ 1 \in 1 .. Len(inbox)
        /\ inbox' \in Seq(S) /\ DOMAIN inbox' = 1 .. Len(inbox) - 1
        /\ \A n \in 1 .. Len(inbox) - 1 : n + 1 \in 1 .. Len(inbox) /\ inbox'[n] = inbox[n + 1]
        /\ Head(inbox) = inbox[1] /\ inbox[1] \in S
    BY <1>s, <2>1, TailFacts
  <2>3. inbox[1][1] \in Peer!Messages
    BY <2>2 DEF S
  <2> QED
    BY <2>1, <2>2, <2>3 DEF S
<1>h. Peer!Holds' <=> Peer!Holds
  BY <1>s DEF Peer!Holds
<1> HIDE DEF a
<1>1. Peer!OrderInv'
  BY <1>s, <1>h DEF Peer!OrderInv, Peer!WrittenInOrder
<1>2. CASE UNCHANGED <<pendingResponses, outcome, deleted>>
  <2>1. Peer!DeletedInv'
    BY <1>s, <1>i, <1>h, <1>2 DEF Peer!DeletedInv, Peer!Range
  <2>2. Peer!KeptInv'
    BY <1>s, <1>h, <1>2 DEF Peer!KeptInv, Peer!Range
  <2> QED
    BY <1>1, <1>s, <1>2, <2>1, <2>2 DEF MessageInv, PeerTypes
<1>3. ASSUME a \in pendingResponses, pendingResponses' = pendingResponses \ {a},
             NEW o \in {"response", "error", "aborted"}, Peer!Finish({a}, o)
      PROVE  MessageInv' /\ PeerTypes'
  <2>f. /\ deleted' \in [Peer!Messages -> Nat]
        /\ outcome' \in [Peer!Messages -> {"none", "response", "error", "aborted"}]
        /\ \A m \in Peer!Messages :
             /\ deleted'[m] = IF m \in {a} THEN deleted[m] + 1 ELSE deleted[m]
             /\ outcome'[m] = IF m \in {a} THEN o ELSE outcome[m]
    BY <1>3, FinishFacts
  <2>a. PICK w \in DOMAIN written : written[w] = a
    BY <1>i DEF Peer!Range
  <2>b. deleted[a] = 0 /\ a <= sent
    BY <1>3, <2>a DEF Peer!DeletedInv, Peer!OrderInv
  <2>c. \A n \in DOMAIN sendQueue : sendQueue[n] \in Peer!Messages /\ sendQueue[n] # a
    <3>1. \A n \in DOMAIN sendQueue : sendQueue[n] \in Peer!Messages
      BY DEF PeerTypes
    <3>2. \A n \in DOMAIN sendQueue : a < sendQueue[n]
      BY <2>a DEF Peer!OrderInv
    <3> QED BY <1>i, <3>1, <3>2
  <2>d. Peer!Holds => smsg \in Peer!Messages /\ smsg # a
    <3>1. Peer!Holds => smsg \in Peer!Messages /\ a < smsg
      BY <2>a DEF PeerTypes, Peer!OrderInv
    <3> QED BY <1>i, <3>1
  <2>1. Peer!DeletedInv'
    <3>1. ASSUME NEW m \in Peer!Messages
          PROVE  /\ deleted'[m] <= 1 /\ (deleted'[m] = 1 <=> outcome'[m] # "none")
                 /\ m > sent => deleted'[m] = 0
      <4>1. CASE m = a
        <5>1. deleted'[m] = 1 /\ outcome'[m] # "none"
          BY <2>f, <2>b, <4>1
        <5>2. ~(m > sent)
          BY <1>i, <2>b, <4>1 DEF PeerTypes
        <5> QED BY <5>1, <5>2
      <4>2. CASE m # a
        BY <2>f, <4>2 DEF Peer!DeletedInv
      <4> QED BY <4>1, <4>2
    <3>2. \A n \in DOMAIN sendQueue : deleted'[sendQueue[n]] = 0
      BY <2>f, <2>c DEF Peer!DeletedInv
    <3>3. Peer!Holds => deleted'[smsg] = 0
      BY <2>f, <2>d DEF Peer!DeletedInv
    <3>4. \A m \in DOMAIN written : written[m] \in pendingResponses' => deleted'[written[m]] = 0
      <4>1. \A m \in DOMAIN written : written[m] \in Peer!Messages
        BY DEF Peer!OrderInv
      <4> QED
        BY <1>3, <2>f, <4>1 DEF Peer!DeletedInv
    <3> QED
      BY <1>s, <1>i, <1>h, <3>1, <3>2, <3>3, <3>4 DEF Peer!DeletedInv, Peer!Range
  <2>2. Peer!KeptInv'
    <3>1. \A m \in 1 .. sent : m \in Peer!Messages /\ (outcome[m] # "none" => outcome'[m] # "none")
      BY <2>f DEF PeerTypes
    <3> QED
      BY <1>s, <1>h, <3>1 DEF Peer!KeptInv, Peer!Range
  <2>3. PeerTypes'
    BY <1>s, <1>3, <2>f DEF PeerTypes
  <2> QED
    BY <1>1, <2>1, <2>2, <2>3 DEF MessageInv
<1> QED
  <2>1. (IF kind = "ok" THEN "response" ELSE "error") \in {"response", "error", "aborted"}
    OBVIOUS
  <2> QED
    BY <1>s, <1>2, <1>3, <2>1

\* The sender takes the next message.
LEMMA MessageTaken ==
    ASSUME Peer!IInv, Peer!SenderPoll, sendQueue # << >>
    PROVE  MessageInv' /\ PeerTypes'
<1> USE PeerFacts, PeerNumbers
<1>s. /\ spc = "poll" /\ spc' = "write" /\ sendQueue' = Tail(sendQueue) /\ smsg' = Head(sendQueue)
      /\ UNCHANGED <<connected, sent, pendingResponses, deleted, outcome, written, atServer, inbox, cDpc>>
  BY DEF Peer!SenderPoll, Peer!SenderLeaves, Peer!connVars, Peer!msgVars, Peer!netVars
<1>h. ~Peer!Holds /\ Peer!Holds'
  BY <1>s DEF Peer!Holds
<1>q. /\ Len(sendQueue) \in Nat \ {0} /\ DOMAIN sendQueue = 1 .. Len(sendQueue)
      /\ 1 \in 1 .. Len(sendQueue)
      /\ sendQueue' \in Seq(Peer!Messages) /\ DOMAIN sendQueue' = 1 .. Len(sendQueue) - 1
      /\ \A n \in 1 .. Len(sendQueue) - 1 :
            n + 1 \in 1 .. Len(sendQueue) /\ sendQueue'[n] = sendQueue[n + 1]
      /\ smsg' = sendQueue[1] /\ sendQueue[1] \in Peer!Messages
      /\ \A n \in 1 .. Len(sendQueue) :
            n = 1 \/ (n - 1 \in 1 .. Len(sendQueue) - 1 /\ sendQueue'[n - 1] = sendQueue[n])
  BY <1>s, TailFacts DEF PeerTypes
<1>o. /\ \A m, n \in 1 .. Len(sendQueue) : m < n => sendQueue[m] < sendQueue[n]
      /\ \A n \in 1 .. Len(sendQueue) : sendQueue[n] <= sent /\ deleted[sendQueue[n]] = 0
      /\ \A m \in DOMAIN written, n \in 1 .. Len(sendQueue) : written[m] < sendQueue[n]
  BY <1>q DEF Peer!OrderInv, Peer!DeletedInv
<1>1. Peer!OrderInv'
  <2>1. ASSUME NEW m \in DOMAIN sendQueue', NEW n \in DOMAIN sendQueue', m < n
        PROVE  sendQueue'[m] < sendQueue'[n]
    <3>1. m + 1 \in 1 .. Len(sendQueue) /\ n + 1 \in 1 .. Len(sendQueue) /\ m + 1 < n + 1
          /\ sendQueue'[m] = sendQueue[m + 1] /\ sendQueue'[n] = sendQueue[n + 1]
      BY <1>q, <2>1
    <3> QED BY <1>o, <3>1
  <2>2. \A m \in DOMAIN written : /\ \A n \in DOMAIN sendQueue' : written[m] < sendQueue'[n]
                                  /\ written[m] < smsg'
    BY <1>q, <1>o
  <2>3. ASSUME NEW n \in DOMAIN sendQueue'
        PROVE  sendQueue'[n] <= sent /\ smsg' < sendQueue'[n]
    <3>1. n + 1 \in 1 .. Len(sendQueue) /\ 1 < n + 1 /\ sendQueue'[n] = sendQueue[n + 1]
      BY <1>q
    <3> QED BY <1>q, <1>o, <3>1
  <2>4. smsg' \in 1 .. sent
    BY <1>q, <1>o DEF PeerTypes
  <2> QED
    BY <1>s, <2>1, <2>2, <2>3, <2>4 DEF Peer!OrderInv, Peer!WrittenInOrder
<1>2. Peer!DeletedInv'
  <2>1. deleted[smsg'] = 0 /\ \A n \in DOMAIN sendQueue' : deleted[sendQueue'[n]] = 0
    <3>1. \A n \in DOMAIN sendQueue' : n + 1 \in 1 .. Len(sendQueue) /\ sendQueue'[n] = sendQueue[n + 1]
      BY <1>q
    <3> QED BY <1>q, <1>o, <3>1
  <2> QED
    BY <1>s, <2>1 DEF Peer!DeletedInv, Peer!Range
<1>3. Peer!KeptInv'
  <2>1. ASSUME NEW x \in Peer!Range(sendQueue)
        PROVE  x = smsg' \/ x \in Peer!Range(sendQueue')
    <3>1. PICK n \in 1 .. Len(sendQueue) : x = sendQueue[n]
      BY <1>q DEF Peer!Range
    <3>2. CASE n = 1
      BY <1>q, <3>1, <3>2
    <3>3. CASE n - 1 \in DOMAIN sendQueue' /\ sendQueue'[n - 1] = sendQueue[n]
      BY <3>1, <3>3 DEF Peer!Range
    <3> QED BY <1>q, <3>2, <3>3
  <2>2. cDpc # "done" /\ connected
    BY <1>s DEF Peer!KeptInv
  <2>3. \A m \in 1 .. sent :
          outcome[m] # "none" \/ m \in Peer!Range(written) \/ m \in Peer!Range(sendQueue')
            \/ m = smsg'
    BY <1>h, <2>1 DEF Peer!KeptInv
  <2> QED
    BY <1>s, <1>h, <2>2, <2>3 DEF Peer!KeptInv, Peer!Range
<1>4. PeerTypes'
  BY <1>s, <1>q DEF PeerTypes
<1> QED
  BY <1>1, <1>2, <1>3, <1>4 DEF MessageInv

\* The sender writes it ...
LEMMA MessageWritten ==
    ASSUME Peer!IInv, Peer!SenderWrites
    PROVE  MessageInv' /\ PeerTypes'
<1> USE PeerFacts, PeerNumbers
<1>s. /\ spc = "write" /\ spc' = "callback" /\ written' = Append(written, smsg)
      /\ atServer' = IF link THEN atServer \cup {smsg} ELSE atServer
      /\ UNCHANGED <<connected, sendQueue, smsg, sent, pendingResponses, deleted, outcome, inbox, cDpc>>
  BY DEF Peer!SenderWrites, Peer!SenderLeaves, Peer!connVars, Peer!msgVars
<1>h. Peer!Holds /\ ~Peer!Holds'
  BY <1>s DEF Peer!Holds
<1>m. smsg \in Peer!Messages /\ smsg <= sent /\ deleted[smsg] = 0
  BY <1>h DEF Peer!OrderInv, PeerTypes, Peer!DeletedInv
<1>q. /\ Len(written) \in Nat /\ DOMAIN written = 1 .. Len(written)
      /\ written' \in Seq(Peer!Messages) /\ DOMAIN written' = 1 .. Len(written) + 1
      /\ \A n \in 1 .. Len(written) : written'[n] = written[n]
      /\ written'[Len(written) + 1] = smsg
      /\ \A n \in 1 .. Len(written) + 1 : n \in 1 .. Len(written) \/ n = Len(written) + 1
  BY <1>s, <1>m, AppendFacts DEF Peer!OrderInv
<1>r. Peer!Range(written') = Peer!Range(written) \cup {smsg}
  <2>1. Peer!Range(written') \subseteq Peer!Range(written) \cup {smsg}
    BY <1>q DEF Peer!Range
  <2>2. Len(written) + 1 \in 1 .. Len(written) + 1
        /\ \A n \in 1 .. Len(written) : n \in 1 .. Len(written) + 1
    BY <1>q
  <2>3. Peer!Range(written) \cup {smsg} \subseteq Peer!Range(written')
    BY <1>q, <2>2 DEF Peer!Range
  <2> QED BY <2>1, <2>3
<1>o. /\ \A m, n \in 1 .. Len(written) : m < n => written[m] < written[n]
      /\ \A n \in 1 .. Len(written) :
           written[n] <= sent /\ written[n] < smsg
             /\ (written[n] \in pendingResponses => deleted[written[n]] = 0)
      /\ \A n \in DOMAIN sendQueue : smsg < sendQueue[n]
      /\ \A m \in 1 .. Len(written), n \in DOMAIN sendQueue : written[m] < sendQueue[n]
  BY <1>q, <1>h DEF Peer!OrderInv, Peer!WrittenInOrder, Peer!DeletedInv
<1>1. Peer!OrderInv'
  <2>1. \A m, n \in DOMAIN written' : m < n => written'[m] < written'[n]
    <3> SUFFICES ASSUME NEW m \in 1 .. Len(written) + 1, NEW n \in 1 .. Len(written) + 1, m < n
                 PROVE  written'[m] < written'[n]
      BY <1>q
    <3>1. m \in 1 .. Len(written) /\ written'[m] = written[m]
      BY <1>q
    <3>2. CASE n \in 1 .. Len(written)
      BY <1>q, <1>o, <3>1, <3>2
    <3>3. CASE n = Len(written) + 1
      BY <1>q, <1>o, <3>1, <3>3
    <3> QED BY <1>q, <3>2, <3>3
  <2>2. \A m \in DOMAIN written' :
          written'[m] <= sent /\ \A n \in DOMAIN sendQueue : written'[m] < sendQueue[n]
    BY <1>m, <1>q, <1>o
  <2> QED
    BY <1>s, <1>h, <1>q, <2>1, <2>2 DEF Peer!OrderInv, Peer!WrittenInOrder
<1>2. Peer!DeletedInv'
  <2>1. \A m \in DOMAIN written' : written'[m] \in pendingResponses => deleted[written'[m]] = 0
    BY <1>m, <1>q, <1>o
  <2>2. atServer' \subseteq Peer!Range(written')
    BY <1>s, <1>r DEF Peer!DeletedInv
  <2>3. \A n \in DOMAIN inbox : inbox[n][1] \in Peer!Range(written')
    BY <1>r DEF Peer!DeletedInv
  <2>4. Peer!Range(written') = Peer!Range(written)'
    BY DEF Peer!Range
  <2> QED
    BY <1>s, <1>h, <2>1, <2>2, <2>3, <2>4 DEF Peer!DeletedInv
<1>3. Peer!KeptInv'
  <2>1. \A m \in 1 .. sent :
          outcome[m] # "none" \/ m \in Peer!Range(written') \/ m \in Peer!Range(sendQueue)
    BY <1>r DEF Peer!KeptInv
  <2>2. cDpc # "done" /\ connected
    BY <1>s DEF Peer!KeptInv
  <2> QED
    BY <1>s, <2>1, <2>2 DEF Peer!KeptInv, Peer!Range
<1>4. PeerTypes'
  BY <1>s DEF PeerTypes
<1> QED
  BY <1>1, <1>2, <1>3, <1>4 DEF MessageInv

\* ... or puts it back in front.
LEMMA MessageRequeued ==
    ASSUME Peer!IInv, Peer!SenderRequeues
    PROVE  MessageInv' /\ PeerTypes'
<1> USE PeerFacts, PeerNumbers
<1>s. /\ spc = "requeue" /\ spc' = "check" /\ sendQueue' = <<smsg>> \o sendQueue /\ smsg' = 0
      /\ UNCHANGED <<connected, sent, pendingResponses, deleted, outcome, written, atServer, inbox, cDpc>>
  BY DEF Peer!SenderRequeues, Peer!OtherConn, Peer!msgVars, Peer!netVars, Peer!NoMessage
<1>h. Peer!Holds /\ ~Peer!Holds'
  BY <1>s DEF Peer!Holds
<1>m. smsg \in Peer!Messages /\ smsg <= sent /\ deleted[smsg] = 0
  BY <1>h DEF Peer!OrderInv, PeerTypes, Peer!DeletedInv
<1>q. /\ Len(sendQueue) \in Nat /\ DOMAIN sendQueue = 1 .. Len(sendQueue)
      /\ sendQueue' \in Seq(Peer!Messages) /\ DOMAIN sendQueue' = 1 .. Len(sendQueue) + 1
      /\ sendQueue'[1] = smsg
      /\ \A n \in 1 .. Len(sendQueue) :
            n + 1 \in 1 .. Len(sendQueue) + 1 /\ sendQueue'[n + 1] = sendQueue[n]
      /\ \A n \in 1 .. Len(sendQueue) + 1 :
            n = 1 \/ (n - 1 \in 1 .. Len(sendQueue) /\ sendQueue'[n] = sendQueue[n - 1])
  BY <1>s, <1>m, FrontFacts DEF PeerTypes
<1>o. /\ \A m, n \in 1 .. Len(sendQueue) : m < n => sendQueue[m] < sendQueue[n]
      /\ \A n \in 1 .. Len(sendQueue) :
           sendQueue[n] <= sent /\ deleted[sendQueue[n]] = 0 /\ smsg < sendQueue[n]
      /\ \A m \in DOMAIN written : written[m] < smsg
      /\ \A m \in DOMAIN written, n \in 1 .. Len(sendQueue) : written[m] < sendQueue[n]
  BY <1>q, <1>h DEF Peer!OrderInv, Peer!DeletedInv
<1>1. Peer!OrderInv'
  <2>1. \A m, n \in DOMAIN sendQueue' : m < n => sendQueue'[m] < sendQueue'[n]
    <3> SUFFICES ASSUME NEW m \in 1 .. Len(sendQueue) + 1, NEW n \in 1 .. Len(sendQueue) + 1, m < n
                 PROVE  sendQueue'[m] < sendQueue'[n]
      BY <1>q
    <3>1. n - 1 \in 1 .. Len(sendQueue) /\ sendQueue'[n] = sendQueue[n - 1]
      BY <1>q
    <3>2. CASE m = 1
      BY <1>q, <1>o, <3>1, <3>2
    <3>3. CASE m - 1 \in 1 .. Len(sendQueue) /\ sendQueue'[m] = sendQueue[m - 1]
      <4>1. m - 1 < n - 1
        BY <1>q
      <4> QED BY <1>o, <3>1, <3>3, <4>1
    <3> QED BY <1>q, <3>2, <3>3
  <2>2. \A m \in DOMAIN written : \A n \in DOMAIN sendQueue' : written[m] < sendQueue'[n]
    BY <1>q, <1>o
  <2>3. \A n \in DOMAIN sendQueue' : sendQueue'[n] <= sent
    BY <1>q, <1>o, <1>m
  <2> QED
    BY <1>s, <1>h, <2>1, <2>2, <2>3 DEF Peer!OrderInv, Peer!WrittenInOrder
<1>2. Peer!DeletedInv'
  <2>1. \A n \in DOMAIN sendQueue' : deleted[sendQueue'[n]] = 0
    BY <1>q, <1>o, <1>m
  <2> QED
    BY <1>s, <1>h, <2>1 DEF Peer!DeletedInv, Peer!Range
<1>3. Peer!KeptInv'
  <2>1. \A x : x = smsg \/ x \in Peer!Range(sendQueue) => x \in Peer!Range(sendQueue')
    <3>1. 1 \in DOMAIN sendQueue'
      BY <1>q
    <3>2. smsg \in Peer!Range(sendQueue')
      BY <1>q, <3>1 DEF Peer!Range
    <3>3. ASSUME NEW x \in Peer!Range(sendQueue)
          PROVE  x \in Peer!Range(sendQueue')
      <4>1. PICK n \in 1 .. Len(sendQueue) : x = sendQueue[n]
        BY <1>q DEF Peer!Range
      <4>2. n + 1 \in DOMAIN sendQueue' /\ sendQueue'[n + 1] = x
        BY <1>q, <4>1
      <4> QED BY <4>2 DEF Peer!Range
    <3> QED BY <3>2, <3>3
  <2>2. cDpc # "done" /\ connected
    BY <1>s DEF Peer!KeptInv
  <2>3. \A m \in 1 .. sent :
          outcome[m] # "none" \/ m \in Peer!Range(written) \/ m \in Peer!Range(sendQueue')
    BY <2>1 DEF Peer!KeptInv
  <2> QED
    BY <1>s, <2>2, <2>3 DEF Peer!KeptInv, Peer!Range
<1>4. PeerTypes'
  BY <1>s, <1>q DEF PeerTypes
<1> QED
  BY <1>1, <1>2, <1>3, <1>4 DEF MessageInv

\* A message is given to isend.
LEMMA MessageSent ==
    ASSUME Peer!IInv, Peer!isend
    PROVE  MessageInv' /\ PeerTypes'
<1> USE PeerFacts, PeerNumbers
<1>s. /\ sent < MaxMessages /\ cDpc = "none" /\ sent' = sent + 1
      /\ pendingResponses' = pendingResponses \cup {sent + 1}
      /\ sendQueue' = Append(sendQueue, sent + 1)
      /\ spc' = spc \/ (spc = "wait" /\ spc' = "poll")
      /\ UNCHANGED <<connected, smsg, deleted, outcome, written, atServer, inbox, cDpc>>
  BY DEF Peer!isend, Peer!connVars, Peer!netVars
<1>h. Peer!Holds' <=> Peer!Holds
  BY <1>s DEF Peer!Holds
<1>m. sent \in Nat /\ sent + 1 \in Peer!Messages /\ deleted[sent + 1] = 0
  <2>1. sent \in Nat /\ sent + 1 \in Peer!Messages /\ sent + 1 > sent
    BY <1>s DEF PeerTypes
  <2> QED BY <2>1 DEF Peer!DeletedInv
<1>q. /\ Len(sendQueue) \in Nat /\ DOMAIN sendQueue = 1 .. Len(sendQueue)
      /\ sendQueue' \in Seq(Peer!Messages) /\ DOMAIN sendQueue' = 1 .. Len(sendQueue) + 1
      /\ \A n \in 1 .. Len(sendQueue) : sendQueue'[n] = sendQueue[n]
      /\ sendQueue'[Len(sendQueue) + 1] = sent + 1
      /\ \A n \in 1 .. Len(sendQueue) + 1 : n \in 1 .. Len(sendQueue) \/ n = Len(sendQueue) + 1
  BY <1>s, <1>m, AppendFacts DEF PeerTypes
<1>t. /\ \A n \in 1 .. Len(sendQueue) : sendQueue[n] \in Nat
      /\ \A n \in DOMAIN written : written[n] \in Nat
      /\ smsg \in Nat
  <2>1. \A n \in 1 .. Len(sendQueue) : sendQueue[n] \in Peer!Messages
    BY DEF PeerTypes
  <2>2. \A n \in DOMAIN written : written[n] \in Peer!Messages
    BY DEF Peer!OrderInv
  <2> QED BY <2>1, <2>2 DEF PeerTypes
<1>o. /\ \A m, n \in 1 .. Len(sendQueue) : m < n => sendQueue[m] < sendQueue[n]
      /\ \A n \in 1 .. Len(sendQueue) :
           sendQueue[n] <= sent /\ deleted[sendQueue[n]] = 0 /\ (Peer!Holds => smsg < sendQueue[n])
      /\ \A m \in DOMAIN written, n \in 1 .. Len(sendQueue) : written[m] < sendQueue[n]
      /\ \A m \in DOMAIN written : written[m] <= sent
      /\ Peer!Holds => smsg <= sent
  <2>1. Peer!Holds => smsg \in 1 .. sent
    BY DEF Peer!OrderInv
  <2>2. \A n \in 1 .. Len(sendQueue) : deleted[sendQueue[n]] = 0
    BY <1>q DEF Peer!DeletedInv
  <2>3. Peer!Holds => smsg <= sent
    BY <1>m, <2>1
  <2>4. /\ \A m, n \in 1 .. Len(sendQueue) : m < n => sendQueue[m] < sendQueue[n]
        /\ \A n \in 1 .. Len(sendQueue) : sendQueue[n] <= sent /\ (Peer!Holds => smsg < sendQueue[n])
    BY <1>q DEF Peer!OrderInv
  <2>5. \A m \in DOMAIN written :
          written[m] <= sent /\ \A n \in 1 .. Len(sendQueue) : written[m] < sendQueue[n]
    BY <1>q DEF Peer!OrderInv
  <2> QED
    BY <2>2, <2>3, <2>4, <2>5
<1>1. Peer!OrderInv'
  <2>1. \A m, n \in DOMAIN sendQueue' : m < n => sendQueue'[m] < sendQueue'[n]
    <3> SUFFICES ASSUME NEW m \in 1 .. Len(sendQueue) + 1, NEW n \in 1 .. Len(sendQueue) + 1, m < n
                 PROVE  sendQueue'[m] < sendQueue'[n]
      BY <1>q
    <3>1. m \in 1 .. Len(sendQueue) /\ sendQueue'[m] = sendQueue[m]
      BY <1>q
    <3>2. CASE n \in 1 .. Len(sendQueue)
      BY <1>q, <1>o, <3>1, <3>2
    <3>3. CASE n = Len(sendQueue) + 1
      BY <1>q, <1>m, <1>o, <1>t, <3>1, <3>3
    <3> QED BY <1>q, <3>2, <3>3
  <2>2. ASSUME NEW m \in DOMAIN written
        PROVE  written[m] <= sent + 1 /\ \A n \in DOMAIN sendQueue' : written[m] < sendQueue'[n]
    <3>1. written[m] \in Nat /\ written[m] <= sent
      BY <1>t, <1>o
    <3>2. written[m] < sent + 1
      BY <1>m, <3>1
    <3> QED BY <1>q, <1>o, <1>m, <3>1, <3>2
  <2>3. \A n \in DOMAIN sendQueue' : sendQueue'[n] <= sent + 1 /\ (Peer!Holds => smsg < sendQueue'[n])
    BY <1>m, <1>q, <1>o, <1>t
  <2>4. Peer!Holds => smsg \in 1 .. sent + 1
    BY <1>m DEF Peer!OrderInv
  <2> QED
    BY <1>s, <1>h, <2>1, <2>2, <2>3, <2>4 DEF Peer!OrderInv, Peer!WrittenInOrder
<1>2. Peer!DeletedInv'
  <2>1. \A n \in DOMAIN sendQueue' : deleted[sendQueue'[n]] = 0
    BY <1>q, <1>o, <1>m
  <2>2. \A m \in Peer!Messages : m > sent + 1 => deleted[m] = 0
    BY <1>m DEF Peer!DeletedInv
  <2>3. \A m \in DOMAIN written : written[m] # sent + 1
    BY <1>m, <1>o, <1>t
  <2> QED
    BY <1>s, <1>h, <2>1, <2>2, <2>3 DEF Peer!DeletedInv, Peer!Range
<1>3. Peer!KeptInv'
  <2>1. \A x : x = sent + 1 \/ x \in Peer!Range(sendQueue) => x \in Peer!Range(sendQueue')
    <3>1. Len(sendQueue) + 1 \in 1 .. Len(sendQueue) + 1
          /\ \A n \in 1 .. Len(sendQueue) : n \in 1 .. Len(sendQueue) + 1
      BY <1>q
    <3> QED BY <1>q, <3>1 DEF Peer!Range
  <2>2. ~connected => spc' = "none"
    BY <1>s DEF Peer!KeptInv
  <2>3. \A m \in 1 .. sent + 1 : m \in 1 .. sent \/ m = sent + 1
    BY <1>m
  <2>4. \A m \in 1 .. sent + 1 :
          outcome[m] # "none" \/ m \in Peer!Range(written) \/ m \in Peer!Range(sendQueue')
            \/ (Peer!Holds /\ m = smsg)
    BY <2>1, <2>3 DEF Peer!KeptInv
  <2> QED
    BY <1>s, <1>h, <2>2, <2>4 DEF Peer!KeptInv, Peer!Range
<1>4. PeerTypes'
  BY <1>s, <1>m, <1>q DEF PeerTypes
<1> QED
  BY <1>1, <1>2, <1>3, <1>4 DEF MessageInv

\* The server answers.
LEMMA MessageAnswered ==
    ASSUME Peer!IInv, NEW a \in Peer!Messages, NEW kind \in {"ok", "error", "damaged"},
           Peer!ServerAnswers(a, kind)
    PROVE  MessageInv'
<1> USE PeerFacts, PeerNumbers DEF Peer!connVars, Peer!senderVars, Peer!msgVars
<1> DEFINE S == Peer!Messages \X {"ok", "error", "damaged"}
<1>s. /\ a \in atServer /\ atServer' = atServer \ {a} /\ inbox' = Append(inbox, <<a, kind>>)
      /\ UNCHANGED <<connected, spc, sendQueue, smsg, sent, pendingResponses, deleted, outcome, written,
                     cDpc>>
  BY DEF Peer!ServerAnswers
<1>h. Peer!Holds' <=> Peer!Holds
  BY <1>s DEF Peer!Holds
<1>1. Peer!OrderInv' /\ Peer!KeptInv'
  BY <1>s, <1>h DEF Peer!OrderInv, Peer!WrittenInOrder, Peer!KeptInv, Peer!Range
<1>e. <<a, kind>> \in S /\ <<a, kind>>[1] = a /\ inbox \in Seq(S)
  BY DEF Peer!DeletedInv
<1>2. inbox' \in Seq(S) /\ \A n \in DOMAIN inbox' : inbox'[n][1] \in Peer!Range(written)
  <2> HIDE DEF S
  <2>1. /\ DOMAIN inbox = 1 .. Len(inbox)
        /\ inbox' \in Seq(S) /\ DOMAIN inbox' = 1 .. Len(inbox) + 1
        /\ \A n \in 1 .. Len(inbox) : inbox'[n] = inbox[n]
        /\ inbox'[Len(inbox) + 1] = <<a, kind>>
        /\ \A n \in 1 .. Len(inbox) + 1 : n \in 1 .. Len(inbox) \/ n = Len(inbox) + 1
    BY <1>s, <1>e, AppendFacts
  <2>2. a \in Peer!Range(written) /\ \A n \in 1 .. Len(inbox) : inbox[n][1] \in Peer!Range(written)
    BY <1>s, <2>1 DEF Peer!DeletedInv
  <2> QED BY <1>e, <2>1, <2>2
<1>3. Peer!DeletedInv'
  BY <1>s, <1>h, <1>2 DEF Peer!DeletedInv, Peer!Range
<1> QED
  BY <1>1, <1>3 DEF MessageInv

-----------------------------------------------------------------------------
(* The connection threads of the client.                                   *)

PeerFlags ==
    /\ readyLocked \in BOOLEAN /\ ongoing \in BOOLEAN /\ established \in BOOLEAN
    /\ shutdownC \in BOOLEAN /\ errorC \in BOOLEAN /\ connected \in BOOLEAN /\ link \in BOOLEAN

PeerPlaces ==
    /\ connectionThread \in 0 .. MaxAttempts
    /\ cTpc \in [Peer!Threads -> Peer!Places] /\ cJoined \in [Peer!Threads -> Nat]
    /\ upc \in {"idle", "ireconnect"} /\ cDpc \in {"none", "lock", "join", "sender", "done"}

PeerSender ==
    /\ status \in {"OPERATIONAL", "SHUTTING_DOWN", "STOPPING"}
    /\ spc \in {"none", "check", "poll", "wait", "write", "callback", "requeue", "ended"}

LEMMA PeerTyped ==
    Peer!TypeOK <=> PeerFlags /\ PeerPlaces /\ PeerSender /\ PeerTypes
<1>1. {readyLocked, ongoing, established, shutdownC, errorC, connected, link} \subseteq BOOLEAN
      <=> PeerFlags
  BY Zenon DEF PeerFlags
<1> HIDE DEF PeerFlags
<1> QED
  BY <1>1 DEF Peer!TypeOK, PeerPlaces, PeerSender, PeerTypes

LEMMA PeerTypedNext ==
    Peer!TypeOK' <=> PeerFlags' /\ PeerPlaces' /\ PeerSender' /\ PeerTypes'
<1>1. {readyLocked', ongoing', established', shutdownC', errorC', connected', link'} \subseteq BOOLEAN
      <=> PeerFlags'
  BY Zenon DEF PeerFlags
<1> HIDE DEF PeerFlags
<1> QED
  BY <1>1 DEF Peer!TypeOK, PeerPlaces, PeerSender, PeerTypes

\* ThreadInv for one thread.
ThreadIs(t) ==
    /\ t > connectionThread <=> cTpc[t] = "none"
    /\ cTpc[t] \in Peer!BeforeJoin \cup {"connect"} => t = connectionThread /\ readyLocked
    /\ cTpc[t] \in Peer!BeforeJoin => t > 1
    /\ cJoined[t] = IF \/ t < connectionThread /\ cTpc[t + 1] \notin Peer!BeforeJoin
                       \/ t = connectionThread /\ cDpc \in {"sender", "done"}
                    THEN 1 ELSE 0
    /\ cJoined[t] = 1 => cTpc[t] = "ended"

\* Steps that leave the threads where they are.
LEMMA ThreadsStay ==
    ASSUME Peer!IInv, UNCHANGED <<readyLocked, shutdownC, connectionThread, cTpc, cJoined, cDpc>>
    PROVE  Peer!ThreadInv'
BY DEF Peer!IInv, Peer!ThreadInv

\* A thread moves that neither waits for the one before it nor has ended.
LEMMA ThreadMoves ==
    ASSUME Peer!IInv, NEW t \in Peer!Threads,
           NEW l \in Peer!Places \ {"none", "connect", "cancelLast", "joinLast"},
           cTpc[t] \notin {"none", "ended", "cancelLast", "joinLast"},
           cTpc' = [cTpc EXCEPT ![t] = l], UNCHANGED <<shutdownC, connectionThread, cJoined, cDpc>>,
           UNCHANGED readyLocked \/ cTpc[t] = "connect"
    PROVE  Peer!ThreadInv' /\ cTpc' \in [Peer!Threads -> Peer!Places]
<1>t. PeerPlaces /\ Peer!ThreadInv /\ Peer!BeforeJoin = {"cancelLast", "joinLast"}
  BY PeerFacts, PeerTyped DEF Peer!BeforeJoin
<1>c. \A u \in Peer!Threads : cTpc'[u] = IF u = t THEN l ELSE cTpc[u]
  BY <1>t DEF PeerPlaces
<1>1. ASSUME NEW u \in Peer!Threads PROVE ThreadIs(u)'
  <2>1. ThreadIs(u) /\ ThreadIs(t)
    BY <1>t DEF Peer!ThreadInv, ThreadIs
  <2>2. (u > connectionThread)' <=> cTpc'[u] = "none"
    BY <1>c, <2>1 DEF ThreadIs
  <2>3. cTpc'[u] \in Peer!BeforeJoin \cup {"connect"} => u = connectionThread' /\ readyLocked'
    BY <1>t, <1>c, <2>1 DEF ThreadIs
  <2>4. cTpc'[u] \in Peer!BeforeJoin => u > 1
    BY <1>t, <1>c, <2>1 DEF ThreadIs
  <2>5. u < connectionThread => (cTpc'[u + 1] \in Peer!BeforeJoin <=> cTpc[u + 1] \in Peer!BeforeJoin)
    <3>1. u < connectionThread => u + 1 \in Peer!Threads
      BY <1>t, PeerNumbers DEF PeerPlaces
    <3> QED BY <1>t, <1>c, <3>1
  <2>6. cJoined'[u] = 1 => cTpc'[u] = "ended"
    BY <1>c, <2>1 DEF ThreadIs
  <2> QED
    BY <2>1, <2>2, <2>3, <2>4, <2>5, <2>6 DEF ThreadIs
<1>2. Peer!ThreadInv'
  BY <1>1, <1>t DEF Peer!ThreadInv, ThreadIs
<1> QED
  BY <1>2, <1>t DEF PeerPlaces

\* ireconnect: a thread is created only when the mutex is free, so that none
\* waits for the one before it.
LEMMA ThreadCreated ==
    ASSUME Peer!IInv, NEW tp \in [Peer!Threads -> Peer!Places], Peer!ireconnect(tp),
           \A u \in Peer!Threads : tp[u] = cTpc[u] \/ (cTpc[u] = "ireconnect" /\ tp[u] = "ended"),
           UNCHANGED <<shutdownC, cJoined, cDpc>>
    PROVE  /\ Peer!ThreadInv' /\ cTpc' \in [Peer!Threads -> Peer!Places]
           /\ connectionThread' \in 0 .. MaxAttempts
<1>t. PeerPlaces /\ Peer!ThreadInv /\ Peer!BeforeJoin = {"cancelLast", "joinLast"}
  BY PeerFacts, PeerTyped DEF Peer!BeforeJoin
<1>0. \A u \in Peer!Threads : ThreadIs(u)
  BY <1>t DEF Peer!ThreadInv, ThreadIs
<1>n. \A u \in Peer!Threads : cTpc[u] \notin {"cancelLast", "joinLast", "connect"}
  BY <1>0, <1>t DEF ThreadIs, Peer!ireconnect
<1>k. \A u \in Peer!Threads :
        /\ tp[u] \notin {"cancelLast", "joinLast", "connect"}
        /\ tp[u] = "none" <=> cTpc[u] = "none"
        /\ cTpc[u] = "ended" => tp[u] = "ended"
  BY <1>n
<1>1. CASE cTpc' = tp /\ UNCHANGED <<readyLocked, connectionThread>>
  <2>1. ASSUME NEW u \in Peer!Threads PROVE ThreadIs(u)'
    <3>1. u < connectionThread => u + 1 \in Peer!Threads
      BY <1>t, PeerNumbers DEF PeerPlaces
    <3> QED
      BY <1>0, <1>1, <1>k, <1>n, <1>t, <3>1 DEF ThreadIs
  <2>2. Peer!ThreadInv'
    BY <2>1, <1>t, <1>1 DEF Peer!ThreadInv, ThreadIs
  <2> QED
    BY <1>1, <2>2, <1>t DEF PeerPlaces
<1>2. CASE /\ Peer!MayConnect /\ Peer!NextThread \in Peer!Threads
           /\ readyLocked' = TRUE /\ connectionThread' = Peer!NextThread
           /\ cTpc' = [tp EXCEPT ![Peer!NextThread] =
                          IF connectionThread # 0 THEN "cancelLast" ELSE "connect"]
  <2> DEFINE n == connectionThread + 1
             l == IF connectionThread # 0 THEN "cancelLast" ELSE "connect"
  <2>1. /\ connectionThread \in Nat /\ n \in Peer!Threads /\ connectionThread' = n /\ readyLocked'
        /\ cTpc' = [tp EXCEPT ![n] = l] /\ ~shutdownC
    BY <1>2, <1>t DEF Peer!NextThread, Peer!MayConnect, PeerPlaces
  <2>2. cDpc = "none"
    BY <1>t, <2>1 DEF Peer!ThreadInv
  <2>3. \A u \in Peer!Threads : cTpc'[u] = IF u = n THEN l ELSE tp[u]
    BY <2>1
  <2>4. ASSUME NEW u \in Peer!Threads PROVE ThreadIs(u)'
    <3>0. u \in Nat \ {0} /\ ThreadIs(u)
      BY <1>0, PeerNumbers
    <3>1. CASE u < connectionThread
      <4>1. u + 1 \in Peer!Threads /\ u + 1 # n /\ u # n /\ u < n /\ ~(u > n) /\ ~(u > connectionThread)
        BY <2>1, <3>0, <3>1, PeerNumbers
      <4>2. cTpc'[u] = tp[u] /\ cTpc'[u + 1] = tp[u + 1]
        BY <2>3, <4>1
      <4>3. cJoined[u] = 1
        BY <1>n, <1>t, <3>0, <3>1, <4>1 DEF ThreadIs
      <4> QED
        BY <1>k, <1>t, <2>1, <3>0, <4>1, <4>2, <4>3 DEF ThreadIs
    <3>2. CASE u = connectionThread
      <4>1. u + 1 = n /\ u # n /\ u < n /\ ~(u > n) /\ ~(u > connectionThread) /\ connectionThread # 0
            /\ ~(u < connectionThread)
        BY <2>1, <3>0, <3>2
      <4>2. cTpc'[u] = tp[u] /\ cTpc'[u + 1] = "cancelLast"
        BY <2>1, <2>3, <4>1
      <4>3. cJoined[u] = 0
        BY <2>2, <3>0, <4>1 DEF ThreadIs
      <4> QED
        BY <1>k, <1>t, <2>1, <3>0, <4>1, <4>2, <4>3 DEF ThreadIs
    <3>3. CASE u = n
      <4>1. u > connectionThread /\ ~(u > n) /\ ~(u < n) /\ u # connectionThread
            /\ ~(u < connectionThread) /\ (connectionThread # 0 => u > 1)
        BY <2>1, <3>3
      <4>2. cTpc'[u] = l /\ cJoined[u] = 0
        BY <2>3, <3>0, <3>3, <4>1 DEF ThreadIs
      <4> QED
        BY <1>t, <2>1, <2>2, <3>3, <4>1, <4>2 DEF ThreadIs
    <3>4. CASE u > n
      <4>1. u > connectionThread /\ ~(u < n) /\ u # n /\ u # connectionThread
            /\ ~(u < connectionThread)
        BY <2>1, <3>0, <3>4
      <4>2. cTpc'[u] = tp[u] /\ cJoined[u] = 0 /\ tp[u] = "none"
        BY <1>k, <2>3, <3>0, <4>1 DEF ThreadIs
      <4> QED
        BY <1>t, <2>1, <3>4, <4>1, <4>2 DEF ThreadIs
    <3> QED
      BY <2>1, <3>0, <3>1, <3>2, <3>3, <3>4
  <2>5. Peer!ThreadInv'
    BY <2>2, <2>4 DEF Peer!ThreadInv, ThreadIs
  <2>6. l \in Peer!Places
    BY DEF Peer!Places
  <2> QED
    BY <2>1, <2>5, <2>6, PeerNumbers
<1> QED
  BY <1>1, <1>2 DEF Peer!ireconnect

\* Whoever waits for the thread before it joins it.
LEMMA ThreadJoins ==
    ASSUME Peer!IInv, NEW t \in Peer!Threads, Peer!CancelLast(t) \/ Peer!JoinLast(t)
    PROVE  /\ Peer!ThreadInv' /\ cTpc' \in [Peer!Threads -> Peer!Places]
           /\ cJoined' \in [Peer!Threads -> Nat]
<1>t. PeerPlaces /\ Peer!ThreadInv /\ Peer!BeforeJoin = {"cancelLast", "joinLast"}
  BY PeerFacts, PeerTyped DEF Peer!BeforeJoin
<1>0. \A u \in Peer!Threads : ThreadIs(u)
  BY <1>t DEF Peer!ThreadInv, ThreadIs
<1>s. UNCHANGED <<readyLocked, shutdownC, connectionThread, cDpc>>
  BY DEF Peer!CancelLast, Peer!JoinLast, Peer!OtherConn
<1>n. /\ t = connectionThread /\ t \in Nat /\ t > 1 /\ readyLocked /\ t - 1 \in Peer!Threads
      /\ cDpc \notin {"sender", "done"}
  <2>1. t = connectionThread /\ t > 1 /\ readyLocked /\ cTpc[t] # "ended"
    BY <1>0, <1>t DEF ThreadIs, Peer!CancelLast, Peer!JoinLast
  <2>2. cDpc \notin {"sender", "done"}
    BY <1>0, <2>1 DEF ThreadIs
  <2> QED BY <2>1, <2>2, PeerNumbers
<1>1. CASE Peer!CancelLast(t)
  <2>1. cTpc[t] = "cancelLast" /\ UNCHANGED cJoined
        /\ \A u \in Peer!Threads : cTpc'[u] = IF u = t THEN "joinLast" ELSE cTpc[u]
    BY <1>1, <1>t DEF Peer!CancelLast, Peer!Go, PeerPlaces
  <2>2. ASSUME NEW u \in Peer!Threads PROVE ThreadIs(u)'
    <3>1. u < connectionThread => u + 1 \in Peer!Threads
      BY <1>t, PeerNumbers DEF PeerPlaces
    <3>2. u < connectionThread => (cTpc'[u + 1] \in Peer!BeforeJoin <=> cTpc[u + 1] \in Peer!BeforeJoin)
      BY <1>t, <2>1, <3>1
    <3>3. (cTpc'[u] = "none" <=> cTpc[u] = "none") /\ (cTpc[u] = "ended" => cTpc'[u] = "ended")
          /\ (cTpc'[u] \in Peer!BeforeJoin => cTpc[u] \in Peer!BeforeJoin)
          /\ (cTpc'[u] = "connect" => cTpc[u] = "connect")
      BY <1>t, <2>1
    <3> QED
      BY <1>0, <1>s, <2>1, <3>2, <3>3 DEF ThreadIs
  <2>3. Peer!ThreadInv'
    BY <1>s, <1>t, <2>2 DEF Peer!ThreadInv, ThreadIs
  <2> QED
    BY <1>1, <2>1, <2>3, <1>t DEF Peer!CancelLast, Peer!Go, PeerPlaces, Peer!Places
<1>2. CASE Peer!JoinLast(t)
  <2>1. /\ cTpc[t] = "joinLast" /\ cTpc[t - 1] = "ended"
        /\ \A u \in Peer!Threads : /\ cTpc'[u] = IF u = t THEN "connect" ELSE cTpc[u]
                                   /\ cJoined'[u] = IF u = t - 1 THEN cJoined[u] + 1 ELSE cJoined[u]
        /\ cJoined' \in [Peer!Threads -> Nat] /\ cTpc' \in [Peer!Threads -> Peer!Places]
    <3>1. "connect" \in Peer!Places
      BY DEF Peer!Places
    <3> QED BY <1>2, <1>n, <1>t, <3>1 DEF Peer!JoinLast, Peer!Go, PeerPlaces
  <2>2. ASSUME NEW u \in Peer!Threads PROVE ThreadIs(u)'
    <3>0. u \in Nat \ {0} /\ ThreadIs(u)
      BY <1>0, PeerNumbers
    <3>1. CASE u = t
      BY <1>n, <1>s, <1>t, <2>1, <3>0, <3>1 DEF ThreadIs
    <3>2. CASE u = t - 1
      <4>1. u < connectionThread /\ u + 1 = t /\ u # t /\ u # connectionThread
            /\ ~(u > connectionThread)
        BY <1>n, <3>2
      <4>2. cJoined[u] = 0
        BY <1>t, <2>1, <3>0, <4>1 DEF ThreadIs
      <4>3. cJoined'[u] = 1 /\ cTpc'[u] = "ended" /\ cTpc'[u + 1] = "connect"
        BY <2>1, <3>2, <4>1, <4>2
      <4> QED
        BY <1>s, <1>t, <4>1, <4>3 DEF ThreadIs
    <3>3. CASE u # t /\ u # t - 1
      <4>1. u < connectionThread => u + 1 \in Peer!Threads /\ u + 1 # t
        BY <1>n, <3>0, <3>3, PeerNumbers
      <4>2. cTpc'[u] = cTpc[u] /\ cJoined'[u] = cJoined[u]
            /\ (u < connectionThread => cTpc'[u + 1] = cTpc[u + 1])
        BY <2>1, <3>3, <4>1
      <4> QED
        BY <1>s, <3>0, <4>2 DEF ThreadIs
    <3> QED
      BY <3>1, <3>2, <3>3
  <2>3. Peer!ThreadInv'
    BY <1>s, <1>t, <2>2 DEF Peer!ThreadInv, ThreadIs
  <2> QED
    BY <2>1, <2>3
<1> QED
  BY <1>1, <1>2

\* The destructor joins the last thread.
LEMMA ThreadsDestroyed ==
    ASSUME Peer!IInv, \/ Peer!DestructorCancels \/ Peer!DestructorLocks \/ Peer!DestructorJoins
                      \/ Peer!DestructorTerminates
    PROVE  Peer!ThreadInv' /\ PeerPlaces'
<1>t. PeerPlaces /\ Peer!ThreadInv
  BY PeerFacts, PeerTyped
<1>0. \A u \in Peer!Threads : ThreadIs(u)
  BY <1>t DEF Peer!ThreadInv, ThreadIs
<1>s. UNCHANGED <<connectionThread, cTpc, upc>>
  BY DEF Peer!DestructorCancels, Peer!DestructorLocks, Peer!DestructorJoins, Peer!DestructorTerminates
<1>1. CASE Peer!DestructorCancels
  <2>1. cDpc = "none" /\ cDpc' = "lock" /\ shutdownC' /\ UNCHANGED <<readyLocked, cJoined>>
    BY <1>1 DEF Peer!DestructorCancels
  <2>2. \A u \in Peer!Threads : ThreadIs(u)'
    BY <1>0, <1>s, <2>1 DEF ThreadIs
  <2> QED
    BY <1>s, <1>t, <2>1, <2>2 DEF Peer!ThreadInv, ThreadIs, PeerPlaces
<1>2. CASE Peer!DestructorLocks
  <2>1. /\ cDpc = "lock" /\ ~readyLocked /\ UNCHANGED <<cJoined, shutdownC>>
        /\ \/ cDpc' = "join" /\ connectionThread # 0 /\ UNCHANGED readyLocked
           \/ cDpc' = "sender" /\ readyLocked' /\ connectionThread = 0
    BY <1>2 DEF Peer!DestructorLocks
  <2>2. \A u \in Peer!Threads : u # 0
    BY PeerNumbers
  <2>3. \A u \in Peer!Threads : ThreadIs(u)'
    BY <1>0, <1>s, <2>1, <2>2 DEF ThreadIs
  <2> QED
    BY <1>s, <1>t, <2>1, <2>3 DEF Peer!ThreadInv, ThreadIs, PeerPlaces
<1>3. CASE Peer!DestructorJoins
  <2>1. /\ cDpc = "join" /\ cDpc' = "sender" /\ cTpc[connectionThread] = "ended"
        /\ UNCHANGED <<readyLocked, shutdownC>>
        /\ cJoined' = [cJoined EXCEPT ![connectionThread] = @ + 1]
        /\ connectionThread # 0
    BY <1>3, <1>t DEF Peer!DestructorJoins, Peer!ThreadInv
  <2>2. connectionThread \in Peer!Threads
    BY <1>t, <2>1, PeerNumbers DEF PeerPlaces
  <2>3. \A u \in Peer!Threads : cJoined'[u] = IF u = connectionThread THEN cJoined[u] + 1 ELSE cJoined[u]
    BY <1>t, <2>1 DEF PeerPlaces
  <2>4. ASSUME NEW u \in Peer!Threads PROVE ThreadIs(u)'
    <3>1. CASE u = connectionThread
      <4>1. ~(u < connectionThread)
        BY <1>t, <3>1 DEF PeerPlaces
      <4> QED
        BY <1>0, <1>s, <2>1, <2>3, <3>1, <4>1 DEF ThreadIs
    <3>2. CASE u # connectionThread
      BY <1>0, <1>s, <2>1, <2>3, <3>2 DEF ThreadIs
    <3> QED BY <3>1, <3>2
  <2>5. cJoined' \in [Peer!Threads -> Nat]
    BY <1>t, <2>1, <2>2 DEF PeerPlaces
  <2> QED
    BY <1>s, <1>t, <2>1, <2>4, <2>5 DEF Peer!ThreadInv, ThreadIs, PeerPlaces
<1>4. CASE Peer!DestructorTerminates
  <2>1. cDpc = "sender" /\ cDpc' = "done" /\ UNCHANGED <<readyLocked, shutdownC, cJoined>>
    BY <1>4 DEF Peer!DestructorTerminates
  <2>2. \A u \in Peer!Threads : ThreadIs(u)'
    BY <1>0, <1>s, <2>1 DEF ThreadIs
  <2> QED
    BY <1>s, <1>t, <2>1, <2>2 DEF Peer!ThreadInv, ThreadIs, PeerPlaces
<1> QED
  BY <1>1, <1>2, <1>3, <1>4

\* When the last thread is joined all have ended.
LEMMA AllEnded ==
    ASSUME Peer!IInv, cDpc \in {"sender", "done"}, NEW t \in Peer!Threads
    PROVE  /\ cTpc[t] \in {"none", "ended"}
           /\ t <= connectionThread => cTpc[t] = "ended" /\ cJoined[t] = 1
<1>t. PeerPlaces /\ Peer!ThreadInv /\ Peer!BeforeJoin = {"cancelLast", "joinLast"}
  BY PeerFacts, PeerTyped DEF Peer!BeforeJoin
<1>0. \A u \in Peer!Threads : ThreadIs(u)
  BY <1>t DEF Peer!ThreadInv, ThreadIs
<1>1. connectionThread \in Nat /\ t \in Nat
  BY <1>t, PeerNumbers DEF PeerPlaces
<1>2. CASE t > connectionThread
  BY <1>0, <1>1, <1>2 DEF ThreadIs
<1>3. CASE t = connectionThread
  BY <1>0, <1>3 DEF ThreadIs
<1>4. CASE t < connectionThread
  <2>1. t + 1 \in Peer!Threads /\ connectionThread \in Peer!Threads
    BY <1>t, <1>4, PeerNumbers DEF PeerPlaces
  <2>2. cTpc[connectionThread] = "ended"
    BY <1>0, <2>1 DEF ThreadIs
  <2>3. cTpc[t + 1] \notin Peer!BeforeJoin
    BY <1>0, <1>t, <2>1, <2>2 DEF ThreadIs
  <2> QED
    BY <1>0, <1>4, <2>3 DEF ThreadIs
<1> QED
  BY <1>1, <1>2, <1>3, <1>4

-----------------------------------------------------------------------------
(* The client as a whole.                                                  *)

\* What is left to show of a step: types of flags, places, sender and messages,
\* and the two parts of the invariant.
PeerKept == PeerFlags' /\ PeerPlaces' /\ PeerSender' /\ PeerTypes' /\ MessageInv' /\ Peer!ThreadInv'

LEMMA PeerThreadSteps ==
    ASSUME Peer!IInv, NEW t \in Peer!Threads, Peer!ConnectionThread(t)
    PROVE  PeerKept
<1>t. PeerFlags /\ PeerPlaces /\ PeerSender /\ PeerTypes /\ Peer!KeptInv
  BY PeerFacts, PeerTyped
<1>e. cDpc = "done" => cTpc[t] \in {"none", "ended"}
  BY AllEnded
<1> USE DEF Peer!OtherConn, Peer!connVars, Peer!senderVars, Peer!msgVars, Peer!netVars
<1>1. CASE Peer!CancelLast(t) \/ Peer!JoinLast(t)
  <2>1. UNCHANGED <<Peer!senderVars, Peer!msgVars, Peer!netVars, cDpc, connectionThread, upc>>
    BY <1>1 DEF Peer!CancelLast, Peer!JoinLast
  <2>2. PeerFlags'
    BY <1>1, <1>t DEF Peer!CancelLast, Peer!JoinLast, PeerFlags
  <2>3. PeerPlaces' /\ Peer!ThreadInv'
    BY <1>1, <1>t, <2>1, ThreadJoins DEF PeerPlaces
  <2>4. MessageInv' /\ PeerSender' /\ PeerTypes'
    BY <1>t, <2>1, MessagesStay DEF PeerSender, PeerTypes
  <2> QED BY <2>2, <2>3, <2>4 DEF PeerKept
<1>2. ASSUME NEW l \in Peer!Places \ {"none", "connect", "cancelLast", "joinLast"}, Peer!Go(t, l),
             cTpc[t] \notin {"none", "ended", "cancelLast", "joinLast"},
             UNCHANGED <<shutdownC, connectionThread, cJoined, cDpc, upc>>,
             UNCHANGED readyLocked \/ cTpc[t] = "connect"
      PROVE  PeerPlaces' /\ Peer!ThreadInv'
  BY <1>t, <1>2, ThreadMoves DEF Peer!Go, PeerPlaces
<1>p. {"connected", "start", "receive", "read", "shutdown", "joinSender", "errorCB", "ireconnect", "ended"}
        \subseteq Peer!Places \ {"none", "connect", "cancelLast", "joinLast"}
  BY DEF Peer!Places
<1>3. CASE \E success \in BOOLEAN : Peer!Connect(t, success)
  <2>1. PICK success \in BOOLEAN : Peer!Connect(t, success)
    BY <1>3
  <2>2. PeerFlags'
    BY <2>1, <1>t DEF Peer!Connect, PeerFlags
  <2>3. PeerPlaces' /\ Peer!ThreadInv'
    BY <2>1, <1>2, <1>p DEF Peer!Connect
  <2>4. /\ UNCHANGED <<sendQueue, sent, pendingResponses, deleted, outcome, written, smsg, spc, connected,
                       status, cDpc>>
        /\ UNCHANGED <<smsg, atServer>> \/ (UNCHANGED smsg /\ atServer' = {})
        /\ UNCHANGED inbox \/ inbox' = << >>
    BY <2>1 DEF Peer!Connect
  <2>5. MessageInv'
    BY <1>t, <2>4, SenderMoves DEF Peer!Holds, Peer!KeptInv
  <2>6. PeerSender' /\ PeerTypes'
    BY <1>t, <2>4 DEF PeerSender, PeerTypes
  <2> QED BY <2>2, <2>3, <2>5, <2>6 DEF PeerKept
<1>4. CASE Peer!Connected(t)
  <2>2. PeerFlags'
    BY <1>4, <1>t DEF Peer!Connected, PeerFlags
  <2>3. PeerPlaces' /\ Peer!ThreadInv'
    BY <1>4, <1>2, <1>p DEF Peer!Connected
  <2>4. UNCHANGED <<sendQueue, sent, pendingResponses, deleted, outcome, written, smsg, spc, connected,
                    status, cDpc, atServer, inbox>>
    BY <1>4 DEF Peer!Connected
  <2>5. MessageInv'
    BY <1>t, <2>4, SenderMoves DEF Peer!Holds, Peer!KeptInv
  <2>6. PeerSender' /\ PeerTypes'
    BY <1>t, <2>4 DEF PeerSender, PeerTypes
  <2> QED BY <2>2, <2>3, <2>5, <2>6 DEF PeerKept
<1>5. CASE Peer!StartSender(t)
  <2>2. PeerFlags'
    BY <1>5, <1>t DEF Peer!StartSender, PeerFlags
  <2>3. PeerPlaces' /\ Peer!ThreadInv'
    BY <1>5, <1>2, <1>p DEF Peer!StartSender
  <2>4. /\ UNCHANGED <<sendQueue, sent, pendingResponses, deleted, outcome, written, smsg,
                       cDpc, atServer, inbox>>
        /\ \/ UNCHANGED <<connected, status, spc>>
           \/ ~connected /\ connected' /\ status' = "OPERATIONAL" /\ spc' = "check"
        /\ cDpc # "done"
    BY <1>5, <1>e DEF Peer!StartSender
  <2>5. MessageInv'
    BY <1>t, <2>4, SenderMoves DEF Peer!Holds, Peer!KeptInv
  <2>6. PeerSender' /\ PeerTypes'
    BY <1>t, <2>4 DEF PeerSender, PeerTypes
  <2> QED BY <2>2, <2>3, <2>5, <2>6 DEF PeerKept
<1>6. CASE Peer!ReceiveTest(t) \/ Peer!ReceiveEnds(t) \/ Peer!ErrorCBCalls(t) \/ Peer!ErrorCBReturns(t)
  <2>1. UNCHANGED <<Peer!OtherConn, Peer!senderVars, Peer!msgVars, Peer!netVars, established, errorC>>
    BY <1>6 DEF Peer!ReceiveTest, Peer!ReceiveEnds, Peer!ErrorCBCalls, Peer!ErrorCBReturns
  <2>2. PeerPlaces' /\ Peer!ThreadInv'
    BY <1>6, <1>2, <1>p DEF Peer!ReceiveTest, Peer!ReceiveEnds, Peer!ErrorCBCalls, Peer!ErrorCBReturns
  <2>3. PeerFlags' /\ PeerSender' /\ PeerTypes'
    BY <1>t, <2>1 DEF PeerFlags, PeerSender, PeerTypes
  <2>4. MessageInv'
    BY <2>1, MessagesStay
  <2> QED BY <2>2, <2>3, <2>4 DEF PeerKept
<1>7. CASE Peer!Receive(t)
  <2>1. UNCHANGED <<Peer!OtherConn, Peer!senderVars, established, errorC, link>>
    BY <1>7 DEF Peer!Receive
  <2>2. PeerPlaces' /\ Peer!ThreadInv'
    BY <1>7, <1>2, <1>p DEF Peer!Receive
  <2>3. PeerFlags' /\ PeerSender'
    BY <1>t, <2>1 DEF PeerFlags, PeerSender
  <2>4. MessageInv' /\ PeerTypes'
    BY <1>7, AnswerRead
  <2> QED BY <2>2, <2>3, <2>4 DEF PeerKept
<1>8. CASE Peer!ShutdownSender(t)
  <2>2. PeerFlags'
    BY <1>8, <1>t DEF Peer!ShutdownSender, PeerFlags
  <2>3. PeerPlaces' /\ Peer!ThreadInv'
    BY <1>8, <1>2, <1>p DEF Peer!ShutdownSender
  <2>4. /\ UNCHANGED <<sendQueue, sent, pendingResponses, deleted, outcome, written, smsg, connected,
                       cDpc, atServer, inbox>>
        /\ status' = "SHUTTING_DOWN" /\ spc' = IF spc = "wait" THEN "poll" ELSE spc
    BY <1>8 DEF Peer!ShutdownSender
  <2>5. MessageInv'
    BY <1>t, <2>4, SenderMoves DEF Peer!Holds, Peer!KeptInv
  <2>6. PeerSender' /\ PeerTypes'
    BY <1>t, <2>4 DEF PeerSender, PeerTypes
  <2> QED BY <2>2, <2>3, <2>5, <2>6 DEF PeerKept
<1>9. CASE Peer!JoinSender(t)
  <2>2. PeerFlags'
    BY <1>9, <1>t DEF Peer!JoinSender, PeerFlags
  <2>3. PeerPlaces' /\ Peer!ThreadInv'
    BY <1>9, <1>2, <1>p DEF Peer!JoinSender
  <2>4. /\ UNCHANGED <<sendQueue, sent, pendingResponses, deleted, outcome, written, smsg, connected,
                       cDpc, atServer, status>>
        /\ spc \in {"none", "ended"} /\ spc' = "none" /\ inbox' = << >>
    BY <1>9 DEF Peer!JoinSender
  <2>5. MessageInv'
    BY <1>t, <2>4, SenderMoves DEF Peer!Holds, Peer!KeptInv
  <2>6. PeerSender' /\ PeerTypes'
    BY <1>t, <2>4 DEF PeerSender, PeerTypes
  <2> QED BY <2>2, <2>3, <2>5, <2>6 DEF PeerKept
<1>10. CASE Peer!dropPendingMessages(t)
  <2>1. /\ UNCHANGED <<Peer!connVars, connected, spc, smsg, sent, pendingResponses, Peer!netVars>>
        /\ status' = "SHUTTING_DOWN" /\ sendQueue' = << >>
        /\ Peer!Finish(Peer!Range(sendQueue), "aborted") /\ cDpc # "done"
    BY <1>10, <1>e DEF Peer!dropPendingMessages
  <2>2. MessageInv'
    BY <2>1, QueueAborted
  <2>3. Peer!ThreadInv'
    BY <2>1, ThreadsStay
  <2>4. PeerFlags' /\ PeerPlaces' /\ PeerSender'
    BY <1>t, <2>1 DEF PeerFlags, PeerPlaces, PeerSender
  <2>5. PeerTypes'
    <3>1. << >> \in Seq(Peer!Messages)
      OBVIOUS
    <3>2. /\ deleted' \in [Peer!Messages -> Nat]
          /\ outcome' \in [Peer!Messages -> {"none", "response", "error", "aborted"}]
      BY <1>t, <2>1, FinishFacts
    <3> QED BY <1>t, <2>1, <3>1, <3>2 DEF PeerTypes
  <2> QED BY <2>2, <2>3, <2>4, <2>5 DEF PeerKept
<1>11. CASE Peer!ErrorCBReconnects(t)
  <2> DEFINE tp == [cTpc EXCEPT ![t] = "ended"]
  <2>1. /\ UNCHANGED <<established, shutdownC, errorC, cJoined, upc, cDpc, Peer!senderVars, Peer!msgVars,
                       Peer!netVars>>
        /\ cTpc[t] = "ireconnect" /\ Peer!ireconnect(tp)
    BY <1>11 DEF Peer!ErrorCBReconnects
  <2>2. tp \in [Peer!Threads -> Peer!Places]
        /\ \A u \in Peer!Threads : tp[u] = cTpc[u] \/ (cTpc[u] = "ireconnect" /\ tp[u] = "ended")
    BY <1>t, <1>p, <2>1 DEF PeerPlaces
  <2>3. PeerFlags'
    BY <1>t, <2>1 DEF PeerFlags, Peer!ireconnect
  <2> HIDE DEF tp
  <2>4. PeerPlaces' /\ Peer!ThreadInv'
    BY <1>t, <2>1, <2>2, ThreadCreated DEF PeerPlaces
  <2>5. MessageInv' /\ PeerSender' /\ PeerTypes'
    BY <1>t, <2>1, MessagesStay DEF PeerSender, PeerTypes
  <2> QED BY <2>3, <2>4, <2>5 DEF PeerKept
<1> QED
  BY <1>1, <1>3, <1>4, <1>5, <1>6, <1>7, <1>8, <1>9, <1>10, <1>11 DEF Peer!ConnectionThread, Peer!ConnectionOwn

LEMMA PeerSenderSteps ==
    ASSUME Peer!IInv, Peer!Sender \/ Peer!isend \/ Peer!Network
    PROVE  PeerKept
<1>t. PeerFlags /\ PeerPlaces /\ PeerSender /\ PeerTypes /\ Peer!KeptInv
  BY PeerFacts, PeerTyped
<1> USE DEF Peer!OtherConn, Peer!connVars, Peer!senderVars, Peer!msgVars, Peer!netVars,
            Peer!SenderLeaves
<1>a. UNCHANGED <<readyLocked, ongoing, established, shutdownC, connectionThread, cTpc, cJoined, upc, cDpc,
                  connected>>
  BY DEF Peer!Sender, Peer!SenderOwn, Peer!SenderCheck, Peer!SenderPoll, Peer!SenderWrites, Peer!SenderFails,
     Peer!SenderRequeues, Peer!SenderCallback, Peer!isend, Peer!Network, Peer!ServerAnswers, Peer!Break
<1>b. errorC' \in BOOLEAN /\ link' \in BOOLEAN
  BY <1>t DEF Peer!Sender, Peer!SenderOwn, Peer!SenderCheck, Peer!SenderPoll, Peer!SenderWrites, Peer!SenderFails,
     Peer!SenderRequeues, Peer!SenderCallback, Peer!isend, Peer!Network, Peer!ServerAnswers, Peer!Break,
     PeerFlags
<1>c. PeerSender'
  BY <1>t DEF Peer!Sender, Peer!SenderOwn, Peer!SenderCheck, Peer!SenderPoll, Peer!SenderWrites, Peer!SenderFails,
     Peer!SenderRequeues, Peer!SenderCallback, Peer!isend, Peer!Network, Peer!ServerAnswers, Peer!Break,
     PeerSender
<1>d. PeerFlags' /\ PeerPlaces' /\ Peer!ThreadInv'
  BY <1>t, <1>a, <1>b, ThreadsStay DEF PeerFlags, PeerPlaces
<1>1. CASE \/ Peer!SenderCheck \/ Peer!SenderFails \/ Peer!SenderCallback
           \/ Peer!SenderPoll /\ sendQueue = << >>
  <2>1. /\ UNCHANGED <<sendQueue, sent, pendingResponses, deleted, outcome, written, atServer, inbox>>
        /\ smsg' \in {smsg, 0} /\ (UNCHANGED smsg \/ spc = "callback")
        /\ spc \in {"check", "poll", "write", "callback"}
        /\ (spc = "write" /\ spc' = "requeue")
             \/ (spc # "write" /\ spc' \in {"ended", "poll", "wait", "check"})
    BY <1>1 DEF Peer!SenderCheck, Peer!SenderPoll, Peer!SenderFails, Peer!SenderCallback, Peer!NoMessage
  <2>2. connected /\ cDpc # "done"
    BY <1>t, <2>1 DEF Peer!KeptInv
  <2>3. MessageInv'
    BY <1>a, <2>1, <2>2, SenderMoves DEF Peer!Holds
  <2>4. PeerTypes'
    BY <1>t, <2>1, PeerNumbers DEF PeerTypes
  <2> QED BY <1>c, <1>d, <2>3, <2>4 DEF PeerKept
<1>2. CASE Peer!SenderPoll /\ sendQueue # << >>
  BY <1>2, <1>c, <1>d, MessageTaken DEF PeerKept
<1>3. CASE Peer!SenderWrites
  BY <1>3, <1>c, <1>d, MessageWritten DEF PeerKept
<1>4. CASE Peer!SenderRequeues
  BY <1>4, <1>c, <1>d, MessageRequeued DEF PeerKept
<1>5. CASE Peer!isend
  BY <1>5, <1>c, <1>d, MessageSent DEF PeerKept
<1>6. CASE Peer!Network
  <2>1. UNCHANGED <<Peer!senderVars, Peer!msgVars, written>>
    BY <1>6 DEF Peer!Network, Peer!ServerAnswers, Peer!Break
  <2>2. PeerTypes'
    BY <1>t, <2>1 DEF PeerTypes
  <2>3. MessageInv'
    <3>1. CASE \E m \in Peer!Messages, kind \in {"ok", "error", "damaged"} : Peer!ServerAnswers(m, kind)
      BY <3>1, MessageAnswered
    <3>2. CASE \E lost \in BOOLEAN : Peer!Break(lost)
      <4>1. UNCHANGED atServer /\ (UNCHANGED inbox \/ inbox' = << >>)
        BY <3>2 DEF Peer!Break
      <4> QED
        BY <1>t, <1>a, <2>1, <4>1, SenderMoves DEF Peer!Holds, Peer!KeptInv
    <3> QED BY <1>6, <3>1, <3>2 DEF Peer!Network
  <2> QED BY <1>c, <1>d, <2>2, <2>3 DEF PeerKept
<1> QED
  BY <1>1, <1>2, <1>3, <1>4, <1>5, <1>6 DEF Peer!Sender, Peer!SenderOwn

LEMMA PeerUserSteps ==
    ASSUME Peer!IInv,
           Peer!OutsideCall \/ Peer!OutsideReconnect \/ Peer!DestructorCancels \/ Peer!Destructor
    PROVE  PeerKept
<1>t. PeerFlags /\ PeerPlaces /\ PeerSender /\ PeerTypes /\ Peer!KeptInv
  BY PeerFacts, PeerTyped
<1> USE DEF Peer!connVars, Peer!senderVars, Peer!msgVars, Peer!netVars
<1>1. CASE Peer!OutsideCall
  <2>1. /\ UNCHANGED <<readyLocked, ongoing, established, shutdownC, errorC, connectionThread, cTpc, cJoined,
                       cDpc, Peer!senderVars, Peer!msgVars, Peer!netVars>>
        /\ upc' = "ireconnect"
    BY <1>1 DEF Peer!OutsideCall
  <2>2. MessageInv' /\ Peer!ThreadInv'
    BY <2>1, MessagesStay, ThreadsStay
  <2> QED
    BY <1>t, <2>1, <2>2 DEF PeerKept, PeerFlags, PeerPlaces, PeerSender, PeerTypes
<1>2. CASE Peer!OutsideReconnect
  <2>1. /\ UNCHANGED <<established, shutdownC, errorC, cJoined, cDpc, Peer!senderVars, Peer!msgVars,
                       Peer!netVars>>
        /\ upc' = "idle" /\ Peer!ireconnect(cTpc)
    BY <1>2 DEF Peer!OutsideReconnect
  <2>2. cTpc \in [Peer!Threads -> Peer!Places]
    BY <1>t DEF PeerPlaces
  <2>3. PeerFlags'
    BY <1>t, <2>1 DEF PeerFlags, Peer!ireconnect
  <2>4. PeerPlaces' /\ Peer!ThreadInv'
    BY <1>t, <2>1, <2>2, ThreadCreated DEF PeerPlaces
  <2>5. MessageInv' /\ PeerSender' /\ PeerTypes'
    BY <1>t, <2>1, MessagesStay DEF PeerSender, PeerTypes
  <2> QED BY <2>3, <2>4, <2>5 DEF PeerKept
<1>3. CASE Peer!DestructorCancels \/ Peer!DestructorLocks \/ Peer!DestructorJoins
  <2>1. UNCHANGED <<Peer!senderVars, Peer!msgVars, Peer!netVars, ongoing, established>> /\ cDpc' # "done"
    BY <1>3 DEF Peer!DestructorCancels, Peer!DestructorLocks, Peer!DestructorJoins
  <2>2. PeerFlags'
    BY <1>3, <1>t DEF PeerFlags, Peer!DestructorCancels, Peer!DestructorLocks, Peer!DestructorJoins
  <2>3. PeerPlaces' /\ Peer!ThreadInv'
    BY <1>3, ThreadsDestroyed
  <2>4. MessageInv' /\ PeerSender' /\ PeerTypes'
    BY <1>t, <2>1, MessagesStay DEF PeerSender, PeerTypes
  <2> QED BY <2>2, <2>3, <2>4 DEF PeerKept
<1>4. CASE Peer!DestructorTerminates
  <2>1. /\ spc \in {"none", "ended"} /\ status' = "SHUTTING_DOWN" /\ sendQueue' = << >>
        /\ Peer!Finish(Peer!Range(sendQueue), "aborted")
        /\ UNCHANGED <<readyLocked, ongoing, established, shutdownC, errorC, connected, spc, smsg, sent,
                       pendingResponses, Peer!netVars>>
    BY <1>4 DEF Peer!DestructorTerminates
  <2>2. MessageInv'
    BY <2>1, QueueAborted
  <2>3. PeerPlaces' /\ Peer!ThreadInv'
    BY <1>4, ThreadsDestroyed
  <2>4. PeerFlags' /\ PeerSender'
    BY <1>t, <2>1 DEF PeerFlags, PeerSender
  <2>5. PeerTypes'
    <3>1. << >> \in Seq(Peer!Messages)
      OBVIOUS
    <3>2. /\ deleted' \in [Peer!Messages -> Nat]
          /\ outcome' \in [Peer!Messages -> {"none", "response", "error", "aborted"}]
      BY <1>t, <2>1, FinishFacts
    <3> QED BY <1>t, <2>1, <3>1, <3>2 DEF PeerTypes
  <2> QED BY <2>2, <2>3, <2>4, <2>5 DEF PeerKept
<1> QED
  BY <1>1, <1>2, <1>3, <1>4 DEF Peer!Destructor

LEMMA PeerInductive ==
    Peer!IInv /\ [MCNext]_allVars => Peer!IInv'
<1> SUFFICES ASSUME Peer!IInv, [MCNext]_allVars
             PROVE  Peer!IInv'
  OBVIOUS
<1>1. CASE UNCHANGED clientVars
  BY <1>1 DEF clientVars, Peer!IInv, Peer!TypeOK, Peer!OrderInv, Peer!WrittenInOrder, Peer!DeletedInv,
     Peer!KeptInv, Peer!ThreadInv, Peer!Holds, Peer!Range
<1>2. CASE Peer!Next
  <2>1. PeerKept
    BY <1>2, PeerThreadSteps, PeerSenderSteps, PeerUserSteps DEF Peer!Next
  <2> QED
    BY <2>1, PeerTypedNext DEF PeerKept, Peer!IInv, MessageInv
<1> QED
  BY <1>1, <1>2 DEF MCNext, allVars

LEMMA PeerInvariant ==
    MCSpec => []Peer!IInv
<1>1. MCInit => Peer!IInv
  <2> SUFFICES ASSUME Peer!Init
               PROVE  Peer!IInv
    BY DEF MCInit
  <2> USE PeerNumbers
  <2>1. PeerFlags
    BY Zenon DEF Peer!Init, PeerFlags
  <2>2. PeerPlaces /\ PeerSender
    BY DEF Peer!Init, PeerPlaces, PeerSender, Peer!Places
  <2>3. ASSUME NEW S PROVE << >> \in Seq(S) /\ DOMAIN << >> = {}
    OBVIOUS
  <2>4. PeerTypes
    BY <2>3 DEF Peer!Init, PeerTypes, Peer!NoMessage
  <2>5. Peer!OrderInv
    BY <2>3 DEF Peer!Init, Peer!OrderInv, Peer!WrittenInOrder, Peer!Holds
  <2>6. Peer!DeletedInv
    <3>1. ~Peer!Holds /\ sendQueue = << >> /\ written = << >> /\ inbox = << >> /\ atServer = {}
          /\ \A m \in Peer!Messages : deleted[m] = 0 /\ outcome[m] = "none"
      BY DEF Peer!Init, Peer!Holds
    <3> QED BY <2>3, <3>1 DEF Peer!DeletedInv
  <2>7. Peer!KeptInv
    BY DEF Peer!Init, Peer!KeptInv
  <2>8. Peer!ThreadInv
    BY DEF Peer!Init, Peer!ThreadInv, Peer!BeforeJoin
  <2> QED
    BY <2>1, <2>2, <2>4, <2>5, <2>6, <2>7, <2>8, PeerTyped DEF Peer!IInv
<1> QED
  BY <1>1, PeerInductive, PTL DEF MCSpec

\* GIOClient, for any number of messages, connection attempts and calls: whatever
\* writes fail and whichever connections break, a message is deleted at most once
\* and exactly when a callback said how it ended, none that is queued or being
\* written is deleted, and messages leave in the order of isend.
THEOREM MessageDeletion == MCSpec => []DeletedOnce
<1>1. Peer!IInv => DeletedOnce
  BY DEF Peer!IInv, Peer!OrderInv, Peer!DeletedInv, Peer!Holds, Peer!DeletedOnce, DeletedOnce
<1> QED
  BY <1>1, PeerInvariant, PTL

\* GIOClient and GIOServer: when a destructor is done every thread was joined
\* exactly once, the sender is gone, and what was never written is aborted.
THEOREM CleanDestruction == MCSpec => []DestroyedClean
<1>1. Peer!IInv => Peer!DestroyedClean
  <2> SUFFICES ASSUME Peer!IInv, cDpc = "done"
               PROVE  /\ \A t \in 1 .. connectionThread : cTpc[t] = "ended" /\ cJoined[t] = 1
                      /\ spc \in {"none", "ended"}
                      /\ \A m \in 1 .. sent : outcome[m] # "none" \/ m \in Peer!Range(written)
    BY DEF Peer!DestroyedClean
  <2>1. ASSUME NEW t \in 1 .. connectionThread PROVE cTpc[t] = "ended" /\ cJoined[t] = 1
    <3>1. t \in Peer!Threads /\ t <= connectionThread
      BY PeerFacts, PeerTyped, PeerNumbers DEF PeerPlaces
    <3> QED BY <3>1, AllEnded
  <2>2. sendQueue = << >> /\ spc \in {"none", "ended"} /\ ~Peer!Holds
    BY PeerFacts DEF Peer!KeptInv, Peer!Holds
  <2>3. Peer!Range(sendQueue) = {}
    BY <2>2 DEF Peer!Range
  <2> QED
    BY <2>1, <2>2, <2>3, PeerFacts DEF Peer!KeptInv
<1>2. MCSpec => []IInv
  <2>1. MCInit => IInv
    BY InitialInv DEF MCInit
  <2>2. [MCNext]_allVars => [Next]_vars
    BY DEF MCNext, allVars, vars
  <2> QED
    BY <2>1, <2>2, Inductive, PTL DEF MCSpec
<1>3. IInv => GoneWhenDestroyed
  BY GoneInv
<1> QED
  BY <1>1, <1>2, <1>3, PeerInvariant, PTL DEF DestroyedClean

-----------------------------------------------------------------------------
(* FileAssociationMapper.                                                  *)

\* What a process writes is not the mark of a missing file.
LEMMA MapperContents ==
    ASSUME NEW n
    PROVE  /\ Mapper!Contents(n) # Mapper!NoFile
           /\ Mapper!Contents(n).lastID = nextID /\ Mapper!Contents(n).vector = entries
           /\ Mapper!Contents(n).attributes = argument /\ Mapper!Contents(n).members = n
<1>1. "vector" \in DOMAIN Mapper!Contents(n) /\ DOMAIN Mapper!NoFile = {"there"}
  BY DEF Mapper!Contents, Mapper!NoFile
<1>2. Mapper!Contents(n) # Mapper!NoFile
  BY <1>1
<1> QED BY <1>2 DEF Mapper!Contents

\* The index that is made from a vector of different names.
LEMMA MapperIndex ==
    ASSUME NEW v, NEW n, Mapper!Numbered(v, n)
    PROVE  /\ \A i \in DOMAIN v : v[i] \in DOMAIN Mapper!Index(v)
           /\ \A x \in DOMAIN Mapper!Index(v) : /\ Mapper!Index(v)[x] \in DOMAIN v
                                                /\ v[Mapper!Index(v)[x]] = x
<1>1. DOMAIN Mapper!Index(v) = {v[i] : i \in DOMAIN v}
  BY DEF Mapper!Index
<1>2. DOMAIN v = 1 .. Len(v) /\ Len(v) \in Nat
  BY DEF Mapper!Numbered
<1>3. ASSUME NEW x \in DOMAIN Mapper!Index(v)
      PROVE  Mapper!Index(v)[x] \in DOMAIN v /\ v[Mapper!Index(v)[x]] = x
  <2>1. PICK i \in DOMAIN v : v[i] = x
    BY <1>1
  <2>2. \A j \in DOMAIN v : v[j] = x => j = i
    BY <2>1 DEF Mapper!Numbered
  <2> DEFINE P(k) == v[k] = x /\ \A j \in DOMAIN v : v[j] = x => j <= k
  <2>3. P(i)
    BY <1>2, <2>1, <2>2
  <2>4. Mapper!Index(v)[x] = CHOOSE k \in DOMAIN v : P(k)
    BY <1>1 DEF Mapper!Index
  <2> HIDE DEF P
  <2>5. (CHOOSE k \in DOMAIN v : P(k)) \in DOMAIN v /\ P(CHOOSE k \in DOMAIN v : P(k))
    BY <2>1, <2>3
  <2> QED BY <2>4, <2>5 DEF P
<1> QED BY <1>1, <1>3

\* A process that dies or ends leaves a file of the attributes it has, or the old one.
LEMMA MapperGone ==
    ASSUME Mapper!IInv, NEW f, Mapper!Gone(f),
           f = file \/ \E n \in 0 .. Mapper!Whole : f = Mapper!Contents(n)
    PROVE  Mapper!IInv'
<1>1. /\ up /\ ~up' /\ file' = f /\ nextID' = 1 /\ entries' = << >>
      /\ index' = Mapper!Nothing /\ argument' = Mapper!Nothing /\ UNCHANGED damaged
      /\ returned' = {x \in returned : f # Mapper!NoFile /\ x.name \in {f.vector[i] : i \in DOMAIN f.vector}}
      /\ kept' = {x \in kept : f # Mapper!NoFile /\ x.key \in DOMAIN f.attributes}
  BY DEF Mapper!Gone
<1>2. Mapper!MapInv'
  BY <1>1 DEF Mapper!MapInv
<1>3. f # Mapper!NoFile => f.members \in 0 .. Mapper!Whole
  BY MapperContents DEF Mapper!IInv, Mapper!DiskInv
<1>4. ASSUME ~damaged, f # Mapper!NoFile, f.members = Mapper!Whole
      PROVE  /\ Mapper!Numbered(f.vector, f.lastID) /\ DOMAIN f.attributes \subseteq Mapper!Keys
             /\ \A x \in returned' : x.id \in DOMAIN f.vector /\ f.vector[x.id] = x.name
             /\ \A x \in kept' : x.key \in DOMAIN f.attributes /\ f.attributes[x.key] = x.value
  <2>1. /\ Mapper!Numbered(entries, nextID) /\ DOMAIN argument \subseteq Mapper!Keys
        /\ \A x \in returned : x.id \in DOMAIN entries /\ entries[x.id] = x.name
        /\ \A x \in kept : x.key \in DOMAIN argument /\ argument[x.key] = x.value
    BY <1>1, <1>4 DEF Mapper!IInv, Mapper!MapInv, Mapper!Finds
  <2>2. CASE f = file
    <3>1. /\ Mapper!Numbered(f.vector, f.lastID) /\ DOMAIN f.attributes \subseteq Mapper!Keys
          /\ \A i \in DOMAIN f.vector : i \in DOMAIN entries /\ entries[i] = f.vector[i]
          /\ \A k \in DOMAIN f.attributes : k \in DOMAIN argument /\ argument[k] = f.attributes[k]
      BY <1>1, <1>4, <2>2 DEF Mapper!IInv, Mapper!DiskInv, Mapper!Finds
    <3>2. ASSUME NEW x \in returned' PROVE x.id \in DOMAIN f.vector /\ f.vector[x.id] = x.name
      <4>1. x \in returned /\ \E i \in DOMAIN f.vector : f.vector[i] = x.name
        BY <1>1
      <4>2. PICK i \in DOMAIN f.vector : f.vector[i] = x.name
        BY <4>1
      <4>3. i = x.id
        BY <2>1, <3>1, <4>1, <4>2 DEF Mapper!Numbered
      <4> QED BY <4>2, <4>3
    <3>3. \A x \in kept' : x.key \in DOMAIN f.attributes /\ f.attributes[x.key] = x.value
      BY <1>1, <2>1, <3>1
    <3> QED BY <3>1, <3>2, <3>3
  <2>3. CASE \E n \in 0 .. Mapper!Whole : f = Mapper!Contents(n)
    <3>1. f.lastID = nextID /\ f.vector = entries /\ f.attributes = argument
      BY <2>3, MapperContents
    <3> QED BY <1>1, <2>1, <3>1
  <2> QED BY <2>2, <2>3
<1>5. Mapper!DiskInv'
  BY <1>1, <1>3, <1>4 DEF Mapper!DiskInv
<1> QED BY <1>2, <1>5 DEF Mapper!IInv

\* Every step of the mapper keeps its invariant.
LEMMA MapperInductive == Mapper!IInv /\ Mapper!Next => Mapper!IInv'
<1> SUFFICES ASSUME Mapper!IInv, Mapper!Next PROVE Mapper!IInv'
  OBVIOUS
<1>0. Mapper!MapInv /\ Mapper!DiskInv
  BY DEF Mapper!IInv
<1>1. CASE Mapper!Start
  <2>1. /\ ~up /\ up' /\ UNCHANGED <<file, returned, kept>>
        /\ damaged' = (damaged \/ (file # Mapper!NoFile /\ file.members < Mapper!Whole))
        /\ file # Mapper!NoFile => file.members \in 0 .. Mapper!Whole
    BY <1>0, <1>1 DEF Mapper!Start, Mapper!DiskInv
  <2>2. CASE file = Mapper!NoFile
    <3>1. /\ nextID' = 1 /\ entries' = << >> /\ index' = Mapper!Nothing /\ argument' = Mapper!Nothing
          /\ returned = {} /\ kept = {}
      BY <1>0, <1>1, <2>1, <2>2 DEF Mapper!Start, Mapper!DiskInv, Mapper!memory
    <3>2. Mapper!MapInv'
      BY <2>1, <3>1 DEF Mapper!MapInv, Mapper!Numbered, Mapper!Nothing, Mapper!Finds
    <3>3. Mapper!DiskInv'
      BY <2>1, <2>2 DEF Mapper!DiskInv
    <3> QED BY <3>2, <3>3 DEF Mapper!IInv
  <2>3. CASE file # Mapper!NoFile /\ file.members = Mapper!Whole
    <3>1. file.members >= 1 /\ file.members >= 2 /\ file.members >= 3 /\ file.members >= 4
      BY <2>3 DEF Mapper!Whole
    <3>2. Mapper!load(file)
      BY <1>1, <2>3 DEF Mapper!Start
    <3>3. /\ nextID' = file.lastID /\ entries' = file.vector /\ index' = Mapper!Index(file.vector)
          /\ argument' = Mapper!Owned(file.attributes, {"process"} \cup {"component"})
      BY <2>3, <3>1, <3>2 DEF Mapper!load
    <3>4. CASE ~damaged
      <4>1. /\ Mapper!Numbered(file.vector, file.lastID) /\ DOMAIN file.attributes \subseteq Mapper!Keys
            /\ \A x \in returned : x.id \in DOMAIN file.vector /\ file.vector[x.id] = x.name
            /\ \A x \in kept : x.key \in DOMAIN file.attributes /\ file.attributes[x.key] = x.value
        BY <1>0, <2>1, <2>3, <3>4 DEF Mapper!DiskInv
      <4>2. \A k \in Mapper!Keys : k.owner.kind \in {"process"} \cup {"component"}
        BY MapperInstance DEF Mapper!Keys, Mapper!MapperAssumption
      <4>3. DOMAIN argument' = DOMAIN file.attributes /\ \A k \in DOMAIN argument' : argument'[k] = file.attributes[k]
        BY <3>3, <4>1, <4>2 DEF Mapper!Owned
      <4>4. Mapper!MapInv'
        BY <2>1, <3>3, <4>1, <4>3, MapperIndex DEF Mapper!MapInv, Mapper!Finds
      <4>5. Mapper!DiskInv'
        BY <2>1, <2>3, <3>3, <4>1, <4>3 DEF Mapper!DiskInv, Mapper!Finds
      <4> QED BY <4>4, <4>5 DEF Mapper!IInv
    <3>5. CASE damaged
      BY <1>0, <2>1, <3>5 DEF Mapper!IInv, Mapper!MapInv, Mapper!DiskInv
    <3> QED BY <3>4, <3>5
  <2>4. CASE file # Mapper!NoFile /\ file.members # Mapper!Whole
    <3>1. file.members < Mapper!Whole
      BY <2>1, <2>4 DEF Mapper!Whole
    <3>2. damaged'
      BY <2>1, <2>4, <3>1
    <3> QED BY <2>1, <3>2 DEF Mapper!IInv, Mapper!MapInv, Mapper!DiskInv
  <2> QED BY <2>2, <2>3, <2>4
<1>2. CASE Mapper!Exit
  BY <1>2, MapperGone DEF Mapper!Exit, Mapper!Whole
<1>3. CASE Mapper!Crash
  <2>1. \A n \in MapperTorn : n \in 0 .. Mapper!Whole
    BY MapperInstance DEF Mapper!MapperAssumption, Mapper!Whole
  <2> QED BY <1>3, <2>1, MapperGone DEF Mapper!Crash
<1>4. ASSUME NEW n \in Instances, Mapper!create_instance_mapping(n) PROVE Mapper!IInv'
  <2>1. up /\ UNCHANGED <<kept, up, file, damaged, argument>>
    BY <1>4 DEF Mapper!create_instance_mapping, Mapper!Others, Mapper!memory
  <2>2. CASE damaged
    BY <1>0, <2>1, <2>2 DEF Mapper!IInv, Mapper!MapInv, Mapper!DiskInv
  <2>3. CASE ~damaged
    <3>1. /\ Mapper!Numbered(entries, nextID) /\ DOMAIN argument \subseteq Mapper!Keys
          /\ \A x \in DOMAIN index : index[x] \in DOMAIN entries /\ entries[index[x]] = x
          /\ \A i \in DOMAIN entries : entries[i] \in DOMAIN index
          /\ \A x \in returned : x.id \in DOMAIN entries /\ entries[x.id] = x.name
          /\ DOMAIN entries = 1 .. Len(entries) /\ Len(entries) \in Nat
          /\ nextID = Len(entries) + 1 /\ entries \in Seq(Instances)
      BY <1>0, <2>1, <2>3 DEF Mapper!MapInv, Mapper!Finds, Mapper!Numbered
    <3>2. CASE Mapper!Number(n) # 0
      <4>1. /\ UNCHANGED <<nextID, entries, index>> /\ n \in DOMAIN index
            /\ returned' = returned \cup {[name |-> n, id |-> index[n]]}
        BY <1>4, <3>2 DEF Mapper!create_instance_mapping, Mapper!memory, Mapper!Number
      <4>2. \A x \in returned' : x.id \in DOMAIN entries /\ entries[x.id] = x.name
        BY <3>1, <4>1
      <4>3. Mapper!MapInv'
        BY <1>0, <2>1, <2>3, <4>1, <4>2 DEF Mapper!MapInv, Mapper!Finds
      <4>4. Mapper!DiskInv'
        BY <1>0, <2>1, <4>1 DEF Mapper!DiskInv, Mapper!Finds
      <4> QED BY <4>3, <4>4 DEF Mapper!IInv
    <3>3. CASE Mapper!Number(n) = 0
      <4>1. /\ nextID' = nextID + 1 /\ index' = Mapper!Put(index, n, nextID)
            /\ entries' = Append(entries, n) /\ returned' = returned \cup {[name |-> n, id |-> nextID]}
        BY <1>4, <3>3 DEF Mapper!create_instance_mapping
      <4>2. n \notin DOMAIN index
        BY <3>1, <3>3 DEF Mapper!Number
      <4>3. /\ entries' \in Seq(Instances) /\ Len(entries') = Len(entries) + 1
            /\ DOMAIN entries' = 1 .. Len(entries) + 1 /\ entries'[nextID] = n
            /\ \A i \in DOMAIN entries : i \in DOMAIN entries' /\ entries'[i] = entries[i]
            /\ nextID \in DOMAIN entries'
        BY <3>1, <4>1
      <4>4. Mapper!Numbered(entries', nextID')
        <5>1. ASSUME NEW i \in DOMAIN entries', NEW j \in DOMAIN entries', entries'[i] = entries'[j]
              PROVE  i = j
          <6>1. \A k \in DOMAIN entries' : k = nextID \/ k \in DOMAIN entries
            BY <3>1, <4>3
          <6>2. \A k \in DOMAIN entries : entries'[k] # n
            BY <3>1, <4>2, <4>3
          <6> QED BY <3>1, <4>3, <5>1, <6>1, <6>2 DEF Mapper!Numbered
        <5> QED BY <3>1, <4>1, <4>3, <5>1 DEF Mapper!Numbered
      <4>5. /\ DOMAIN index' = DOMAIN index \cup {n} /\ index'[n] = nextID
            /\ \A x \in DOMAIN index : index'[x] = index[x]
        BY <4>1, <4>2 DEF Mapper!Put
      <4>6. /\ \A x \in DOMAIN index' : index'[x] \in DOMAIN entries' /\ entries'[index'[x]] = x
            /\ \A i \in DOMAIN entries' : entries'[i] \in DOMAIN index'
        BY <3>1, <4>3, <4>5
      <4>7. \A x \in returned' : x.id \in DOMAIN entries' /\ entries'[x.id] = x.name
        BY <3>1, <4>1, <4>3
      <4>8. Mapper!MapInv'
        BY <1>0, <2>1, <2>3, <4>4, <4>6, <4>7 DEF Mapper!MapInv, Mapper!Finds
      <4>9. Mapper!DiskInv'
        BY <1>0, <2>1, <4>3 DEF Mapper!DiskInv, Mapper!Finds
      <4> QED BY <4>8, <4>9 DEF Mapper!IInv
    <3> QED BY <3>2, <3>3
  <2> QED BY <2>2, <2>3
<1>5. ASSUME NEW k \in Mapper!Keys, NEW v \in Values, Mapper!set_attribute(k, v) PROVE Mapper!IInv'
  <2>1. /\ up /\ UNCHANGED <<up, file, damaged, nextID, entries, index, returned>>
        /\ k \in DOMAIN argument => argument[k] = v
        /\ argument' = Mapper!Put(argument, k, v) /\ kept' = kept \cup {[key |-> k, value |-> v]}
    BY <1>5 DEF Mapper!set_attribute, Mapper!Others
  <2>2. /\ DOMAIN argument' = DOMAIN argument \cup {k} /\ argument'[k] = v
        /\ \A x \in DOMAIN argument : argument'[x] = argument[x]
    BY <2>1 DEF Mapper!Put
  <2>3. Mapper!MapInv'
    BY <1>0, <2>1, <2>2 DEF Mapper!MapInv, Mapper!Finds
  <2>4. Mapper!DiskInv'
    BY <1>0, <2>1, <2>2 DEF Mapper!DiskInv, Mapper!Finds
  <2> QED BY <2>3, <2>4 DEF Mapper!IInv
<1> QED BY <1>1, <1>2, <1>3, <1>4, <1>5 DEF Mapper!Next

\* Names and numbers belong together, in the vector and hence in what was returned.
LEMMA MapperResolves == Mapper!IInv => Mapper!AssociationsResolve
BY DEF Mapper!IInv, Mapper!MapInv, Mapper!AssociationsResolve, Mapper!Numbered, Mapper!Finds

-----------------------------------------------------------------------------
(* FileOntology.                                                           *)

\* What a process writes is not the mark of a missing file.
LEMMA OntologyContents ==
    ASSUME NEW torn
    PROVE  /\ Ontology!Contents(torn) # Ontology!NoFile
           /\ Ontology!Contents(torn).map = entries /\ Ontology!Contents(torn).nextID = nextID
           /\ Ontology!Contents(torn).torn = torn
<1>1. "map" \in DOMAIN Ontology!Contents(torn) /\ DOMAIN Ontology!NoFile = {"there"}
  BY DEF Ontology!Contents, Ontology!NoFile
<1>2. Ontology!Contents(torn) # Ontology!NoFile
  BY <1>1
<1> QED BY <1>2 DEF Ontology!Contents

\* The names that are made from a map.
LEMMA OntologyIndex ==
    ASSUME NEW map, NEW n, Ontology!Consistent(map, n)
    PROVE  LET names == Ontology!Index(map) IN
           /\ \A x \in DOMAIN names : names[x] \in DOMAIN map /\ map[names[x]].name = x
           /\ \A i \in DOMAIN map : map[i].name \in DOMAIN names /\ names[map[i].name] = i
<1>1. PICK names : names = Ontology!Index(map)
  OBVIOUS
<1>2. /\ DOMAIN names = {map[i].name : i \in DOMAIN map}
      /\ \A x \in DOMAIN names : names[x] = CHOOSE i \in DOMAIN map : map[i].name = x
  BY <1>1 DEF Ontology!Index
<1>3. \A x \in DOMAIN names : names[x] \in DOMAIN map /\ map[names[x]].name = x
  BY <1>2
<1>4. \A i \in DOMAIN map : map[i].name \in DOMAIN names /\ names[map[i].name] = i
  BY <1>2, <1>3 DEF Ontology!Consistent
<1> QED BY <1>1, <1>3, <1>4

\* What a process starts with: attributes of one of the files, those of the user's
\* one unless the site has some, and none after a file that is missing or torn.
LEMMA OntologyInit ==
    ASSUME Ontology!DiskInv
    PROVE  /\ Ontology!Consistent(Ontology!init.map, Ontology!init.nextID)
           /\ Ontology!Readable => Ontology!init.map = file.map
<1> DEFINE first == [map |-> Ontology!Nothing, nextID |-> 1, loadedID |-> 1]
           a == Ontology!Loaded(first, site)
<1>1. \A n \in Nat \ {0} : Ontology!Consistent(Ontology!Nothing, n)
  BY DEF Ontology!Consistent, Ontology!Nothing
<1>2. /\ site # Ontology!NoFile => ~site.torn /\ Ontology!Consistent(site.map, site.nextID)
      /\ file # Ontology!NoFile /\ ~file.torn => Ontology!Consistent(file.map, file.nextID)
  BY OntologyInstance DEF Ontology!OntologyAssumption, Ontology!DiskInv
<1>3. /\ a.nextID \in Nat \ {0} /\ Ontology!Consistent(a.map, a.nextID)
      /\ a.map = Ontology!Nothing <=> ~Ontology!Shadowed
  <2>1. CASE site = Ontology!NoFile
    <3>1. a = [first EXCEPT !.map = Ontology!Nothing]
      BY <2>1 DEF Ontology!Loaded
    <3>2. a.map = Ontology!Nothing /\ a.nextID = 1
      BY <3>1
    <3> QED BY <1>1, <2>1, <3>2 DEF Ontology!Shadowed
  <2>2. CASE site # Ontology!NoFile
    <3>1. a = [map |-> site.map, nextID |-> site.nextID, loadedID |-> site.nextID]
      BY <1>2, <2>2 DEF Ontology!Loaded
    <3>2. a.map = site.map /\ a.nextID = site.nextID
      BY <3>1
    <3> QED BY <1>2, <2>2, <3>2 DEF Ontology!Shadowed, Ontology!Consistent
  <2> QED BY <2>1, <2>2
<1>4. /\ Ontology!Shadowed => Ontology!init = a
      /\ ~Ontology!Shadowed => Ontology!init = Ontology!Loaded(a, file)
  BY <1>3 DEF Ontology!init
<1>5. a = [map |-> a.map, nextID |-> a.nextID, loadedID |-> a.loadedID]
  <2>1. CASE site = Ontology!NoFile
    BY <2>1 DEF Ontology!Loaded
  <2>2. CASE site # Ontology!NoFile
    BY <1>2, <2>2 DEF Ontology!Loaded
  <2> QED BY <2>1, <2>2
<1> HIDE DEF a
<1>6. CASE Ontology!Shadowed
  BY <1>3, <1>4, <1>6 DEF Ontology!Readable
<1>7. CASE ~Ontology!Shadowed /\ file = Ontology!NoFile
  <2>1. Ontology!init = [a EXCEPT !.map = Ontology!Nothing]
    BY <1>4, <1>7 DEF Ontology!Loaded
  <2>2. Ontology!init.map = Ontology!Nothing /\ Ontology!init.nextID = a.nextID
    BY <1>5, <2>1
  <2> QED BY <1>1, <1>3, <1>7, <2>2 DEF Ontology!Readable
<1>8. CASE ~Ontology!Shadowed /\ file # Ontology!NoFile /\ file.torn
  <2>1. Ontology!init = [a EXCEPT !.map = Ontology!Nothing, !.nextID = 1]
    BY <1>4, <1>8 DEF Ontology!Loaded
  <2>2. Ontology!init.map = Ontology!Nothing /\ Ontology!init.nextID = 1
    BY <1>5, <2>1
  <2> QED BY <1>1, <1>8, <2>2 DEF Ontology!Readable
<1>9. CASE ~Ontology!Shadowed /\ file # Ontology!NoFile /\ ~file.torn
  <2>1. Ontology!init = [map |-> file.map, nextID |-> file.nextID, loadedID |-> file.nextID]
    BY <1>4, <1>9 DEF Ontology!Loaded
  <2>2. Ontology!init.map = file.map /\ Ontology!init.nextID = file.nextID
    BY <2>1
  <2> QED BY <1>2, <1>9, <2>2
<1> QED BY <1>6, <1>7, <1>8, <1>9

\* A process that dies or ends leaves its attributes in the file, or the old file.
LEMMA OntologyGone ==
    ASSUME Ontology!IInv, NEW f, Ontology!Gone(f),
           f = file \/ f = Ontology!Contents(TRUE) \/ f = Ontology!Contents(FALSE)
    PROVE  Ontology!IInv'
<1>1. /\ up /\ ~up' /\ file' = f /\ entries' = Ontology!Nothing /\ kept' = {} /\ kMutex' = Ontology!Free
      /\ kPc' = [t \in Callers |-> "idle"] /\ argument' = [t \in Callers |-> Ontology!NoArgument]
      /\ second' = [t \in Callers |-> Ontology!NoArgument] /\ UNCHANGED site
      /\ returned' = {r \in returned : /\ f # Ontology!NoFile /\ ~Ontology!Shadowed /\ ~f.torn
                                       /\ r.id \in DOMAIN f.map}
  BY DEF Ontology!Gone
<1>2. Ontology!ThreadInv'
  BY <1>1, OntologyInstance DEF Ontology!ThreadInv, Ontology!OntologyAssumption
<1>3. Ontology!MapInv' /\ Ontology!ReturnedInv'
  BY <1>1 DEF Ontology!MapInv, Ontology!ReturnedInv
<1>4. /\ Ontology!Consistent(entries, nextID) /\ \A r \in returned : Ontology!Known(r, entries)
      /\ site \in OntologySites
      /\ file # Ontology!NoFile /\ ~file.torn => Ontology!Consistent(file.map, file.nextID)
      /\ Ontology!Readable => \A i \in DOMAIN file.map :
            /\ i \in DOMAIN entries
            /\ entries[i].name = file.map[i].name /\ entries[i].type = file.map[i].type
  BY <1>1 DEF Ontology!IInv, Ontology!MapInv, Ontology!ReturnedInv, Ontology!DiskInv
<1>5. /\ f # Ontology!NoFile /\ ~f.torn => Ontology!Consistent(f.map, f.nextID)
      /\ \A r \in returned' : Ontology!Known(r, f.map)
  <2>1. CASE f = file
    BY <1>1, <1>4, <2>1 DEF Ontology!Known, Ontology!Readable
  <2>2. CASE f = Ontology!Contents(TRUE) \/ f = Ontology!Contents(FALSE)
    <3>1. f.map = entries /\ f.nextID = nextID
      BY <2>2, OntologyContents
    <3> QED BY <1>1, <1>4, <3>1
  <2> QED BY <2>1, <2>2
<1>6. Ontology!DiskInv'
  BY <1>1, <1>4, <1>5 DEF Ontology!DiskInv, Ontology!Readable, Ontology!Shadowed
<1> QED BY <1>2, <1>3, <1>6 DEF Ontology!IInv

\* Every step of the ontology keeps its invariant.
LEMMA OntologyInductive == Ontology!IInv /\ Ontology!Next => Ontology!IInv'
<1> SUFFICES ASSUME Ontology!IInv, Ontology!Next PROVE Ontology!IInv'
  OBVIOUS
<1>0. Ontology!ThreadInv /\ Ontology!MapInv /\ Ontology!ReturnedInv /\ Ontology!DiskInv
  BY DEF Ontology!IInv
<1>f. Ontology!Free \notin Callers
  BY OntologyInstance DEF Ontology!OntologyAssumption
<1>d. ASSUME UNCHANGED <<up, site, file, entries>>, \A r \in returned' : r \in returned \/ up
      PROVE  Ontology!DiskInv'
  BY <1>0, <1>d DEF Ontology!DiskInv, Ontology!Readable, Ontology!Shadowed
<1>1. CASE Ontology!Start
  <2>1. /\ ~up /\ up' /\ entries' = Ontology!init.map /\ index' = Ontology!Index(Ontology!init.map)
        /\ nextID' = Ontology!init.nextID
        /\ UNCHANGED <<kMutex, kPc, argument, second, site, file, returned, kept>>
    BY <1>1 DEF Ontology!Start, Ontology!threadVars
  <2>2. PICK map : map = Ontology!init.map
    OBVIOUS
  <2>3. Ontology!Consistent(map, nextID') /\ (Ontology!Readable => map = file.map)
    BY <1>0, <2>1, <2>2, OntologyInit
  <2>4. /\ \A x \in DOMAIN index' : index'[x] \in DOMAIN map /\ map[index'[x]].name = x
        /\ \A i \in DOMAIN map : map[i].name \in DOMAIN index' /\ index'[map[i].name] = i
    BY <2>1, <2>2, <2>3, OntologyIndex
  <2>5. (\A t \in Callers : kPc[t] = "idle") /\ kept = {}
    BY <1>0, <2>1 DEF Ontology!ThreadInv
  <2>6. Ontology!ThreadInv'
    BY <1>0, <2>1 DEF Ontology!ThreadInv
  <2>7. Ontology!MapInv'
    BY <2>1, <2>2, <2>3, <2>4, <2>5 DEF Ontology!MapInv
  <2>8. \A r \in returned : Ontology!Readable /\ Ontology!Known(r, file.map)
    BY <1>0, <2>1 DEF Ontology!DiskInv
  <2>9. Ontology!ReturnedInv'
    BY <2>1, <2>2, <2>3, <2>5, <2>8 DEF Ontology!ReturnedInv
  <2>10. Ontology!DiskInv'
    BY <1>0, <2>1, <2>2, <2>3 DEF Ontology!DiskInv, Ontology!Readable, Ontology!Shadowed
  <2> QED BY <2>6, <2>7, <2>9, <2>10 DEF Ontology!IInv
<1>2. CASE Ontology!Exit \/ Ontology!Crash
  BY <1>2, OntologyGone DEF Ontology!Exit, Ontology!Crash
<1>3. ASSUME NEW t \in Callers, NEW a \in Attributes, Ontology!Register(t, a) PROVE Ontology!IInv'
  <2>1. /\ up /\ kPc[t] = "idle" /\ argument' = [argument EXCEPT ![t] = a.name]
        /\ second' = [second EXCEPT ![t] = a.type]
        /\ UNCHANGED <<entries, index, nextID, kMutex, returned, up, site, file, kept>>
        /\ \/ a.name \in DOMAIN index /\ kPc' = [kPc EXCEPT ![t] = "check"]
           \/ kPc' = [kPc EXCEPT ![t] = "lock"]
    BY <1>3 DEF Ontology!Register, Ontology!memory, Ontology!Others
  <2>2. /\ kPc \in [Callers -> {"idle", "lock", "make", "unlock", "check"}]
        /\ DOMAIN argument = Callers /\ DOMAIN second = Callers
    BY <1>0 DEF Ontology!ThreadInv
  <2>3. Ontology!ThreadInv'
    BY <1>0, <2>1, <2>2 DEF Ontology!ThreadInv
  <2>4. Ontology!MapInv'
    BY <1>0, <2>1, <2>2 DEF Ontology!MapInv
  <2>5. Ontology!ReturnedInv'
    BY <1>0, <2>1 DEF Ontology!ReturnedInv
  <2> QED BY <1>d, <2>1, <2>3, <2>4, <2>5 DEF Ontology!IInv
<1>4. ASSUME NEW t \in Callers, Ontology!Lock(t) PROVE Ontology!IInv'
  <2> DEFINE n == argument[t]
             there == n \in DOMAIN index
  <2>1. /\ kPc[t] = "lock" /\ kMutex = Ontology!Free /\ kMutex' = t
        /\ index' = IF there THEN index ELSE Ontology!Put(index, n, Ontology!Null)
        /\ kPc' = [kPc EXCEPT ![t] = IF there /\ index[n] # Ontology!Null THEN "unlock" ELSE "make"]
        /\ UNCHANGED <<entries, nextID, argument, second, returned, up, site, file, kept>>
    BY <1>4 DEF Ontology!Lock, Ontology!Others
  <2>2. kPc \in [Callers -> {"idle", "lock", "make", "unlock", "check"}] /\ up
    BY <1>0, <2>1 DEF Ontology!ThreadInv
  <2>3. /\ DOMAIN index' = DOMAIN index \cup {n} /\ (n \notin DOMAIN index => index'[n] = Ontology!Null)
        /\ \A x \in DOMAIN index : index'[x] = index[x]
    BY <2>1 DEF Ontology!Put
  <2>4. kPc'[t] = "make" => index'[n] = Ontology!Null
    BY <2>1, <2>2, <2>3
  <2>5. Ontology!ThreadInv'
    BY <1>0, <1>f, <2>1, <2>2 DEF Ontology!ThreadInv
  <2>6. Ontology!MapInv'
    <3> HIDE DEF n
    <3>1. /\ Ontology!Consistent(entries, nextID)
          /\ \A x \in DOMAIN index : index[x] = Ontology!Null \/ (index[x] \in DOMAIN entries /\ entries[index[x]].name = x)
          /\ \A i \in DOMAIN entries : entries[i].name \in DOMAIN index /\ index[entries[i].name] = i
          /\ \A u \in Callers : /\ kPc[u] \in {"make", "unlock", "check"} => argument[u] \in DOMAIN index
                                /\ kPc[u] = "make" => index[argument[u]] = Ontology!Null
      BY <1>0, <2>2 DEF Ontology!MapInv
    <3>2. \A x \in DOMAIN index' : index'[x] = Ontology!Null \/ (index'[x] \in DOMAIN entries /\ entries[index'[x]].name = x)
      BY <2>3, <3>1
    <3>3. \A i \in DOMAIN entries : entries[i].name \in DOMAIN index' /\ index'[entries[i].name] = i
      BY <2>3, <3>1
    <3>4. ASSUME NEW u \in Callers
          PROVE  /\ kPc'[u] \in {"make", "unlock", "check"} => argument[u] \in DOMAIN index'
                 /\ kPc'[u] = "make" => index'[argument[u]] = Ontology!Null
      <4>1. CASE u = t
        BY <2>3, <2>4, <4>1 DEF n
      <4>2. CASE u # t
        BY <2>1, <2>2, <2>3, <3>1, <4>2
      <4> QED BY <4>1, <4>2
    <3> QED BY <2>1, <3>1, <3>2, <3>3, <3>4 DEF Ontology!MapInv
  <2>7. Ontology!ReturnedInv'
    BY <1>0, <2>1 DEF Ontology!ReturnedInv
  <2> QED BY <1>d, <2>1, <2>5, <2>6, <2>7 DEF Ontology!IInv
<1>5. ASSUME NEW t \in Callers, Ontology!Make(t) PROVE Ontology!IInv'
  <2> DEFINE n == argument[t]
             new == [name |-> n, type |-> second[t], metas |-> << >>]
  <2>1. /\ kPc[t] = "make" /\ nextID' = nextID + 1 /\ entries' = Ontology!Put(entries, nextID, new)
        /\ index' = Ontology!Put(index, n, nextID) /\ kPc' = [kPc EXCEPT ![t] = "unlock"]
        /\ UNCHANGED <<kMutex, argument, second, returned, up, site, file, kept>>
    BY <1>5 DEF Ontology!Make, Ontology!Others
  <2>2. kPc \in [Callers -> {"idle", "lock", "make", "unlock", "check"}] /\ up /\ kMutex = t
    BY <1>0, <2>1 DEF Ontology!ThreadInv
  <2>3. /\ Ontology!Consistent(entries, nextID)
        /\ \A x \in DOMAIN index : index[x] = Ontology!Null \/ (index[x] \in DOMAIN entries /\ entries[index[x]].name = x)
        /\ \A i \in DOMAIN entries : entries[i].name \in DOMAIN index /\ index[entries[i].name] = i
        /\ \A u \in Callers : /\ kPc[u] \in {"make", "unlock", "check"} => argument[u] \in DOMAIN index
                              /\ kPc[u] = "make" => index[argument[u]] = Ontology!Null
    BY <1>0, <2>2 DEF Ontology!MapInv
  <2>4. /\ nextID \in Nat \ {0} /\ DOMAIN entries \subseteq 1 .. nextID - 1 /\ nextID \notin DOMAIN entries
        /\ n \in DOMAIN index /\ index[n] = 0
    BY <2>1, <2>3 DEF Ontology!Consistent, Ontology!Null
  <2>5. \A i \in DOMAIN entries : entries[i].name # n
    BY <2>3, <2>4
  <2>6. new.name = n /\ new.metas = << >> /\ DOMAIN new = {"name", "type", "metas"}
    OBVIOUS
  <2> HIDE DEF n, new
  <2>7. /\ DOMAIN entries' = DOMAIN entries \cup {nextID} /\ entries'[nextID] = new
        /\ \A i \in DOMAIN entries : entries'[i] = entries[i]
        /\ DOMAIN index' = DOMAIN index /\ index'[n] = nextID
        /\ \A x \in DOMAIN index : x # n => index'[x] = index[x]
    BY <2>1, <2>4 DEF Ontology!Put
  <2>8. Ontology!ThreadInv'
    BY <1>0, <2>1, <2>2 DEF Ontology!ThreadInv
  <2>9. Ontology!Consistent(entries', nextID')
    <3>1. DOMAIN entries' \subseteq 1 .. nextID' - 1 /\ nextID' \in Nat \ {0}
      BY <2>1, <2>4, <2>7
    <3>2. \A i, j \in DOMAIN entries' : entries'[i].name = entries'[j].name => i = j
      BY <2>3, <2>5, <2>6, <2>7 DEF Ontology!Consistent
    <3>3. ASSUME NEW i \in DOMAIN entries'
          PROVE  /\ DOMAIN entries'[i] = {"name", "type", "metas"}
                 /\ entries'[i].metas \in Seq(Ontology!Settings)
                 /\ \A k, l \in DOMAIN entries'[i].metas :
                       entries'[i].metas[k].meta = entries'[i].metas[l].meta => k = l
      <4>1. CASE i = nextID
        <5>1. << >> \in Seq(Ontology!Settings) /\ DOMAIN << >> = {}
          OBVIOUS
        <5> QED BY <2>6, <2>7, <4>1, <5>1
      <4>2. CASE i \in DOMAIN entries
        BY <2>3, <2>7, <4>2 DEF Ontology!Consistent
      <4> QED BY <2>7, <4>1, <4>2
    <3> QED BY <3>1, <3>2, <3>3 DEF Ontology!Consistent
  <2>10. Ontology!MapInv'
    <3>1. \A x \in DOMAIN index' : index'[x] = Ontology!Null \/ (index'[x] \in DOMAIN entries' /\ entries'[index'[x]].name = x)
      BY <2>3, <2>6, <2>7
    <3>2. \A i \in DOMAIN entries' : entries'[i].name \in DOMAIN index' /\ index'[entries'[i].name] = i
      BY <2>3, <2>4, <2>5, <2>6, <2>7
    <3>3. ASSUME NEW u \in Callers
          PROVE  /\ kPc'[u] \in {"make", "unlock", "check"} => argument[u] \in DOMAIN index'
                 /\ kPc'[u] # "make"
      <4>1. CASE u = t
        BY <2>1, <2>2, <2>4, <2>7, <4>1 DEF n
      <4>2. CASE u # t
        <5>1. kPc[u] # "make" /\ kPc'[u] = kPc[u]
          BY <1>0, <2>1, <2>2, <4>2 DEF Ontology!ThreadInv
        <5> QED BY <2>3, <2>7, <5>1
      <4> QED BY <4>1, <4>2
    <3> QED BY <2>1, <2>9, <3>1, <3>2, <3>3 DEF Ontology!MapInv
  <2>11. Ontology!ReturnedInv'
    BY <1>0, <2>1, <2>2, <2>7 DEF Ontology!ReturnedInv, Ontology!Known
  <2>12. Ontology!DiskInv'
    BY <1>0, <2>1, <2>2, <2>7 DEF Ontology!DiskInv, Ontology!Readable, Ontology!Shadowed
  <2> QED BY <2>8, <2>10, <2>11, <2>12 DEF Ontology!IInv
<1>6. ASSUME NEW t \in Callers, Ontology!Unlock(t) PROVE Ontology!IInv'
  <2>1. /\ kPc[t] = "unlock" /\ kMutex' = Ontology!Free /\ kPc' = [kPc EXCEPT ![t] = "check"]
        /\ UNCHANGED <<entries, index, nextID, argument, second, returned, up, site, file, kept>>
    BY <1>6 DEF Ontology!Unlock, Ontology!memory, Ontology!Others
  <2>2. Ontology!ThreadInv'
    BY <1>0, <1>f, <2>1 DEF Ontology!ThreadInv
  <2>3. kPc \in [Callers -> {"idle", "lock", "make", "unlock", "check"}]
    BY <1>0 DEF Ontology!ThreadInv
  <2>4. Ontology!MapInv'
    BY <1>0, <2>1, <2>3 DEF Ontology!MapInv
  <2>5. Ontology!ReturnedInv'
    BY <1>0, <2>1 DEF Ontology!ReturnedInv
  <2> QED BY <1>d, <2>1, <2>2, <2>4, <2>5 DEF Ontology!IInv
<1>7. ASSUME NEW t \in Callers, Ontology!Check(t) PROVE Ontology!IInv'
  <2> DEFINE i == index[argument[t]]
  <2>1. /\ kPc[t] = "check" /\ i # Ontology!Null /\ kPc' = [kPc EXCEPT ![t] = "idle"]
        /\ argument' = [argument EXCEPT ![t] = Ontology!NoArgument]
        /\ second' = [second EXCEPT ![t] = Ontology!NoArgument]
        /\ UNCHANGED <<entries, index, nextID, kMutex, up, site, file, kept>>
        /\ returned' = IF entries[i].type = second[t]
                       THEN returned \cup {[name |-> argument[t], type |-> second[t], id |-> i]}
                       ELSE returned
    BY <1>7 DEF Ontology!Check, Ontology!memory, Ontology!Others
  <2>2. /\ kPc \in [Callers -> {"idle", "lock", "make", "unlock", "check"}] /\ up
        /\ DOMAIN argument = Callers /\ DOMAIN second = Callers
    BY <1>0, <2>1 DEF Ontology!ThreadInv
  <2>3. i \in DOMAIN entries /\ entries[i].name = argument[t]
    BY <1>0, <2>1, <2>2 DEF Ontology!MapInv
  <2>4. Ontology!ThreadInv'
    BY <1>0, <2>1, <2>2 DEF Ontology!ThreadInv
  <2>5. Ontology!MapInv'
    BY <1>0, <2>1, <2>2 DEF Ontology!MapInv
  <2> HIDE DEF i
  <2>6. \A r \in returned' : Ontology!Known(r, entries)
    BY <1>0, <2>1, <2>2, <2>3 DEF Ontology!ReturnedInv, Ontology!Known
  <2>7. Ontology!ReturnedInv'
    BY <1>0, <2>1, <2>2, <2>6 DEF Ontology!ReturnedInv
  <2> QED BY <1>d, <2>1, <2>2, <2>4, <2>5, <2>7 DEF Ontology!IInv
<1>8. ASSUME NEW t \in Callers, Ontology!CheckNull(t) PROVE Ontology!IInv'
  BY <1>8, OntologyGone DEF Ontology!CheckNull
<1>9. ASSUME NEW t \in Callers, NEW x \in Metas, {x.att, x.meta} \subseteq DOMAIN entries,
             Ontology!SetMeta(t, x.att, x.meta, x.value)
      PROVE  Ontology!IInv'
  <2> DEFINE at == x.att
             ms == entries[at].metas
             found == {k \in DOMAIN ms : ms[k].meta = x.meta}
             set == [meta |-> x.meta, value |-> x.value]
             done == [att |-> x.att, meta |-> x.meta, value |-> x.value]
  <2>1. UNCHANGED <<up, index, nextID, kMutex, kPc, argument, second, site, file, returned>>
    BY <1>9 DEF Ontology!SetMeta, Ontology!threadVars
  <2>2. up /\ at \in DOMAIN entries
    <3>1. DOMAIN Ontology!Nothing = {}
      BY DEF Ontology!Nothing
    <3> QED BY <1>0, <1>9, <3>1 DEF Ontology!ThreadInv
  <2>3. /\ nextID \in Nat \ {0} /\ DOMAIN entries \subseteq 1 .. nextID - 1
        /\ ms \in Seq(Ontology!Settings)
        /\ \A k, l \in DOMAIN ms : ms[k].meta = ms[l].meta => k = l
    BY <1>0, <2>2 DEF Ontology!MapInv, Ontology!Consistent
  <2>4. DOMAIN ms = 1 .. Len(ms) /\ Len(ms) \in Nat
    BY <2>3
  <2>5. set \in Ontology!Settings /\ set.meta = x.meta /\ set.value = x.value
    BY OntologyInstance DEF Ontology!Settings, Ontology!OntologyAssumption
  <2>6. CASE found = {}
    <3>1. Ontology!lookupAttributeIndex(x.att, x.meta) = 0
      BY <2>6 DEF Ontology!lookupAttributeIndex
    <3>2. /\ entries' = [entries EXCEPT ![at].metas = Append(@, set)] /\ kept' = kept \cup {done}
      <4>1. \/ entries' = [entries EXCEPT ![at].metas = Append(@, set)] /\ kept' = kept \cup {done}
            \/ Ontology!lookupAttributeIndex(x.att, x.meta) # 0
        BY <1>9 DEF Ontology!SetMeta
      <4> QED BY <3>1, <4>1
    <3>3. DOMAIN entries[at] = {"name", "type", "metas"}
      BY <1>0, <2>2 DEF Ontology!MapInv, Ontology!Consistent
    <3>4. PICK new : new = Append(ms, set)
      OBVIOUS
    <3>5. /\ DOMAIN entries' = DOMAIN entries /\ \A i \in DOMAIN entries : i # at => entries'[i] = entries[i]
          /\ DOMAIN entries'[at] = {"name", "type", "metas"} /\ entries'[at].metas = new
          /\ entries'[at].name = entries[at].name /\ entries'[at].type = entries[at].type
      BY <2>2, <3>2, <3>3, <3>4
    <3>6. /\ new \in Seq(Ontology!Settings) /\ DOMAIN new = 1 .. Len(ms) + 1
          /\ \A k \in DOMAIN ms : new[k] = ms[k]
          /\ new[Len(ms) + 1] = set
      <4> HIDE DEF ms, set
      <4> QED BY <2>3, <2>4, <2>5, <3>4
    <3>7. \A k, l \in DOMAIN new : new[k].meta = new[l].meta => k = l
      <4>1. \A k \in DOMAIN ms : ms[k].meta # set.meta
        BY <2>5, <2>6
      <4> HIDE DEF ms, set, found
      <4> QED BY <2>3, <2>4, <3>6, <4>1
    <3> HIDE DEF at, ms, set, found
    <3>8. \A i \in DOMAIN entries : entries'[i].name = entries[i].name /\ entries'[i].type = entries[i].type
      BY <3>5
    <3>9. Ontology!Consistent(entries, nextID)
      BY <1>0, <2>2 DEF Ontology!MapInv
    <3>10. Ontology!Consistent(entries', nextID)
      <4>1. ASSUME NEW i \in DOMAIN entries'
            PROVE  /\ DOMAIN entries'[i] = {"name", "type", "metas"}
                   /\ entries'[i].metas \in Seq(Ontology!Settings)
                   /\ \A k, l \in DOMAIN entries'[i].metas :
                         entries'[i].metas[k].meta = entries'[i].metas[l].meta => k = l
        <5>1. CASE i = at
          BY <3>5, <3>6, <3>7, <5>1
        <5>2. CASE i # at
          BY <3>5, <3>9, <5>2 DEF Ontology!Consistent
        <5> QED BY <5>1, <5>2
      <4>2. \A i, j \in DOMAIN entries' : entries'[i].name = entries'[j].name => i = j
        BY <3>5, <3>8, <3>9 DEF Ontology!Consistent
      <4> QED BY <2>3, <3>5, <4>1, <4>2 DEF Ontology!Consistent
    <3>11. Ontology!ThreadInv'
      BY <1>0, <2>1, <2>2 DEF Ontology!ThreadInv
    <3>12. Ontology!MapInv'
      BY <1>0, <2>1, <2>2, <3>5, <3>8, <3>10 DEF Ontology!MapInv
    <3>13. \A r \in returned : Ontology!Known(r, entries')
      BY <1>0, <2>2, <3>5, <3>8 DEF Ontology!ReturnedInv, Ontology!Known
    <3>14. ASSUME NEW y \in kept'
           PROVE  /\ y.att \in DOMAIN entries'
                  /\ \E k \in DOMAIN entries'[y.att].metas :
                        entries'[y.att].metas[k].meta = y.meta /\ entries'[y.att].metas[k].value = y.value
      <4>1. CASE y = done
        <5>1. y.att = at /\ y.meta = x.meta /\ y.value = x.value
          BY <4>1 DEF at
        <5>2. Len(ms) + 1 \in DOMAIN new
          BY <2>4, <3>6
        <5> QED BY <2>2, <2>5, <3>5, <3>6, <5>1, <5>2
      <4>2. CASE y \in kept
        <5>1. PICK k \in DOMAIN entries[y.att].metas :
                   entries[y.att].metas[k].meta = y.meta /\ entries[y.att].metas[k].value = y.value
          BY <1>0, <2>2, <4>2 DEF Ontology!ReturnedInv
        <5>2. y.att \in DOMAIN entries
          BY <1>0, <2>2, <4>2 DEF Ontology!ReturnedInv
        <5>3. CASE y.att # at
          BY <3>5, <5>1, <5>2, <5>3
        <5>4. CASE y.att = at
          <6>1. k \in DOMAIN ms /\ ms[k].meta = y.meta /\ ms[k].value = y.value
            BY <5>1, <5>4 DEF ms
          <6>2. k \in DOMAIN new /\ new[k] = ms[k]
            BY <2>4, <3>6, <6>1
          <6> QED BY <3>5, <5>2, <5>4, <6>1, <6>2
        <5> QED BY <5>3, <5>4
      <4> QED BY <3>2, <4>1, <4>2
    <3>15. Ontology!ReturnedInv'
      BY <2>1, <3>13, <3>14 DEF Ontology!ReturnedInv
    <3>16. Ontology!DiskInv'
      BY <1>0, <2>1, <2>2, <3>5, <3>8 DEF Ontology!DiskInv, Ontology!Readable, Ontology!Shadowed
    <3> QED BY <3>11, <3>12, <3>15, <3>16 DEF Ontology!IInv
  <2>7. CASE found # {}
    <3>1. PICK k \in DOMAIN ms : found = {k}
      BY <2>3, <2>7
    <3>2. Ontology!lookupAttributeIndex(x.att, x.meta) = k /\ k # 0
      <4>1. Ontology!lookupAttributeIndex(x.att, x.meta) = CHOOSE j \in found : \A l \in found : j <= l
        BY <2>7 DEF Ontology!lookupAttributeIndex
      <4>2. k \in Nat \ {0}
        BY <2>4, <3>1
      <4> HIDE DEF found
      <4>3. \A j \in found : j = k
        BY <3>1
      <4>4. k \in found /\ \A l \in found : k <= l
        BY <3>1, <4>2
      <4> QED BY <4>1, <4>2, <4>3, <4>4
    <3>3. UNCHANGED entries /\ ms[k].value = x.value /\ kept' = kept \cup {done}
      <4>1. \/ Ontology!lookupAttributeIndex(x.att, x.meta) = 0
            \/ /\ entries[x.att].metas[Ontology!lookupAttributeIndex(x.att, x.meta)].value = x.value
               /\ UNCHANGED entries /\ kept' = kept \cup {done}
        BY <1>9 DEF Ontology!SetMeta
      <4> QED BY <3>2, <4>1
    <3>4. k \in DOMAIN entries[at].metas /\ entries[at].metas[k].meta = x.meta
      BY <3>1
    <3>5. Ontology!ThreadInv' /\ Ontology!MapInv'
      BY <1>0, <2>1, <2>2, <3>3 DEF Ontology!ThreadInv, Ontology!MapInv
    <3>6. /\ done.att \in DOMAIN entries
          /\ \E j \in DOMAIN entries[done.att].metas :
                entries[done.att].metas[j].meta = done.meta /\ entries[done.att].metas[j].value = done.value
      BY <2>2, <3>3, <3>4
    <3> HIDE DEF done
    <3>7. Ontology!ReturnedInv'
      BY <1>0, <2>1, <2>2, <3>3, <3>6 DEF Ontology!ReturnedInv
    <3> QED BY <1>d, <2>1, <3>3, <3>5, <3>7 DEF Ontology!IInv
  <2> QED BY <2>6, <2>7
<1> QED BY <1>1, <1>2, <1>3, <1>4, <1>5, <1>6, <1>7, <1>8, <1>9 DEF Ontology!Next

\* The invariant of the ontology gives what its users rely on.
LEMMA OntologyAgrees == Ontology!IInv => Ontology!AttributesAgree
<1> SUFFICES ASSUME Ontology!IInv, up PROVE Ontology!AttributesAgree
  BY DEF Ontology!AttributesAgree
<1>1. /\ Ontology!Consistent(entries, nextID) /\ \A r \in returned : Ontology!Known(r, entries)
      /\ \A i \in DOMAIN entries : entries[i].name \in DOMAIN index /\ index[entries[i].name] = i
  BY DEF Ontology!IInv, Ontology!MapInv, Ontology!ReturnedInv
<1>2. /\ \A r, s \in returned : (r.name = s.name) <=> (r.id = s.id)
      /\ \A r, s \in returned : r.id = s.id => r.type = s.type
  BY <1>1 DEF Ontology!Consistent, Ontology!Known
<1>3. \A r \in returned : Ontology!ById(r.id) = r.name /\ Ontology!ByName(r.name) = r.id
  BY <1>1 DEF Ontology!Known, Ontology!ById, Ontology!ByName
<1>4. ASSUME NEW x \in kept
      PROVE  LET k == Ontology!lookupAttributeIndex(x.att, x.meta)
             IN  k # 0 /\ entries[x.att].metas[k].value = x.value
  <2> DEFINE ms == entries[x.att].metas
             found == {k \in DOMAIN ms : ms[k].meta = x.meta}
  <2>1. x.att \in DOMAIN entries /\ \E j \in DOMAIN ms : ms[j].meta = x.meta /\ ms[j].value = x.value
    BY DEF Ontology!IInv, Ontology!ReturnedInv
  <2>2. PICK k \in DOMAIN ms : ms[k].meta = x.meta /\ ms[k].value = x.value
    BY <2>1
  <2>3. ms \in Seq(Ontology!Settings) /\ \A j, l \in DOMAIN ms : ms[j].meta = ms[l].meta => j = l
    BY <1>1, <2>1 DEF Ontology!Consistent
  <2>4. k \in Nat \ {0}
    <3> HIDE DEF ms
    <3> QED BY <2>2, <2>3
  <2>5. k \in found /\ \A j \in found : j = k
    BY <2>2, <2>3
  <2>6. Ontology!lookupAttributeIndex(x.att, x.meta) = CHOOSE j \in found : \A l \in found : j <= l
    BY <2>5 DEF Ontology!lookupAttributeIndex
  <2>7. Ontology!lookupAttributeIndex(x.att, x.meta) = k
    <3> HIDE DEF found
    <3> QED BY <2>4, <2>5, <2>6
  <2> QED BY <2>2, <2>4, <2>7
<1> QED BY <1>2, <1>3, <1>4 DEF Ontology!AttributesAgree

-----------------------------------------------------------------------------
(* FileSystemInformation.                                                  *)

\* The maps are different ones for different purposes.
LEMMA SystemMaps ==
    /\ \A k \in System!Kinds : System!Forward(k) \in System!Members
    /\ \A k : System!NameMap(k) \in System!Members /\ System!ScopeMap(k) \subseteq System!Members
    /\ \A k \in System!Kinds : \A l : /\ System!Forward(k) # System!NameMap(l)
                                      /\ System!Forward(k) \notin System!ScopeMap(l)
    /\ \A k, l : System!NameMap(k) \notin System!ScopeMap(l)
    /\ \A k, l \in System!Kinds : System!Forward(k) = System!Forward(l) => k = l
    /\ \A k : \E l \in System!Kinds : /\ System!NameMap(k) = System!NameMap(l)
                                      /\ System!ScopeMap(k) = System!ScopeMap(l)
    /\ "activityMap" \in System!Members
<1>0. DOMAIN System!Archive = 1 .. 9
  BY DEF System!Archive
<1>1. {"valueStringMap", "deviceNodeMap", "interfaceImplStrMap", "interfaceImplMap", "deviceMap",
       "filesystemMap", "nodeMap", "activityInterfaceIDMap", "activityMap"} \subseteq System!Members
  <2>1. /\ System!Archive[1] = "valueStringMap" /\ System!Archive[2] = "deviceNodeMap"
        /\ System!Archive[3] = "interfaceImplStrMap" /\ System!Archive[4] = "interfaceImplMap"
        /\ System!Archive[5] = "deviceMap" /\ System!Archive[6] = "filesystemMap"
        /\ System!Archive[7] = "nodeMap" /\ System!Archive[8] = "activityInterfaceIDMap"
        /\ System!Archive[9] = "activityMap"
    BY DEF System!Archive
  <2>2. \A i \in 1 .. 9 : System!Archive[i] \in System!Members
    BY <1>0 DEF System!Members
  <2> QED BY <2>1, <2>2
<1>2. \A k \in System!Kinds :
         System!Forward(k) \in {"nodeMap", "deviceMap", "filesystemMap", "interfaceImplMap", "activityMap"}
  BY DEF System!Kinds, System!Forward
<1>3. \A k : System!NameMap(k) \in {"interfaceImplStrMap", "valueStringMap"}
  BY DEF System!NameMap
<1>4. \A k : System!ScopeMap(k) \subseteq {"deviceNodeMap", "activityInterfaceIDMap"}
  BY DEF System!ScopeMap
<1>5. \A k, l \in System!Kinds : System!Forward(k) = System!Forward(l) => k = l
  BY DEF System!Kinds, System!Forward
<1>6. ASSUME NEW k
      PROVE  \E l \in System!Kinds : /\ System!NameMap(k) = System!NameMap(l)
                                     /\ System!ScopeMap(k) = System!ScopeMap(l)
  <2>1. CASE k \in System!Kinds
    BY <2>1
  <2>2. CASE k \notin System!Kinds
    <3>1. /\ System!NameMap(k) = System!NameMap("node") /\ System!ScopeMap(k) = System!ScopeMap("node")
          /\ "node" \in System!Kinds
      BY <2>2 DEF System!Kinds, System!NameMap, System!ScopeMap
    <3> QED BY <3>1
  <2> QED BY <2>1, <2>2
<1> QED BY <1>1, <1>2, <1>3, <1>4, <1>5, <1>6

\* A file that a process wrote is not the mark of a missing one.
LEMMA SystemContents ==
    ASSUME NEW ms, NEW n, NEW r
    PROVE  [maps |-> ms, nextID |-> n, readable |-> r] # System!NoFile
<1>1. DOMAIN [maps |-> ms, nextID |-> n, readable |-> r] = {"maps", "nextID", "readable"}
  OBVIOUS
<1>2. DOMAIN System!NoFile = {"there"}
  BY DEF System!NoFile
<1> QED BY <1>1, <1>2

\* The site's file s decides, and if it has no activities, that of the user, f.
SystemStart(s, f) ==
    LET a == System!Loaded(System!Fresh, s)
    IN  IF a.maps["activityMap"] = System!Absent THEN System!Loaded(a, f) ELSE a

\* What a process reads from whole files.
LEMMA SystemStarts ==
    ASSUME NEW s \in SystemSites, NEW f
    PROVE  LET start == SystemStart(s, f)
               shadowed == s # System!NoFile /\ s.maps["activityMap"] # System!Absent
           IN  /\ shadowed => /\ start.maps = s.maps /\ start.nextID = s.nextID
                              /\ start.loadedNextID = start.nextID
                              /\ System!Consistent(start.maps, start.nextID)
               /\ ~shadowed /\ f = System!NoFile =>
                     /\ start.loadedNextID = start.nextID /\ System!Consistent(start.maps, start.nextID)
               /\ /\ ~shadowed /\ f # System!NoFile /\ f.readable = Len(System!Archive)
                  /\ f.maps = [x \in System!Members |-> f.maps[x]]
                  => /\ start.maps = f.maps /\ start.nextID = f.nextID
                     /\ start.loadedNextID = start.nextID
<1> DEFINE a == System!Loaded(System!Fresh, s)
           shadowed == s # System!NoFile /\ s.maps["activityMap"] # System!Absent
<1>0. Len(System!Archive) = 9 /\ DOMAIN System!Archive = 1 .. 9
  BY DEF System!Archive
<1>1. ASSUME NEW mem, NEW g, g.readable = Len(System!Archive), g # System!NoFile,
             g.maps = [x \in System!Members |-> g.maps[x]]
      PROVE  System!Loaded(mem, g) = [maps |-> g.maps, nextID |-> g.nextID, loadedNextID |-> g.nextID]
  <2>1. \A x \in System!Members : \E i \in 1 .. g.readable : System!Archive[i] = x
    BY <1>0, <1>1 DEF System!Members
  <2>2. System!Read(mem, g) = g.maps
    BY <1>1, <2>1 DEF System!Read
  <2>3. ~(g.readable < Len(System!Archive))
    BY <1>0, <1>1
  <2> QED BY <1>1, <2>2, <2>3 DEF System!Loaded
<1>2. System!Consistent(System!Empty, 1) /\ System!Empty["activityMap"] = System!Absent
  BY SystemMaps DEF System!Consistent, System!Empty, System!Absent
<1>3. /\ a.loadedNextID = a.nextID /\ System!Consistent(a.maps, a.nextID)
      /\ a.maps["activityMap"] = System!Absent <=> ~shadowed
      /\ shadowed => a.maps = s.maps /\ a.nextID = s.nextID
  <2>1. CASE s = System!NoFile
    <3>1. a = [maps |-> System!Empty, nextID |-> 1, loadedNextID |-> 1]
      BY <2>1 DEF System!Loaded, System!Fresh
    <3>2. a.maps = System!Empty /\ a.nextID = 1 /\ a.loadedNextID = 1
      BY <3>1
    <3> HIDE DEF a
    <3> QED BY <1>2, <2>1, <3>2
  <2>2. CASE s # System!NoFile
    <3>1. s.readable = Len(System!Archive) /\ System!Consistent(s.maps, s.nextID)
      BY <2>2, SystemInstance DEF System!SystemAssumption
    <3>2. s.maps = [x \in System!Members |-> s.maps[x]]
      BY <3>1 DEF System!Consistent
    <3>3. a = [maps |-> s.maps, nextID |-> s.nextID, loadedNextID |-> s.nextID]
      BY <1>1, <2>2, <3>1, <3>2
    <3>4. a.maps = s.maps /\ a.nextID = s.nextID /\ a.loadedNextID = s.nextID
      BY <3>3
    <3> HIDE DEF a
    <3> QED BY <2>2, <3>1, <3>4
  <2> QED BY <2>1, <2>2
<1>4. /\ shadowed => SystemStart(s, f) = a
      /\ ~shadowed => SystemStart(s, f) = System!Loaded(a, f)
  BY <1>3 DEF SystemStart
<1> HIDE DEF a
<1>5. CASE shadowed
  BY <1>3, <1>4, <1>5
<1>6. CASE ~shadowed /\ f = System!NoFile
  <2>1. SystemStart(s, f) = a
    BY <1>4, <1>6 DEF System!Loaded
  <2> QED BY <1>3, <1>6, <2>1
<1>7. CASE /\ ~shadowed /\ f # System!NoFile /\ f.readable = Len(System!Archive)
           /\ f.maps = [x \in System!Members |-> f.maps[x]]
  <2>1. SystemStart(s, f) = [maps |-> f.maps, nextID |-> f.nextID, loadedNextID |-> f.nextID]
    BY <1>1, <1>4, <1>7
  <2>2. /\ SystemStart(s, f).maps = f.maps /\ SystemStart(s, f).nextID = f.nextID
        /\ SystemStart(s, f).loadedNextID = f.nextID
    BY <2>1
  <2> QED BY <1>7, <2>2
<1> QED BY <1>5, <1>6, <1>7

\* Numbers lead where they did in maps that agree below n but for the forward ones.
LEMMA SystemLeads ==
    ASSUME NEW ms, NEW new, NEW i, NEW kind, NEW scope, NEW name,
           System!Leads(ms, i, kind, scope, name),
           \A k : \A x \in {System!NameMap(k)} \cup System!ScopeMap(k) :
              i \in DOMAIN ms[x] => i \in DOMAIN new[x] /\ new[x][i] = ms[x][i]
    PROVE  System!Leads(new, i, kind, scope, name)
BY DEF System!Leads

\* The maps with a number that is above all others: it leads back, and so do they,
\* also when the entry of the name is lost.
LEMMA SystemStored ==
    ASSUME NEW ms, NEW n, NEW r, NEW new, System!Consistent(ms, n), r.kind \in System!Kinds,
           \/ new = System!Stored(ms, r, n)
           \/ new = [System!Stored(ms, r, n) EXCEPT ![System!Forward(r.kind)] = ms[System!Forward(r.kind)]]
    PROVE  /\ System!Consistent(new, n + 1)
           /\ System!Leads(new, n, r.kind, r.scope, r.name)
           /\ \A i \in 1 .. n - 1 : \A kind, scope, name :
                 System!Leads(ms, i, kind, scope, name) => System!Leads(new, i, kind, scope, name)
<1> DEFINE f == System!Forward(r.kind)
           all == System!Stored(ms, r, n)
<1>1. /\ n \in Nat \ {0}
      /\ \A kind \in System!Kinds : \A k \in DOMAIN ms[System!Forward(kind)] :
            \/ ms[System!Forward(kind)][k] = 0
            \/ /\ ms[System!Forward(kind)][k] \in 1 .. n - 1
               /\ System!Leads(ms, ms[System!Forward(kind)][k], kind, k[1], k[2])
  BY DEF System!Consistent
<1>2. f \in System!Members /\ \A k : /\ System!NameMap(k) \in System!Members
                                     /\ System!ScopeMap(k) \subseteq System!Members
  BY SystemMaps
<1>3. /\ all = [x \in System!Members |-> all[x]]
      /\ all[f] = System!Put(ms[f], System!KeyOf(r), n)
      /\ \A x \in System!Members \ {f} :
            /\ x = System!NameMap(r.kind) => all[x] = System!Put(ms[x], n, r.name)
            /\ x \in System!ScopeMap(r.kind) => all[x] = System!Put(ms[x], n, r.scope)
            /\ x # System!NameMap(r.kind) /\ x \notin System!ScopeMap(r.kind) => all[x] = ms[x]
  <2>1. System!NameMap(r.kind) \notin System!ScopeMap(r.kind)
    BY SystemMaps
  <2>2. f # System!NameMap(r.kind) /\ f \notin System!ScopeMap(r.kind)
    BY SystemMaps
  <2>3. all = [x \in System!Members |->
                 CASE x = f -> System!Put(ms[x], System!KeyOf(r), n)
                   [] x = System!NameMap(r.kind) -> System!Put(ms[x], n, r.name)
                   [] x \in System!ScopeMap(r.kind) -> System!Put(ms[x], n, r.scope)
                   [] OTHER -> ms[x]]
    BY DEF System!Stored
  <2> HIDE DEF all, f
  <2>4. all = [x \in System!Members |-> all[x]] /\ all[f] = System!Put(ms[f], System!KeyOf(r), n)
    BY <1>2, <2>2, <2>3
  <2>5. ASSUME NEW x \in System!Members \ {f}
        PROVE  /\ x = System!NameMap(r.kind) => all[x] = System!Put(ms[x], n, r.name)
               /\ x \in System!ScopeMap(r.kind) => all[x] = System!Put(ms[x], n, r.scope)
               /\ x # System!NameMap(r.kind) /\ x \notin System!ScopeMap(r.kind) => all[x] = ms[x]
    BY <2>1, <2>3, <2>5
  <2> QED BY <2>4, <2>5
<1>4. /\ new = [x \in System!Members |-> new[x]] /\ \A x \in System!Members \ {f} : new[x] = all[x]
      /\ new[f] = ms[f] \/ new[f] = System!Put(ms[f], System!KeyOf(r), n)
  <2> HIDE DEF all
  <2>1. CASE new = all
    BY <1>3, <2>1
  <2>2. CASE new = [all EXCEPT ![f] = ms[f]]
    <3> HIDE DEF f
    <3> QED BY <1>2, <1>3, <2>2
  <2> QED BY <2>1, <2>2 DEF all
<1> HIDE DEF all
<1>5. \A k : /\ System!NameMap(k) \in System!Members \ {f}
             /\ System!ScopeMap(k) \subseteq System!Members \ {f}
  BY <1>2, SystemMaps
<1> HIDE DEF f
<1>6. ASSUME NEW x \in System!Members \ {f}, NEW i \in DOMAIN ms[x], i # n
      PROVE  i \in DOMAIN new[x] /\ new[x][i] = ms[x][i]
  <2>1. CASE x = System!NameMap(r.kind)
    <3>1. new[x] = System!Put(ms[x], n, r.name)
      BY <1>3, <1>4, <2>1
    <3> QED BY <1>6, <3>1 DEF System!Put
  <2>2. CASE x \in System!ScopeMap(r.kind)
    <3>1. new[x] = System!Put(ms[x], n, r.scope)
      BY <1>3, <1>4, <2>2
    <3> QED BY <1>6, <3>1 DEF System!Put
  <2>3. CASE x # System!NameMap(r.kind) /\ x \notin System!ScopeMap(r.kind)
    BY <1>3, <1>4, <1>6, <2>3
  <2> QED BY <2>1, <2>2, <2>3
<1>7. \A i \in 1 .. n - 1 : \A kind, scope, name :
         System!Leads(ms, i, kind, scope, name) => System!Leads(new, i, kind, scope, name)
  <2> SUFFICES ASSUME NEW i \in 1 .. n - 1, NEW kind, NEW scope, NEW name,
                      System!Leads(ms, i, kind, scope, name)
               PROVE  System!Leads(new, i, kind, scope, name)
    OBVIOUS
  <2>1. i # n
    BY <1>1
  <2>2. \A k : \A x \in {System!NameMap(k)} \cup System!ScopeMap(k) : x \in System!Members \ {f}
    BY <1>5
  <2>3. \A k : \A x \in {System!NameMap(k)} \cup System!ScopeMap(k) :
           i \in DOMAIN ms[x] => i \in DOMAIN new[x] /\ new[x][i] = ms[x][i]
    BY <1>6, <2>1, <2>2
  <2> QED BY <2>3, SystemLeads
<1>8. System!Leads(new, n, r.kind, r.scope, r.name)
  <2>1. ASSUME NEW x \in {System!NameMap(r.kind)} PROVE n \in DOMAIN new[x] /\ new[x][n] = r.name
    <3>1. new[x] = System!Put(ms[x], n, r.name)
      BY <1>3, <1>4, <1>5
    <3> QED BY <3>1 DEF System!Put
  <2>2. ASSUME NEW x \in System!ScopeMap(r.kind) PROVE n \in DOMAIN new[x] /\ new[x][n] = r.scope
    <3>1. new[x] = System!Put(ms[x], n, r.scope)
      BY <1>3, <1>4, <1>5
    <3> QED BY <3>1 DEF System!Put
  <2> QED BY <2>1, <2>2 DEF System!Leads
<1>9. ASSUME NEW kind \in System!Kinds, NEW k \in DOMAIN new[System!Forward(kind)]
      PROVE  LET i == new[System!Forward(kind)][k]
             IN  i = 0 \/ (i \in 1 .. n /\ System!Leads(new, i, kind, k[1], k[2]))
  <2> DEFINE g == System!Forward(kind)
  <2>0. g \in System!Members /\ (g = f => kind = r.kind) /\ \A l : g # System!NameMap(l) /\ g \notin System!ScopeMap(l)
    BY SystemMaps DEF f
  <2>1. CASE k \in DOMAIN ms[g] /\ new[g][k] = ms[g][k]
    <3>1. \A j \in 1 .. n - 1 : j \in 1 .. n
      BY <1>1
    <3> QED BY <1>1, <1>7, <2>1, <3>1
  <2>2. CASE k = System!KeyOf(r) /\ g = f /\ new[g][k] = n
    <3>1. k[1] = r.scope /\ k[2] = r.name
      BY <2>2 DEF System!KeyOf
    <3> QED BY <1>1, <1>8, <2>0, <2>2, <3>1
  <2>3. CASE g # f
    <3>1. new[g] = ms[g]
      BY <1>3, <1>4, <2>0, <2>3
    <3> QED BY <2>1, <3>1
  <2>4. CASE g = f
    <3>1. (k \in DOMAIN ms[g] /\ new[g][k] = ms[g][k]) \/ (k = System!KeyOf(r) /\ new[g][k] = n)
      BY <1>4, <2>4 DEF System!Put
    <3> QED BY <2>1, <2>2, <2>4, <3>1
  <2> QED BY <2>3, <2>4
<1>10. System!Consistent(new, n + 1)
  <2>1. n + 1 \in Nat \ {0} /\ (n + 1) - 1 = n
    BY <1>1
  <2> QED BY <1>4, <1>9, <2>1 DEF System!Consistent
<1> QED BY <1>7, <1>8, <1>10

\* A name that is looked up only is entered with 0, which leaves the others alone.
LEMMA SystemLooked ==
    ASSUME NEW ms, NEW n, NEW kind \in System!Kinds, NEW key, NEW new, System!Consistent(ms, n),
           LET f == System!Forward(kind)
           IN  new = ms \/ new = [ms EXCEPT ![f] = System!Put(ms[f], key, 0)]
    PROVE  /\ System!Consistent(new, n)
           /\ \A k : \A x \in {System!NameMap(k)} \cup System!ScopeMap(k) : new[x] = ms[x]
           /\ \A i, k, scope, name :
                 System!Leads(ms, i, k, scope, name) => System!Leads(new, i, k, scope, name)
<1>1. CASE new = ms
  BY <1>1
<1>2. CASE new = [ms EXCEPT ![System!Forward(kind)] = System!Put(ms[System!Forward(kind)], key, 0)]
  <2> DEFINE f == System!Forward(kind)
  <2>1. /\ n \in Nat \ {0} /\ ms = [x \in System!Members |-> ms[x]]
        /\ \A l \in System!Kinds : \A k \in DOMAIN ms[System!Forward(l)] :
              \/ ms[System!Forward(l)][k] = 0
              \/ /\ ms[System!Forward(l)][k] \in 1 .. n - 1
                 /\ System!Leads(ms, ms[System!Forward(l)][k], l, k[1], k[2])
    BY DEF System!Consistent
  <2>2. f \in System!Members /\ \A k : \A x \in {System!NameMap(k)} \cup System!ScopeMap(k) :
                                          x \in System!Members \ {f}
    BY SystemMaps
  <2>3. PICK p : p = System!Put(ms[f], key, 0)
    OBVIOUS
  <2>4. new = [ms EXCEPT ![f] = p]
    BY <1>2, <2>3
  <2> HIDE DEF f
  <2>5. /\ new = [x \in System!Members |-> new[x]] /\ new[f] = p
        /\ \A x \in System!Members \ {f} : new[x] = ms[x]
    BY <2>1, <2>2, <2>4
  <2>6. \A k : \A x \in {System!NameMap(k)} \cup System!ScopeMap(k) : new[x] = ms[x]
    BY <2>2, <2>5
  <2>7. \A i, k, scope, name :
           System!Leads(ms, i, k, scope, name) => System!Leads(new, i, k, scope, name)
    BY <2>6, SystemLeads
  <2>8. ASSUME NEW l \in System!Kinds, NEW k \in DOMAIN new[System!Forward(l)]
        PROVE  LET i == new[System!Forward(l)][k]
               IN  i = 0 \/ (i \in 1 .. n - 1 /\ System!Leads(new, i, l, k[1], k[2]))
    <3>1. \/ new[System!Forward(l)][k] = 0
          \/ k \in DOMAIN ms[System!Forward(l)] /\ new[System!Forward(l)][k] = ms[System!Forward(l)][k]
      <4>1. System!Forward(l) \in System!Members
        BY SystemMaps
      <4>2. CASE System!Forward(l) = f
        BY <2>3, <2>5, <4>2 DEF System!Put
      <4>3. CASE System!Forward(l) # f
        BY <2>5, <4>1, <4>3
      <4> QED BY <4>2, <4>3
    <3> QED BY <2>1, <2>7, <3>1
  <2>9. System!Consistent(new, n)
    BY <2>1, <2>5, <2>8 DEF System!Consistent
  <2> QED BY <2>6, <2>7, <2>9
<1> QED BY <1>1, <1>2

\* A process that dies or ends leaves the old file, a whole one with its maps, or a
\* torn one, which only a damaged process will read.
LEMMA SystemGone == System!IInv /\ (System!Exit \/ System!Crash) => System!IInv'
<1> SUFFICES ASSUME System!IInv, System!Exit \/ System!Crash PROVE System!IInv'
  OBVIOUS
<1>0. System!ThreadInv /\ System!MapInv /\ System!DiskInv
  BY DEF System!IInv
<1>a. Len(System!Archive) = 9
  BY DEF System!Archive
<1>1. /\ up /\ ~up' /\ kMutex' = System!Free /\ returned' = {} /\ UNCHANGED <<site, damaged>>
      /\ kPc' = [t \in Callers |-> "idle"] /\ argument' = [t \in Callers |-> System!NoRequest]
      /\ second' = [t \in Callers |-> 0]
  BY DEF System!Exit, System!Crash, System!Gone
<1>2. System!ThreadInv'
  BY <1>1, SystemInstance DEF System!ThreadInv, System!SystemAssumption
<1>3. System!MapInv'
  BY <1>1 DEF System!MapInv
<1>4. System!init = SystemStart(site, file) /\ System!init' = SystemStart(site', file')
  BY DEF System!init, SystemStart
<1>5. /\ site \in SystemSites
      /\ ~damaged => /\ file = System!NoFile \/ file.readable = Len(System!Archive)
                     /\ System!Consistent(System!init.maps, System!init.nextID)
                     /\ System!init.loadedNextID = System!init.nextID
                     /\ ~System!Shadowed =>
                           \A i \in kept : System!Known(i, System!init.maps, System!init.nextID)
  BY <1>0, <1>1 DEF System!DiskInv, System!Whole
<1>6. CASE file' = file /\ kept' = kept
  <2>1. System!init' = System!init
    BY <1>1, <1>4, <1>6
  <2> QED BY <1>0, <1>1, <1>2, <1>3, <1>6, <2>1
           DEF System!IInv, System!DiskInv, System!Whole, System!Shadowed
<1>7. ASSUME \A t \in Callers : kPc[t] = "idle"
      PROVE  /\ kMutex = System!Free /\ System!Limit = nextID
             /\ ~damaged => /\ System!Consistent(entries, nextID)
                            /\ \A i \in returned : System!Known(i, entries, nextID)
                            /\ ~System!Shadowed => \A i \in kept : System!Known(i, entries, nextID)
  <2>1. kMutex = System!Free /\ System!Limit = nextID
    BY <1>0, <1>7 DEF System!ThreadInv, System!Limit
  <2> QED BY <1>0, <1>1, <2>1 DEF System!MapInv
<1>8. CASE System!Exit /\ loaded = nextID
  <2>1. file' = file /\ kept' = kept \cup returned /\ \A t \in Callers : kPc[t] = "idle"
    BY <1>8 DEF System!Exit
  <2>2. System!init' = System!init
    BY <1>1, <1>4, <2>1
  <2>3. ASSUME ~damaged, NEW i \in returned
        PROVE  System!Known(i, System!init.maps, System!init.nextID)
    <3>1. /\ System!init.nextID = nextID
          /\ \A kind \in System!Kinds : \A x \in {System!NameMap(kind)} \cup System!ScopeMap(kind) :
                entries[x] = System!init.maps[x]
      BY <1>0, <1>1, <1>8, <2>3 DEF System!DiskInv
    <3>2. System!Known(i, entries, nextID)
      BY <1>7, <2>1, <2>3
    <3>3. \A k : \A x \in {System!NameMap(k)} \cup System!ScopeMap(k) : entries[x] = System!init.maps[x]
      BY <3>1, SystemMaps
    <3>4. \A k, scope, name : System!Leads(entries, i.id, k, scope, name)
                                 => System!Leads(System!init.maps, i.id, k, scope, name)
      BY <3>3, SystemLeads
    <3> QED BY <3>1, <3>2, <3>4 DEF System!Known
  <2>4. System!DiskInv'
    BY <1>0, <1>1, <1>5, <2>1, <2>2, <2>3 DEF System!DiskInv, System!Whole, System!Shadowed
  <2> QED BY <1>2, <1>3, <2>4 DEF System!IInv
<1>9. CASE System!Exit /\ loaded # nextID
  <2>1. /\ file' = [maps |-> entries, nextID |-> nextID, readable |-> Len(System!Archive)]
        /\ kept' = kept \cup returned /\ \A t \in Callers : kPc[t] = "idle"
    BY <1>9 DEF System!Exit
  <2>2. /\ file' # System!NoFile /\ file'.maps = entries /\ file'.nextID = nextID
        /\ file'.readable = Len(System!Archive)
    BY <2>1, SystemContents
  <2>3. ASSUME ~damaged
        PROVE  /\ System!Consistent(System!init'.maps, System!init'.nextID)
               /\ System!init'.loadedNextID = System!init'.nextID
               /\ ~System!Shadowed =>
                     \A i \in kept' : System!Known(i, System!init'.maps, System!init'.nextID)
    <3>1. CASE System!Shadowed
      BY <1>1, <1>4, <1>5, <3>1, SystemStarts DEF System!Shadowed
    <3>2. CASE ~System!Shadowed
      <4>1. System!Consistent(entries, nextID) /\ entries = [x \in System!Members |-> entries[x]]
        BY <1>7, <2>1, <2>3 DEF System!Consistent
      <4>2. PICK g : g = file'
        OBVIOUS
      <4>3. SystemStart(site, g).maps = entries /\ SystemStart(site, g).nextID = nextID
            /\ SystemStart(site, g).loadedNextID = nextID
        BY <1>5, <2>2, <3>2, <4>1, <4>2, SystemStarts DEF System!Shadowed
      <4> QED BY <1>1, <1>4, <1>7, <2>1, <2>3, <3>2, <4>1, <4>2, <4>3
    <3> QED BY <3>1, <3>2
  <2>4. System!DiskInv'
    BY <1>1, <1>5, <1>a, <2>2, <2>3 DEF System!DiskInv, System!Shadowed
  <2> QED BY <1>2, <1>3, <2>4 DEF System!IInv
<1>10. CASE System!Crash /\ file' # file
  <2>1. PICK n \in SystemTorn : file' = [maps |-> entries, nextID |-> nextID, readable |-> n]
    BY <1>10 DEF System!Crash
  <2>2. n \in 0 .. 8
    BY <1>a, SystemInstance DEF System!SystemAssumption
  <2>3. file' # System!NoFile /\ file'.readable = n
    BY <2>1, SystemContents
  <2>4. System!DiskInv'
    BY <1>1, <1>5, <1>a, <2>2, <2>3 DEF System!DiskInv, System!Whole
  <2> QED BY <1>2, <1>3, <2>4 DEF System!IInv
<1> QED BY <1>6, <1>8, <1>9, <1>10 DEF System!Crash

\* Every step of the system information keeps its invariant.
LEMMA SystemInductive == System!IInv /\ System!Next => System!IInv'
<1> SUFFICES ASSUME System!IInv, System!Next PROVE System!IInv'
  OBVIOUS
<1>0. System!ThreadInv /\ System!MapInv /\ System!DiskInv
  BY DEF System!IInv
<1>a. Len(System!Archive) = 9 /\ System!Free \notin Callers /\ \A r \in Requests : r.kind \in System!Kinds
  BY SystemInstance DEF System!Archive, System!SystemAssumption
<1>b. ASSUME up, up', UNCHANGED <<site, file, damaged, kept, loaded>>,
             ~damaged => /\ loaded <= System!Limit'
                         /\ nextID' = loaded =>
                               \A k \in System!Kinds : \A x \in {System!NameMap(k)} \cup System!ScopeMap(k) :
                                  entries'[x] = System!init.maps[x]
      PROVE  System!DiskInv'
  <2>1. System!init' = System!init
    BY <1>b DEF System!init
  <2> QED BY <1>0, <1>b, <2>1 DEF System!DiskInv, System!Whole, System!Shadowed
<1>c. ASSUME NEW t \in Callers, kPc[t] # "idle"
      PROVE  /\ up /\ argument[t] \in Requests /\ argument[t].kind \in System!Kinds
             /\ ~damaged =>
                   /\ nextID \in Nat \ {0} /\ System!Consistent(entries, System!Limit)
                   /\ \A i \in returned \cup (IF System!Shadowed THEN {} ELSE kept) :
                         System!Known(i, entries, System!Limit)
                   /\ loaded \in Nat /\ loaded <= System!Limit
                   /\ nextID = loaded =>
                         \A k \in System!Kinds : \A x \in {System!NameMap(k)} \cup System!ScopeMap(k) :
                            entries[x] = System!init.maps[x]
  <2>1. up /\ argument[t] \in Requests
    BY <1>0, <1>c DEF System!ThreadInv
  <2>2. ~damaged => loaded \in Nat
    BY <1>0, <2>1 DEF System!DiskInv, System!Consistent
  <2> QED BY <1>0, <1>a, <2>1, <2>2 DEF System!MapInv, System!DiskInv
<1>t. /\ kPc \in [Callers -> {"idle", "look", "lock", "store"}]
      /\ DOMAIN argument = Callers /\ DOMAIN second = Callers
  BY <1>0 DEF System!ThreadInv
<1>1. CASE System!Start
  <2>1. /\ ~up /\ up' /\ entries' = System!init.maps /\ nextID' = System!init.nextID
        /\ loaded' = System!init.loadedNextID
        /\ damaged' = (damaged \/ (file # System!NoFile /\ file.readable < Len(System!Archive)))
        /\ UNCHANGED <<kMutex, kPc, argument, second, site, file, returned, kept>>
    BY <1>1 DEF System!Start, System!threadVars
  <2>2. kMutex = System!Free /\ returned = {} /\ \A t \in Callers : kPc[t] = "idle"
    BY <1>0, <2>1 DEF System!ThreadInv
  <2>3. System!ThreadInv'
    BY <1>0, <2>1, <2>2 DEF System!ThreadInv
  <2>4. ~damaged' => ~damaged /\ System!Whole
    <3>1. ~damaged' => ~damaged /\ ~(file # System!NoFile /\ file.readable < Len(System!Archive))
      BY <2>1
    <3>2. file = System!NoFile \/ file.readable \in 0 .. Len(System!Archive)
      BY <1>0 DEF System!DiskInv
    <3>3. file = System!NoFile \/ file.readable < Len(System!Archive) \/ file.readable = Len(System!Archive)
      BY <1>a, <3>2
    <3> QED BY <3>1, <3>3 DEF System!Whole
  <2>5. ~damaged' => /\ System!Consistent(entries', nextID') /\ loaded' = nextID' /\ nextID' \in Nat \ {0}
                     /\ ~System!Shadowed => \A i \in kept : System!Known(i, entries', nextID')
    BY <1>0, <2>1, <2>4 DEF System!DiskInv, System!Consistent
  <2>6. System!Limit' = nextID'
    BY <2>1, <2>2 DEF System!Limit
  <2>7. System!MapInv'
    BY <2>1, <2>2, <2>5, <2>6 DEF System!MapInv, System!Shadowed
  <2>8. System!init' = System!init
    BY <2>1 DEF System!init
  <2>9. System!DiskInv'
    <3>1. ~damaged' => loaded' <= System!Limit'
      BY <2>5, <2>6
    <3> QED BY <1>0, <2>1, <2>4, <2>5, <2>8, <3>1 DEF System!DiskInv, System!Whole, System!Shadowed
  <2> QED BY <2>3, <2>7, <2>9 DEF System!IInv
<1>2. CASE System!Exit \/ System!Crash
  BY <1>2, SystemGone
<1>3. ASSUME NEW t \in Callers, NEW r \in Requests, System!Call(t, r) PROVE System!IInv'
  <2>1. /\ up /\ up' /\ kPc[t] = "idle" /\ kPc' = [kPc EXCEPT ![t] = "look"]
        /\ argument' = [argument EXCEPT ![t] = r]
        /\ UNCHANGED <<entries, nextID, loaded, kMutex, second, site, file, returned, kept, damaged>>
    BY <1>3 DEF System!Call, System!memory
  <2>2. System!ThreadInv'
    BY <1>0, <1>t, <2>1 DEF System!ThreadInv
  <2>3. System!Limit' = System!Limit
    BY <2>1 DEF System!Limit
  <2>4. System!MapInv'
    BY <1>0, <2>1, <2>3 DEF System!MapInv, System!Shadowed
  <2>5. System!DiskInv'
    BY <1>0, <1>b, <2>1, <2>3 DEF System!DiskInv
  <2> QED BY <2>2, <2>4, <2>5 DEF System!IInv
<1>4. ASSUME NEW t \in Callers, System!Look(t) PROVE System!IInv'
  <2> DEFINE r == argument[t]
             f == System!Forward(r.kind)
             k == System!KeyOf(r)
             i == entries[f][k]
             new == [entries EXCEPT ![f] = System!Put(entries[f], k, 0)]
  <2>1. /\ kPc[t] = "look" /\ UNCHANGED <<up, nextID, loaded, kMutex, site, file, kept, damaged>>
    BY <1>4 DEF System!Look
  <2>2. /\ up /\ r.kind \in System!Kinds /\ r \in Requests
        /\ ~damaged => /\ System!Consistent(entries, System!Limit)
                       /\ \A j \in returned \cup (IF System!Shadowed THEN {} ELSE kept) :
                             System!Known(j, entries, System!Limit)
    BY <1>c, <2>1
  <2>3. System!Limit' = System!Limit
    BY <2>1 DEF System!Limit
  <2>4. \/ /\ k \in DOMAIN entries[f] /\ i # 0 /\ System!Return(t, i) /\ UNCHANGED entries
        \/ /\ kPc' = [kPc EXCEPT ![t] = "lock"] /\ UNCHANGED <<argument, second, returned>>
           /\ entries' = entries \/ entries' = [entries EXCEPT ![f] = entries[f]] \/ entries' = new
    BY <1>4 DEF System!Look
  <2>5. CASE /\ k \in DOMAIN entries[f] /\ i # 0 /\ System!Return(t, i) /\ UNCHANGED entries
    <3>1. /\ kPc' = [kPc EXCEPT ![t] = "idle"] /\ argument' = [argument EXCEPT ![t] = System!NoRequest]
          /\ second' = [second EXCEPT ![t] = 0] /\ returned' = returned \cup {[id |-> i, key |-> r]}
      BY <2>5 DEF System!Return
    <3>2. System!ThreadInv'
      BY <1>0, <1>t, <2>1, <2>2, <3>1 DEF System!ThreadInv
    <3>3. ~damaged => System!Known([id |-> i, key |-> r], entries, System!Limit)
      <4>1. k[1] = r.scope /\ k[2] = r.name
        BY DEF System!KeyOf
      <4>2. ~damaged => i \in 1 .. System!Limit - 1 /\ System!Leads(entries, i, r.kind, k[1], k[2])
        BY <2>2, <2>5 DEF System!Consistent
      <4> QED BY <4>1, <4>2 DEF System!Known
    <3>4. System!MapInv'
      <4> HIDE DEF i, r
      <4> QED BY <1>0, <2>1, <2>2, <2>3, <2>5, <3>1, <3>3 DEF System!MapInv, System!Shadowed
    <3>5. System!DiskInv'
      BY <1>b, <1>c, <2>1, <2>2, <2>3, <2>5
    <3> QED BY <3>2, <3>4, <3>5 DEF System!IInv
  <2>6. CASE /\ kPc' = [kPc EXCEPT ![t] = "lock"] /\ UNCHANGED <<argument, second, returned>>
             /\ entries' = entries \/ entries' = [entries EXCEPT ![f] = entries[f]] \/ entries' = new
    <3>1. System!ThreadInv'
      BY <1>0, <1>t, <2>1, <2>2, <2>6 DEF System!ThreadInv
    <3>2. ~damaged => entries' = entries \/ entries' = new
      <4>1. ~damaged => entries = [x \in System!Members |-> entries[x]]
        BY <2>2 DEF System!Consistent
      <4> HIDE DEF f
      <4>2. ~damaged => [entries EXCEPT ![f] = entries[f]] = entries
        BY <4>1
      <4> QED BY <2>6, <4>2
    <3>3. ~damaged =>
             /\ System!Consistent(entries', System!Limit)
             /\ \A l : \A x \in {System!NameMap(l)} \cup System!ScopeMap(l) : entries'[x] = entries[x]
             /\ \A j, l, scope, name :
                   System!Leads(entries, j, l, scope, name) => System!Leads(entries', j, l, scope, name)
      <4>1. PICK es : es = entries'
        OBVIOUS
      <4> QED BY <2>2, <3>2, <4>1, SystemLooked
    <3>4. System!MapInv'
      BY <1>0, <2>1, <2>2, <2>3, <2>6, <3>3 DEF System!MapInv, System!Shadowed, System!Known
    <3>5. System!DiskInv'
      BY <1>b, <1>c, <2>1, <2>2, <2>3, <3>3
    <3> QED BY <3>1, <3>4, <3>5 DEF System!IInv
  <2> QED BY <2>4, <2>5, <2>6
<1>5. ASSUME NEW t \in Callers, System!Take(t) PROVE System!IInv'
  <2>1. /\ kPc[t] = "lock" /\ kMutex = System!Free /\ kMutex' = t /\ nextID' = nextID + 1
        /\ nextID <= MaxNumbers
        /\ second' = [second EXCEPT ![t] = nextID] /\ kPc' = [kPc EXCEPT ![t] = "store"]
        /\ UNCHANGED <<up, entries, loaded, argument, site, file, returned, kept, damaged>>
    BY <1>5 DEF System!Take
  <2>2. up
    BY <1>c, <2>1
  <2>3. System!ThreadInv'
    <3>1. ~damaged => nextID' - 1 = nextID
      BY <1>c, <2>1
    <3> QED BY <1>0, <1>a, <1>t, <2>1, <2>2, <3>1 DEF System!ThreadInv
  <2>4. ~damaged => System!Limit' = System!Limit /\ nextID' \in Nat \ {0}
    BY <1>a, <1>c, <2>1 DEF System!Limit
  <2>5. System!MapInv'
    BY <1>0, <2>1, <2>4 DEF System!MapInv, System!Shadowed
  <2>6. ~damaged => nextID' # loaded
    BY <1>c, <2>1 DEF System!Limit
  <2>7. System!DiskInv'
    BY <1>b, <1>c, <2>1, <2>2, <2>4, <2>6
  <2> QED BY <2>3, <2>5, <2>7 DEF System!IInv
<1>6. ASSUME NEW t \in Callers, System!Store(t) PROVE System!IInv'
  <2> DEFINE r == argument[t]
             f == System!Forward(r.kind)
             all == System!Stored(entries, r, second[t])
  <2>1. /\ kPc[t] = "store" /\ kMutex' = System!Free /\ System!Return(t, second[t])
        /\ UNCHANGED <<up, nextID, loaded, site, file, kept, damaged>>
        /\ entries' = all \/ entries' = [all EXCEPT ![f] = entries[f]]
    BY <1>6 DEF System!Store
  <2>2. /\ kPc' = [kPc EXCEPT ![t] = "idle"] /\ argument' = [argument EXCEPT ![t] = System!NoRequest]
        /\ second' = [second EXCEPT ![t] = 0] /\ returned' = returned \cup {[id |-> second[t], key |-> r]}
    BY <2>1 DEF System!Return
  <2>3. up /\ kMutex = t /\ (~damaged => second[t] = nextID - 1) /\ r.kind \in System!Kinds
    BY <1>0, <1>c, <2>1 DEF System!ThreadInv
  <2>4. System!Limit = nextID - 1 /\ System!Limit' = nextID
    BY <1>a, <2>1, <2>3 DEF System!Limit
  <2>5. System!ThreadInv'
    BY <1>0, <1>a, <1>t, <2>1, <2>2, <2>3 DEF System!ThreadInv
  <2>6. ASSUME ~damaged
        PROVE  /\ System!Consistent(entries', nextID)
               /\ System!Leads(entries', second[t], r.kind, r.scope, r.name)
               /\ second[t] \in 1 .. nextID - 1 /\ nextID \in Nat \ {0}
               /\ \A j \in 1 .. second[t] - 1 : \A kind, scope, name :
                    System!Leads(entries, j, kind, scope, name) => System!Leads(entries', j, kind, scope, name)
    <3>1. System!Consistent(entries, second[t]) /\ nextID \in Nat \ {0}
      BY <1>c, <2>1, <2>3, <2>4, <2>6
    <3>2. second[t] \in 1 .. nextID - 1 /\ second[t] + 1 = nextID
      BY <2>3, <2>6, <3>1 DEF System!Consistent
    <3>3. PICK es : es = entries'
      OBVIOUS
    <3>4. PICK n : n = second[t]
      OBVIOUS
    <3> HIDE DEF r
    <3>5. /\ System!Consistent(es, n + 1) /\ System!Leads(es, n, r.kind, r.scope, r.name)
          /\ \A j \in 1 .. n - 1 : \A kind, scope, name :
                System!Leads(entries, j, kind, scope, name) => System!Leads(es, j, kind, scope, name)
      BY <2>1, <2>3, <3>1, <3>3, <3>4, SystemStored
    <3> QED BY <3>1, <3>2, <3>3, <3>4, <3>5
  <2>7. ASSUME ~damaged, NEW j \in returned' \cup (IF System!Shadowed THEN {} ELSE kept)
        PROVE  System!Known(j, entries', nextID)
    <3>1. CASE j = [id |-> second[t], key |-> r]
      <4>1. j.id = second[t] /\ j.key = r
        BY <3>1
      <4> QED BY <2>6, <2>7, <4>1 DEF System!Known
    <3>2. CASE j \in returned \cup (IF System!Shadowed THEN {} ELSE kept)
      <4>1. j.id \in 1 .. second[t] - 1 /\ System!Leads(entries, j.id, j.key.kind, j.key.scope, j.key.name)
        BY <1>c, <2>1, <2>3, <2>4, <2>7, <3>2 DEF System!Known
      <4>2. j.id \in 1 .. nextID - 1
        BY <2>3, <2>6, <2>7, <4>1
      <4> QED BY <2>6, <2>7, <4>1, <4>2 DEF System!Known
    <3> QED BY <2>2, <2>7, <3>1, <3>2
  <2>8. System!MapInv'
    BY <2>1, <2>3, <2>4, <2>6, <2>7 DEF System!MapInv, System!Shadowed
  <2>9. ~damaged => loaded <= nextID /\ loaded # nextID
    BY <1>c, <2>1, <2>4
  <2>10. System!DiskInv'
    BY <1>b, <2>1, <2>3, <2>4, <2>9
  <2> QED BY <2>5, <2>8, <2>10 DEF System!IInv
<1> QED BY <1>1, <1>2, <1>3, <1>4, <1>5, <1>6 DEF System!Next

\* The invariant of the system information gives what its users rely on.
LEMMA SystemResolves == System!IInv => System!NumbersResolve
BY DEF System!IInv, System!MapInv, System!NumbersResolve, System!Known, System!Leads, System!Resolves

-----------------------------------------------------------------------------
(* The catalogs take turns in their variables: the invariant is that of    *)
(* the one that the behaviour is about.                                    *)

CatalogInv ==
    /\ part = "system" => System!IInv
    /\ part = "ontology" => Ontology!IInv
    /\ part = "mapper" => Mapper!IInv

\* A process starts without a file of its user, and nothing was returned yet.
LEMMA CatalogStarts == MCInit => CatalogInv
<1> SUFFICES ASSUME MCInit PROVE CatalogInv
  OBVIOUS
<1>1. ASSUME part = "system" PROVE System!IInv
  <2>1. System!Init
    BY <1>1 DEF MCInit
  <2>2. System!ThreadInv /\ System!MapInv
    BY <2>1, SystemInstance DEF System!Init, System!ThreadInv, System!MapInv, System!SystemAssumption
  <2>3. ~up /\ file = System!NoFile /\ kept = {} /\ site \in SystemSites
    BY <2>1 DEF System!Init
  <2>4. System!init = SystemStart(site, file)
    BY DEF System!init, SystemStart
  <2>5. System!Consistent(System!init.maps, System!init.nextID) /\ System!init.loadedNextID = System!init.nextID
    BY <2>3, <2>4, SystemStarts
  <2> QED BY <2>2, <2>3, <2>5 DEF System!IInv, System!DiskInv
<1>2. ASSUME part = "ontology" PROVE Ontology!IInv
  <2>1. Ontology!Init
    BY <1>2 DEF MCInit
  <2>2. Ontology!ThreadInv /\ Ontology!MapInv /\ Ontology!ReturnedInv
    BY <2>1, OntologyInstance
       DEF Ontology!Init, Ontology!ThreadInv, Ontology!MapInv, Ontology!ReturnedInv, Ontology!OntologyAssumption
  <2> QED BY <2>1, <2>2 DEF Ontology!Init, Ontology!IInv, Ontology!DiskInv
<1>3. ASSUME part = "mapper" PROVE Mapper!IInv
  BY <1>3 DEF MCInit, Mapper!Init, Mapper!IInv, Mapper!MapInv, Mapper!DiskInv
<1> QED BY <1>1, <1>2, <1>3 DEF CatalogInv

\* A step is one of the component that the behaviour is about.
LEMMA CatalogInductive == CatalogInv /\ [MCNext]_allVars => CatalogInv'
<1> SUFFICES ASSUME CatalogInv, [MCNext]_allVars PROVE CatalogInv'
  OBVIOUS
<1>1. part' = part
  BY DEF MCNext, allVars
<1>2. CASE UNCHANGED catalogVars
  <2>1. UNCHANGED <<up, lives, site, file, nextID, loaded, entries, index, kMutex, kPc, argument,
                    second, returned, kept, damaged>>
    BY <1>2 DEF catalogVars
  <2>2. part = "system" => System!IInv'
    BY <2>1 DEF CatalogInv, System!IInv, System!ThreadInv, System!MapInv, System!DiskInv, System!Limit,
                System!Whole, System!Shadowed, System!init
  <2>3. part = "ontology" => Ontology!IInv'
    BY <2>1 DEF CatalogInv, Ontology!IInv, Ontology!ThreadInv, Ontology!MapInv, Ontology!ReturnedInv,
                Ontology!DiskInv, Ontology!Readable, Ontology!Shadowed
  <2>4. part = "mapper" => Mapper!IInv'
    BY <2>1 DEF CatalogInv, Mapper!IInv, Mapper!MapInv, Mapper!DiskInv, Mapper!Finds
  <2> QED BY <1>1, <2>2, <2>3, <2>4 DEF CatalogInv
<1>3. CASE part = "system" /\ System!Next
  BY <1>1, <1>3, SystemInductive DEF CatalogInv
<1>4. CASE part = "ontology" /\ Ontology!Next
  BY <1>1, <1>4, OntologyInductive DEF CatalogInv
<1>5. CASE part = "mapper" /\ Mapper!Next
  BY <1>1, <1>5, MapperInductive DEF CatalogInv
<1> QED BY <1>2, <1>3, <1>4, <1>5 DEF MCNext, allVars

\* The catalogs kept in files give back what they were told, whatever threads
\* register at the same time, wherever a process ends or dies and however often
\* one is started again: a number of FileSystemInformation leads back to what it
\* was issued for, a name of FileOntology is one attribute with the values that
\* were accepted, and the names, numbers and values of FileAssociationMapper
\* belong together.
THEOREM CatalogResolution == MCSpec => []CatalogsResolve
<1>1. CatalogInv => CatalogsResolve
  BY SystemResolves, OntologyAgrees, MapperResolves DEF CatalogInv, CatalogsResolve
<1> QED BY <1>1, CatalogStarts, CatalogInductive, PTL DEF MCSpec
=============================================================================
