------------------------- MODULE Processing_proofs ---------------------------
(***************************************************************************)
(* Theorems about the components of MCProcessing.                          *)
(*                                                                         *)
(* Job processor: NoJobIsLost for every number of jobs, every limit of the *)
(* queue and every number of failures and calls of the owner.  The queue   *)
(* and the list of processed jobs are sorted, so that each holds a job     *)
(* once; what the operations of the queue do is stated about the set of    *)
(* its jobs, and the steps of the threads are about sets of jobs alone.    *)
(*                                                                         *)
(* Statistics collector: what its listeners know and what its readers      *)
(* fetch, for every set of plugins and listeners.  unregisterPlugin takes  *)
(* one element out of each of two lists; lemmas say which one is gone.     *)
(*                                                                         *)
(* Reasoner: what it counts and what it responds to, for every set of      *)
(* reasoners and plugins.  Lemmas about sums over sets of plugins say what *)
(* one more observation adds and what a round takes out.                   *)
(***************************************************************************)
EXTENDS MCProcessing, ListTheorems, FiniteSetTheorems, TLAPS

-----------------------------------------------------------------------------
(* The operations of the queue.                                            *)

Sorted(s) == \A m, n \in DOMAIN s : m < n => s[m] < s[n]

\* What it takes for a sequence to be a sorted queue of the jobs in J, n long.
Holds(s, J, n) == s \in Seq(Nat) /\ Sorted(s) /\ Range(s) = J /\ Len(s) = n

\* The empty queue.
LEMMA EmptyQueue == Holds(<< >>, {}, 0)
<1>1. << >> \in Seq(Nat) /\ Len(<< >>) = 0
  OBVIOUS
<1>2. Range(<< >>) = {}
  BY <1>1, InRange
<1>3. Sorted(<< >>)
  BY <1>1 DEF Sorted
<1> QED BY <1>1, <1>2, <1>3 DEF Holds

\* A job that was submitted after all others goes to the end.
LEMMA AtTheEnd ==
    ASSUME NEW s \in Seq(Nat), Sorted(s), NEW e \in Nat, \A x \in Range(s) : x < e
    PROVE  Holds(Append(s, e), Range(s) \cup {e}, Len(s) + 1)
<1> DEFINE a == Append(s, e)
           N == Len(s)
<1>1. /\ N \in Nat /\ a \in Seq(Nat) /\ Len(a) = N + 1 /\ Range(a) = Range(s) \cup {e}
      /\ \A n \in 1 .. N + 1 : a[n] = IF n = N + 1 THEN e ELSE s[n]
  BY Appended, InRange
<1> HIDE DEF a
<1>2. ASSUME NEW m \in 1 .. N + 1, NEW n \in 1 .. N + 1, m < n PROVE a[m] < a[n]
  <2>1. m \in 1 .. N /\ a[m] = s[m]
    BY <1>1, <1>2
  <2>2. CASE n = N + 1
    BY <1>1, <2>1, <2>2, InRange
  <2>3. CASE n # N + 1
    <3>1. n \in 1 .. N /\ a[n] = s[n]
      BY <1>1, <2>3
    <3> QED BY <1>2, <2>1, <3>1, InRange DEF Sorted
  <2> QED BY <2>2, <2>3
<1>3. Sorted(a)
  BY <1>1, <1>2, InRange DEF Sorted
<1> QED BY <1>1, <1>3 DEF Holds, a

\* A job that was submitted before all others goes to the front (enqueueFront).
LEMMA InFront ==
    ASSUME NEW s \in Seq(Nat), Sorted(s), NEW e \in Nat, \A x \in Range(s) : e < x
    PROVE  Holds(<<e>> \o s, Range(s) \cup {e}, Len(s) + 1)
<1> DEFINE a == <<e>> \o s
           N == Len(s)
<1>1. N \in Nat /\ a \in Seq(Nat) /\ Len(a) = N + 1
  OBVIOUS
<1>2. \A n \in 1 .. N + 1 : a[n] = IF n = 1 THEN e ELSE s[n - 1]
  OBVIOUS
<1> HIDE DEF a
<1>3. Sorted(a)
  <2> SUFFICES ASSUME NEW m \in 1 .. N + 1, NEW n \in 1 .. N + 1, m < n PROVE a[m] < a[n]
    BY <1>1, InRange DEF Sorted
  <2>1. n - 1 \in 1 .. N /\ a[n] = s[n - 1]
    BY <1>1, <1>2
  <2>2. CASE m = 1
    BY <1>2, <2>1, <2>2, InRange
  <2>3. CASE m # 1
    <3>1. m - 1 \in 1 .. N /\ a[m] = s[m - 1] /\ m - 1 < n - 1
      BY <1>1, <1>2, <2>3
    <3> QED BY <2>1, <3>1, InRange DEF Sorted
  <2> QED BY <2>2, <2>3
<1>4. Range(a) = Range(s) \cup {e}
  <2>1. ASSUME NEW x \in Range(a) PROVE x \in Range(s) \cup {e}
    <3>1. PICK n \in 1 .. N + 1 : x = a[n]
      BY <1>1, InRange
    <3>2. n = 1 \/ n - 1 \in 1 .. N
      BY <1>1
    <3> QED BY <1>2, <3>1, <3>2, InRange
  <2>2. ASSUME NEW x \in Range(s) PROVE x \in Range(a)
    <3>1. PICK n \in 1 .. N : x = s[n]
      BY InRange
    <3>2. n + 1 \in 1 .. N + 1 /\ n + 1 # 1 /\ (n + 1) - 1 = n
      BY <1>1
    <3>3. a[n + 1] = x
      BY <1>2, <3>1, <3>2
    <3> QED BY <1>1, <3>2, <3>3, InRange
  <2>3. e \in Range(a)
    <3>1. 1 \in 1 .. N + 1
      BY <1>1
    <3> QED BY <1>1, <1>2, <3>1, InRange
  <2> QED BY <2>1, <2>2, <2>3
<1> QED BY <1>1, <1>3, <1>4 DEF Holds, a

\* The job that pollNextJob takes was submitted before all that stay.
LEMMA FromTheFront ==
    ASSUME NEW s \in Seq(Nat), Sorted(s), Len(s) # 0
    PROVE  /\ Head(s) \in Range(s) /\ \A x \in Range(s) \ {Head(s)} : Head(s) < x
           /\ Holds(Tail(s), Range(s) \ {Head(s)}, Len(s) - 1)
<1> DEFINE a == Tail(s)
           N == Len(s)
           e == Head(s)
<1>1. /\ N \in Nat /\ a \in Seq(Nat) /\ Len(a) = N - 1 /\ e = s[1] /\ e \in Range(s)
      /\ \A n \in 1 .. N - 1 : a[n] = s[n + 1]
      /\ Range(s) = Range(a) \cup {e}
  BY HeadAndTail, InRange
<1> HIDE DEF a, e
<1>2. ASSUME NEW m \in 1 .. N - 1, NEW n \in 1 .. N - 1, m < n PROVE a[m] < a[n]
  <2>1. m + 1 \in 1 .. N /\ n + 1 \in 1 .. N /\ m + 1 < n + 1
    BY <1>1, <1>2
  <2> QED BY <1>1, <2>1, InRange DEF Sorted
<1>3. Sorted(a)
  BY <1>1, <1>2, InRange DEF Sorted
<1>4. ASSUME NEW x \in Range(a) PROVE e < x
  <2>1. PICK n \in 1 .. N - 1 : x = a[n]
    BY <1>1, InRange
  <2>2. n + 1 \in 1 .. N /\ 1 \in 1 .. N /\ 1 < n + 1 /\ x = s[n + 1]
    BY <1>1, <2>1
  <2> QED BY <1>1, <2>2, InRange DEF Sorted
<1>5. e \notin Range(a)
  BY <1>1, <1>4, InRange
<1> QED BY <1>1, <1>3, <1>4, <1>5 DEF Holds, a, e

\* What list::remove has kept after each element it looked at.
Kept(f, s, j, N) ==
    f = [n \in 0 .. N |-> IF n = 0 THEN << >>
                          ELSE IF s[n] = j THEN f[n - 1] ELSE Append(f[n - 1], s[n])]

\* The loop of list::remove runs to its end.
LEMMA KeptExists ==
    ASSUME NEW s, NEW j, Len(s) \in Nat
    PROVE  \E f : Kept(f, s, j, Len(s))
<1> DEFINE N == Len(s)
           Round(q, n) == IF s[n] = j THEN q ELSE Append(q, s[n])
           G == {n \in 0 .. N : \E f : Kept(f, s, j, n)}
<1>1. 0 \in G
  <2> DEFINE f == [n \in 0 .. 0 |-> << >>]
  <2>1. f = [n \in 0 .. 0 |-> IF n = 0 THEN << >> ELSE Round(f[n - 1], n)]
    OBVIOUS
  <2>2. Kept(f, s, j, 0)
    BY <2>1 DEF Kept
  <2> QED BY <2>2
<1>2. ASSUME NEW n \in 1 .. N, n - 1 \in G PROVE n \in G
  <2>1. PICK f : Kept(f, s, j, n - 1)
    BY <1>2
  <2> DEFINE g == [k \in 0 .. n |-> IF k = n THEN Round(f[n - 1], n) ELSE f[k]]
  <2>2. \A k \in 0 .. n - 1 : f[k] = IF k = 0 THEN << >> ELSE Round(f[k - 1], k)
    BY <2>1 DEF Kept
  <2>3. \A k \in 0 .. n - 1 : g[k] = f[k]
    OBVIOUS
  <2>4. g[n] = Round(g[n - 1], n)
    BY <2>3
  <2>5. \A k \in 0 .. n : g[k] = IF k = 0 THEN << >> ELSE Round(g[k - 1], k)
    <3> TAKE k \in 0 .. n
    <3>1. CASE k = n
      BY <2>4, <3>1
    <3>2. CASE k # n /\ k # 0
      <4>1. k \in 0 .. n - 1 /\ k - 1 \in 0 .. n - 1
        BY <3>2
      <4> QED BY <2>2, <2>3, <3>2, <4>1
    <3>3. CASE k # n /\ k = 0
      BY <2>2, <2>3, <3>3
    <3> QED BY <3>1, <3>2, <3>3
  <2>6. g = [k \in 0 .. n |-> IF k = 0 THEN << >> ELSE Round(g[k - 1], k)]
    BY <2>5
  <2>7. Kept(g, s, j, n)
    BY <2>6 DEF Kept
  <2> QED BY <2>7
<1>3. \A n \in 1 .. N : n - 1 \in G => n \in G
  BY <1>2
<1> HIDE DEF G
<1>4. \A n \in 0 .. N : n \in G
  BY <1>1, <1>3, FirstFailure
<1>5. N \in G
  BY <1>4
<1> QED BY <1>5 DEF G

LEMMA WithoutIsLastRound ==
    ASSUME NEW s, NEW j, Len(s) \in Nat
    PROVE  \E f : Kept(f, s, j, Len(s)) /\ without(s, j) = f[Len(s)]
<1> DEFINE f == CHOOSE f : Kept(f, s, j, Len(s))
<1>1. Kept(f, s, j, Len(s))
  BY KeptExists
<1>2. without(s, j) = f[Len(s)]
  BY DEF without, Kept
<1> QED BY <1>1, <1>2

\* list::remove removes the job and nothing else, wherever it is or is not.
LEMMA Removed ==
    ASSUME NEW s \in Seq(Nat), Sorted(s), NEW j
    PROVE  Holds(without(s, j), Range(s) \ {j}, IF j \in Range(s) THEN Len(s) - 1 ELSE Len(s))
<1> DEFINE N == Len(s)
           First(n) == {s[k] : k \in 1 .. n}
           Size(n) == IF j \in First(n) THEN n - 1 ELSE n
<1>1. N \in Nat
  OBVIOUS
<1>2. PICK f : Kept(f, s, j, N) /\ without(s, j) = f[N]
  BY <1>1, WithoutIsLastRound
<1>3. /\ f[0] = << >>
      /\ \A n \in 1 .. N : f[n] = IF s[n] = j THEN f[n - 1] ELSE Append(f[n - 1], s[n])
  <2>1. \A n \in 0 .. N : f[n] = IF n = 0 THEN << >>
                           ELSE IF s[n] = j THEN f[n - 1] ELSE Append(f[n - 1], s[n])
    BY <1>2, Zenon DEF Kept
  <2>2. 0 \in 0 .. N /\ \A n \in 1 .. N : n \in 0 .. N /\ n # 0
    BY <1>1
  <2> QED BY <2>1, <2>2, Zenon
<1> DEFINE G == {n \in 0 .. N : Holds(f[n], First(n) \ {j}, Size(n))}
<1>4. 0 \in G
  <2>1. First(0) = {} /\ Size(0) = 0
    OBVIOUS
  <2> HIDE DEF First, Size
  <2>2. First(0) \ {j} = {} /\ 0 \in 0 .. N
    BY <1>1, <2>1
  <2>3. Holds(f[0], First(0) \ {j}, Size(0))
    BY <1>3, <2>1, <2>2, EmptyQueue, Zenon
  <2> QED BY <2>2, <2>3, Zenon
<1>5. ASSUME NEW n \in 1 .. N, n - 1 \in G PROVE n \in G
  <2> DEFINE r == f[n - 1]
             e == s[n]
             E == First(n - 1)
  <2>1. Holds(r, E \ {j}, Size(n - 1))
    BY <1>5
  <2>2. e \in Nat /\ \A x \in E : x \in Nat /\ x < e
    <3>1. \A k \in 1 .. n - 1 : k \in 1 .. N /\ k < n
      BY <1>1
    <3> QED BY <3>1, InRange DEF Sorted
  <2>3. First(n) = E \cup {e}
    <3>1. 1 .. n = (1 .. n - 1) \cup {n}
      BY <1>1
    <3> QED BY <3>1
  <2>4. n \in Nat /\ n >= 1 /\ n \in 0 .. N /\ e \notin E
    BY <1>1, <2>2
  <2>5. f[n] = IF e = j THEN r ELSE Append(r, e)
    BY <1>3
  <2>6. Size(n - 1) = IF j \in E THEN (n - 1) - 1 ELSE n - 1
    OBVIOUS
  <2>7. Size(n) = IF j \in E \cup {e} THEN n - 1 ELSE n
    BY <2>3
  <2> HIDE DEF First, Size, r, e, E
  <2>8. CASE e = j
    <3>1. First(n) \ {j} = E \ {j} /\ Size(n) = Size(n - 1)
      BY <2>3, <2>4, <2>6, <2>7, <2>8
    <3>2. Holds(f[n], First(n) \ {j}, Size(n))
      BY <2>1, <2>5, <2>8, <3>1, Zenon
    <3> QED BY <2>4, <3>2, Zenon
  <2>9. CASE e # j
    <3>1. r \in Seq(Nat) /\ Sorted(r) /\ Range(r) = E \ {j} /\ Len(r) = Size(n - 1)
      BY <2>1 DEF Holds
    <3>2. Holds(Append(r, e), Range(r) \cup {e}, Len(r) + 1)
      BY <2>2, <3>1, AtTheEnd
    <3>3. Range(r) \cup {e} = First(n) \ {j}
      BY <2>3, <2>9, <3>1
    <3>4. Len(r) + 1 = Size(n)
      BY <2>4, <2>6, <2>7, <2>9, <3>1
    <3>5. Holds(f[n], First(n) \ {j}, Size(n))
      BY <2>5, <2>9, <3>2, <3>3, <3>4, Zenon
    <3> QED BY <2>4, <3>5, Zenon
  <2> QED BY <2>8, <2>9
<1>6. \A n \in 1 .. N : n - 1 \in G => n \in G
  BY <1>5
<1> HIDE DEF G
<1>7. \A n \in 0 .. N : n \in G
  BY <1>1, <1>4, <1>6, FirstFailure
<1>8. N \in G
  BY <1>1, <1>7
<1>9. First(N) = Range(s)
  BY InRange DEF Range
<1>10. Size(N) = IF j \in Range(s) THEN Len(s) - 1 ELSE Len(s)
  BY <1>9
<1>11. Holds(f[N], First(N) \ {j}, Size(N))
  BY <1>8 DEF G
<1> HIDE DEF First, Size
<1> QED BY <1>2, <1>9, <1>10, <1>11

\* A sorted queue holds a job once.
LEMMA HeldOnce ==
    ASSUME NEW s \in Seq(Nat), Sorted(s), NEW j
    PROVE  Cardinality({n \in DOMAIN s : s[n] = j}) = IF j \in Range(s) THEN 1 ELSE 0
<1> DEFINE At == {n \in DOMAIN s : s[n] = j}
<1>1. CASE j \in Range(s)
  <2>1. PICK k \in 1 .. Len(s) : j = s[k]
    BY <1>1, InRange
  <2>2. ASSUME NEW n \in 1 .. Len(s), n # k PROVE s[n] # j
    <3>1. (n < k \/ k < n) /\ n \in DOMAIN s /\ k \in DOMAIN s
      BY <2>2, InRange
    <3>2. s[n] < s[k] \/ s[k] < s[n]
      BY <3>1 DEF Sorted
    <3>3. s[n] \in Nat /\ s[k] \in Nat
      BY InRange
    <3> QED BY <2>1, <3>2, <3>3
  <2>3. At = {k}
    BY <2>1, <2>2, InRange
  <2> QED BY <1>1, <2>3, FS_Singleton
<1>2. CASE j \notin Range(s)
  <2>1. At = {}
    BY <1>2, InRange
  <2> QED BY <1>2, <2>1, FS_EmptySet
<1> QED BY <1>1, <1>2
-----------------------------------------------------------------------------
(* The invariant, about the sets of jobs.                                  *)

QueuesOK ==
    /\ Holds(pendingJobs, Range(pendingJobs), currentJobs)
    /\ Holds(done, Range(done), Len(done))

JobsOK ==
    /\ \A x \in Range(done), y \in Range(pendingJobs) : x < y
    /\ job # NoJob => /\ \A y \in Range(pendingJobs) : job < y
                      /\ \A x \in Range(done) : x < job
    /\ PlaceInv

ThreadsOK ==
    /\ status \in {"OPERATIONAL", "SHUTTING_DOWN", "STOPPING"}
    /\ myThread \in BOOLEAN /\ outsideStop \in BOOLEAN
    /\ wpc \in {"none", "check", "lock", "waiting", "process", "requeue", "ended"}
    /\ opc \in {"idle", "join"}
    /\ job \in 0 .. MaxJobs /\ submitted \in 0 .. MaxJobs /\ fails \in Nat
    /\ currentJobs <= MaxPendingJobs + (IF job = NoJob THEN 1 ELSE 0)
    /\ job # NoJob <=> wpc \in {"process", "requeue"}
    /\ myThread <=> wpc # "none"
    /\ opc = "join" => myThread
    /\ status = "OPERATIONAL" => wpc # "ended"
    /\ wpc = "requeue" => fails > 0

SetInv == QueuesOK /\ JobsOK /\ ThreadsOK /\ ShutdownInv

LEMMA Bounds == MaxJobs \in Nat /\ MaxPendingJobs \in Nat
BY JobProcessorAssumption

LEMMA OverNat ==
    ASSUME NEW s, NEW n \in Nat, s \in Seq(1 .. n)
    PROVE  s \in Seq(Nat)
<1>1. DOMAIN s = 1 .. Len(s) /\ Len(s) \in Nat /\ \A k \in 1 .. Len(s) : s[k] \in Nat
  OBVIOUS
<1>2. s = [k \in 1 .. Len(s) |-> s[k]]
  OBVIOUS
<1> QED BY <1>1, <1>2

\* Two queues hold only jobs that are ordered if all their elements are.
LEMMA Ordered ==
    ASSUME NEW s \in Seq(Nat), NEW r \in Seq(Nat)
    PROVE  (\A m \in DOMAIN s, n \in DOMAIN r : s[m] < r[n])
              <=> \A x \in Range(s), y \in Range(r) : x < y
<1>1. ASSUME \A m \in DOMAIN s, n \in DOMAIN r : s[m] < r[n],
             NEW x \in Range(s), NEW y \in Range(r)
      PROVE  x < y
  <2>1. PICK m \in DOMAIN s : x = s[m]
    BY DEF Range
  <2>2. PICK n \in DOMAIN r : y = r[n]
    BY DEF Range
  <2> QED BY <1>1, <2>1, <2>2
<1>2. ASSUME \A x \in Range(s), y \in Range(r) : x < y, NEW m \in DOMAIN s, NEW n \in DOMAIN r
      PROVE  s[m] < r[n]
  <2>1. s[m] \in Range(s) /\ r[n] \in Range(r)
    BY DEF Range
  <2> QED BY <1>2, <2>1
<1> QED BY <1>1, <1>2

LEMMA OrderedAfter ==
    ASSUME NEW s \in Seq(Nat), NEW e
    PROVE  (\A n \in DOMAIN s : e < s[n]) <=> \A y \in Range(s) : e < y
BY InRange

LEMMA OrderedBefore ==
    ASSUME NEW s \in Seq(Nat), NEW e
    PROVE  (\A n \in DOMAIN s : s[n] < e) <=> \A x \in Range(s) : x < e
BY InRange

LEMMA InvIsSetInv == IInv <=> SetInv
<1> DEFINE P == Range(pendingJobs)
           D == Range(done)
<1>1. ASSUME pendingJobs \in Seq(Nat), done \in Seq(Nat)
      PROVE  OrderInv <=> /\ Sorted(pendingJobs) /\ Sorted(done)
                          /\ \A x \in D, y \in P : x < y
                          /\ job # NoJob => /\ \A y \in P : job < y
                                            /\ \A x \in D : x < job
  <2>1. (\A m \in DOMAIN done, n \in DOMAIN pendingJobs : done[m] < pendingJobs[n])
           <=> \A x \in D, y \in P : x < y
    BY <1>1, Ordered
  <2>2. (\A n \in DOMAIN pendingJobs : job < pendingJobs[n]) <=> \A y \in P : job < y
    BY <1>1, OrderedAfter
  <2>3. (\A n \in DOMAIN done : done[n] < job) <=> \A x \in D : x < job
    BY <1>1, OrderedBefore
  <2> QED BY <2>1, <2>2, <2>3, Zenon DEF OrderInv, Sorted
<1>2. ASSUME IInv PROVE SetInv
  <2>1. pendingJobs \in Seq(Nat) /\ done \in Seq(Nat)
    BY <1>2, Bounds, OverNat DEF IInv, TypeOK, WorkerInv
  <2>2. Sorted(pendingJobs) /\ Sorted(done) /\ JobsOK
    BY <1>1, <1>2, <2>1, Zenon DEF IInv, JobsOK
  <2>3. QueuesOK
    BY <1>2, <2>1, <2>2 DEF IInv, QueuesOK, Holds, WorkerInv
  <2>4. ThreadsOK
    BY <1>2 DEF IInv, ThreadsOK, TypeOK, WorkerInv
  <2> QED BY <1>2, <2>2, <2>3, <2>4 DEF IInv, SetInv
<1>3. ASSUME SetInv PROVE IInv
  <2>1. /\ pendingJobs \in Seq(Nat) /\ done \in Seq(Nat)
        /\ Sorted(pendingJobs) /\ Sorted(done) /\ currentJobs = Len(pendingJobs)
    BY <1>3 DEF SetInv, QueuesOK, Holds
  <2>2. OrderInv
    BY <1>1, <1>3, <2>1, Zenon DEF SetInv, JobsOK
  <2>3. 1 .. submitted \subseteq 1 .. MaxJobs
    BY <1>3, Bounds DEF SetInv, ThreadsOK
  <2>4. P \subseteq 1 .. MaxJobs /\ D \subseteq 1 .. MaxJobs
        /\ aborted \subseteq 1 .. MaxJobs /\ cancelled \subseteq 1 .. MaxJobs
    BY <1>3, <2>3 DEF SetInv, JobsOK, PlaceInv
  <2>5. pendingJobs \in Seq(1 .. MaxJobs) /\ done \in Seq(1 .. MaxJobs)
    BY <2>1, <2>4, Over
  <2>6. mark \subseteq 1 .. MaxJobs
    BY <1>3, <2>3 DEF SetInv, ShutdownInv
  <2>7. TypeOK
    <3>1. currentJobs \in Int
      BY <2>1
    <3> QED BY <1>3, <2>4, <2>5, <2>6, <3>1 DEF SetInv, ThreadsOK, TypeOK
  <2>8. WorkerInv
    BY <1>3, <2>1, <2>5 DEF SetInv, ThreadsOK, WorkerInv
  <2> QED BY <1>3, <2>2, <2>7, <2>8 DEF IInv, SetInv, JobsOK
<1> QED BY <1>2, <1>3
-----------------------------------------------------------------------------
(* The steps.                                                              *)

\* What the proofs of the steps use of the state.
LEMMA Facts ==
    ASSUME SetInv
    PROVE  /\ pendingJobs \in Seq(Nat) /\ Sorted(pendingJobs)
           /\ currentJobs = Len(pendingJobs) /\ currentJobs \in Nat
           /\ done \in Seq(Nat) /\ Sorted(done)
           /\ Range(pendingJobs) \subseteq 1 .. submitted /\ Range(done) \subseteq 1 .. submitted
           /\ submitted \in Nat /\ job \in 0 .. submitted
           /\ currentJobs = 0 <=> Range(pendingJobs) = {}
<1>1. /\ pendingJobs \in Seq(Nat) /\ Sorted(pendingJobs) /\ currentJobs = Len(pendingJobs)
      /\ done \in Seq(Nat) /\ Sorted(done)
  BY DEF SetInv, QueuesOK, Holds
<1>2. currentJobs \in Nat /\ (currentJobs = 0 <=> Range(pendingJobs) = {})
  BY <1>1, InRange
<1>3. Range(pendingJobs) \subseteq 1 .. submitted /\ Range(done) \subseteq 1 .. submitted
  BY DEF SetInv, JobsOK, PlaceInv
<1>4. submitted \in Nat /\ job \in 0 .. submitted
  <2>1. submitted \in Nat /\ job \in Nat
    BY Bounds DEF SetInv, ThreadsOK
  <2>2. job # 0 => job \in 1 .. submitted
    BY DEF SetInv, JobsOK, PlaceInv, NoJob
  <2> QED BY <2>1, <2>2
<1> QED BY <1>1, <1>2, <1>3, <1>4

\* A queue that does not change.
LEMMA SameQueues ==
    ASSUME SetInv, UNCHANGED <<queueVars, done>>
    PROVE  QueuesOK' /\ Range(pendingJobs)' = Range(pendingJobs) /\ Range(done)' = Range(done)
BY DEF SetInv, QueuesOK, queueVars

\* iStartJob: the new job is the last one; there is place in the queue or it is aborted.
LEMMA StartStep == ASSUME SetInv, iStartJob PROVE SetInv'
<1> DEFINE P == Range(pendingJobs)
           D == Range(done)
           e == submitted + 1
<1> USE Facts
<1>1. e \in Nat /\ submitted' = e /\ e \in 1 .. MaxJobs /\ 1 .. e = (1 .. submitted) \cup {e}
      /\ \A x \in 1 .. submitted : x < e
  BY Bounds DEF iStartJob, SetInv, ThreadsOK
<1>2. done' = done /\ Range(done)' = D /\ job' = job
  BY DEF iStartJob
<1>3. CASE mayEnqueue
  <2>1. Holds(pendingJobs', P \cup {e}, currentJobs')
    BY <1>1, <1>3, AtTheEnd DEF iStartJob, enqueueJob
  <2>2. Range(pendingJobs)' = P \cup {e}
    BY <2>1 DEF Holds
  <2>3. QueuesOK'
    BY <1>2, <2>1, <2>2 DEF QueuesOK, SetInv
  <2>4. UNCHANGED <<aborted, cancelled>>
    BY <1>3 DEF iStartJob
  <2> HIDE DEF P, D, e
  <2>5. JobsOK'
    <3>1. PlaceInv'
      BY <1>1, <1>2, <2>2, <2>4 DEF SetInv, JobsOK, PlaceInv, P, D, NoJob
    <3> QED BY <1>1, <1>2, <2>2, <3>1 DEF SetInv, JobsOK, P, D
  <2>6. ThreadsOK'
    BY <1>1, <1>3, Bounds DEF SetInv, ThreadsOK, iStartJob, enqueueJob, mayEnqueue, Notified, ownerVars
  <2>7. ShutdownInv'
    BY <1>1, <1>3, <2>2 DEF SetInv, ThreadsOK, ShutdownInv, iStartJob, Notified, ownerVars, P
  <2> QED BY <2>3, <2>5, <2>6, <2>7 DEF SetInv
<1>4. CASE ~mayEnqueue
  <2>1. QueuesOK' /\ Range(pendingJobs)' = P
    BY <1>4, SameQueues DEF iStartJob
  <2>2. aborted' = aborted \cup {e} /\ cancelled' = cancelled
    BY <1>4 DEF iStartJob
  <2> HIDE DEF P, D, e
  <2>3. JobsOK'
    <3>1. PlaceInv'
      BY <1>1, <1>2, <2>1, <2>2 DEF SetInv, JobsOK, PlaceInv, P, D, NoJob
    <3> QED BY <1>1, <1>2, <2>1, <3>1 DEF SetInv, JobsOK, P, D
  <2>4. ThreadsOK'
    BY <1>1, <1>4, Bounds DEF SetInv, ThreadsOK, iStartJob, queueVars, ownerVars
  <2>5. ShutdownInv'
    BY <1>1, <1>4, <2>1 DEF SetInv, ShutdownInv, iStartJob, ownerVars, P
  <2> QED BY <2>1, <2>3, <2>4, <2>5 DEF SetInv
<1> QED BY <1>3, <1>4

\* iCancelJob: the job leaves the queue if it is there; it may be anywhere else.
LEMMA CancelStep == ASSUME SetInv, NEW j \in 1 .. MaxJobs, iCancelJob(j) PROVE SetInv'
<1> DEFINE P == Range(pendingJobs)
           D == Range(done)
<1> USE Facts
<1>1. Holds(pendingJobs', P \ {j}, IF j \in P THEN Len(pendingJobs) - 1 ELSE Len(pendingJobs))
  BY Removed DEF iCancelJob, removeJob
<1>2. currentJobs' = Len(pendingJobs')
  BY <1>1 DEF iCancelJob, removeJob, Holds
<1>3. Range(pendingJobs)' = P \ {j} /\ currentJobs' <= currentJobs /\ currentJobs' \in Nat
  BY <1>1, <1>2, InRange DEF Holds
<1>4. done' = done /\ Range(done)' = D /\ job' = job
  BY DEF iCancelJob
<1>5. QueuesOK'
  BY <1>1, <1>2, <1>4 DEF QueuesOK, SetInv, Holds
<1>6. cancelled' = cancelled \cup (P \ (P \ {j})) /\ aborted' = aborted
  BY <1>3 DEF iCancelJob
<1> HIDE DEF P, D
<1>7. JobsOK'
  <2>1. submitted' = submitted
    BY DEF iCancelJob
  <2>2. D \cap P = {} /\ job \notin P
    <3>1. \A x \in D \cap P : x < x /\ x \in Nat
      BY DEF SetInv, JobsOK, P, D
    <3>2. job \in P => job < job /\ job # 0
      BY DEF SetInv, JobsOK, P, NoJob
    <3> QED BY <3>1, <3>2
  <2>3. PlaceInv'
    BY <1>3, <1>4, <1>6, <2>1, <2>2 DEF SetInv, JobsOK, PlaceInv, P, D
  <2> QED BY <1>3, <1>4, <2>3 DEF SetInv, JobsOK, P, D
<1>8. ThreadsOK'
  BY <1>3, Bounds DEF SetInv, ThreadsOK, iCancelJob, ownerVars
<1>9. ShutdownInv'
  BY <1>3 DEF SetInv, ShutdownInv, iCancelJob, ownerVars, P
<1> QED BY <1>5, <1>7, <1>8, <1>9 DEF SetInv
\* A step that moves no job.
LEMMA SamePlaces ==
    ASSUME SetInv, UNCHANGED <<queueVars, done, job, submitted, aborted, cancelled>>
    PROVE  QueuesOK' /\ JobsOK' /\ Range(pendingJobs)' = Range(pendingJobs)
<1>1. QueuesOK' /\ Range(pendingJobs)' = Range(pendingJobs) /\ Range(done)' = Range(done)
  BY SameQueues
<1>2. PlaceInv'
  BY <1>1 DEF SetInv, JobsOK, PlaceInv
<1> QED BY <1>1, <1>2 DEF SetInv, JobsOK

\* stopProcessing from outside: the shutdown in progress may now fail.
LEMMA StopOutsideStep == ASSUME SetInv, stopProcessingOutside PROVE SetInv'
<1>1. QueuesOK' /\ JobsOK' /\ Range(pendingJobs)' = Range(pendingJobs)
  BY SamePlaces DEF stopProcessingOutside, ownerVars, history
<1>2. ThreadsOK'
  BY Bounds DEF SetInv, ThreadsOK, stopProcessingOutside, Notified, queueVars, ownerVars, history
<1>3. ShutdownInv'
  BY <1>1 DEF SetInv, ThreadsOK, ShutdownInv, stopProcessingOutside, Notified, queueVars, ownerVars, history
<1> QED BY <1>1, <1>2, <1>3 DEF SetInv

\* startProcessing: only an owner that waits for nothing creates a thread.
LEMMA StartProcessingStep == ASSUME SetInv, startProcessing PROVE SetInv'
<1>1. QueuesOK' /\ JobsOK' /\ Range(pendingJobs)' = Range(pendingJobs)
  BY SamePlaces DEF startProcessing, OwnerCalls, ownerVars, history
<1>2. ThreadsOK'
  BY Bounds DEF SetInv, ThreadsOK, startProcessing, OwnerCalls, Notified, queueVars, ownerVars, history
<1>3. ShutdownInv'
  BY <1>1 DEF SetInv, ThreadsOK, ShutdownInv, startProcessing, OwnerCalls, Notified, queueVars, ownerVars, history
<1> QED BY <1>1, <1>2, <1>3 DEF SetInv

\* stopProcessing by the owner, which then is not in shutdown.
LEMMA StopStep == ASSUME SetInv, stopProcessing PROVE SetInv'
<1>1. QueuesOK' /\ JobsOK' /\ Range(pendingJobs)' = Range(pendingJobs)
  BY SamePlaces DEF stopProcessing, OwnerCalls, ownerVars, history
<1>2. ThreadsOK'
  BY Bounds DEF SetInv, ThreadsOK, stopProcessing, OwnerCalls, Notified, queueVars, ownerVars, history
<1>3. ShutdownInv'
  BY <1>1 DEF SetInv, ThreadsOK, ShutdownInv, stopProcessing, OwnerCalls, Notified, queueVars, ownerVars, history
<1> QED BY <1>1, <1>2, <1>3 DEF SetInv

\* The join: the thread has ended, so that it found the queue empty or was stopped.
LEMMA JoinStep == ASSUME SetInv, shutdownJoin PROVE SetInv'
<1>1. QueuesOK' /\ JobsOK' /\ Range(pendingJobs)' = Range(pendingJobs)
  BY SamePlaces DEF shutdownJoin, ownerVars, history
<1>2. ThreadsOK'
  BY Bounds DEF SetInv, ThreadsOK, shutdownJoin, Notified, queueVars, ownerVars, history
<1>3. ShutdownInv'
  BY <1>1 DEF SetInv, ThreadsOK, ShutdownInv, shutdownJoin, Notified, queueVars, ownerVars, history
<1> QED BY <1>1, <1>2, <1>3 DEF SetInv

\* The test of the status: a worker that ends was stopped, not shut down.
LEMMA TestStatusStep == ASSUME SetInv, processTestStatus PROVE SetInv'
<1>1. QueuesOK' /\ JobsOK' /\ Range(pendingJobs)' = Range(pendingJobs)
  BY SamePlaces DEF processTestStatus, ownerVars, history
<1>2. ThreadsOK'
  BY Bounds DEF SetInv, ThreadsOK, processTestStatus, Notified, queueVars, ownerVars, history
<1>3. ShutdownInv'
  BY <1>1 DEF SetInv, ThreadsOK, ShutdownInv, processTestStatus, Notified, queueVars, ownerVars, history
<1> QED BY <1>1, <1>2, <1>3 DEF SetInv

\* A spurious wake-up.
LEMMA WakeupStep == ASSUME SetInv, processSpuriousWakeup PROVE SetInv'
<1>1. QueuesOK' /\ JobsOK' /\ Range(pendingJobs)' = Range(pendingJobs)
  BY SamePlaces DEF processSpuriousWakeup, ownerVars, history
<1>2. ThreadsOK'
  BY Bounds DEF SetInv, ThreadsOK, processSpuriousWakeup, Notified, queueVars, ownerVars, history
<1>3. ShutdownInv'
  BY <1>1 DEF SetInv, ThreadsOK, ShutdownInv, processSpuriousWakeup, Notified, queueVars, ownerVars, history
<1> QED BY <1>1, <1>2, <1>3 DEF SetInv

\* A job fails: it stays with the worker, and a shutdown promises nothing any more.
LEMMA FailStep == ASSUME SetInv, processJobFails PROVE SetInv'
<1>1. QueuesOK' /\ JobsOK' /\ Range(pendingJobs)' = Range(pendingJobs)
  BY SamePlaces DEF processJobFails, ownerVars, history
<1>2. ThreadsOK'
  BY Bounds DEF SetInv, ThreadsOK, processJobFails, Notified, queueVars, ownerVars, history
<1>3. ShutdownInv'
  BY <1>1 DEF SetInv, ThreadsOK, ShutdownInv, processJobFails, Notified, queueVars, ownerVars, history
<1> QED BY <1>1, <1>2, <1>3 DEF SetInv

\* shutdown: what is pending is aborted, or left to a worker that has not ended.
LEMMA ShutdownStep == ASSUME SetInv, NEW terminate \in BOOLEAN, shutdown(terminate) PROVE SetInv'
<1> DEFINE P == Range(pendingJobs)
           D == Range(done)
<1> USE Facts
<1>1. done' = done /\ Range(done)' = D /\ job' = job /\ submitted' = submitted
      /\ cancelled' = cancelled
  BY DEF shutdown
<1>2. mark' \subseteq 1 .. submitted /\ mark' = P \cup ({job} \ {NoJob})
  <2>1. mark' = P \cup ({job} \ {NoJob})
    BY DEF shutdown
  <2> HIDE DEF P
  <2> QED BY <2>1 DEF NoJob, P
<1>3. CASE terminate
  <2>1. pendingJobs' = << >> /\ currentJobs' = 0 /\ aborted' = aborted \cup P
    BY <1>3 DEF shutdown, abortPendingJobs
  <2>2. QueuesOK' /\ Range(pendingJobs)' = {}
    BY <1>1, <2>1, EmptyQueue DEF QueuesOK, SetInv, Holds
  <2> HIDE DEF P, D
  <2>3. JobsOK'
    <3>1. D \cap P = {} /\ job \notin P
      <4>1. \A x \in D \cap P : x < x /\ x \in Nat
        BY DEF SetInv, JobsOK, P, D
      <4>2. job \in P => job < job /\ job # 0
        BY DEF SetInv, JobsOK, P, NoJob
      <4> QED BY <4>1, <4>2
    <3>2. PlaceInv'
      BY <1>1, <2>1, <2>2, <3>1 DEF SetInv, JobsOK, PlaceInv, P, D
    <3> QED BY <1>1, <2>2, <3>2 DEF SetInv, JobsOK, D
  <2>4. ThreadsOK'
    BY <2>1, Bounds DEF SetInv, ThreadsOK, shutdown, OwnerCalls, Notified
  <2>5. ShutdownInv'
    BY <1>1, <1>2, <1>3, <2>2 DEF ShutdownInv, shutdown
  <2> QED BY <2>2, <2>3, <2>4, <2>5 DEF SetInv
<1>4. CASE ~terminate
  <2>1. QueuesOK' /\ JobsOK'
    BY <1>1, <1>4, SamePlaces DEF shutdown
  <2>2. ThreadsOK'
    BY <1>4, Bounds DEF SetInv, ThreadsOK, shutdown, OwnerCalls, Notified, queueVars
  <2>3. ShutdownInv'
    <3>1. shutdownKind' # "terminate"
      BY <1>4 DEF shutdown
    <3>2. shutdownKind' = "complete" => status' = "SHUTTING_DOWN" /\ opc' = "join" /\ wpc' # "ended"
      BY <1>4 DEF SetInv, ThreadsOK, shutdown, Notified
    <3> QED BY <1>1, <1>2, <3>1, <3>2 DEF ShutdownInv
  <2> QED BY <2>1, <2>2, <2>3 DEF SetInv
<1> QED BY <1>3, <1>4

\* The worker takes the first job, waits, or ends with an empty queue.
LEMMA PollStep == ASSUME SetInv, processPoll PROVE SetInv'
<1> DEFINE P == Range(pendingJobs)
           D == Range(done)
<1> USE Facts
<1>1. CASE empty
  <2>1. QueuesOK' /\ JobsOK' /\ Range(pendingJobs)' = P
    BY <1>1, SamePlaces DEF processPoll, history
  <2>2. ThreadsOK'
    BY <1>1, Bounds DEF SetInv, ThreadsOK, processPoll, queueVars, ownerVars, history
  <2>3. P = {}
    BY <1>1 DEF empty
  <2>4. ShutdownInv'
    BY <2>1, <2>3 DEF SetInv, ShutdownInv, processPoll, ownerVars, history
  <2> QED BY <2>1, <2>2, <2>4 DEF SetInv
<1>2. CASE ~empty
  <2> DEFINE e == Head(pendingJobs)
  <2>1. /\ e \in P /\ \A x \in P \ {e} : e < x
        /\ Holds(pendingJobs', P \ {e}, currentJobs')
    BY <1>2, FromTheFront DEF processPoll, pollNextJob, empty
  <2>2. /\ job' = e /\ job = NoJob /\ currentJobs' = currentJobs - 1 /\ done' = done
        /\ wpc = "lock" /\ wpc' = "process"
        /\ UNCHANGED <<status, myThread, ownerVars, history>>
    BY <1>2 DEF SetInv, ThreadsOK, processPoll, pollNextJob, history
  <2>3. Range(pendingJobs)' = P \ {e} /\ Range(done)' = D
    BY <2>1, <2>2 DEF Holds
  <2>4. QueuesOK'
    BY <2>1, <2>2, <2>3 DEF SetInv, QueuesOK
  <2>5. e \in 1 .. submitted
    BY <2>1
  <2> HIDE DEF P, D, e
  <2>6. JobsOK'
    <3>1. PlaceInv'
      BY <2>1, <2>2, <2>3, <2>5 DEF SetInv, JobsOK, PlaceInv, P, D, NoJob, history
    <3> QED BY <2>1, <2>2, <2>3, <3>1 DEF SetInv, JobsOK, P, D
  <2>7. ThreadsOK'
    BY <2>2, <2>5, Bounds DEF SetInv, ThreadsOK, ownerVars, history, NoJob
  <2>8. ShutdownInv'
    BY <2>2, <2>3 DEF SetInv, ShutdownInv, ownerVars, history, P
  <2> QED BY <2>4, <2>6, <2>7, <2>8 DEF SetInv
<1> QED BY <1>1, <1>2

\* A job is processed: it was submitted after all that were processed before.
LEMMA SucceedStep == ASSUME SetInv, processJobSucceeds PROVE SetInv'
<1> DEFINE P == Range(pendingJobs)
           D == Range(done)
<1> USE Facts
<1>1. /\ job # NoJob /\ job' = NoJob /\ wpc = "process" /\ wpc' = "check"
      /\ UNCHANGED <<queueVars, status, myThread, ownerVars, submitted, aborted, cancelled,
                     fails, outsideStop>>
  BY DEF SetInv, ThreadsOK, processJobSucceeds
<1>2. Holds(done', D \cup {job}, Len(done) + 1)
  <2>1. job \in Nat /\ \A x \in D : x < job
    BY <1>1 DEF SetInv, JobsOK
  <2> QED BY <2>1, AtTheEnd DEF processJobSucceeds
<1>3. Range(done)' = D \cup {job} /\ Range(pendingJobs)' = P
  BY <1>1, <1>2 DEF Holds, queueVars
<1>4. QueuesOK'
  BY <1>1, <1>2, <1>3 DEF SetInv, QueuesOK, Holds, queueVars
<1> HIDE DEF P, D
<1>5. JobsOK'
  <2>1. PlaceInv'
    BY <1>1, <1>3 DEF SetInv, JobsOK, PlaceInv, P, D, NoJob
  <2> QED BY <1>1, <1>3, <2>1 DEF SetInv, JobsOK, P, D
<1>6. ThreadsOK'
  BY <1>1, Bounds DEF SetInv, ThreadsOK, queueVars, ownerVars, NoJob
<1>7. ShutdownInv'
  BY <1>1, <1>3 DEF SetInv, ShutdownInv, ownerVars, P
<1> QED BY <1>4, <1>5, <1>6, <1>7 DEF SetInv

\* A failed job goes back to the front, above the limit of the queue if need be.
LEMMA RequeueStep == ASSUME SetInv, processJobRequeues PROVE SetInv'
<1> DEFINE P == Range(pendingJobs)
           D == Range(done)
<1> USE Facts
<1>1. /\ job # NoJob /\ job' = NoJob /\ wpc = "requeue" /\ wpc' = "check" /\ fails > 0
      /\ currentJobs' = currentJobs + 1
      /\ UNCHANGED <<status, myThread, ownerVars, history>>
  BY DEF SetInv, ThreadsOK, processJobRequeues, enqueueFront
<1>2. Holds(pendingJobs', P \cup {job}, currentJobs')
  <2>1. job \in Nat /\ \A x \in P : job < x
    BY <1>1 DEF SetInv, JobsOK
  <2> QED BY <2>1, InFront DEF processJobRequeues, enqueueFront
<1>3. Range(pendingJobs)' = P \cup {job} /\ Range(done)' = D
  BY <1>1, <1>2 DEF Holds, history
<1>4. QueuesOK'
  BY <1>1, <1>2, <1>3 DEF SetInv, QueuesOK, Holds, history
<1> HIDE DEF P, D
<1>5. JobsOK'
  <2>1. PlaceInv'
    BY <1>1, <1>3 DEF SetInv, JobsOK, PlaceInv, P, D, NoJob, history
  <2>2. \A x \in D, y \in P \cup {job} : x < y
    BY <1>1 DEF SetInv, JobsOK, P, D
  <2> QED BY <1>1, <1>3, <2>1, <2>2 DEF JobsOK
<1>6. ThreadsOK'
  BY <1>1, Bounds DEF SetInv, ThreadsOK, ownerVars, history, NoJob
<1>7. ShutdownInv'
  BY <1>1 DEF SetInv, ShutdownInv, ownerVars, history
<1> QED BY <1>4, <1>5, <1>6, <1>7 DEF SetInv

-----------------------------------------------------------------------------
\* The invariant of the processor holds in every reachable state.
LEMMA Inductive == IInv /\ [Next]_vars => IInv'
<1> SUFFICES ASSUME SetInv, [Next]_vars PROVE SetInv'
  <2>1. IInv' <=> SetInv'
    BY InvIsSetInv, PTL
  <2> QED BY <2>1, InvIsSetInv
<1>1. CASE UNCHANGED vars
  <2>1. QueuesOK' /\ JobsOK' /\ Range(pendingJobs)' = Range(pendingJobs)
    BY <1>1, SamePlaces DEF vars, queueVars, ownerVars, history
  <2>2. ThreadsOK' /\ ShutdownInv'
    BY <1>1, <2>1 DEF SetInv, ThreadsOK, ShutdownInv, vars, queueVars, ownerVars, history
  <2> QED BY <2>1, <2>2 DEF SetInv
<1>2. CASE Next
  BY <1>2, StartStep, CancelStep, StartProcessingStep, StopStep, JoinStep, ShutdownStep,
     StopOutsideStep, TestStatusStep, PollStep, SucceedStep, FailStep, RequeueStep, WakeupStep
  DEF Next, Owner, process
<1> QED BY <1>1, <1>2

\* The invariant of SingleThreadedJobProcessor and its queue.
THEOREM Invariance == Spec => []IInv
<1>1. Init => IInv
  <2> SUFFICES ASSUME Init PROVE SetInv
    BY InvIsSetInv
  <2>1. Range(pendingJobs) = {} /\ Range(done) = {} /\ QueuesOK
    BY EmptyQueue DEF Init, QueuesOK, Holds
  <2>2. JobsOK
    BY <2>1 DEF JobsOK, PlaceInv, Init
  <2>3. ThreadsOK
    <3>1. 0 \in 0 .. MaxJobs /\ 0 \in Nat /\ 0 <= MaxPendingJobs + 1
      BY Bounds
    <3>2. myThread <=> wpc # "none"
      BY DEF Init
    <3> QED BY <3>1, <3>2 DEF ThreadsOK, Init, NoJob
  <2>4. ShutdownInv
    BY <2>1 DEF ShutdownInv, Init
  <2> QED BY <2>1, <2>2, <2>3, <2>4 DEF SetInv
<1> QED BY <1>1, Inductive, PTL DEF Spec

\* No job is lost, duplicated or overtaken, the counter of the discard wrapper is the
\* length of the queue, and shutdown leaves none of the jobs it found, whatever the
\* users, the owner and the worker do.
THEOREM NothingIsLost == Spec => []NoJobIsLost
<1>1. IInv => NoJobIsLost
  <2> SUFFICES ASSUME IInv PROVE NoJobIsLost
    OBVIOUS
  <2>1. SetInv
    BY InvIsSetInv
  <2> USE Facts
  <2>2. TypeOK /\ CompletedInOrder
    BY DEF IInv, OrderInv, CompletedInOrder
  <2>3. ShutdownEmpties
    BY DEF IInv, ShutdownInv, ShutdownEmpties
  <2>4. currentJobs = Len(pendingJobs) /\ currentJobs <= MaxPendingJobs + 1
    BY <2>1, Bounds DEF SetInv, ThreadsOK
  <2>5. ASSUME NEW j \in 1 .. submitted
        PROVE  Cardinality({n \in DOMAIN pendingJobs : pendingJobs[n] = j})
               + (IF job = j THEN 1 ELSE 0)
               + Cardinality({n \in DOMAIN done : done[n] = j})
               + (IF j \in aborted THEN 1 ELSE 0)
               + (IF j \in cancelled THEN 1 ELSE 0) = 1
    <3> DEFINE P == Range(pendingJobs)
               D == Range(done)
    <3>1. Cardinality({n \in DOMAIN pendingJobs : pendingJobs[n] = j}) = IF j \in P THEN 1 ELSE 0
      BY <2>1, HeldOnce
    <3>2. Cardinality({n \in DOMAIN done : done[n] = j}) = IF j \in D THEN 1 ELSE 0
      BY <2>1, HeldOnce
    <3>3. j \in P \/ job = j \/ j \in D \/ j \in aborted \/ j \in cancelled
      BY <2>1 DEF SetInv, JobsOK, PlaceInv
    <3>4. /\ j \in Nat /\ j # NoJob
          /\ ~(j \in P /\ job = j) /\ ~(j \in P /\ j \in D) /\ ~(job = j /\ j \in D)
      <4>1. j \in Nat /\ j # NoJob /\ ~(j < j)
        BY <2>1 DEF NoJob
      <4> QED BY <2>1, <4>1 DEF SetInv, JobsOK
    <3>5. (j \in aborted \/ j \in cancelled) => j \notin P /\ job # j /\ j \notin D
      BY <2>1 DEF SetInv, JobsOK, PlaceInv
    <3>6. ~(j \in aborted /\ j \in cancelled)
      BY <2>1 DEF SetInv, JobsOK, PlaceInv
    <3> HIDE DEF P, D
    <3> QED BY <3>1, <3>2, <3>3, <3>4, <3>5, <3>6
  <2> QED BY <2>2, <2>3, <2>4, <2>5 DEF NoJobIsLost
<1> QED BY <1>1, Invariance, PTL

-----------------------------------------------------------------------------
(* Lists that lose an element.                                            *)

\* What vector::erase leaves.
LEMMA Erasure ==
    ASSUME NEW S, NEW s \in Seq(S), NEW i \in 1 .. Len(s)
    PROVE  /\ Collector!Erased(s, i) \in Seq(S) /\ Len(Collector!Erased(s, i)) = Len(s) - 1
           /\ \A j \in 1 .. Len(s) - 1 :
                 Collector!Erased(s, i)[j] = IF j < i THEN s[j] ELSE s[j + 1]
<1> DEFINE a == SubSeq(s, 1, i - 1)
           b == SubSeq(s, i + 1, Len(s))
<1>1. Len(s) \in Nat /\ i \in Nat /\ i # 0 /\ i - 1 \in Nat /\ i <= Len(s)
  OBVIOUS
<1>2. Collector!Erased(s, i) = a \o b
  BY <1>1 DEF Collector!Erased, Collector!RemoveAt
<1>3. a \in Seq(S) /\ Len(a) = i - 1 /\ \A j \in 1 .. i - 1 : a[j] = s[j]
  BY <1>1
<1>4. b \in Seq(S) /\ Len(b) = Len(s) - i /\ \A j \in 1 .. Len(s) - i : b[j] = s[j + i]
  BY <1>1
<1> HIDE DEF a, b
<1>5. a \o b \in Seq(S) /\ Len(a \o b) = Len(s) - 1
  <2>1. a \in Seq(S) /\ b \in Seq(S) /\ Len(a) + Len(b) = Len(s) - 1
    BY <1>1, <1>3, <1>4
  <2> QED BY ONLY <2>1
<1>6. ASSUME NEW j \in 1 .. Len(s) - 1 PROVE (a \o b)[j] = IF j < i THEN s[j] ELSE s[j + 1]
  <2>1. (a \o b)[j] = IF j <= Len(a) THEN a[j] ELSE b[j - Len(a)]
    BY <1>1, <1>3, <1>4
  <2>2. CASE j < i
    BY <1>1, <1>3, <2>1, <2>2
  <2>3. CASE ~(j < i)
    <3>1. j - Len(a) \in 1 .. Len(s) - i /\ (j - Len(a)) + i = j + 1 /\ ~(j <= Len(a))
      BY <1>1, <1>3, <2>3
    <3> QED BY <1>4, <2>1, <2>3, <3>1
  <2> QED BY <2>2, <2>3
<1> QED BY <1>2, <1>5, <1>6

\* A set of positions that is not empty has a last one.
LEMMA LastPosition ==
    ASSUME NEW N \in Nat, NEW I, I \subseteq 1 .. N, I # {}
    PROVE  /\ Collector!Max(I) \in I /\ Collector!Max(I) \in 1 .. N
           /\ \A i \in I : i <= Collector!Max(I)
<1> DEFINE G == {n \in 0 .. N : (\E i \in I : i <= n) => \E m \in I : m <= n /\ \A i \in I : i <= n => i <= m}
<1>1. 0 \in G
  OBVIOUS
<1>2. ASSUME NEW n \in 1 .. N, n - 1 \in G PROVE n \in G
  <2>1. n \in Nat /\ n - 1 \in Nat /\ n \in 0 .. N
    OBVIOUS
  <2>2. CASE n \in I
    BY <2>1, <2>2
  <2>3. CASE n \notin I
    <3>1. \A i \in I : i <= n => i <= n - 1
      BY <2>1, <2>3
    <3>2. \A i \in I : i <= n - 1 => i <= n
      BY <2>1
    <3> QED BY <1>2, <2>1, <3>1, <3>2
  <2> QED BY <2>2, <2>3
<1>3. N \in G
  <2> HIDE DEF G
  <2> QED BY <1>1, <1>2, FirstFailure
<1>4. PICK m \in I : \A i \in I : i <= m
  <2>1. \A i \in I : i <= N
    OBVIOUS
  <2> QED BY <1>3, <2>1
<1>5. m \in 1 .. N /\ \A i \in I : m >= i
  BY <1>4
<1> QED BY <1>4, <1>5 DEF Collector!Max

-----------------------------------------------------------------------------
(* What the steps of the collector keep.                                   *)

\* Listeners and plugins are not None, and plugins have metrics.
LEMMA CollectorFacts ==
    /\ Collector!None \notin Plugins /\ Collector!None \notin Listeners
    /\ \A p \in Plugins : Metrics[p] \in Nat /\ Metrics[p] # 0
    /\ \A x \in Collector!Statistics : x[1] \in Plugins
    /\ \A p \in Plugins : /\ Collector!StatisticsOf(p) \in Seq(Collector!Statistics)
                          /\ Len(Collector!StatisticsOf(p)) = Metrics[p]
                          /\ \A n \in 1 .. Metrics[p] : Collector!StatisticsOf(p)[n] = <<p, n>>
<1>1. /\ Collector!None \notin Plugins /\ Collector!None \notin Listeners
      /\ \A p \in Plugins : Metrics[p] \in Nat /\ Metrics[p] # 0
  BY CollectorInstance DEF Collector!CollectorAssumption
<1>2. \A x \in Collector!Statistics : x[1] \in Plugins
  <2> SUFFICES ASSUME NEW p \in Plugins, NEW n \in 1 .. Metrics[p] PROVE <<p, n>>[1] \in Plugins
    BY DEF Collector!Statistics, Collector!StatisticsOf, Collector!Range
  <2> QED OBVIOUS
<1>3. ASSUME NEW p \in Plugins
      PROVE  /\ Collector!StatisticsOf(p) \in Seq(Collector!Statistics)
             /\ Len(Collector!StatisticsOf(p)) = Metrics[p]
             /\ \A n \in 1 .. Metrics[p] : Collector!StatisticsOf(p)[n] = <<p, n>>
  <2>1. \A n \in 1 .. Metrics[p] : <<p, n>> \in Collector!Statistics
    BY DEF Collector!Statistics, Collector!StatisticsOf, Collector!Range
  <2> QED BY <1>1, <2>1 DEF Collector!StatisticsOf
<1> QED BY <1>1, <1>2, <1>3

\* The positions of a list.
LEMMA PositionsOf == ASSUME NEW S, NEW s \in Seq(S) PROVE DOMAIN s = 1 .. Len(s) /\ Len(s) \in Nat
OBVIOUS

\* Who is in the list of plugins after unregisterPlugin.
LEMMA PluginErased ==
    ASSUME NEW p, plugins \in Seq(Plugins), Collector!IsInjective(plugins)
    PROVE  LET e == Collector!Erased(plugins, Collector!IndexOf(p)) IN
           /\ e \in Seq(Plugins) /\ Collector!IsInjective(e)
           /\ \A q : q \in Collector!Range(e) <=> q \in Collector!Range(plugins) /\ q # p
<1> DEFINE N == Len(plugins)
           I == {i \in 1 .. N : plugins[i] = p}
           k == Collector!IndexOf(p)
           e == Collector!Erased(plugins, k)
<1>1. N \in Nat /\ DOMAIN plugins = 1 .. N
  OBVIOUS
<1>2. k = IF I # {} THEN Collector!Max(I) ELSE 0
  BY DEF Collector!IndexOf, Collector!SelectLastInSeq
<1>3. CASE I = {}
  <2>1. e = plugins
    BY <1>2, <1>3 DEF Collector!Erased
  <2>2. \A i \in 1 .. N : plugins[i] # p
    BY <1>3
  <2> HIDE DEF e
  <2>3. \A q \in Collector!Range(plugins) : q # p
    BY <1>1, <2>2 DEF Collector!Range
  <2> QED BY <2>1, <2>3 DEF e, k
<1>4. CASE I # {}
  <2>1. k \in I /\ k \in 1 .. N
    <3> HIDE DEF k, N
    <3>1. I \subseteq 1 .. N
      OBVIOUS
    <3> HIDE DEF I
    <3> QED BY <1>1, <1>2, <1>4, <3>1, LastPosition
  <2>2. /\ e \in Seq(Plugins) /\ Len(e) = N - 1
        /\ \A j \in 1 .. N - 1 : e[j] = IF j < k THEN plugins[j] ELSE plugins[j + 1]
    <3> HIDE DEF k
    <3> QED BY <2>1, Erasure
  <2> HIDE DEF e, k
  <2>3. DOMAIN e = 1 .. N - 1
    BY <2>2
  <2>4. plugins[k] = p /\ \A i \in 1 .. N : plugins[i] = p => i = k
    BY <1>1, <2>1 DEF Collector!IsInjective
  <2>5. Collector!IsInjective(e)
    <3> SUFFICES ASSUME NEW a \in 1 .. N - 1, NEW b \in 1 .. N - 1, e[a] = e[b] PROVE a = b
      BY <2>3 DEF Collector!IsInjective
    <3> DEFINE x == IF a < k THEN a ELSE a + 1
               y == IF b < k THEN b ELSE b + 1
    <3>1. x \in 1 .. N /\ y \in 1 .. N /\ e[a] = plugins[x] /\ e[b] = plugins[y]
      BY <1>1, <2>1, <2>2
    <3>2. x = y
      BY <1>1, <3>1 DEF Collector!IsInjective
    <3> QED BY <1>1, <2>1, <3>2
  <2>6. ASSUME NEW q PROVE q \in Collector!Range(e) <=> q \in Collector!Range(plugins) /\ q # p
    <3>1. ASSUME q \in Collector!Range(e) PROVE q \in Collector!Range(plugins) /\ q # p
      <4>1. PICK j \in 1 .. N - 1 : q = e[j]
        BY <2>3, <3>1 DEF Collector!Range
      <4> DEFINE x == IF j < k THEN j ELSE j + 1
      <4>2. x \in 1 .. N /\ q = plugins[x] /\ x # k
        BY <1>1, <2>1, <2>2, <4>1
      <4> HIDE DEF x
      <4> QED BY <1>1, <2>4, <4>2 DEF Collector!Range
    <3>2. ASSUME q \in Collector!Range(plugins), q # p PROVE q \in Collector!Range(e)
      <4>1. PICK x \in 1 .. N : q = plugins[x]
        BY <1>1, <3>2 DEF Collector!Range
      <4>2. x # k
        BY <2>4, <3>2, <4>1
      <4> DEFINE j == IF x < k THEN x ELSE x - 1
      <4>3. j \in 1 .. N - 1 /\ e[j] = q
        BY <1>1, <2>1, <2>2, <4>1, <4>2
      <4> HIDE DEF j
      <4> QED BY <2>3, <4>3 DEF Collector!Range
    <3> QED BY <3>1, <3>2
  <2> QED BY <2>2, <2>5, <2>6 DEF e, k
<1> QED BY <1>3, <1>4

\* The list of statistics after unregisterPlugin: the others keep their order, and
\* the last one of p is gone.
LEMMA StatisticErased ==
    ASSUME NEW S, NEW p, statistics \in Seq(S)
    PROVE  LET e == Collector!Erased(statistics, Collector!LastOf(p)) IN
           /\ e \in Seq(S)
           /\ \E h \in [DOMAIN e -> DOMAIN statistics] :
                 /\ \A i \in DOMAIN e : e[i] = statistics[h[i]]
                 /\ \A i, j \in DOMAIN e : h[i] = h[j] => i = j
                 /\ (\E i \in DOMAIN statistics : statistics[i][1] = p) =>
                       \E k \in DOMAIN statistics :
                          statistics[k][1] = p /\ \A i \in DOMAIN e : h[i] # k
<1> DEFINE N == Len(statistics)
           I == {i \in 1 .. N : statistics[i][1] = p}
           k == Collector!LastOf(p)
           e == Collector!Erased(statistics, k)
<1>1. N \in Nat /\ DOMAIN statistics = 1 .. N
  OBVIOUS
<1>2. k = IF I # {} THEN Collector!Max(I) ELSE 0
  BY DEF Collector!LastOf, Collector!SelectLastInSeq
<1>3. CASE I = {}
  <2>1. e = statistics
    BY <1>2, <1>3 DEF Collector!Erased
  <2>2. \A i \in 1 .. N : statistics[i][1] # p
    BY <1>3
  <2> HIDE DEF e
  <2> DEFINE h == [i \in DOMAIN statistics |-> i]
  <2>3. /\ h \in [DOMAIN e -> DOMAIN statistics]
        /\ \A i \in DOMAIN e : e[i] = statistics[h[i]]
        /\ \A i, j \in DOMAIN e : h[i] = h[j] => i = j
    BY <2>1
  <2> HIDE DEF h
  <2> QED BY <1>1, <2>1, <2>2, <2>3 DEF e
<1>4. CASE I # {}
  <2>1. k \in I /\ k \in 1 .. N
    <3> HIDE DEF k, N
    <3>1. I \subseteq 1 .. N
      OBVIOUS
    <3> HIDE DEF I
    <3> QED BY <1>1, <1>2, <1>4, <3>1, LastPosition
  <2>2. /\ e \in Seq(S) /\ Len(e) = N - 1
        /\ \A j \in 1 .. N - 1 : e[j] = IF j < k THEN statistics[j] ELSE statistics[j + 1]
    <3> HIDE DEF k
    <3> QED BY <2>1, Erasure
  <2>3. statistics[k][1] = p
    BY <2>1
  <2> HIDE DEF e, k, I
  <2> DEFINE h == [j \in 1 .. N - 1 |-> IF j < k THEN j ELSE j + 1]
  <2>4. DOMAIN e = 1 .. N - 1
    BY <2>2
  <2>5. /\ h \in [DOMAIN e -> DOMAIN statistics]
        /\ \A i \in DOMAIN e : e[i] = statistics[h[i]]
        /\ \A i, j \in DOMAIN e : h[i] = h[j] => i = j
        /\ \A i \in DOMAIN e : h[i] # k
    BY <1>1, <2>1, <2>2, <2>4
  <2> HIDE DEF h
  <2> QED BY <1>1, <2>1, <2>2, <2>3, <2>5 DEF e, k
<1> QED BY <1>3, <1>4

\* Every step of the collector keeps its invariant.
LEMMA CollectorInductive == Collector!IInv /\ Collector!Next => Collector!IInv'
<1> SUFFICES ASSUME Collector!IInv, Collector!Next PROVE Collector!IInv'
  OBVIOUS
<1>0. /\ Collector!TypeOK /\ Collector!ListsOK /\ Collector!OwnerInv /\ Collector!ToldInv
      /\ Collector!StepInv
  BY DEF Collector!IInv
<1> USE <1>0, CollectorFacts
<1>1. ASSUME NEW p \in Plugins, Collector!registerPlugin(p) PROVE Collector!IInv'
  <2>1. Collector!TypeOK'
    <3>1. /\ plugins' \in Seq(Plugins) /\ Collector!IsInjective(plugins')
          /\ Collector!Range(plugins') \subseteq Plugins
      <4>1. /\ plugins \in Seq(Plugins) /\ plugins' = Append(plugins, p)
            /\ p \notin Collector!Range(plugins) /\ Collector!IsInjective(plugins)
        BY <1>1 DEF Collector!registerPlugin, Collector!TypeOK, Collector!ListsOK
      <4> QED BY <4>1 DEF Collector!IsInjective, Collector!Range
    <3> QED BY <1>1, <3>1 DEF Collector!registerPlugin, Collector!TypeOK, Collector!srcVars, Collector!muxVars, Collector!pollVars, Collector!collVars, Collector!PollLeaves, Collector!MayChange, Collector!Exclusive, Collector!Alive, Collector!SharedHeld, Collector!None
  <2>2. Collector!ListsOK'
    BY <1>1 DEF Collector!registerPlugin, Collector!ListsOK, Collector!srcVars, Collector!muxVars, Collector!pollVars, Collector!collVars, Collector!PollLeaves, Collector!MayChange, Collector!Exclusive, Collector!Alive, Collector!SharedHeld, Collector!None
  <2>3. Collector!OwnerInv'
    <3>1. /\ plugins \in Seq(Plugins) /\ plugins' = Append(plugins, p)
          /\ p \notin Collector!Range(plugins) /\ writer' = p
          /\ UNCHANGED statistics
      BY <1>1 DEF Collector!registerPlugin, Collector!ListsOK, Collector!srcVars
    <3>2. p \in Collector!Range(plugins') /\ \A q \in Collector!Range(plugins) : q \in Collector!Range(plugins')
      <4> DEFINE N == Len(plugins)
      <4>1. /\ N + 1 \in DOMAIN plugins' /\ plugins'[N + 1] = p
            /\ \A i \in DOMAIN plugins : i \in DOMAIN plugins' /\ plugins'[i] = plugins[i]
        BY <3>1
      <4> QED BY <4>1 DEF Collector!Range
    <3> QED BY <3>1, <3>2 DEF Collector!OwnerInv
  <2>4. Collector!ToldInv'
    BY <1>1 DEF Collector!registerPlugin, Collector!ToldInv, Collector!srcVars, Collector!muxVars, Collector!pollVars, Collector!collVars, Collector!PollLeaves, Collector!MayChange, Collector!Exclusive, Collector!Alive, Collector!SharedHeld, Collector!None
  <2>5. Collector!StepInv'
    BY <1>1 DEF Collector!registerPlugin, Collector!StepInv, Collector!Pushing, Collector!Pushed, Collector!Agree, Collector!srcVars, Collector!muxVars, Collector!pollVars, Collector!collVars, Collector!PollLeaves, Collector!MayChange, Collector!Exclusive, Collector!Alive, Collector!SharedHeld, Collector!None
  <2> QED BY <2>1, <2>2, <2>3, <2>4, <2>5 DEF Collector!IInv
<1>2. ASSUME NEW p \in Plugins, Collector!unregisterPlugin(p) PROVE Collector!IInv'
  <2>1. Collector!TypeOK'
    <3>1. /\ plugins' \in Seq(Plugins) /\ Collector!IsInjective(plugins')
          /\ Collector!Range(plugins') \subseteq Plugins
      BY <1>2, PluginErased DEF Collector!unregisterPlugin, Collector!TypeOK, Collector!ListsOK
    <3>2. Collector!Range(statistics') \subseteq Collector!Statistics
      <4>1. statistics' \in Seq(Collector!Statistics)
        BY <1>2, StatisticErased DEF Collector!unregisterPlugin, Collector!ListsOK
      <4> QED BY <4>1 DEF Collector!Range
    <3> QED BY <1>2, <3>1, <3>2 DEF Collector!unregisterPlugin, Collector!TypeOK, Collector!srcVars, Collector!muxVars, Collector!pollVars, Collector!collVars, Collector!PollLeaves, Collector!MayChange, Collector!Exclusive, Collector!Alive, Collector!SharedHeld, Collector!None
  <2>2. Collector!ListsOK'
    <3>1. plugins' \in Seq(Plugins)
      BY <1>2, PluginErased DEF Collector!unregisterPlugin, Collector!TypeOK, Collector!ListsOK
    <3>2. statistics' \in Seq(Collector!Statistics)
      BY <1>2, StatisticErased DEF Collector!unregisterPlugin, Collector!ListsOK
    <3> QED BY <1>2, <3>1, <3>2 DEF Collector!unregisterPlugin, Collector!ListsOK, Collector!srcVars, Collector!muxVars, Collector!pollVars, Collector!collVars, Collector!PollLeaves, Collector!MayChange, Collector!Exclusive, Collector!Alive, Collector!SharedHeld, Collector!None
  <2>3. Collector!OwnerInv'
    <3>1. writer = Collector!None /\ UNCHANGED writer
      BY <1>2 DEF Collector!unregisterPlugin, Collector!Exclusive
    <3>2. \A q : q \in Collector!Range(plugins') <=> q \in Collector!Range(plugins) /\ q # p
      BY <1>2, PluginErased DEF Collector!unregisterPlugin, Collector!TypeOK, Collector!ListsOK
    <3>3. statistics \in Seq(Collector!Statistics)
      BY DEF Collector!ListsOK
    <3>4. PICK h \in [DOMAIN statistics' -> DOMAIN statistics] :
             /\ \A i \in DOMAIN statistics' : statistics'[i] = statistics[h[i]]
             /\ \A i, j \in DOMAIN statistics' : h[i] = h[j] => i = j
             /\ (\E i \in DOMAIN statistics : statistics[i][1] = p) =>
                   \E k \in DOMAIN statistics :
                      statistics[k][1] = p /\ \A i \in DOMAIN statistics' : h[i] # k
      BY <1>2, <3>3, StatisticErased DEF Collector!unregisterPlugin
    <3> SUFFICES ASSUME NEW i \in DOMAIN statistics', Metrics[statistics'[i][1]] = 1
                 PROVE  /\ statistics'[i][1] \in Collector!Range(plugins')
                        /\ statistics'[i][1] # writer'
                        /\ \A j \in DOMAIN statistics' : statistics'[j][1] = statistics'[i][1] => i = j
      BY <3>1 DEF Collector!OwnerInv
    <3>5. h[i] \in DOMAIN statistics /\ statistics'[i] = statistics[h[i]]
      BY <3>4
    <3>6. /\ statistics[h[i]][1] \in Collector!Range(plugins) /\ statistics[h[i]][1] # writer
          /\ \A j \in DOMAIN statistics : statistics[j][1] = statistics[h[i]][1] => h[i] = j
      BY <3>5 DEF Collector!OwnerInv
    <3>7. statistics[h[i]][1] # p
      <4> SUFFICES ASSUME statistics[h[i]][1] = p PROVE FALSE
        OBVIOUS
      <4>1. PICK k \in DOMAIN statistics :
               statistics[k][1] = p /\ \A j \in DOMAIN statistics' : h[j] # k
        BY <3>4, <3>5
      <4> QED BY <3>6, <4>1
    <3>8. ASSUME NEW j \in DOMAIN statistics', statistics'[j][1] = statistics'[i][1] PROVE i = j
      <4>1. h[j] \in DOMAIN statistics /\ statistics'[j] = statistics[h[j]]
        BY <3>4
      <4>2. h[i] = h[j]
        BY <3>5, <3>6, <3>8, <4>1
      <4> QED BY <3>4, <4>2
    <3> QED BY <3>1, <3>2, <3>5, <3>6, <3>7, <3>8
  <2>4. Collector!ToldInv'
    BY <1>2 DEF Collector!unregisterPlugin, Collector!ToldInv, Collector!srcVars, Collector!muxVars, Collector!pollVars, Collector!collVars, Collector!PollLeaves, Collector!MayChange, Collector!Exclusive, Collector!Alive, Collector!SharedHeld, Collector!None
  <2>5. Collector!StepInv'
    BY <1>2 DEF Collector!unregisterPlugin, Collector!StepInv, Collector!Pushing, Collector!Pushed, Collector!Agree, Collector!srcVars, Collector!muxVars, Collector!pollVars, Collector!collVars, Collector!PollLeaves, Collector!MayChange, Collector!Exclusive, Collector!Alive, Collector!SharedHeld, Collector!None
  <2> QED BY <2>1, <2>2, <2>3, <2>4, <2>5 DEF Collector!IInv
<1>3. ASSUME NEW l \in Listeners, Collector!registerListener(l) PROVE Collector!IInv'
  <2>1. Collector!TypeOK'
    BY <1>3 DEF Collector!registerListener, Collector!TypeOK, Collector!SharedHeld, Collector!IsInjective, Collector!srcVars, Collector!muxVars, Collector!pollVars, Collector!collVars, Collector!PollLeaves, Collector!MayChange, Collector!Exclusive, Collector!Alive, Collector!None
  <2>2. Collector!ListsOK'
    BY <1>3 DEF Collector!registerListener, Collector!ListsOK, Collector!srcVars, Collector!muxVars, Collector!pollVars, Collector!collVars, Collector!PollLeaves, Collector!MayChange, Collector!Exclusive, Collector!Alive, Collector!SharedHeld, Collector!None
  <2>3. Collector!OwnerInv'
    BY <1>3 DEF Collector!registerListener, Collector!OwnerInv, Collector!srcVars, Collector!muxVars, Collector!pollVars, Collector!collVars, Collector!PollLeaves, Collector!MayChange, Collector!Exclusive, Collector!Alive, Collector!SharedHeld, Collector!None
  <2>4. Collector!ToldInv'
    BY <1>3 DEF Collector!registerListener, Collector!ToldInv, Collector!TypeOK, Collector!srcVars, Collector!muxVars, Collector!pollVars, Collector!collVars, Collector!PollLeaves, Collector!MayChange, Collector!Exclusive, Collector!Alive, Collector!SharedHeld, Collector!None
  <2>5. Collector!StepInv'
    BY <1>3 DEF Collector!registerListener, Collector!StepInv, Collector!Pushing, Collector!Pushed, Collector!Agree, Collector!srcVars, Collector!muxVars, Collector!pollVars, Collector!collVars, Collector!PollLeaves, Collector!MayChange, Collector!Exclusive, Collector!Alive, Collector!SharedHeld, Collector!None
  <2> QED BY <2>1, <2>2, <2>3, <2>4, <2>5 DEF Collector!IInv
<1>4. ASSUME NEW l \in Listeners, Collector!unregisterListener(l) PROVE Collector!IInv'
  <2>1. Collector!TypeOK'
    BY <1>4 DEF Collector!unregisterListener, Collector!TypeOK, Collector!SharedHeld, Collector!IsInjective, Collector!srcVars, Collector!muxVars, Collector!pollVars, Collector!collVars, Collector!PollLeaves, Collector!MayChange, Collector!Exclusive, Collector!Alive, Collector!None
  <2>2. Collector!ListsOK'
    BY <1>4 DEF Collector!unregisterListener, Collector!ListsOK, Collector!srcVars, Collector!muxVars, Collector!pollVars, Collector!collVars, Collector!PollLeaves, Collector!MayChange, Collector!Exclusive, Collector!Alive, Collector!SharedHeld, Collector!None
  <2>3. Collector!OwnerInv'
    BY <1>4 DEF Collector!unregisterListener, Collector!OwnerInv, Collector!srcVars, Collector!muxVars, Collector!pollVars, Collector!collVars, Collector!PollLeaves, Collector!MayChange, Collector!Exclusive, Collector!Alive, Collector!SharedHeld, Collector!None
  <2>4. Collector!ToldInv'
    BY <1>4 DEF Collector!unregisterListener, Collector!ToldInv, Collector!TypeOK, Collector!srcVars, Collector!muxVars, Collector!pollVars, Collector!collVars, Collector!PollLeaves, Collector!MayChange, Collector!Exclusive, Collector!Alive, Collector!SharedHeld, Collector!None
  <2>5. Collector!StepInv'
    BY <1>4 DEF Collector!unregisterListener, Collector!StepInv, Collector!Pushing, Collector!Pushed, Collector!Agree, Collector!srcVars, Collector!muxVars, Collector!pollVars, Collector!collVars, Collector!PollLeaves, Collector!MayChange, Collector!Exclusive, Collector!Alive, Collector!SharedHeld, Collector!None
  <2> QED BY <2>1, <2>2, <2>3, <2>4, <2>5 DEF Collector!IInv
<1>5. CASE Collector!registerPluginEnd
  <2>1. Collector!TypeOK'
    <3>1. /\ writer \in Plugins /\ statistics \in Seq(Collector!Statistics)
          /\ statistics' = statistics \o Collector!StatisticsOf(writer)
      BY <1>5 DEF Collector!registerPluginEnd, Collector!TypeOK, Collector!ListsOK
    <3>2. statistics' \in Seq(Collector!Statistics)
      BY <3>1
    <3>3. Collector!Range(statistics') \subseteq Collector!Statistics
      BY <3>2 DEF Collector!Range
    <3> QED BY <1>5, <3>3 DEF Collector!registerPluginEnd, Collector!TypeOK, Collector!srcVars, Collector!muxVars, Collector!pollVars, Collector!collVars, Collector!PollLeaves, Collector!MayChange, Collector!Exclusive, Collector!Alive, Collector!SharedHeld, Collector!None
  <2>2. Collector!ListsOK'
    <3>1. /\ writer \in Plugins /\ statistics \in Seq(Collector!Statistics)
          /\ statistics' = statistics \o Collector!StatisticsOf(writer)
      BY <1>5 DEF Collector!registerPluginEnd, Collector!TypeOK, Collector!ListsOK
    <3>2. statistics' \in Seq(Collector!Statistics)
      BY <3>1
    <3> QED BY <1>5, <3>2 DEF Collector!registerPluginEnd, Collector!ListsOK, Collector!srcVars, Collector!muxVars, Collector!pollVars, Collector!collVars, Collector!PollLeaves, Collector!MayChange, Collector!Exclusive, Collector!Alive, Collector!SharedHeld, Collector!None
  <2>3. Collector!OwnerInv'
    <3>1. /\ writer \in Plugins /\ statistics \in Seq(Collector!Statistics)
          /\ statistics' = statistics \o Collector!StatisticsOf(writer)
      BY <1>5 DEF Collector!registerPluginEnd, Collector!TypeOK, Collector!ListsOK
    <3> DEFINE N == Len(statistics)
               M == Metrics[writer]
    <3>2. N \in Nat /\ M \in Nat /\ DOMAIN statistics = 1 .. N
      BY <3>1
    <3>3. /\ DOMAIN statistics' = 1 .. N + M
          /\ \A i \in 1 .. N : statistics'[i] = statistics[i]
          /\ \A i \in 1 .. N + M : i > N => statistics'[i] = <<writer, i - N>>
      <4>1. Len(Collector!StatisticsOf(writer)) = M /\ Collector!StatisticsOf(writer) \in Seq(Collector!Statistics)
        BY <3>1
      <4>2. DOMAIN statistics' = 1 .. N + M
        BY <3>1, <3>2, <4>1
      <4>3. \A i \in 1 .. N : statistics'[i] = statistics[i]
        BY <3>1, <3>2, <4>1
      <4>4. ASSUME NEW i \in 1 .. N + M, i > N PROVE statistics'[i] = <<writer, i - N>>
        <5>1. i - N \in 1 .. M
          BY <3>2, <4>4
        <5>2. statistics'[i] = Collector!StatisticsOf(writer)[i - N]
          BY <3>1, <3>2, <4>1, <4>4
        <5> QED BY <3>1, <5>1, <5>2
      <4> QED BY <4>2, <4>3, <4>4
    <3>4. UNCHANGED plugins /\ writer # Collector!None /\ writer' = Collector!None
      BY <1>5 DEF Collector!registerPluginEnd
    <3> HIDE DEF N, M
    <3> SUFFICES ASSUME NEW i \in 1 .. N + M, Metrics[statistics'[i][1]] = 1
                 PROVE  /\ statistics'[i][1] \in Collector!Range(plugins)
                        /\ statistics'[i][1] # Collector!None
                        /\ \A j \in 1 .. N + M : statistics'[j][1] = statistics'[i][1] => i = j
      BY <3>3, <3>4 DEF Collector!OwnerInv
    <3>5. \A j \in 1 .. N : Metrics[statistics[j][1]] = 1 =>
             /\ statistics[j][1] \in Collector!Range(plugins) /\ statistics[j][1] # writer
             /\ \A m \in 1 .. N : statistics[m][1] = statistics[j][1] => m = j
      BY <3>2 DEF Collector!OwnerInv
    <3>6. writer \in Collector!Range(plugins)
      BY <3>4 DEF Collector!OwnerInv
    <3>7. \A q \in Collector!Range(plugins) : q # Collector!None
      BY DEF Collector!TypeOK
    <3>8. CASE i \in 1 .. N
      <4>1. \A j \in 1 .. N + M : j \in 1 .. N \/ (j > N /\ statistics'[j][1] = writer)
        BY <3>2, <3>3
      <4> QED BY <3>3, <3>5, <3>7, <3>8, <4>1
    <3>9. CASE i > N
      <4>1. statistics'[i][1] = writer /\ M = 1
        BY <3>3, <3>9 DEF M
      <4>2. i = N + 1
        BY <3>2, <3>9, <4>1
      <4>3. ASSUME NEW j \in 1 .. N + M, statistics'[j][1] = writer PROVE i = j
        <5>1. CASE j \in 1 .. N
          <6>1. statistics[j][1] = writer /\ Metrics[statistics[j][1]] = 1
            BY <3>3, <4>1, <4>3, <5>1 DEF M
          <6> QED BY <3>5, <5>1, <6>1
        <5>2. CASE j \notin 1 .. N
          BY <3>2, <4>1, <4>2, <5>2
        <5> QED BY <5>1, <5>2
      <4> QED BY <3>6, <3>7, <4>1, <4>3
    <3> QED BY <3>2, <3>8, <3>9
  <2>4. Collector!ToldInv'
    <3>1. /\ writer # Collector!None /\ statisticsAdded' = TRUE
          /\ UNCHANGED <<statisticsRemoved, Collector!muxVars, Collector!pollVars>>
      BY <1>5 DEF Collector!registerPluginEnd
    <3>2. ppc # "notify"
      BY <3>1 DEF Collector!TypeOK, Collector!SharedHeld
    <3> QED BY <3>1, <3>2 DEF Collector!ToldInv, Collector!muxVars, Collector!pollVars
  <2>5. Collector!StepInv'
    BY <1>5 DEF Collector!registerPluginEnd, Collector!StepInv, Collector!Pushing, Collector!Pushed, Collector!Agree, Collector!srcVars, Collector!muxVars, Collector!pollVars, Collector!collVars, Collector!PollLeaves, Collector!MayChange, Collector!Exclusive, Collector!Alive, Collector!SharedHeld, Collector!None
  <2> QED BY <2>1, <2>2, <2>3, <2>4, <2>5 DEF Collector!IInv
<1>6. CASE Collector!registerListenerEnd
  <2>1. Collector!TypeOK'
    <3>1. registering \in listeners
      BY <1>6 DEF Collector!registerListenerEnd, Collector!ToldInv
    <3> QED BY <1>6, <3>1 DEF Collector!registerListenerEnd, Collector!TypeOK, Collector!srcVars, Collector!muxVars, Collector!pollVars, Collector!collVars, Collector!PollLeaves, Collector!MayChange, Collector!Exclusive, Collector!Alive, Collector!SharedHeld, Collector!None
  <2>2. Collector!ListsOK'
    BY <1>6 DEF Collector!registerListenerEnd, Collector!ListsOK, Collector!srcVars, Collector!muxVars, Collector!pollVars, Collector!collVars, Collector!PollLeaves, Collector!MayChange, Collector!Exclusive, Collector!Alive, Collector!SharedHeld, Collector!None
  <2>3. Collector!OwnerInv'
    BY <1>6 DEF Collector!registerListenerEnd, Collector!OwnerInv, Collector!srcVars, Collector!muxVars, Collector!pollVars, Collector!collVars, Collector!PollLeaves, Collector!MayChange, Collector!Exclusive, Collector!Alive, Collector!SharedHeld, Collector!None
  <2>4. Collector!ToldInv'
    <3>1. /\ registering \in listeners /\ registering \in DOMAIN view
          /\ registering # Collector!None /\ registering' = Collector!None
      BY <1>6 DEF Collector!registerListenerEnd, Collector!ToldInv, Collector!TypeOK, Collector!ListsOK
    <3>2. /\ view' = [view EXCEPT ![registering] = statistics]
          /\ notified' = notified \cup {registering}
          /\ UNCHANGED <<statisticsAdded, statisticsRemoved, statistics, writer, listeners,
                        lastStatistics, early, ppc, hadAdditions, hadDeletions>>
      BY <1>6 DEF Collector!registerListenerEnd, Collector!srcVars, Collector!pollVars
    <3>3. \A l : view[l] = statistics => view'[l] = statistics
      BY <3>1, <3>2
    <3>4. view'[registering] = statistics
      BY <3>1, <3>2
    <3> QED BY <3>1, <3>2, <3>3, <3>4 DEF Collector!ToldInv
  <2>5. Collector!StepInv'
    BY <1>6 DEF Collector!registerListenerEnd, Collector!StepInv, Collector!Pushing, Collector!Pushed, Collector!Agree, Collector!srcVars, Collector!muxVars, Collector!pollVars, Collector!collVars, Collector!PollLeaves, Collector!MayChange, Collector!Exclusive, Collector!Alive, Collector!SharedHeld, Collector!None
  <2> QED BY <2>1, <2>2, <2>3, <2>4, <2>5 DEF Collector!IInv
<1>7. CASE Collector!LockSources
  <2>1. Collector!TypeOK'
    BY <1>7 DEF Collector!LockSources, Collector!TypeOK, Collector!SharedHeld, Collector!IsInjective, Collector!srcVars, Collector!muxVars, Collector!pollVars, Collector!collVars, Collector!PollLeaves, Collector!MayChange, Collector!Exclusive, Collector!Alive, Collector!None
  <2>2. Collector!ListsOK'
    BY <1>7 DEF Collector!LockSources, Collector!ListsOK, Collector!srcVars, Collector!muxVars, Collector!pollVars, Collector!collVars, Collector!PollLeaves, Collector!MayChange, Collector!Exclusive, Collector!Alive, Collector!SharedHeld, Collector!None
  <2>3. Collector!OwnerInv'
    BY <1>7 DEF Collector!LockSources, Collector!OwnerInv, Collector!srcVars, Collector!muxVars, Collector!pollVars, Collector!collVars, Collector!PollLeaves, Collector!MayChange, Collector!Exclusive, Collector!Alive, Collector!SharedHeld, Collector!None
  <2>4. Collector!ToldInv'
    BY <1>7 DEF Collector!LockSources, Collector!ToldInv, Collector!srcVars, Collector!muxVars, Collector!pollVars, Collector!collVars, Collector!PollLeaves, Collector!MayChange, Collector!Exclusive, Collector!Alive, Collector!SharedHeld, Collector!None
  <2>5. Collector!StepInv'
    BY <1>7 DEF Collector!LockSources, Collector!StepInv, Collector!Pushing, Collector!Pushed, Collector!Agree, Collector!srcVars, Collector!muxVars, Collector!pollVars, Collector!collVars, Collector!PollLeaves, Collector!MayChange, Collector!Exclusive, Collector!Alive, Collector!SharedHeld, Collector!None
  <2> QED BY <2>1, <2>2, <2>3, <2>4, <2>5 DEF Collector!IInv
<1>8. CASE Collector!PollTerminated
  <2>1. Collector!TypeOK'
    BY <1>8 DEF Collector!PollTerminated, Collector!TypeOK, Collector!SharedHeld, Collector!IsInjective, Collector!srcVars, Collector!muxVars, Collector!pollVars, Collector!collVars, Collector!PollLeaves, Collector!MayChange, Collector!Exclusive, Collector!Alive, Collector!None
  <2>2. Collector!ListsOK'
    BY <1>8 DEF Collector!PollTerminated, Collector!ListsOK, Collector!srcVars, Collector!muxVars, Collector!pollVars, Collector!collVars, Collector!PollLeaves, Collector!MayChange, Collector!Exclusive, Collector!Alive, Collector!SharedHeld, Collector!None
  <2>3. Collector!OwnerInv'
    BY <1>8 DEF Collector!PollTerminated, Collector!OwnerInv, Collector!srcVars, Collector!muxVars, Collector!pollVars, Collector!collVars, Collector!PollLeaves, Collector!MayChange, Collector!Exclusive, Collector!Alive, Collector!SharedHeld, Collector!None
  <2>4. Collector!ToldInv'
    BY <1>8 DEF Collector!PollTerminated, Collector!ToldInv, Collector!srcVars, Collector!muxVars, Collector!pollVars, Collector!collVars, Collector!PollLeaves, Collector!MayChange, Collector!Exclusive, Collector!Alive, Collector!SharedHeld, Collector!None
  <2>5. Collector!StepInv'
    BY <1>8 DEF Collector!PollTerminated, Collector!StepInv, Collector!Pushing, Collector!Pushed, Collector!Agree, Collector!srcVars, Collector!muxVars, Collector!pollVars, Collector!collVars, Collector!PollLeaves, Collector!MayChange, Collector!Exclusive, Collector!Alive, Collector!SharedHeld, Collector!None
  <2> QED BY <2>1, <2>2, <2>3, <2>4, <2>5 DEF Collector!IInv
<1>9. CASE Collector!nextTimestep
  <2>1. Collector!TypeOK'
    <3>1. next \in Nat /\ next' = next - 1 /\ next > 0
      BY <1>9 DEF Collector!nextTimestep, Collector!TypeOK
    <3>2. next' \in Nat
      BY <3>1
    <3> QED BY <1>9, <3>2 DEF Collector!nextTimestep, Collector!TypeOK, Collector!srcVars, Collector!muxVars, Collector!pollVars, Collector!collVars, Collector!PollLeaves, Collector!MayChange, Collector!Exclusive, Collector!Alive, Collector!SharedHeld, Collector!None
  <2>2. Collector!ListsOK'
    BY <1>9 DEF Collector!nextTimestep, Collector!ListsOK, Collector!srcVars, Collector!muxVars, Collector!pollVars, Collector!collVars, Collector!PollLeaves, Collector!MayChange, Collector!Exclusive, Collector!Alive, Collector!SharedHeld, Collector!None
  <2>3. Collector!OwnerInv'
    BY <1>9 DEF Collector!nextTimestep, Collector!OwnerInv, Collector!srcVars, Collector!muxVars, Collector!pollVars, Collector!collVars, Collector!PollLeaves, Collector!MayChange, Collector!Exclusive, Collector!Alive, Collector!SharedHeld, Collector!None
  <2>4. Collector!ToldInv'
    BY <1>9 DEF Collector!nextTimestep, Collector!ToldInv, Collector!srcVars, Collector!muxVars, Collector!pollVars, Collector!collVars, Collector!PollLeaves, Collector!MayChange, Collector!Exclusive, Collector!Alive, Collector!SharedHeld, Collector!None
  <2>5. Collector!StepInv'
    <3>1. /\ next \in Nat /\ next > 0 /\ next <= Len(plugins) /\ next' = next - 1
          /\ plugins \in Seq(Plugins) /\ Collector!IsInjective(plugins)
          /\ value \in [Plugins -> Nat] /\ value' = [value EXCEPT ![plugins[next]] = step]
      BY <1>9 DEF Collector!nextTimestep, Collector!StepInv, Collector!TypeOK, Collector!ListsOK
    <3>2. ASSUME NEW k \in DOMAIN plugins, k > next' PROVE value'[plugins[k]] = step
      <4>1. k \in Nat /\ plugins[k] \in Plugins /\ next \in DOMAIN plugins
        BY <3>1
      <4>2. CASE k = next
        BY <3>1, <4>1, <4>2
      <4>3. CASE k # next
        <5>1. k > next /\ plugins[k] # plugins[next]
          BY <3>1, <3>2, <4>1, <4>3 DEF Collector!IsInjective
        <5>2. value[plugins[k]] = step
          BY <1>9, <5>1 DEF Collector!StepInv, Collector!nextTimestep
        <5> QED BY <3>1, <4>1, <5>1, <5>2
      <4> QED BY <4>2, <4>3
    <3>3. next' <= Len(plugins)
      BY <3>1
    <3> QED BY <1>9, <3>2, <3>3 DEF Collector!nextTimestep, Collector!StepInv, Collector!Pushing,
        Collector!Pushed, Collector!Agree, Collector!PollLeaves, Collector!srcVars, Collector!collVars
  <2> QED BY <2>1, <2>2, <2>3, <2>4, <2>5 DEF Collector!IInv
<1>10. CASE Collector!UpdateStatistics
  <2>1. Collector!TypeOK'
    BY <1>10 DEF Collector!UpdateStatistics, Collector!TypeOK, Collector!SharedHeld, Collector!IsInjective, Collector!srcVars, Collector!muxVars, Collector!pollVars, Collector!collVars, Collector!PollLeaves, Collector!MayChange, Collector!Exclusive, Collector!Alive, Collector!None
  <2>2. Collector!ListsOK'
    BY <1>10 DEF Collector!UpdateStatistics, Collector!ListsOK, Collector!srcVars, Collector!muxVars, Collector!pollVars, Collector!collVars, Collector!PollLeaves, Collector!MayChange, Collector!Exclusive, Collector!Alive, Collector!SharedHeld, Collector!None
  <2>3. Collector!OwnerInv'
    BY <1>10 DEF Collector!UpdateStatistics, Collector!OwnerInv, Collector!srcVars, Collector!muxVars, Collector!pollVars, Collector!collVars, Collector!PollLeaves, Collector!MayChange, Collector!Exclusive, Collector!Alive, Collector!SharedHeld, Collector!None
  <2>4. Collector!ToldInv'
    BY <1>10 DEF Collector!UpdateStatistics, Collector!ToldInv, Collector!srcVars, Collector!muxVars, Collector!pollVars, Collector!collVars, Collector!PollLeaves, Collector!MayChange, Collector!Exclusive, Collector!Alive, Collector!SharedHeld, Collector!None
  <2>5. Collector!StepInv'
    <3>1. /\ plugins \in Seq(Plugins) /\ collection \in Seq(Collector!Statistics)
          /\ next = 0 /\ ppc = "timestep" /\ ppc' = "push"
          /\ next' = IF inCollections THEN Len(collection) ELSE 0
      BY <1>10 DEF Collector!UpdateStatistics, Collector!ListsOK, Collector!PollLeaves
    <3>2. \A q \in Collector!Range(plugins) : value[q] = step
      <4>1. \A k \in DOMAIN plugins : k > 0
        BY <3>1
      <4> QED BY <3>1, <4>1 DEF Collector!StepInv, Collector!Range
    <3>3. Len(collection) \in Nat /\ next' <= Len(collection) /\ (next' > 0 => inCollections)
      BY <3>1
    <3>4. inCollections => ~(next' < Len(collection))
      BY <3>1, <3>3
    <3> QED BY <1>10, <3>1, <3>2, <3>3, <3>4 DEF Collector!UpdateStatistics, Collector!StepInv,
        Collector!Pushing, Collector!Pushed, Collector!Agree, Collector!PollLeaves,
        Collector!srcVars, Collector!collVars
  <2> QED BY <2>1, <2>2, <2>3, <2>4, <2>5 DEF Collector!IInv
<1>11. CASE Collector!pushValues
  <2>1. Collector!TypeOK'
    <3>1. next \in Nat /\ next' = next - 1 /\ next > 0
      BY <1>11 DEF Collector!pushValues, Collector!TypeOK
    <3>2. next' \in Nat
      BY <3>1
    <3>3. DOMAIN communicationBuffer' = DOMAIN communicationBuffer
      BY <1>11 DEF Collector!pushValues
    <3> QED BY <1>11, <3>2, <3>3 DEF Collector!pushValues, Collector!TypeOK, Collector!srcVars, Collector!muxVars, Collector!pollVars, Collector!collVars, Collector!PollLeaves, Collector!MayChange, Collector!Exclusive, Collector!Alive, Collector!SharedHeld, Collector!None
  <2>2. Collector!ListsOK'
    <3>1. /\ next \in Nat /\ next > 0 /\ next <= Len(collection) /\ next' = next - 1
          /\ inCollections /\ collection \in Seq(Collector!Statistics) /\ value \in [Plugins -> Nat]
          /\ communicationBuffer \in [DOMAIN collection -> Nat]
          /\ communicationBuffer' = [communicationBuffer EXCEPT ![next] = value[collection[next][1]]]
      BY <1>11 DEF Collector!pushValues, Collector!StepInv, Collector!TypeOK, Collector!ListsOK
    <3>2. next \in DOMAIN collection /\ collection[next][1] \in Plugins
      <4>1. next \in 1 .. Len(collection) /\ DOMAIN collection = 1 .. Len(collection)
        <5>1. DOMAIN collection = 1 .. Len(collection) /\ Len(collection) \in Nat
          BY PositionsOf DEF Collector!ListsOK
        <5> QED BY <3>1, <5>1
      <4>2. collection[next] \in Collector!Statistics
        BY <3>1, <4>1
      <4> QED BY <4>1, <4>2
    <3>3. communicationBuffer' \in [DOMAIN collection -> Nat]
      BY <3>1, <3>2
    <3> QED BY <1>11, <3>3 DEF Collector!pushValues, Collector!ListsOK, Collector!srcVars, Collector!muxVars, Collector!pollVars, Collector!collVars, Collector!PollLeaves, Collector!MayChange, Collector!Exclusive, Collector!Alive, Collector!SharedHeld, Collector!None
  <2>3. Collector!OwnerInv'
    BY <1>11 DEF Collector!pushValues, Collector!OwnerInv, Collector!srcVars, Collector!muxVars, Collector!pollVars, Collector!collVars, Collector!PollLeaves, Collector!MayChange, Collector!Exclusive, Collector!Alive, Collector!SharedHeld, Collector!None
  <2>4. Collector!ToldInv'
    BY <1>11 DEF Collector!pushValues, Collector!ToldInv, Collector!srcVars, Collector!muxVars, Collector!pollVars, Collector!collVars, Collector!PollLeaves, Collector!MayChange, Collector!Exclusive, Collector!Alive, Collector!SharedHeld, Collector!None
  <2>5. Collector!StepInv'
    <3>1. /\ next \in Nat /\ next > 0 /\ next <= Len(collection) /\ next' = next - 1
          /\ inCollections /\ collection \in Seq(Collector!Statistics) /\ value \in [Plugins -> Nat]
          /\ communicationBuffer \in [DOMAIN collection -> Nat]
          /\ communicationBuffer' = [communicationBuffer EXCEPT ![next] = value[collection[next][1]]]
      BY <1>11 DEF Collector!pushValues, Collector!StepInv, Collector!TypeOK, Collector!ListsOK
    <3>2. next \in DOMAIN collection /\ collection[next][1] \in Plugins
      <4>1. next \in 1 .. Len(collection) /\ DOMAIN collection = 1 .. Len(collection)
        <5>1. DOMAIN collection = 1 .. Len(collection) /\ Len(collection) \in Nat
          BY PositionsOf DEF Collector!ListsOK
        <5> QED BY <3>1, <5>1
      <4>2. collection[next] \in Collector!Statistics
        BY <3>1, <4>1
      <4> QED BY <4>1, <4>2
    <3>3. /\ ppc = "push" /\ ppc' = "push" /\ pushedFrom' = Collector!Range(plugins)
          /\ UNCHANGED <<plugins, step, value, collection, inCollections, readBuffer, readFrom>>
      BY <1>11 DEF Collector!pushValues, Collector!PollLeaves, Collector!srcVars
    <3>4. \A i \in DOMAIN collection : i > next' /\ collection[i][1] \in Collector!Range(plugins)
             => communicationBuffer'[i] = step
      <4> SUFFICES ASSUME NEW i \in DOMAIN collection, i > next',
                          collection[i][1] \in Collector!Range(plugins)
                   PROVE  communicationBuffer'[i] = step
        OBVIOUS
      <4>1. i \in Nat /\ Len(collection) \in Nat /\ i <= Len(collection)
        <5>1. DOMAIN collection = 1 .. Len(collection) /\ Len(collection) \in Nat
          BY PositionsOf DEF Collector!ListsOK
        <5> QED BY <5>1
      <4>2. CASE i = next
        BY <3>1, <3>2, <3>3, <4>2 DEF Collector!StepInv
      <4>3. CASE i # next
        <5>1. i > next /\ next < Len(collection)
          BY <3>1, <4>1, <4>3
        <5>2. communicationBuffer[i] = step
          BY <3>1, <3>3, <5>1 DEF Collector!StepInv, Collector!Pushing, Collector!Pushed
        <5> QED BY <3>1, <4>3, <5>2
      <4> QED BY <4>2, <4>3
    <3>5. next' <= Len(collection) /\ next' < Len(collection)
      BY <3>1
    <3> QED BY <3>1, <3>3, <3>4, <3>5 DEF Collector!StepInv, Collector!Pushing, Collector!Pushed,
        Collector!Agree
  <2> QED BY <2>1, <2>2, <2>3, <2>4, <2>5 DEF Collector!IInv
<1>12. CASE Collector!pushValuesEnd
  <2>1. Collector!TypeOK'
    BY <1>12 DEF Collector!pushValuesEnd, Collector!TypeOK, Collector!SharedHeld, Collector!IsInjective, Collector!srcVars, Collector!muxVars, Collector!pollVars, Collector!collVars, Collector!PollLeaves, Collector!MayChange, Collector!Exclusive, Collector!Alive, Collector!None
  <2>2. Collector!ListsOK'
    BY <1>12 DEF Collector!pushValuesEnd, Collector!ListsOK, Collector!srcVars, Collector!muxVars, Collector!pollVars, Collector!collVars, Collector!PollLeaves, Collector!MayChange, Collector!Exclusive, Collector!Alive, Collector!SharedHeld, Collector!None
  <2>3. Collector!OwnerInv'
    BY <1>12 DEF Collector!pushValuesEnd, Collector!OwnerInv, Collector!srcVars, Collector!muxVars, Collector!pollVars, Collector!collVars, Collector!PollLeaves, Collector!MayChange, Collector!Exclusive, Collector!Alive, Collector!SharedHeld, Collector!None
  <2>4. Collector!ToldInv'
    BY <1>12 DEF Collector!pushValuesEnd, Collector!ToldInv, Collector!srcVars, Collector!muxVars, Collector!pollVars, Collector!collVars, Collector!PollLeaves, Collector!MayChange, Collector!Exclusive, Collector!Alive, Collector!SharedHeld, Collector!None
  <2>5. Collector!StepInv'
    BY <1>12 DEF Collector!pushValuesEnd, Collector!StepInv, Collector!Pushing, Collector!Pushed, Collector!Agree, Collector!srcVars, Collector!muxVars, Collector!pollVars, Collector!collVars, Collector!PollLeaves, Collector!MayChange, Collector!Exclusive, Collector!Alive, Collector!SharedHeld, Collector!None
  <2> QED BY <2>1, <2>2, <2>3, <2>4, <2>5 DEF Collector!IInv
<1>13. CASE Collector!ResetFlags
  <2>1. Collector!TypeOK'
    BY <1>13 DEF Collector!ResetFlags, Collector!TypeOK, Collector!SharedHeld, Collector!IsInjective, Collector!srcVars, Collector!muxVars, Collector!pollVars, Collector!collVars, Collector!PollLeaves, Collector!MayChange, Collector!Exclusive, Collector!Alive, Collector!None
  <2>2. Collector!ListsOK'
    BY <1>13 DEF Collector!ResetFlags, Collector!ListsOK, Collector!srcVars, Collector!muxVars, Collector!pollVars, Collector!collVars, Collector!PollLeaves, Collector!MayChange, Collector!Exclusive, Collector!Alive, Collector!SharedHeld, Collector!None
  <2>3. Collector!OwnerInv'
    BY <1>13 DEF Collector!ResetFlags, Collector!OwnerInv, Collector!srcVars, Collector!muxVars, Collector!pollVars, Collector!collVars, Collector!PollLeaves, Collector!MayChange, Collector!Exclusive, Collector!Alive, Collector!SharedHeld, Collector!None
  <2>4. Collector!ToldInv'
    BY <1>13 DEF Collector!ResetFlags, Collector!ToldInv, Collector!srcVars, Collector!muxVars, Collector!pollVars, Collector!collVars, Collector!PollLeaves, Collector!MayChange, Collector!Exclusive, Collector!Alive, Collector!SharedHeld, Collector!None
  <2>5. Collector!StepInv'
    BY <1>13 DEF Collector!ResetFlags, Collector!StepInv, Collector!Pushing, Collector!Pushed, Collector!Agree, Collector!srcVars, Collector!muxVars, Collector!pollVars, Collector!collVars, Collector!PollLeaves, Collector!MayChange, Collector!Exclusive, Collector!Alive, Collector!SharedHeld, Collector!None
  <2> QED BY <2>1, <2>2, <2>3, <2>4, <2>5 DEF Collector!IInv
<1>14. CASE Collector!notifyAvailableStatisticsChange
  <2>1. Collector!TypeOK'
    BY <1>14 DEF Collector!notifyAvailableStatisticsChange, Collector!TypeOK, Collector!SharedHeld, Collector!IsInjective, Collector!srcVars, Collector!muxVars, Collector!pollVars, Collector!collVars, Collector!PollLeaves, Collector!MayChange, Collector!Exclusive, Collector!Alive, Collector!None
  <2>2. Collector!ListsOK'
    BY <1>14 DEF Collector!notifyAvailableStatisticsChange, Collector!ListsOK, Collector!srcVars, Collector!muxVars, Collector!pollVars, Collector!collVars, Collector!PollLeaves, Collector!MayChange, Collector!Exclusive, Collector!Alive, Collector!SharedHeld, Collector!None
  <2>3. Collector!OwnerInv'
    BY <1>14 DEF Collector!notifyAvailableStatisticsChange, Collector!OwnerInv, Collector!srcVars, Collector!muxVars, Collector!pollVars, Collector!collVars, Collector!PollLeaves, Collector!MayChange, Collector!Exclusive, Collector!Alive, Collector!SharedHeld, Collector!None
  <2>4. Collector!ToldInv'
    <3>1. /\ ppc = "notify" /\ ppc' = "unlock" /\ registering = Collector!None
          /\ UNCHANGED <<statisticsAdded, statisticsRemoved, statistics, writer, listeners,
                        registering, early>>
      BY <1>14 DEF Collector!notifyAvailableStatisticsChange, Collector!PollLeaves, Collector!srcVars
    <3>2. ~statisticsAdded /\ ~statisticsRemoved /\ writer = Collector!None
      BY <3>1 DEF Collector!ToldInv, Collector!TypeOK, Collector!SharedHeld
    <3>3. /\ lastStatistics' /\ listeners \ notified' \subseteq {registering}
          /\ \A l \in listeners \ {registering} : view'[l] = statistics
      <4>1. CASE hadAdditions \/ hadDeletions
        <5>1. /\ view' = [l \in Listeners |-> IF l \in listeners THEN statistics ELSE view[l]]
              /\ notified' = notified \cup listeners /\ lastStatistics' = TRUE
          BY <1>14, <4>1 DEF Collector!notifyAvailableStatisticsChange
        <5> QED BY <5>1 DEF Collector!TypeOK
      <4>2. CASE ~(hadAdditions \/ hadDeletions)
        <5>1. UNCHANGED <<view, notified, lastStatistics>>
          BY <1>14, <4>2 DEF Collector!notifyAvailableStatisticsChange
        <5> QED BY <3>1, <3>2, <4>2, <5>1 DEF Collector!ToldInv
      <4> QED BY <4>1, <4>2
    <3> QED BY <3>1, <3>3 DEF Collector!ToldInv
  <2>5. Collector!StepInv'
    BY <1>14 DEF Collector!notifyAvailableStatisticsChange, Collector!StepInv, Collector!Pushing, Collector!Pushed, Collector!Agree, Collector!srcVars, Collector!muxVars, Collector!pollVars, Collector!collVars, Collector!PollLeaves, Collector!MayChange, Collector!Exclusive, Collector!Alive, Collector!SharedHeld, Collector!None
  <2> QED BY <2>1, <2>2, <2>3, <2>4, <2>5 DEF Collector!IInv
<1>15. CASE Collector!UnlockSources
  <2>1. Collector!TypeOK'
    BY <1>15 DEF Collector!UnlockSources, Collector!TypeOK, Collector!SharedHeld, Collector!IsInjective, Collector!srcVars, Collector!muxVars, Collector!pollVars, Collector!collVars, Collector!PollLeaves, Collector!MayChange, Collector!Exclusive, Collector!Alive, Collector!None
  <2>2. Collector!ListsOK'
    BY <1>15 DEF Collector!UnlockSources, Collector!ListsOK, Collector!srcVars, Collector!muxVars, Collector!pollVars, Collector!collVars, Collector!PollLeaves, Collector!MayChange, Collector!Exclusive, Collector!Alive, Collector!SharedHeld, Collector!None
  <2>3. Collector!OwnerInv'
    BY <1>15 DEF Collector!UnlockSources, Collector!OwnerInv, Collector!srcVars, Collector!muxVars, Collector!pollVars, Collector!collVars, Collector!PollLeaves, Collector!MayChange, Collector!Exclusive, Collector!Alive, Collector!SharedHeld, Collector!None
  <2>4. Collector!ToldInv'
    BY <1>15 DEF Collector!UnlockSources, Collector!ToldInv, Collector!srcVars, Collector!muxVars, Collector!pollVars, Collector!collVars, Collector!PollLeaves, Collector!MayChange, Collector!Exclusive, Collector!Alive, Collector!SharedHeld, Collector!None
  <2>5. Collector!StepInv'
    BY <1>15 DEF Collector!UnlockSources, Collector!StepInv, Collector!Pushing, Collector!Pushed, Collector!Agree, Collector!srcVars, Collector!muxVars, Collector!pollVars, Collector!collVars, Collector!PollLeaves, Collector!MayChange, Collector!Exclusive, Collector!Alive, Collector!SharedHeld, Collector!None
  <2> QED BY <2>1, <2>2, <2>3, <2>4, <2>5 DEF Collector!IInv
<1>16. CASE Collector!newDataAvailable
  <2>1. Collector!TypeOK'
    BY <1>16 DEF Collector!newDataAvailable, Collector!TypeOK, Collector!SharedHeld, Collector!IsInjective, Collector!srcVars, Collector!muxVars, Collector!pollVars, Collector!collVars, Collector!PollLeaves, Collector!MayChange, Collector!Exclusive, Collector!Alive, Collector!None
  <2>2. Collector!ListsOK'
    BY <1>16 DEF Collector!newDataAvailable, Collector!ListsOK, Collector!srcVars, Collector!muxVars, Collector!pollVars, Collector!collVars, Collector!PollLeaves, Collector!MayChange, Collector!Exclusive, Collector!Alive, Collector!SharedHeld, Collector!None
  <2>3. Collector!OwnerInv'
    BY <1>16 DEF Collector!newDataAvailable, Collector!OwnerInv, Collector!srcVars, Collector!muxVars, Collector!pollVars, Collector!collVars, Collector!PollLeaves, Collector!MayChange, Collector!Exclusive, Collector!Alive, Collector!SharedHeld, Collector!None
  <2>4. Collector!ToldInv'
    BY <1>16 DEF Collector!newDataAvailable, Collector!ToldInv, Collector!TypeOK, Collector!srcVars, Collector!muxVars, Collector!pollVars, Collector!collVars, Collector!PollLeaves, Collector!MayChange, Collector!Exclusive, Collector!Alive, Collector!SharedHeld, Collector!None
  <2>5. Collector!StepInv'
    BY <1>16 DEF Collector!newDataAvailable, Collector!StepInv, Collector!Pushing, Collector!Pushed, Collector!Agree, Collector!srcVars, Collector!muxVars, Collector!pollVars, Collector!collVars, Collector!PollLeaves, Collector!MayChange, Collector!Exclusive, Collector!Alive, Collector!SharedHeld, Collector!None
  <2> QED BY <2>1, <2>2, <2>3, <2>4, <2>5 DEF Collector!IInv
<1>17. CASE Collector!Sleep
  <2>1. Collector!TypeOK'
    BY <1>17 DEF Collector!Sleep, Collector!TypeOK, Collector!SharedHeld, Collector!IsInjective, Collector!srcVars, Collector!muxVars, Collector!pollVars, Collector!collVars, Collector!PollLeaves, Collector!MayChange, Collector!Exclusive, Collector!Alive, Collector!None
  <2>2. Collector!ListsOK'
    BY <1>17 DEF Collector!Sleep, Collector!ListsOK, Collector!srcVars, Collector!muxVars, Collector!pollVars, Collector!collVars, Collector!PollLeaves, Collector!MayChange, Collector!Exclusive, Collector!Alive, Collector!SharedHeld, Collector!None
  <2>3. Collector!OwnerInv'
    BY <1>17 DEF Collector!Sleep, Collector!OwnerInv, Collector!srcVars, Collector!muxVars, Collector!pollVars, Collector!collVars, Collector!PollLeaves, Collector!MayChange, Collector!Exclusive, Collector!Alive, Collector!SharedHeld, Collector!None
  <2>4. Collector!ToldInv'
    BY <1>17 DEF Collector!Sleep, Collector!ToldInv, Collector!srcVars, Collector!muxVars, Collector!pollVars, Collector!collVars, Collector!PollLeaves, Collector!MayChange, Collector!Exclusive, Collector!Alive, Collector!SharedHeld, Collector!None
  <2>5. Collector!StepInv'
    BY <1>17 DEF Collector!Sleep, Collector!StepInv, Collector!Pushing, Collector!Pushed, Collector!Agree, Collector!srcVars, Collector!muxVars, Collector!pollVars, Collector!collVars, Collector!PollLeaves, Collector!MayChange, Collector!Exclusive, Collector!Alive, Collector!SharedHeld, Collector!None
  <2> QED BY <2>1, <2>2, <2>3, <2>4, <2>5 DEF Collector!IInv
<1>18. CASE Collector!stop
  <2>1. Collector!TypeOK'
    BY <1>18 DEF Collector!stop, Collector!TypeOK, Collector!SharedHeld, Collector!IsInjective, Collector!srcVars, Collector!muxVars, Collector!pollVars, Collector!collVars, Collector!PollLeaves, Collector!MayChange, Collector!Exclusive, Collector!Alive, Collector!None
  <2>2. Collector!ListsOK'
    BY <1>18 DEF Collector!stop, Collector!ListsOK, Collector!srcVars, Collector!muxVars, Collector!pollVars, Collector!collVars, Collector!PollLeaves, Collector!MayChange, Collector!Exclusive, Collector!Alive, Collector!SharedHeld, Collector!None
  <2>3. Collector!OwnerInv'
    BY <1>18 DEF Collector!stop, Collector!OwnerInv, Collector!srcVars, Collector!muxVars, Collector!pollVars, Collector!collVars, Collector!PollLeaves, Collector!MayChange, Collector!Exclusive, Collector!Alive, Collector!SharedHeld, Collector!None
  <2>4. Collector!ToldInv'
    BY <1>18 DEF Collector!stop, Collector!ToldInv, Collector!srcVars, Collector!muxVars, Collector!pollVars, Collector!collVars, Collector!PollLeaves, Collector!MayChange, Collector!Exclusive, Collector!Alive, Collector!SharedHeld, Collector!None
  <2>5. Collector!StepInv'
    BY <1>18 DEF Collector!stop, Collector!StepInv, Collector!Pushing, Collector!Pushed, Collector!Agree, Collector!srcVars, Collector!muxVars, Collector!pollVars, Collector!collVars, Collector!PollLeaves, Collector!MayChange, Collector!Exclusive, Collector!Alive, Collector!SharedHeld, Collector!None
  <2> QED BY <2>1, <2>2, <2>3, <2>4, <2>5 DEF Collector!IInv
<1>19. CASE Collector!stopJoin
  <2>1. Collector!TypeOK'
    BY <1>19 DEF Collector!stopJoin, Collector!TypeOK, Collector!SharedHeld, Collector!IsInjective, Collector!srcVars, Collector!muxVars, Collector!pollVars, Collector!collVars, Collector!PollLeaves, Collector!MayChange, Collector!Exclusive, Collector!Alive, Collector!None
  <2>2. Collector!ListsOK'
    BY <1>19 DEF Collector!stopJoin, Collector!ListsOK, Collector!srcVars, Collector!muxVars, Collector!pollVars, Collector!collVars, Collector!PollLeaves, Collector!MayChange, Collector!Exclusive, Collector!Alive, Collector!SharedHeld, Collector!None
  <2>3. Collector!OwnerInv'
    BY <1>19 DEF Collector!stopJoin, Collector!OwnerInv, Collector!srcVars, Collector!muxVars, Collector!pollVars, Collector!collVars, Collector!PollLeaves, Collector!MayChange, Collector!Exclusive, Collector!Alive, Collector!SharedHeld, Collector!None
  <2>4. Collector!ToldInv'
    BY <1>19 DEF Collector!stopJoin, Collector!ToldInv, Collector!srcVars, Collector!muxVars, Collector!pollVars, Collector!collVars, Collector!PollLeaves, Collector!MayChange, Collector!Exclusive, Collector!Alive, Collector!SharedHeld, Collector!None
  <2>5. Collector!StepInv'
    BY <1>19 DEF Collector!stopJoin, Collector!StepInv, Collector!Pushing, Collector!Pushed, Collector!Agree, Collector!srcVars, Collector!muxVars, Collector!pollVars, Collector!collVars, Collector!PollLeaves, Collector!MayChange, Collector!Exclusive, Collector!Alive, Collector!SharedHeld, Collector!None
  <2> QED BY <2>1, <2>2, <2>3, <2>4, <2>5 DEF Collector!IInv
<1>20. CASE Collector!makeCollection
  <2>1. Collector!TypeOK'
    BY <1>20 DEF Collector!makeCollection, Collector!TypeOK, Collector!SharedHeld, Collector!IsInjective, Collector!srcVars, Collector!muxVars, Collector!pollVars, Collector!collVars, Collector!PollLeaves, Collector!MayChange, Collector!Exclusive, Collector!Alive, Collector!None
  <2>2. Collector!ListsOK'
    BY <1>20 DEF Collector!makeCollection, Collector!ListsOK, Collector!srcVars, Collector!muxVars, Collector!pollVars, Collector!collVars, Collector!PollLeaves, Collector!MayChange, Collector!Exclusive, Collector!Alive, Collector!SharedHeld, Collector!None
  <2>3. Collector!OwnerInv'
    BY <1>20 DEF Collector!makeCollection, Collector!OwnerInv, Collector!srcVars, Collector!muxVars, Collector!pollVars, Collector!collVars, Collector!PollLeaves, Collector!MayChange, Collector!Exclusive, Collector!Alive, Collector!SharedHeld, Collector!None
  <2>4. Collector!ToldInv'
    BY <1>20 DEF Collector!makeCollection, Collector!ToldInv, Collector!srcVars, Collector!muxVars, Collector!pollVars, Collector!collVars, Collector!PollLeaves, Collector!MayChange, Collector!Exclusive, Collector!Alive, Collector!SharedHeld, Collector!None
  <2>5. Collector!StepInv'
    <3>1. /\ collection = << >> /\ collection' = statistics /\ statistics # << >>
          /\ UNCHANGED <<inCollections, pushedFrom, readFrom, ppc, next, plugins, value, step>>
      BY <1>20 DEF Collector!makeCollection, Collector!srcVars, Collector!pollVars
    <3>2. ~inCollections /\ pushedFrom = {} /\ readFrom = {}
      BY <3>1 DEF Collector!StepInv
    <3>3. ppc = "push" => next <= Len(collection')
      <4>1. next \in Nat /\ (ppc = "push" => next = 0) /\ Len(statistics) \in Nat
        BY <3>2 DEF Collector!StepInv, Collector!TypeOK, Collector!ListsOK
      <4> QED BY <3>1, <4>1
    <3> QED BY <3>1, <3>2, <3>3 DEF Collector!StepInv, Collector!Pushing, Collector!Agree
  <2> QED BY <2>1, <2>2, <2>3, <2>4, <2>5 DEF Collector!IInv
<1>21. CASE Collector!registerCollection
  <2>1. Collector!TypeOK'
    BY <1>21 DEF Collector!registerCollection, Collector!TypeOK, Collector!SharedHeld, Collector!IsInjective, Collector!srcVars, Collector!muxVars, Collector!pollVars, Collector!collVars, Collector!PollLeaves, Collector!MayChange, Collector!Exclusive, Collector!Alive, Collector!None
  <2>2. Collector!ListsOK'
    BY <1>21 DEF Collector!registerCollection, Collector!ListsOK, Collector!srcVars, Collector!muxVars, Collector!pollVars, Collector!collVars, Collector!PollLeaves, Collector!MayChange, Collector!Exclusive, Collector!Alive, Collector!SharedHeld, Collector!None
  <2>3. Collector!OwnerInv'
    BY <1>21 DEF Collector!registerCollection, Collector!OwnerInv, Collector!srcVars, Collector!muxVars, Collector!pollVars, Collector!collVars, Collector!PollLeaves, Collector!MayChange, Collector!Exclusive, Collector!Alive, Collector!SharedHeld, Collector!None
  <2>4. Collector!ToldInv'
    BY <1>21 DEF Collector!registerCollection, Collector!ToldInv, Collector!srcVars, Collector!muxVars, Collector!pollVars, Collector!collVars, Collector!PollLeaves, Collector!MayChange, Collector!Exclusive, Collector!Alive, Collector!SharedHeld, Collector!None
  <2>5. Collector!StepInv'
    BY <1>21 DEF Collector!registerCollection, Collector!StepInv, Collector!Pushing, Collector!Pushed, Collector!Agree, Collector!srcVars, Collector!muxVars, Collector!pollVars, Collector!collVars, Collector!PollLeaves, Collector!MayChange, Collector!Exclusive, Collector!Alive, Collector!SharedHeld, Collector!None
  <2> QED BY <2>1, <2>2, <2>3, <2>4, <2>5 DEF Collector!IInv
<1>22. CASE Collector!unregisterCollection
  <2>1. Collector!TypeOK'
    BY <1>22 DEF Collector!unregisterCollection, Collector!TypeOK, Collector!SharedHeld, Collector!IsInjective, Collector!srcVars, Collector!muxVars, Collector!pollVars, Collector!collVars, Collector!PollLeaves, Collector!MayChange, Collector!Exclusive, Collector!Alive, Collector!None
  <2>2. Collector!ListsOK'
    BY <1>22 DEF Collector!unregisterCollection, Collector!ListsOK, Collector!srcVars, Collector!muxVars, Collector!pollVars, Collector!collVars, Collector!PollLeaves, Collector!MayChange, Collector!Exclusive, Collector!Alive, Collector!SharedHeld, Collector!None
  <2>3. Collector!OwnerInv'
    BY <1>22 DEF Collector!unregisterCollection, Collector!OwnerInv, Collector!srcVars, Collector!muxVars, Collector!pollVars, Collector!collVars, Collector!PollLeaves, Collector!MayChange, Collector!Exclusive, Collector!Alive, Collector!SharedHeld, Collector!None
  <2>4. Collector!ToldInv'
    BY <1>22 DEF Collector!unregisterCollection, Collector!ToldInv, Collector!srcVars, Collector!muxVars, Collector!pollVars, Collector!collVars, Collector!PollLeaves, Collector!MayChange, Collector!Exclusive, Collector!Alive, Collector!SharedHeld, Collector!None
  <2>5. Collector!StepInv'
    BY <1>22 DEF Collector!unregisterCollection, Collector!StepInv, Collector!Pushing, Collector!Pushed, Collector!Agree, Collector!srcVars, Collector!muxVars, Collector!pollVars, Collector!collVars, Collector!PollLeaves, Collector!MayChange, Collector!Exclusive, Collector!Alive, Collector!SharedHeld, Collector!None
  <2> QED BY <2>1, <2>2, <2>3, <2>4, <2>5 DEF Collector!IInv
<1>23. CASE Collector!fetchValues
  <2>1. Collector!TypeOK'
    BY <1>23 DEF Collector!fetchValues, Collector!TypeOK, Collector!SharedHeld, Collector!IsInjective, Collector!srcVars, Collector!muxVars, Collector!pollVars, Collector!collVars, Collector!PollLeaves, Collector!MayChange, Collector!Exclusive, Collector!Alive, Collector!None
  <2>2. Collector!ListsOK'
    BY <1>23 DEF Collector!fetchValues, Collector!ListsOK, Collector!srcVars, Collector!muxVars, Collector!pollVars, Collector!collVars, Collector!PollLeaves, Collector!MayChange, Collector!Exclusive, Collector!Alive, Collector!SharedHeld, Collector!None
  <2>3. Collector!OwnerInv'
    BY <1>23 DEF Collector!fetchValues, Collector!OwnerInv, Collector!srcVars, Collector!muxVars, Collector!pollVars, Collector!collVars, Collector!PollLeaves, Collector!MayChange, Collector!Exclusive, Collector!Alive, Collector!SharedHeld, Collector!None
  <2>4. Collector!ToldInv'
    BY <1>23 DEF Collector!fetchValues, Collector!ToldInv, Collector!srcVars, Collector!muxVars, Collector!pollVars, Collector!collVars, Collector!PollLeaves, Collector!MayChange, Collector!Exclusive, Collector!Alive, Collector!SharedHeld, Collector!None
  <2>5. Collector!StepInv'
    BY <1>23 DEF Collector!fetchValues, Collector!StepInv, Collector!Pushing, Collector!Pushed, Collector!Agree, Collector!srcVars, Collector!muxVars, Collector!pollVars, Collector!collVars, Collector!PollLeaves, Collector!MayChange, Collector!Exclusive, Collector!Alive, Collector!SharedHeld, Collector!None
  <2> QED BY <2>1, <2>2, <2>3, <2>4, <2>5 DEF Collector!IInv
<1> QED BY <1>1, <1>2, <1>3, <1>4, <1>5, <1>6, <1>7, <1>8, <1>9, <1>10, <1>11, <1>12, <1>13, <1>14, <1>15, <1>16, <1>17, <1>18, <1>19, <1>20, <1>21, <1>22, <1>23 DEF Collector!Next, Collector!Poll

\* The collector in the processing run: its own steps and those of the others.
LEMMA CollectorInvariant == MCSpec => []Collector!IInv
<1>1. MCInit => Collector!IInv
  <2> SUFFICES ASSUME MCInit PROVE Collector!IInv
    OBVIOUS
  <2> USE CollectorFacts DEF MCInit, Collector!Init
  <2>1. Collector!TypeOK
    <3>1. DOMAIN << >> = {}
      OBVIOUS
    <3>2. Collector!Range(<< >>) = {} /\ Collector!IsInjective(<< >>)
      BY <3>1, Zenon DEF Collector!Range, Collector!IsInjective
    <3>3. /\ plugins = << >> /\ statistics = << >> /\ listeners = {} /\ notified = {}
          /\ writer = Collector!None /\ registering = Collector!None /\ next = 0
          /\ communicationBuffer = << >> /\ readBuffer = << >> /\ collection = << >>
          /\ statisticsAdded = TRUE /\ statisticsRemoved = TRUE /\ lastStatistics = FALSE
          /\ cTerminated = FALSE
      OBVIOUS
    <3> QED BY ONLY <3>2, <3>3 DEF Collector!TypeOK
  <2>2. Collector!ListsOK
    BY DEF Collector!ListsOK
  <2>3. Collector!OwnerInv /\ Collector!ToldInv
    BY DEF Collector!OwnerInv, Collector!ToldInv
  <2>4. Collector!StepInv
    BY DEF Collector!StepInv, Collector!Pushing, Collector!Agree
  <2> QED BY <2>1, <2>2, <2>3, <2>4 DEF Collector!IInv
<1>2. Collector!IInv /\ [MCNext]_allVars => Collector!IInv'
  <2> SUFFICES ASSUME Collector!IInv, [MCNext]_allVars PROVE Collector!IInv'
    OBVIOUS
  <2>1. CASE Collector!Next
    BY <2>1, CollectorInductive
  <2>2. CASE UNCHANGED collectorVars
    <3>1. /\ Collector!TypeOK /\ Collector!ListsOK /\ Collector!OwnerInv /\ Collector!ToldInv
          /\ Collector!StepInv
      BY DEF Collector!IInv
    <3> USE <2>2, <3>1 DEF collectorVars
    <3>2. Collector!TypeOK'
      BY DEF Collector!TypeOK, Collector!SharedHeld
    <3>3. Collector!ListsOK'
      BY DEF Collector!ListsOK
    <3>4. Collector!OwnerInv' /\ Collector!ToldInv'
      BY DEF Collector!OwnerInv, Collector!ToldInv
    <3>5. Collector!StepInv'
      BY DEF Collector!StepInv, Collector!Pushing, Collector!Pushed, Collector!Agree
    <3> QED BY <3>2, <3>3, <3>4, <3>5 DEF Collector!IInv
  <2> QED BY <2>1, <2>2 DEF MCNext, allVars
<1> QED BY <1>1, <1>2, PTL DEF MCSpec

\* StatisticsCollector, for every set of plugins, numbers of metrics and listeners:
\* once no change is left to announce, every listener has been told of exactly the
\* statistics there are, none is told of data before that, and the only statistic of
\* a plugin goes with the plugin.
THEOREM ListenerKnowledge == MCSpec => []ListenersKnow
<1>1. Collector!IInv => ListenersKnow
  <2> SUFFICES ASSUME Collector!IInv PROVE Collector!ListenersKnow
    BY DEF ListenersKnow
  <2> USE DEF Collector!IInv
  <2>1. Collector!StatisticsHavePlugin
    <3> SUFFICES ASSUME NEW i \in DOMAIN statistics,
                        statistics[i][1] \notin Collector!Range(plugins)
                 PROVE  Metrics[statistics[i][1]] > 1
      BY DEF Collector!StatisticsHavePlugin
    <3>1. statistics[i][1] \in Plugins /\ Metrics[statistics[i][1]] # 1
      <4>1. statistics[i] \in Collector!Statistics
        BY DEF Collector!ListsOK
      <4> QED BY <4>1, CollectorFacts DEF Collector!OwnerInv
    <3> QED BY <3>1, CollectorFacts
  <2>2. \A l \in listeners : l # Collector!None
    BY CollectorFacts DEF Collector!TypeOK
  <2> QED BY <2>1, <2>2 DEF Collector!ListenersKnow, Collector!ToldInv
<1> QED BY <1>1, CollectorInvariant, PTL

\* StatisticsCollector, for every set of plugins and every collection: what a consumer
\* has fetched is of one time step, for the plugins that took part in it, and a push
\* leaves the values of the current step of every registered plugin.
THEOREM FetchConsistency == MCSpec => []FetchIsConsistent
<1>1. Collector!IInv => FetchIsConsistent
  <2> SUFFICES ASSUME Collector!IInv PROVE Collector!FetchIsConsistent
    BY DEF FetchIsConsistent
  <2>1. DOMAIN readBuffer = DOMAIN collection /\ Collector!Agree(readBuffer, readFrom)
    BY DEF Collector!IInv, Collector!TypeOK, Collector!StepInv
  <2>2. ppc = "flags" /\ inCollections =>
           \A i \in DOMAIN collection :
              collection[i][1] \in Collector!Range(plugins) => communicationBuffer[i] = step
    <3>1. \A i \in DOMAIN collection : i > 0
      BY PositionsOf DEF Collector!IInv, Collector!ListsOK
    <3> QED BY <3>1 DEF Collector!IInv, Collector!StepInv, Collector!Pushed
  <2> QED BY <2>1, <2>2 DEF Collector!FetchIsConsistent, Collector!Agree
<1> QED BY <1>1, CollectorInvariant, PTL

-----------------------------------------------------------------------------
(* Sums over sets of plugins.                                              *)

\* F holds the sums of f over the subsets of D: none, or one more than a smaller one.
Sums(F, f, D) ==
    /\ F \in [SUBSET D -> Reason!Counts] /\ F[{}] = Reason!Zero
    /\ \A T \in SUBSET D, x \in D : x \notin T => F[T \cup {x}] = Reason!Plus(F[T], f[x])

\* Addition of counts.
LEMMA PlusFacts ==
    ASSUME NEW a \in Reason!Counts, NEW b \in Reason!Counts, NEW c \in Reason!Counts
    PROVE  /\ Reason!Plus(a, b) \in Reason!Counts /\ Reason!Plus(a, b) = Reason!Plus(b, a)
           /\ Reason!Plus(Reason!Plus(a, b), c) = Reason!Plus(a, Reason!Plus(b, c))
           /\ Reason!Plus(a, Reason!Zero) = a /\ Reason!Zero \in Reason!Counts
<1>1. \A s \in Reason!HealthStates :
         /\ a[s] \in Nat /\ b[s] \in Nat /\ c[s] \in Nat
         /\ a[s] + b[s] \in Nat /\ a[s] + b[s] = b[s] + a[s]
         /\ (a[s] + b[s]) + c[s] = a[s] + (b[s] + c[s]) /\ a[s] + 0 = a[s]
  BY DEF Reason!Counts
<1>2. a = [s \in Reason!HealthStates |-> a[s]]
  BY DEF Reason!Counts
<1> QED BY <1>1, <1>2 DEF Reason!Counts, Reason!Plus, Reason!Zero

\* Two summands may change places.
LEMMA Exchange ==
    ASSUME NEW a \in Reason!Counts, NEW b \in Reason!Counts, NEW c \in Reason!Counts
    PROVE  Reason!Plus(Reason!Plus(a, b), c) = Reason!Plus(Reason!Plus(a, c), b)
<1>1. \A s \in Reason!HealthStates :
         a[s] \in Nat /\ b[s] \in Nat /\ c[s] \in Nat /\ (a[s] + b[s]) + c[s] = (a[s] + c[s]) + b[s]
  BY DEF Reason!Counts
<1> QED BY <1>1 DEF Reason!Plus

\* Finite subsets, and what taking an element does to their size.
LEMMA Sizes ==
    ASSUME NEW D, IsFiniteSet(D)
    PROVE  /\ Cardinality(D) \in Nat
           /\ \A T \in SUBSET D : /\ IsFiniteSet(T) /\ Cardinality(T) \in 0 .. Cardinality(D)
                                  /\ Cardinality(T) = 0 <=> T = {}
                                  /\ \A x \in T : Cardinality(T \ {x}) = Cardinality(T) - 1
<1>1. Cardinality(D) \in Nat
  BY FS_CardinalityType
<1>2. ASSUME NEW T \in SUBSET D
      PROVE  /\ IsFiniteSet(T) /\ Cardinality(T) \in 0 .. Cardinality(D)
             /\ Cardinality(T) = 0 <=> T = {}
             /\ \A x \in T : Cardinality(T \ {x}) = Cardinality(T) - 1
  <2>1. IsFiniteSet(T) /\ Cardinality(T) <= Cardinality(D)
    BY FS_Subset
  <2>2. Cardinality(T) \in Nat
    BY <2>1, FS_CardinalityType
  <2>3. Cardinality(T) = 0 <=> T = {}
    BY <2>1, FS_EmptySet
  <2>4. \A x \in T : Cardinality(T \ {x}) = Cardinality(T) - 1
    BY <2>1, FS_RemoveElement
  <2> QED BY <1>1, <2>1, <2>2, <2>3, <2>4
<1> QED BY <1>1, <1>2

\* There are such sums over a finite set.
LEMMA SumsExist ==
    ASSUME NEW D, IsFiniteSet(D), NEW f, \A x \in D : f[x] \in Reason!Counts
    PROVE  \E F : Sums(F, f, D)
<1> DEFINE N == Cardinality(D)
           G == {n \in 0 .. N : \A T \in SUBSET D : Cardinality(T) = n => \E F : Sums(F, f, T)}
<1>0. N \in Nat
  BY Sizes
<1>1. 0 \in G
  <2> SUFFICES ASSUME NEW T \in SUBSET D, Cardinality(T) = 0 PROVE \E F : Sums(F, f, T)
    BY <1>0
  <2>1. T = {}
    BY Sizes
  <2>2. Reason!Zero \in Reason!Counts
    BY DEF Reason!Zero, Reason!Counts
  <2> DEFINE F == [S \in SUBSET T |-> Reason!Zero]
  <2>3. Sums(F, f, T)
    BY <2>1, <2>2 DEF Sums
  <2> QED BY <2>3
<1>2. ASSUME NEW n \in 1 .. N, n - 1 \in G PROVE n \in G
  <2> SUFFICES ASSUME NEW T \in SUBSET D, Cardinality(T) = n PROVE \E F : Sums(F, f, T)
    BY <1>0
  <2>1. T # {}
    BY <1>0, Sizes
  <2>2. PICK x \in T : TRUE
    BY <2>1
  <2> DEFINE R == T \ {x}
  <2>3. Cardinality(R) = n - 1 /\ R \in SUBSET D
    BY Sizes
  <2>4. PICK E : Sums(E, f, R)
    BY <1>2, <2>3
  <2> DEFINE F == [S \in SUBSET T |-> IF x \in S THEN Reason!Plus(E[S \ {x}], f[x]) ELSE E[S]]
  <2>5. E \in [SUBSET R -> Reason!Counts] /\ f[x] \in Reason!Counts
    BY <2>4 DEF Sums
  <2>6. \A S \in SUBSET T : S \ {x} \in SUBSET R /\ (x \notin S => S \in SUBSET R)
    OBVIOUS
  <2>7. F \in [SUBSET T -> Reason!Counts]
    <3>1. ASSUME NEW S \in SUBSET T PROVE F[S] \in Reason!Counts
      <4>1. CASE x \in S
        <5>1. E[S \ {x}] \in Reason!Counts
          BY <2>5, <2>6
        <5> QED BY <2>5, <4>1, <5>1, PlusFacts
      <4>2. CASE x \notin S
        BY <2>5, <2>6, <4>2
      <4> QED BY <4>1, <4>2
    <3> QED BY <3>1
  <2>8. F[{}] = Reason!Zero
    BY <2>4 DEF Sums
  <2>9. ASSUME NEW S \in SUBSET T, NEW y \in T, y \notin S
        PROVE  F[S \cup {y}] = Reason!Plus(F[S], f[y])
    <3>1. S \cup {y} \in SUBSET T /\ f[y] \in Reason!Counts
      OBVIOUS
    <3>2. CASE y = x
      <4>1. (S \cup {y}) \ {x} = S /\ x \notin S
        BY <2>9, <3>2
      <4> QED BY <3>1, <3>2, <4>1
    <3>3. CASE y # x /\ x \notin S
      <4>1. E[S \cup {y}] = Reason!Plus(E[S], f[y])
        BY <2>4, <2>9, <3>3 DEF Sums
      <4> QED BY <3>1, <3>3, <4>1
    <3>4. CASE y # x /\ x \in S
      <4> DEFINE Q == S \ {x}
      <4>1. /\ Q \in SUBSET R /\ y \in R /\ y \notin Q /\ (S \cup {y}) \ {x} = Q \cup {y}
            /\ x \in S \cup {y}
        BY <2>9, <3>4
      <4>2. E[Q \cup {y}] = Reason!Plus(E[Q], f[y]) /\ E[Q] \in Reason!Counts
        BY <2>4, <2>5, <4>1 DEF Sums
      <4>3. F[S \cup {y}] = Reason!Plus(Reason!Plus(E[Q], f[y]), f[x]) /\ F[S] = Reason!Plus(E[Q], f[x])
        BY <3>1, <3>4, <4>1, <4>2
      <4> HIDE DEF F, Q
      <4>4. Reason!Plus(Reason!Plus(E[Q], f[y]), f[x]) = Reason!Plus(Reason!Plus(E[Q], f[x]), f[y])
        BY <2>5, <3>1, <4>2, Exchange
      <4> QED BY <4>3, <4>4
    <3> QED BY <3>2, <3>3, <3>4
  <2> HIDE DEF F
  <2>10. Sums(F, f, T)
    BY <2>7, <2>8, <2>9 DEF Sums
  <2> QED BY <2>10
<1>3. \A n \in 0 .. N : n \in G
  <2> HIDE DEF G, N
  <2> QED BY <1>0, <1>1, <1>2, FirstFailure
<1> QED BY <1>0, <1>3

\* The fold takes the elements in some order; it is the sum.
LEMMA FoldIsSum ==
    ASSUME NEW D, IsFiniteSet(D), NEW f, NEW F, Sums(F, f, D)
    PROVE  Reason!SumOver(f, D) = F[D]
<1> DEFINE Pick(s) == CHOOSE x \in s : TRUE
           Step(g, s) == IF s = {} THEN Reason!Zero
                         ELSE Reason!Plus(g[s \ {Pick(s)}], f[Pick(s)])
           iter == CHOOSE g : g = [s \in SUBSET D |-> Step(g, s)]
<1>1. Reason!SumOver(f, D) = iter[D]
  BY DEF Reason!SumOver, Reason!FoldSet, Reason!MapThenFoldSet
<1>2. F = [s \in SUBSET D |-> Step(F, s)]
  <2>1. ASSUME NEW s \in SUBSET D PROVE F[s] = Step(F, s)
    <3>1. CASE s = {}
      BY <3>1 DEF Sums
    <3>2. CASE s # {}
      <4>1. Pick(s) \in s
        BY <3>2
      <4> HIDE DEF Pick
      <4>2. s \ {Pick(s)} \in SUBSET D /\ Pick(s) \in D /\ (s \ {Pick(s)}) \cup {Pick(s)} = s
        BY <4>1
      <4> QED BY <3>2, <4>2 DEF Sums
    <3> QED BY <3>1, <3>2
  <2> HIDE DEF Step
  <2>2. F = [s \in SUBSET D |-> F[s]]
    BY DEF Sums
  <2> QED BY <2>1, <2>2
<1>3. iter = [s \in SUBSET D |-> Step(iter, s)]
  <2> HIDE DEF Step
  <2> QED BY <1>2
<1> HIDE DEF iter
<1> DEFINE N == Cardinality(D)
           G == {n \in 0 .. N : \A T \in SUBSET D : Cardinality(T) = n => iter[T] = F[T]}
<1>4. N \in Nat
  BY Sizes
<1>5. 0 \in G
  <2> SUFFICES ASSUME NEW T \in SUBSET D, Cardinality(T) = 0 PROVE iter[T] = F[T]
    BY <1>4
  <2>1. T = {}
    BY Sizes
  <2> QED BY <1>2, <1>3, <2>1
<1>6. ASSUME NEW n \in 1 .. N, n - 1 \in G PROVE n \in G
  <2> SUFFICES ASSUME NEW T \in SUBSET D, Cardinality(T) = n PROVE iter[T] = F[T]
    BY <1>4
  <2>1. T # {}
    BY <1>4, Sizes
  <2>2. Pick(T) \in T
    BY <2>1
  <2> DEFINE R == T \ {Pick(T)}
  <2>3. iter[T] = Reason!Plus(iter[R], f[Pick(T)]) /\ F[T] = Reason!Plus(F[R], f[Pick(T)])
    <3>1. iter[T] = Step(iter, T) /\ F[T] = Step(F, T)
      <4> HIDE DEF Step
      <4> QED BY <1>2, <1>3
    <3> HIDE DEF Pick
    <3> QED BY <2>1, <3>1
  <2> HIDE DEF Pick
  <2>4. Cardinality(R) = n - 1 /\ R \in SUBSET D
    BY <2>2, Sizes
  <2>5. iter[R] = F[R]
    BY <1>6, <2>4
  <2> QED BY <2>3, <2>5
<1>7. \A n \in 0 .. N : n \in G
  <2> HIDE DEF G, N
  <2> QED BY <1>4, <1>5, <1>6, FirstFailure
<1>8. iter[D] = F[D]
  BY <1>4, <1>7
<1> QED BY <1>1, <1>8

\* The sum over a finite set is a count, ...
LEMMA SumType ==
    ASSUME NEW D, IsFiniteSet(D), NEW f, \A x \in D : f[x] \in Reason!Counts
    PROVE  Reason!SumOver(f, D) \in Reason!Counts
<1>1. PICK F : Sums(F, f, D)
  BY SumsExist
<1>2. Reason!SumOver(f, D) = F[D]
  BY <1>1, FoldIsSum
<1> QED BY <1>1, <1>2 DEF Sums

\* ... of which only the values in the set matter.
LEMMA SumSame ==
    ASSUME NEW D, IsFiniteSet(D), NEW f, \A x \in D : f[x] \in Reason!Counts,
           NEW g, \A x \in D : g[x] = f[x]
    PROVE  Reason!SumOver(g, D) = Reason!SumOver(f, D)
<1>1. PICK F : Sums(F, f, D)
  BY SumsExist
<1>2. Sums(F, g, D)
  BY <1>1 DEF Sums
<1> QED BY <1>1, <1>2, FoldIsSum

\* One value grows, and the sum grows with it.
LEMMA SumGrows ==
    ASSUME NEW D, IsFiniteSet(D), NEW f, \A x \in D : f[x] \in Reason!Counts,
           NEW one \in Reason!Counts, NEW p \in D,
           NEW g, \A x \in D : g[x] = IF x = p THEN Reason!Plus(f[x], one) ELSE f[x]
    PROVE  Reason!SumOver(g, D) = Reason!Plus(Reason!SumOver(f, D), one)
<1>1. PICK F : Sums(F, f, D)
  BY SumsExist
<1> DEFINE H == [T \in SUBSET D |-> IF p \in T THEN Reason!Plus(F[T], one) ELSE F[T]]
<1>2. \A T \in SUBSET D : F[T] \in Reason!Counts
  BY <1>1 DEF Sums
<1>3. H \in [SUBSET D -> Reason!Counts]
  <2>1. \A T \in SUBSET D : Reason!Plus(F[T], one) \in Reason!Counts
    BY <1>2, PlusFacts
  <2> QED BY <1>2, <2>1
<1>4. ASSUME NEW T \in SUBSET D, NEW x \in D, x \notin T
      PROVE  H[T \cup {x}] = Reason!Plus(H[T], g[x])
  <2>1. F[T \cup {x}] = Reason!Plus(F[T], f[x]) /\ T \cup {x} \in SUBSET D
    BY <1>1, <1>4 DEF Sums
  <2>2. F[T] \in Reason!Counts /\ f[x] \in Reason!Counts
    BY <1>2
  <2>3. CASE x = p
    <3>1. H[T \cup {x}] = Reason!Plus(Reason!Plus(F[T], f[x]), one) /\ H[T] = F[T]
      BY <1>4, <2>1, <2>3
    <3>2. Reason!Plus(Reason!Plus(F[T], f[x]), one) = Reason!Plus(F[T], Reason!Plus(f[x], one))
      <4> DEFINE a == F[T]
                 b == f[x]
      <4>1. a \in Reason!Counts /\ b \in Reason!Counts
        BY <2>2
      <4> HIDE DEF a, b
      <4>2. Reason!Plus(Reason!Plus(a, b), one) = Reason!Plus(a, Reason!Plus(b, one))
        BY <4>1, PlusFacts
      <4> QED BY <4>2 DEF a, b
    <3> QED BY <2>3, <3>1, <3>2
  <2>4. CASE x # p /\ p \notin T
    BY <1>4, <2>1, <2>4
  <2>5. CASE x # p /\ p \in T
    <3>1. H[T \cup {x}] = Reason!Plus(Reason!Plus(F[T], f[x]), one) /\ H[T] = Reason!Plus(F[T], one)
      BY <1>4, <2>1, <2>5
    <3>2. Reason!Plus(Reason!Plus(F[T], f[x]), one) = Reason!Plus(Reason!Plus(F[T], one), f[x])
      BY <2>2, Exchange
    <3> QED BY <2>5, <3>1, <3>2
  <2> QED BY <2>3, <2>4, <2>5
<1>5. Sums(H, g, D)
  <2>1. H[{}] = Reason!Zero
    BY <1>1 DEF Sums
  <2> HIDE DEF H
  <2> QED BY <1>3, <1>4, <2>1 DEF Sums
<1>6. Reason!SumOver(g, D) = H[D] /\ Reason!SumOver(f, D) = F[D]
  <2> HIDE DEF H
  <2> QED BY <1>1, <1>5, FoldIsSum
<1> QED BY <1>6

\* A part of the values is taken out: its sum and what is left make the whole.
LEMMA SumTaken ==
    ASSUME NEW D, IsFiniteSet(D), NEW f, \A x \in D : f[x] \in Reason!Counts,
           NEW A \in SUBSET D,
           NEW g, \A x \in D : g[x] = IF x \in A THEN Reason!Zero ELSE f[x]
    PROVE  Reason!Plus(Reason!SumOver(f, A), Reason!SumOver(g, D)) = Reason!SumOver(f, D)
<1>1. PICK F : Sums(F, f, D)
  BY SumsExist
<1>2. \A T \in SUBSET D : F[T] \in Reason!Counts
  BY <1>1 DEF Sums
<1>3. Reason!SumOver(f, A) = F[A]
  <2> DEFINE E == [T \in SUBSET A |-> F[T]]
  <2>1. Sums(E, f, A)
    <3>1. E \in [SUBSET A -> Reason!Counts] /\ E[{}] = Reason!Zero
      BY <1>1 DEF Sums
    <3>2. ASSUME NEW T \in SUBSET A, NEW x \in A, x \notin T
          PROVE  E[T \cup {x}] = Reason!Plus(E[T], f[x])
      BY <1>1, <3>2 DEF Sums
    <3> HIDE DEF E
    <3> QED BY <3>1, <3>2 DEF Sums
  <2>2. IsFiniteSet(A)
    BY Sizes
  <2>3. Reason!SumOver(f, A) = E[A]
    <3> HIDE DEF E
    <3> QED BY <2>1, <2>2, FoldIsSum
  <2> QED BY <2>3
<1>4. Reason!SumOver(g, D) = F[D \ A]
  <2> DEFINE H == [T \in SUBSET D |-> F[T \ A]]
  <2>1. H \in [SUBSET D -> Reason!Counts] /\ H[{}] = Reason!Zero
    <3>1. \A T \in SUBSET D : F[T \ A] \in Reason!Counts
      BY <1>2
    <3>2. {} \ A = {} /\ F[{}] = Reason!Zero
      BY <1>1 DEF Sums
    <3> QED BY <3>1, <3>2
  <2>2. ASSUME NEW T \in SUBSET D, NEW x \in D, x \notin T
        PROVE  H[T \cup {x}] = Reason!Plus(H[T], g[x])
    <3>1. H[T \cup {x}] = F[(T \cup {x}) \ A] /\ H[T] = F[T \ A]
      OBVIOUS
    <3> HIDE DEF H
    <3>2. CASE x \in A
      <4>1. (T \cup {x}) \ A = T \ A /\ g[x] = Reason!Zero /\ F[T \ A] \in Reason!Counts
        BY <1>2, <3>2
      <4>2. Reason!Plus(F[T \ A], Reason!Zero) = F[T \ A]
        BY <4>1, PlusFacts
      <4> QED BY <3>1, <4>1, <4>2
    <3>3. CASE x \notin A
      <4>1. (T \cup {x}) \ A = (T \ A) \cup {x} /\ T \ A \in SUBSET D /\ x \notin T \ A
        BY <2>2, <3>3
      <4>2. F[(T \ A) \cup {x}] = Reason!Plus(F[T \ A], f[x])
        BY <1>1, <4>1 DEF Sums
      <4> QED BY <3>1, <3>3, <4>1, <4>2
    <3> QED BY <3>2, <3>3
  <2> HIDE DEF H
  <2>3. Sums(H, g, D)
    BY <2>1, <2>2 DEF Sums
  <2>4. Reason!SumOver(g, D) = H[D]
    BY <2>3, FoldIsSum
  <2> QED BY <2>4 DEF H
<1>5. PICK C : C = D \ A
  OBVIOUS
<1> DEFINE N == Cardinality(A)
           Splits(B) == Reason!Plus(F[B], F[C]) = F[C \cup B]
           G == {n \in 0 .. N : \A B \in SUBSET A : Cardinality(B) = n => Splits(B)}
<1>6. IsFiniteSet(A) /\ N \in Nat /\ C \in SUBSET D /\ C \cup A = D
  <2>1. C \in SUBSET D /\ C \cup A = D
    BY <1>5
  <2> QED BY <2>1, Sizes
<1>7. 0 \in G
  <2> HIDE DEF Splits
  <2> SUFFICES ASSUME NEW B \in SUBSET A, Cardinality(B) = 0 PROVE Splits(B)
    BY <1>6
  <2>1. B = {} /\ C \cup B = C
    BY <1>6, Sizes
  <2>2. F[B] = Reason!Zero /\ F[C] \in Reason!Counts
    BY <1>1, <1>2, <1>6, <2>1 DEF Sums
  <2>3. Reason!Plus(F[C], Reason!Zero) = F[C] /\ Reason!Zero \in Reason!Counts
    BY <2>2, PlusFacts
  <2>4. Reason!Plus(Reason!Zero, F[C]) = Reason!Plus(F[C], Reason!Zero)
    BY <2>2, <2>3, PlusFacts
  <2> QED BY <2>1, <2>2, <2>3, <2>4 DEF Splits
<1>8. ASSUME NEW n \in 1 .. N, n - 1 \in G PROVE n \in G
  <2> HIDE DEF Splits
  <2> SUFFICES ASSUME NEW B \in SUBSET A, Cardinality(B) = n PROVE Splits(B)
    BY <1>6
  <2>1. B # {}
    BY <1>6, Sizes
  <2>2. PICK x \in B : TRUE
    BY <2>1
  <2> DEFINE R == B \ {x}
  <2>3. Cardinality(R) = n - 1 /\ R \in SUBSET A
    BY <1>6, Sizes
  <2>4. Splits(R)
    BY <1>8, <2>3
  <2>5. /\ R \in SUBSET D /\ C \cup R \in SUBSET D /\ x \in D /\ x \notin R /\ x \notin C \cup R
        /\ R \cup {x} = B /\ (C \cup R) \cup {x} = C \cup B
    BY <1>5
  <2> HIDE DEF R
  <2>6. F[B] = Reason!Plus(F[R], f[x]) /\ F[C \cup B] = Reason!Plus(F[C \cup R], f[x])
    BY <1>1, <2>5 DEF Sums
  <2>7. F[R] \in Reason!Counts /\ F[C] \in Reason!Counts /\ f[x] \in Reason!Counts
    BY <1>2, <1>6, <2>5
  <2>8. Reason!Plus(Reason!Plus(F[R], f[x]), F[C]) = Reason!Plus(Reason!Plus(F[R], F[C]), f[x])
    BY <2>7, Exchange
  <2> QED BY <2>4, <2>6, <2>8 DEF Splits
<1>9. \A n \in 0 .. N : n \in G
  <2> HIDE DEF G, N
  <2> QED BY <1>6, <1>7, <1>8, FirstFailure
<1>10. Splits(A)
  <2> HIDE DEF Splits
  <2>1. N \in G
    BY <1>6, <1>9
  <2> QED BY <2>1
<1>11. Reason!SumOver(f, D) = F[D]
  BY <1>1, FoldIsSum
<1> QED BY <1>3, <1>4, <1>5, <1>6, <1>10, <1>11

-----------------------------------------------------------------------------
(* What the steps of the reasoner keep.                                    *)

\* The plugins of a reasoner are finitely many, and no other reasoner has them.
LEMMA ReasonerFacts ==
    /\ \A r \in Reasoners : IsFiniteSet(Adpis[r]) /\ Adpis[r] \subseteq Reason!AllPlugins
    /\ \A r, q \in Reasoners : r # q => Adpis[r] \cap Adpis[q] = {}
    /\ Observed \subseteq Reason!HealthStates
<1>1. \A r \in Reasoners : Adpis[r] \subseteq Reason!AllPlugins
  BY DEF Reason!AllPlugins
<1> QED BY <1>1, ReasonerInstance DEF Reason!ReasonerAssumption, Reason!IsFiniteSet, IsFiniteSet

\* The sums that the invariant speaks of are counts.
LEMMA SumsOfPlugins ==
    ASSUME Reason!DataOK, NEW r \in Reasoners
    PROVE  /\ \A x \in Adpis[r] : recentObservations[x] \in Reason!Counts
                                  /\ observed[x] \in Reason!Counts
           /\ Reason!SumOver(recentObservations, Adpis[r]) \in Reason!Counts
           /\ Reason!SumOver(observed, Adpis[r]) \in Reason!Counts
           /\ Reason!SumOver(recentObservations, adpis[r]) \in Reason!Counts
           /\ adpis[r] \in SUBSET Adpis[r] /\ gatheredStatistics[r] \in Reason!Counts
<1>1. \A x \in Adpis[r] : recentObservations[x] \in Reason!Counts /\ observed[x] \in Reason!Counts
  BY ReasonerFacts DEF Reason!DataOK
<1>2. adpis[r] \in SUBSET Adpis[r] /\ gatheredStatistics[r] \in Reason!Counts
  BY DEF Reason!DataOK
<1>3. IsFiniteSet(Adpis[r]) /\ IsFiniteSet(adpis[r])
  BY <1>2, ReasonerFacts, FS_Subset
<1>4. \A x \in adpis[r] : recentObservations[x] \in Reason!Counts
  BY <1>1, <1>2
<1> QED BY <1>1, <1>2, <1>3, <1>4, SumType

\* One observation of s, and f with one more at p.
One(s) == [h \in Reason!HealthStates |-> IF h = s THEN 1 ELSE 0]
Observing(f, p, s) == [f EXCEPT ![p][s] = @ + 1]

\* That is one added to the counts of p.
LEMMA OneMore ==
    ASSUME NEW P, NEW f \in [P -> Reason!Counts], NEW p \in P, NEW s \in Reason!HealthStates
    PROVE  /\ One(s) \in Reason!Counts /\ Observing(f, p, s) \in [P -> Reason!Counts]
           /\ \A x \in P : Observing(f, p, s)[x] =
                                IF x = p THEN Reason!Plus(f[x], One(s)) ELSE f[x]
<1>0. PICK one, g : one = One(s) /\ g = Observing(f, p, s)
  OBVIOUS
<1>1. one \in Reason!Counts
  BY <1>0 DEF Reason!Counts, One
<1>2. /\ g[p] = [f[p] EXCEPT ![s] = @ + 1] /\ f[p] \in Reason!Counts
      /\ \A x \in P : x # p => g[x] = f[x]
  BY <1>0 DEF Observing
<1>3. g[p] = Reason!Plus(f[p], one)
  <2>1. f[p] = [h \in Reason!HealthStates |-> f[p][h]]
    BY <1>2 DEF Reason!Counts
  <2>2. \A h \in Reason!HealthStates : f[p][h] \in Nat /\ f[p][h] + 0 = f[p][h]
    BY <1>2 DEF Reason!Counts
  <2>3. g[p] = [h \in Reason!HealthStates |-> IF h = s THEN f[p][h] + 1 ELSE f[p][h]]
    BY <1>2, <2>1
  <2> QED BY <1>0, <2>2, <2>3 DEF Reason!Plus, One
<1>4. Reason!Plus(f[p], one) \in Reason!Counts
  BY <1>1, <1>2, PlusFacts
<1>5. \A x \in P : g[x] = IF x = p THEN Reason!Plus(f[x], one) ELSE f[x]
  BY <1>2, <1>3
<1>6. DOMAIN g = P /\ g = [x \in P |-> g[x]]
  BY <1>0 DEF Observing
<1> QED BY <1>0, <1>1, <1>4, <1>5, <1>6

\* An observation is counted by its plugin, for the reasoner that the plugin is of.
LEMMA ObservationKept ==
    ASSUME Reason!DataOK, Reason!ObservationsAreCounted,
           NEW p \in Reason!AllPlugins, NEW s \in Observed, Reason!addObservation(p, s)
    PROVE  /\ {recentObservations', observed'} \subseteq [Reason!AllPlugins -> Reason!Counts]
           /\ Reason!ObservationsAreCounted'
<1> DEFINE All == Reason!AllPlugins
<1>1. p \in All /\ s \in Reason!HealthStates /\ recentObservations \in [All -> Reason!Counts]
      /\ observed \in [All -> Reason!Counts]
  BY ReasonerFacts DEF Reason!DataOK
<1>2. /\ recentObservations' = Observing(recentObservations, p, s)
      /\ observed' = Observing(observed, p, s) /\ UNCHANGED gatheredStatistics
  BY DEF Reason!addObservation, Reason!dataVars, Observing
<1> HIDE DEF All
<1>3. /\ One(s) \in Reason!Counts /\ recentObservations' \in [All -> Reason!Counts]
      /\ \A x \in All : recentObservations'[x] =
            IF x = p THEN Reason!Plus(recentObservations[x], One(s)) ELSE recentObservations[x]
  BY <1>1, <1>2, OneMore
<1>4. /\ observed' \in [All -> Reason!Counts]
      /\ \A x \in All : observed'[x] = IF x = p THEN Reason!Plus(observed[x], One(s)) ELSE observed[x]
  BY <1>1, <1>2, OneMore
<1>5. ASSUME NEW r \in Reasoners
      PROVE  Reason!Plus(gatheredStatistics'[r], Reason!SumOver(recentObservations', Adpis[r]))
             = Reason!SumOver(observed', Adpis[r])
  <2> DEFINE D == Adpis[r]
             a == gatheredStatistics[r]
             b == Reason!SumOver(recentObservations, D)
  <2>1. /\ IsFiniteSet(D) /\ D \subseteq All /\ \A x \in D : recentObservations[x] \in Reason!Counts
                                                        /\ observed[x] \in Reason!Counts
        /\ a \in Reason!Counts /\ b \in Reason!Counts
    BY ReasonerFacts, SumsOfPlugins DEF All
  <2>2. Reason!Plus(a, b) = Reason!SumOver(observed, D)
    BY DEF Reason!ObservationsAreCounted
  <2> HIDE DEF D
  <2>3. CASE p \in D
    <3>0. /\ One(s) \in Reason!Counts /\ \A x \in D : recentObservations[x] \in Reason!Counts
          /\ \A x \in D : recentObservations'[x] =
                IF x = p THEN Reason!Plus(recentObservations[x], One(s)) ELSE recentObservations[x]
      BY <1>3, <2>1
    <3>1. Reason!SumOver(recentObservations', D) = Reason!Plus(Reason!SumOver(recentObservations, D), One(s))
      BY ONLY <2>1, <2>3, <3>0, SumGrows
    <3>2. Reason!SumOver(observed', D) = Reason!Plus(Reason!SumOver(observed, D), One(s))
      <4>1. /\ \A x \in D : observed[x] \in Reason!Counts
            /\ \A x \in D : observed'[x] =
                  IF x = p THEN Reason!Plus(observed[x], One(s)) ELSE observed[x]
        BY <1>4, <2>1
      <4> QED BY ONLY <2>1, <2>3, <3>0, <4>1, SumGrows
    <3>3. Reason!SumOver(recentObservations', D) = Reason!Plus(b, One(s))
      BY <3>1
    <3> HIDE DEF a, b
    <3>4. Reason!Plus(Reason!Plus(a, b), One(s)) = Reason!Plus(a, Reason!Plus(b, One(s)))
      BY <1>3, <2>1, PlusFacts
    <3> QED BY <1>2, <2>2, <3>2, <3>3, <3>4 DEF a, D
  <2>4. CASE p \notin D
    <3>1. /\ \A x \in D : recentObservations'[x] = recentObservations[x]
          /\ \A x \in D : observed'[x] = observed[x]
      BY <1>3, <1>4, <2>1, <2>4
    <3>2. Reason!SumOver(recentObservations', D) = b
      BY <2>1, <3>1, SumSame
    <3>3. Reason!SumOver(observed', D) = Reason!SumOver(observed, D)
      BY <2>1, <3>1, SumSame
    <3> QED BY <1>2, <2>2, <3>2, <3>3 DEF a, D
  <2> QED BY <2>3, <2>4
<1>6. Reason!ObservationsAreCounted'
  BY <1>5 DEF Reason!ObservationsAreCounted
<1> QED BY <1>3, <1>4, <1>6 DEF All

\* A round takes the observations from the connected plugins and counts them.
LEMMA RoundCounts ==
    ASSUME Reason!DataOK, Reason!ObservationsAreCounted,
           NEW r \in Reasoners, Reason!PeriodicRun(r)
    PROVE  /\ recentObservations' \in [Reason!AllPlugins -> Reason!Counts]
           /\ gatheredStatistics' \in [Reasoners -> Reason!Counts]
           /\ Reason!ObservationsAreCounted'
<1> DEFINE news == Reason!SumOver(recentObservations, adpis[r])
           old == gatheredStatistics[r]
<1>1. /\ gatheredStatistics' = [gatheredStatistics EXCEPT ![r] = Reason!Plus(old, news)]
      /\ recentObservations' = [p \in Reason!AllPlugins |->
            IF p \in adpis[r] THEN Reason!Zero ELSE recentObservations[p]]
      /\ UNCHANGED observed
  BY DEF Reason!PeriodicRun, Reason!queryRecentObservations
<1>2. /\ news \in Reason!Counts /\ old \in Reason!Counts
      /\ gatheredStatistics \in [Reasoners -> Reason!Counts]
      /\ recentObservations \in [Reason!AllPlugins -> Reason!Counts]
  BY SumsOfPlugins DEF Reason!DataOK
<1>3. Reason!Plus(old, news) \in Reason!Counts /\ Reason!Zero \in Reason!Counts
  BY <1>2, PlusFacts
<1>4. recentObservations' \in [Reason!AllPlugins -> Reason!Counts]
  BY <1>1, <1>2, <1>3
<1> HIDE DEF news, old
<1>5. gatheredStatistics' \in [Reasoners -> Reason!Counts]
  BY <1>1, <1>2, <1>3
<1>6. ASSUME NEW q \in Reasoners
      PROVE  Reason!Plus(gatheredStatistics'[q], Reason!SumOver(recentObservations', Adpis[q]))
             = Reason!SumOver(observed', Adpis[q])
  <2> DEFINE D == Adpis[q]
             S == Reason!SumOver(recentObservations', D)
  <2>1. /\ IsFiniteSet(D) /\ D \subseteq Reason!AllPlugins
        /\ \A x \in D : recentObservations[x] \in Reason!Counts
    BY ReasonerFacts, SumsOfPlugins
  <2>2. /\ Reason!Plus(gatheredStatistics[q], Reason!SumOver(recentObservations, D))
           = Reason!SumOver(observed, D)
        /\ Reason!SumOver(observed', D) = Reason!SumOver(observed, D)
    BY <1>1 DEF Reason!ObservationsAreCounted
  <2>3. adpis[r] \in SUBSET Adpis[r]
    BY SumsOfPlugins
  <2>4. \A x \in D : recentObservations'[x] =
                        IF x \in adpis[r] THEN Reason!Zero ELSE recentObservations[x]
    BY <1>1, <2>1
  <2>5. CASE q = r
    <3> DEFINE A == adpis[r]
    <3>1. A \in SUBSET D
      BY <2>3, <2>5
    <3> HIDE DEF D
    <3>2. Reason!Plus(Reason!SumOver(recentObservations, A), Reason!SumOver(recentObservations', D))
          = Reason!SumOver(recentObservations, D)
      <4> HIDE DEF A
      <4>1. \A x \in D : recentObservations'[x] = IF x \in A THEN Reason!Zero ELSE recentObservations[x]
        BY <2>4 DEF A
      <4> QED BY <2>1, <3>1, <4>1, SumTaken
    <3>3. Reason!Plus(news, S) = Reason!SumOver(recentObservations, D)
      BY <3>2 DEF news
    <3>4. S \in Reason!Counts
      <4>1. \A x \in D : recentObservations'[x] \in Reason!Counts
        BY <1>4, <2>1
      <4> QED BY <2>1, <4>1, SumType
    <3>5. gatheredStatistics'[q] = Reason!Plus(old, news)
      BY <1>1, <1>2, <2>5
    <3> HIDE DEF S
    <3>6. Reason!Plus(Reason!Plus(old, news), S) = Reason!Plus(old, Reason!Plus(news, S))
      BY <1>2, <3>4, PlusFacts
    <3> QED BY <2>2, <2>5, <3>3, <3>5, <3>6 DEF S, D, old
  <2>6. CASE q # r
    <3>1. gatheredStatistics'[q] = gatheredStatistics[q]
      BY <1>1, <1>2, <2>6
    <3>2. \A x \in D : recentObservations'[x] = recentObservations[x]
      BY <2>3, <2>4, <2>6, ReasonerFacts
    <3> HIDE DEF D
    <3>3. Reason!SumOver(recentObservations', D) = Reason!SumOver(recentObservations, D)
      BY <2>1, <3>2, SumSame
    <3> QED BY <2>2, <3>1, <3>3 DEF D
  <2> QED BY <2>5, <2>6
<1>7. Reason!ObservationsAreCounted'
  BY <1>6 DEF Reason!ObservationsAreCounted
<1> QED BY <1>4, <1>5, <1>7

\* An abnormal observation is an anomaly: it changes the total and a count of its own.
LEMMA AbnormalDetected ==
    ASSUME NEW old \in Reason!Counts, NEW news \in Reason!Counts,
           NEW s \in Reason!Abnormal, news[s] > 0, NEW ratios, NEW oldRatios
    PROVE  Reason!Detects(Reason!Plus(old, news), old, ratios, oldRatios)
<1>1. PICK sum : sum = Reason!Plus(old, news)
  OBVIOUS
<1>2. \A h \in Reason!HealthStates : old[h] \in Nat /\ news[h] \in Nat /\ sum[h] = old[h] + news[h]
  BY <1>1 DEF Reason!Counts, Reason!Plus
<1>3. s \in Reason!HealthStates
  BY DEF Reason!Abnormal, Reason!HealthStates
<1>4. sum[s] > old[s]
  BY <1>2, <1>3
<1>5. Reason!Total(sum) # Reason!Total(old)
  BY <1>2 DEF Reason!Total, Reason!HealthStates, Reason!Abnormal
<1> QED BY <1>1, <1>4, <1>5 DEF Reason!Detects

\* Every step of a reasoner keeps its invariant.
LEMMA ReasonerInductive == Reason!IInv /\ Reason!Next => Reason!IInv'
<1> SUFFICES ASSUME Reason!IInv, Reason!Next PROVE Reason!IInv'
  OBVIOUS
<1>0. Reason!DataOK /\ Reason!ThreadInv /\ Reason!ObservationsAreCounted
  BY DEF Reason!IInv
<1>a. ASSUME UNCHANGED <<gatheredStatistics, recentObservations, observed>>
      PROVE  Reason!ObservationsAreCounted'
  BY <1>0, <1>a DEF Reason!ObservationsAreCounted
<1>b. ASSUME UNCHANGED <<Reason!pluginVars, Reason!dataVars>>,
             DOMAIN pc' = Reasoners, DOMAIN rOpc' = Reasoners
      PROVE  Reason!DataOK'
  BY <1>0, <1>b DEF Reason!DataOK, Reason!pluginVars, Reason!dataVars
<1>c. ASSUME UNCHANGED <<pc, rOpc, due, anomalyDetected, persistingAnomaly>>
      PROVE  Reason!ThreadInv'
  BY <1>0, <1>c DEF Reason!ThreadInv
<1>1. ASSUME NEW r \in Reasoners, Reason!PeriodicRun(r) PROVE Reason!IInv'
  <2> DEFINE news == Reason!SumOver(recentObservations, adpis[r])
             counts == Reason!Plus(gatheredStatistics[r], news)
             ratios == Reason!Ratios(counts, observationRatios[r])
             new == Reason!Detects(counts, gatheredStatistics[r], ratios, observationRatios[r])
             told == role[r] = "PROCESS" /\ above[r] \in Reason!Abnormal
  <2>1. /\ pc[r] = "top" /\ pc' = [pc EXCEPT ![r] = "trigger"]
        /\ UNCHANGED <<adpis, observed, rOpc>>
        /\ persistingAnomaly' = [persistingAnomaly EXCEPT ![r] = anomalyDetected[r]]
        /\ anomalyDetected' = [anomalyDetected EXCEPT ![r] = new \/ told]
        /\ due' = [due EXCEPT ![r] =
              \/ @ \/ \E s \in Reason!Abnormal :
                         news[s] > 0 \/ (role[r] = "PROCESS" /\ above[r] = s)]
    BY <1>1 DEF Reason!PeriodicRun
  <2>2. /\ recentObservations' \in [Reason!AllPlugins -> Reason!Counts]
        /\ gatheredStatistics' \in [Reasoners -> Reason!Counts]
        /\ Reason!ObservationsAreCounted'
    BY <1>0, <1>1, RoundCounts
  <2>3. gatheredStatistics[r] \in Reason!Counts /\ news \in Reason!Counts
    BY <1>0, SumsOfPlugins
  <2> HIDE DEF news
  <2>4. (\E s \in Reason!Abnormal : news[s] > 0) => new
    BY <2>3, AbnormalDetected
  <2> HIDE DEF new, told
  <2>5. \A q \in Reasoners : due[q] \in BOOLEAN /\ anomalyDetected[q] \in BOOLEAN
    BY <1>0 DEF Reason!DataOK
  <2>6. Reason!DataOK'
    <3>1. /\ {due, anomalyDetected, persistingAnomaly} \subseteq [Reasoners -> BOOLEAN]
          /\ DOMAIN pc = Reasoners /\ DOMAIN rOpc = Reasoners
          /\ adpis \in [Reasoners -> SUBSET Reason!AllPlugins]
          /\ \A q \in Reasoners : adpis[q] \subseteq Adpis[q]
          /\ observed \in [Reason!AllPlugins -> Reason!Counts]
      BY <1>0 DEF Reason!DataOK
    <3>2. new \in BOOLEAN /\ told \in BOOLEAN
      BY DEF new, told, Reason!Detects
    <3>3. anomalyDetected' \in [Reasoners -> BOOLEAN] /\ persistingAnomaly' \in [Reasoners -> BOOLEAN]
      BY <2>1, <2>5, <3>1, <3>2
    <3>4. due' \in [Reasoners -> BOOLEAN] /\ DOMAIN pc' = Reasoners
      BY <2>1, <2>5, <3>1
    <3> QED BY <2>1, <2>2, <3>1, <3>3, <3>4 DEF Reason!DataOK
  <2>7. Reason!ThreadInv'
    <3>1. ~due[r] /\ rOpc[r] \notin {"new", "stopped"}
      BY <1>0, <2>1 DEF Reason!ThreadInv
    <3>2. DOMAIN pc = Reasoners /\ DOMAIN due = Reasoners /\ DOMAIN anomalyDetected = Reasoners
          /\ DOMAIN persistingAnomaly = Reasoners
      BY <1>0 DEF Reason!DataOK
    <3>3. due'[r] => anomalyDetected'[r]
      BY <2>1, <2>4, <3>1, <3>2 DEF told
    <3>4. pc'[r] = "trigger" /\ \A q \in Reasoners \ {r} :
             /\ pc'[q] = pc[q] /\ due'[q] = due[q] /\ anomalyDetected'[q] = anomalyDetected[q]
             /\ persistingAnomaly'[q] = persistingAnomaly[q]
      BY <2>1, <3>2
    <3> QED BY <1>0, <2>1, <3>1, <3>3, <3>4 DEF Reason!ThreadInv
  <2> QED BY <2>2, <2>6, <2>7 DEF Reason!IInv
<1>2. ASSUME NEW r \in Reasoners, Reason!triggerResponse(r) PROVE Reason!IInv'
  <2>1. /\ pc[r] = "trigger" /\ pc' = [pc EXCEPT ![r] = "check"]
        /\ due' = [due EXCEPT ![r] = @ /\ ~(anomalyDetected[r] \/ persistingAnomaly[r])]
        /\ UNCHANGED <<adpis, recentObservations, observed, gatheredStatistics, anomalyDetected,
                       persistingAnomaly, rOpc>>
    BY <1>2 DEF Reason!triggerResponse, Reason!pluginVars
  <2>2. DOMAIN pc = Reasoners /\ DOMAIN due = Reasoners /\ due \in [Reasoners -> BOOLEAN]
    BY <1>0 DEF Reason!DataOK
  <2>3. ~due'[r] /\ rOpc[r] \notin {"new", "stopped"}
    BY <1>0, <2>1, <2>2 DEF Reason!ThreadInv
  <2>4. Reason!ThreadInv'
    BY <1>0, <2>1, <2>2, <2>3 DEF Reason!ThreadInv
  <2>5. due' \in [Reasoners -> BOOLEAN]
    BY <2>1, <2>2
  <2>6. Reason!DataOK'
    BY <1>0, <2>1, <2>5 DEF Reason!DataOK
  <2> QED BY <1>a, <2>1, <2>4, <2>6 DEF Reason!IInv
<1>3. ASSUME NEW r \in Reasoners, Reason!PeriodicSleep(r) PROVE Reason!IInv'
  <2>1. /\ pc[r] \in {"check", "wait", "top"} /\ \E x : pc' = [pc EXCEPT ![r] = x]
        /\ UNCHANGED <<Reason!pluginVars, Reason!dataVars, rOpc>>
    BY <1>3 DEF Reason!PeriodicSleep
  <2>2. DOMAIN pc = Reasoners /\ DOMAIN rOpc = Reasoners
    BY <1>0 DEF Reason!DataOK
  <2>3. Reason!ThreadInv'
    BY <1>0, <2>1, <2>2 DEF Reason!ThreadInv, Reason!dataVars
  <2>4. Reason!DataOK'
    BY <1>b, <2>1, <2>2
  <2> QED BY <1>a, <2>1, <2>3, <2>4 DEF Reason!IInv, Reason!dataVars, Reason!pluginVars
<1>4. ASSUME NEW r \in Reasoners, Reason!start(r) \/ Reason!stop(r) \/ Reason!stopJoin(r)
      PROVE  Reason!IInv'
  <2>1. DOMAIN pc = Reasoners /\ DOMAIN rOpc = Reasoners
    BY <1>0 DEF Reason!DataOK
  <2>2. UNCHANGED <<Reason!pluginVars, Reason!dataVars>>
    BY <1>4 DEF Reason!start, Reason!stop, Reason!stopJoin
  <2>3. Reason!ThreadInv' /\ DOMAIN pc' = Reasoners /\ DOMAIN rOpc' = Reasoners
    <3>1. CASE Reason!start(r)
      BY <1>0, <2>1, <2>2, <3>1 DEF Reason!ThreadInv, Reason!dataVars, Reason!start
    <3>2. CASE Reason!stop(r)
      BY <1>0, <2>1, <2>2, <3>2 DEF Reason!ThreadInv, Reason!dataVars, Reason!stop
    <3>3. CASE Reason!stopJoin(r)
      BY <1>0, <2>1, <2>2, <3>3 DEF Reason!ThreadInv, Reason!dataVars, Reason!stopJoin
    <3> QED BY <1>4, <3>1, <3>2, <3>3
  <2>4. Reason!DataOK'
    BY <1>b, <2>2, <2>3
  <2> QED BY <1>a, <2>2, <2>3, <2>4 DEF Reason!IInv, Reason!dataVars, Reason!pluginVars
<1>5. ASSUME NEW r \in Reasoners, NEW p \in Reason!AllPlugins, Reason!connectAnomalyPlugin(r, p)
      PROVE  Reason!IInv'
  <2>1. /\ p \in Adpis[r] /\ adpis' = [adpis EXCEPT ![r] = @ \cup {p}]
        /\ UNCHANGED <<recentObservations, observed, gatheredStatistics, due, anomalyDetected,
                       persistingAnomaly, pc, rOpc>>
    BY <1>5 DEF Reason!connectAnomalyPlugin, Reason!dataVars, Reason!threadVars
  <2>2. adpis' \in [Reasoners -> SUBSET Reason!AllPlugins] /\ \A q \in Reasoners : adpis'[q] \subseteq Adpis[q]
    BY <1>0, <2>1 DEF Reason!DataOK
  <2>3. Reason!DataOK'
    BY <1>0, <2>1, <2>2 DEF Reason!DataOK
  <2> QED BY <1>a, <1>c, <2>1, <2>3 DEF Reason!IInv
<1>6. ASSUME NEW p \in Reason!AllPlugins, NEW s \in Observed, Reason!addObservation(p, s)
      PROVE  Reason!IInv'
  <2>1. /\ {recentObservations', observed'} \subseteq [Reason!AllPlugins -> Reason!Counts]
        /\ Reason!ObservationsAreCounted'
    BY <1>0, <1>6, ObservationKept
  <2>2. UNCHANGED <<adpis, gatheredStatistics, due, anomalyDetected, persistingAnomaly, pc, rOpc>>
    BY <1>6 DEF Reason!addObservation, Reason!dataVars, Reason!threadVars
  <2>3. Reason!DataOK'
    BY <1>0, <2>1, <2>2 DEF Reason!DataOK
  <2> QED BY <1>c, <2>1, <2>2, <2>3 DEF Reason!IInv
<1>7. ASSUME NEW c \in Reason!Clients, Reason!Network(c) \/ Reason!connectionErrorCB(c)
      PROVE  Reason!IInv'
  <2>1. UNCHANGED <<Reason!pluginVars, Reason!dataVars, Reason!threadVars>>
    BY <1>7 DEF Reason!Network, Reason!messageReceived, Reason!messageReceivedAnswer,
                Reason!messageResponseCB, Reason!connectionErrorCB
  <2>2. DOMAIN pc = Reasoners /\ DOMAIN rOpc = Reasoners
    BY <1>0 DEF Reason!DataOK
  <2>3. Reason!DataOK'
    BY <1>b, <2>1, <2>2 DEF Reason!threadVars
  <2> QED BY <1>a, <1>c, <2>1, <2>3
          DEF Reason!IInv, Reason!dataVars, Reason!pluginVars, Reason!threadVars
<1> QED BY <1>1, <1>2, <1>3, <1>4, <1>5, <1>6, <1>7 DEF Reason!Next, Reason!Thread

\* The invariant holds in every state of a behaviour.
LEMMA ReasonerInvariant == MCSpec => []Reason!IInv
<1>1. MCInit => Reason!IInv
  <2> SUFFICES ASSUME MCInit PROVE Reason!IInv
    OBVIOUS
  <2> USE DEF MCInit, Reason!Init, Reason!Each
  <2>1. Reason!Zero \in Reason!Counts
    BY DEF Reason!Zero, Reason!Counts
  <2>2. Reason!DataOK
    BY <2>1 DEF Reason!DataOK
  <2>3. Reason!ThreadInv
    BY DEF Reason!ThreadInv
  <2>4. Reason!ObservationsAreCounted
    <3> SUFFICES ASSUME NEW r \in Reasoners
                 PROVE  Reason!Plus(Reason!Zero, Reason!SumOver(observed, Adpis[r]))
                        = Reason!SumOver(observed, Adpis[r])
      BY DEF Reason!ObservationsAreCounted
    <3>1. PICK a : a = Reason!SumOver(observed, Adpis[r])
      OBVIOUS
    <3>2. a \in Reason!Counts
      BY <2>2, <3>1, SumsOfPlugins
    <3>3. Reason!Plus(Reason!Zero, a) = a
      BY <2>1, <3>2, PlusFacts
    <3> QED BY <3>1, <3>3
  <2> QED BY <2>2, <2>3, <2>4 DEF Reason!IInv
<1>2. Reason!IInv /\ [MCNext]_allVars => Reason!IInv'
  <2> SUFFICES ASSUME Reason!IInv, [MCNext]_allVars PROVE Reason!IInv'
    OBVIOUS
  <2>1. CASE Reason!Next
    BY <2>1, ReasonerInductive
  <2>2. CASE UNCHANGED reasonerVars
    <3> USE <2>2 DEF reasonerVars, Reason!IInv
    <3>1. Reason!DataOK'
      BY DEF Reason!DataOK
    <3>2. Reason!ThreadInv'
      BY DEF Reason!ThreadInv
    <3>3. Reason!ObservationsAreCounted'
      BY DEF Reason!ObservationsAreCounted
    <3> QED BY <3>1, <3>2, <3>3
  <2> QED BY <2>1, <2>2 DEF MCNext, allVars
<1> QED BY <1>1, <1>2, PTL DEF MCSpec

\* Reasoner, for every set of reasoners and plugins, connected at any time: what
\* the rounds have counted and what the plugins still hold is what they observed.
THEOREM ObservationCounting == MCSpec => []ObservationsAreCounted
<1>1. Reason!IInv => ObservationsAreCounted
  BY DEF Reason!IInv, ObservationsAreCounted
<1> QED BY <1>1, ReasonerInvariant, PTL

\* Reasoner: a round that gathers an abnormal observation, or begins with an abnormal
\* state of the node, does not get past the triggers without calling them.
THEOREM AnomalyResponse == MCSpec => []AnomaliesTrigger
<1>1. Reason!IInv => AnomaliesTrigger
  BY DEF Reason!IInv, Reason!ThreadInv, AnomaliesTrigger, Reason!AnomaliesTrigger
<1> QED BY <1>1, ReasonerInvariant, PTL
==============================================================================
