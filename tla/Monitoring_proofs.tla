------------------------- MODULE Monitoring_proofs -------------------------
(***************************************************************************)
(* Proofs about the monitoring run, in three parts.                        *)
(*                                                                         *)
(* The multiplexers (ActivityMultiplexer, which MCMonitoring extends), for *)
(* every set of threads, listeners and activity types and for lists of     *)
(* every length.  First what Dispatcher::remove does to a list, then who   *)
(* holds the lock of a list.  remove is a recursive function.  What it     *)
(* computes is shown by taking the first round of its loop at which the    *)
(* claim fails (FirstFailure).                                             *)
(*                                                                         *)
(* The forwarder as the monitoring run has it: MCMonitoring places it next *)
(* to the other components, and its steps are those of the module alone,   *)
(* for which ActivityNetworkForwarder_proofs holds the argument.  The      *)
(* definitions of the two instances differ by name only.                   *)
(*                                                                         *)
(* The file surveyor, for every set of threads and files, with one token   *)
(* per kind of call.  First sums over finite sets and over collections of  *)
(* surveys, then what each callback does to them, then the threads:        *)
(* because nobody who logs gets to register, no token is registered twice  *)
(* and a call is counted once.                                             *)
(***************************************************************************)
EXTENDS MCMonitoring, ListTheorems, FiniteSetTheorems, TLAPS

-----------------------------------------------------------------------------
(* Dispatcher::remove.                                                     *)

\* The list after each round of the loop of remove.
Rounds(f, s, l, N) ==
    f = [n \in 0 .. N |-> IF n = 0 THEN s ELSE removeEntry(f[n - 1], Len(s) - n + 1, l)]

\* The loop of remove runs to its end.
LEMMA RoundsExist ==
    ASSUME NEW s, NEW l, Len(s) \in Nat
    PROVE  \E f : Rounds(f, s, l, Len(s))
<1> DEFINE N == Len(s)
           G == {n \in 0 .. N : \E f : Rounds(f, s, l, n)}
<1>1. 0 \in G
  <2> DEFINE f == [n \in 0 .. 0 |-> s]
  <2>1. f = [n \in 0 .. 0 |-> IF n = 0 THEN s ELSE removeEntry(f[n - 1], N - n + 1, l)]
    OBVIOUS
  <2>2. Rounds(f, s, l, 0)
    BY <2>1 DEF Rounds
  <2> QED BY <2>2
<1>2. ASSUME NEW n \in 1 .. N, n - 1 \in G PROVE n \in G
  <2>1. PICK f : Rounds(f, s, l, n - 1)
    BY <1>2
  <2> DEFINE g == [k \in 0 .. n |-> IF k = n THEN removeEntry(f[n - 1], N - n + 1, l) ELSE f[k]]
  <2>2. \A k \in 0 .. n - 1 :
           f[k] = IF k = 0 THEN s ELSE removeEntry(f[k - 1], N - k + 1, l)
    BY <2>1 DEF Rounds
  <2>3. \A k \in 0 .. n - 1 : g[k] = f[k]
    OBVIOUS
  <2>4. \A k \in 0 .. n : g[k] = IF k = 0 THEN s ELSE removeEntry(g[k - 1], N - k + 1, l)
    <3> TAKE k \in 0 .. n
    <3>1. CASE k = n
      BY <2>3, <3>1
    <3>2. CASE k # n /\ k # 0
      <4>1. k \in 0 .. n - 1 /\ k - 1 \in 0 .. n - 1
        BY <3>2
      <4> QED BY <2>2, <2>3, <3>2, <4>1
    <3>3. CASE k # n /\ k = 0
      BY <2>2, <2>3, <3>3
    <3> QED BY <3>1, <3>2, <3>3
  <2>5. g = [k \in 0 .. n |-> IF k = 0 THEN s ELSE removeEntry(g[k - 1], N - k + 1, l)]
    BY <2>4
  <2>6. Rounds(g, s, l, n)
    BY <2>5 DEF Rounds
  <2> QED BY <2>6
<1>3. \A n \in 1 .. N : n - 1 \in G => n \in G
  BY <1>2
<1> HIDE DEF G
<1>4. \A n \in 0 .. N : n \in G
  BY <1>1, <1>3, FirstFailure
<1>5. N \in G
  BY <1>4
<1> QED BY <1>5 DEF G

\* remove is the result of its last round.
LEMMA RemoveIsLastRound ==
    ASSUME NEW s, NEW l, Len(s) \in Nat
    PROVE  \E f : Rounds(f, s, l, Len(s)) /\ remove(s, l) = f[Len(s)]
<1> DEFINE f == CHOOSE f : Rounds(f, s, l, Len(s))
<1>1. Rounds(f, s, l, Len(s))
  BY RoundsExist
<1>2. remove(s, l) = f[Len(s)]
  BY DEF remove, Rounds
<1> QED BY <1>1, <1>2

\* What one round does at position j: an entry of l is gone from j on, if there was
\* none behind it, and the entries of every other listener are as many as before.
LEMMA RemoveEntryExact ==
    ASSUME NEW S, NEW r \in Seq(S), NEW j \in 1 .. Len(r), NEW l,
           \A n \in j + 1 .. Len(r) : r[n] # l
    PROVE  LET q == removeEntry(r, j, l)
           IN  /\ q \in Seq(S) /\ Len(q) >= j - 1
               /\ \A n \in j .. Len(q) : q[n] # l
               /\ \A x : x # l => Entries(q, x) = Entries(r, x)
<1> DEFINE q == removeEntry(r, j, l)
           L == Len(r)
           At(s, x) == {n \in DOMAIN s : s[n] = x}
<1>1. L \in Nat /\ j \in 1 .. L /\ L >= 1
  OBVIOUS
<1>2. CASE r[j] # l
  <2>1. q = r
    BY <1>2 DEF removeEntry
  <2>2. \A n \in j .. Len(r) : r[n] # l
    BY <1>2
  <2> QED BY <2>1, <2>2
<1>3. CASE r[j] = l
  <2> DEFINE a == [r EXCEPT ![j] = r[L]]
  <2>1. a \in Seq(S) /\ Len(a) = L
    OBVIOUS
  <2>2. q = SubSeq(a, 1, L - 1)
    BY <1>3, <2>1 DEF removeEntry, Front, Last, ReplaceAt
  <2> HIDE DEF q
  <2>3. q \in Seq(S) /\ Len(q) = L - 1
    BY <2>1, <2>2
  <2>4. \A n \in 1 .. L - 1 : q[n] = IF n = j THEN r[L] ELSE r[n]
    BY <2>1, <2>2
  <2>5. DOMAIN q = 1 .. L - 1 /\ DOMAIN r = 1 .. L
    BY <2>3
  <2>6. \A n \in j .. Len(q) : q[n] # l
    BY <2>3, <2>4, <1>1
  <2>7. ASSUME NEW x, x # l PROVE Entries(q, x) = Entries(r, x)
    <3>1. IsFiniteSet(At(r, x)) /\ At(r, x) \subseteq 1 .. L
      <4>1. At(r, x) \subseteq 1 .. L
        BY <2>5
      <4>2. IsFiniteSet(1 .. L)
        BY <1>1, FS_Interval
      <4> HIDE DEF At, L
      <4> QED BY <4>1, <4>2, FS_Subset
    <3>2. CASE r[L] = x
      <4>1. L # j /\ L \in At(r, x) /\ j \notin At(r, x)
        <5>1. L # j
          BY <1>3, <2>7, <3>2
        <5>2. L \in At(r, x)
          BY <1>1, <2>5, <3>2
        <5>3. j \notin At(r, x)
          BY <1>3, <2>7
        <5> QED BY <5>1, <5>2, <5>3
      <4>2. At(q, x) = (At(r, x) \ {L}) \cup {j}
        <5>1. j \in 1 .. L - 1 /\ L \notin 1 .. L - 1
          BY <1>1, <4>1
        <5>2. j \in At(q, x)
          BY <2>4, <2>5, <3>2, <5>1
        <5>3. ASSUME NEW n \in 1 .. L - 1, n # j PROVE n \in At(q, x) <=> n \in At(r, x)
          BY <1>1, <2>4, <2>5, <5>3
        <5>4. At(q, x) \subseteq 1 .. L - 1
          BY <2>5
        <5>5. At(r, x) \ {L} \subseteq 1 .. L - 1
          BY <1>1, <3>1
        <5> HIDE DEF At
        <5> QED BY <5>2, <5>3, <5>4, <5>5, <4>1
      <4>3. /\ IsFiniteSet(At(r, x) \ {L})
            /\ Cardinality(At(r, x) \ {L}) = Cardinality(At(r, x)) - 1
        BY <3>1, <4>1, FS_RemoveElement
      <4>4. Cardinality(At(q, x)) = (Cardinality(At(r, x)) - 1) + 1
        BY <4>1, <4>2, <4>3, FS_AddElement
      <4>5. Cardinality(At(r, x)) \in Nat
        BY <3>1, FS_CardinalityType
      <4> QED BY <4>4, <4>5 DEF Entries
    <3>3. CASE r[L] # x
      <4>1. At(q, x) = At(r, x)
        BY <1>1, <1>3, <2>4, <2>5, <2>7, <3>3
      <4> QED BY <4>1 DEF Entries
    <3> QED BY <3>2, <3>3
  <2>8. Len(q) >= j - 1
    BY <1>1, <2>3
  <2> QED BY <2>3, <2>6, <2>7, <2>8 DEF q
<1> QED BY <1>2, <1>3

\* Dispatcher::remove leaves no entry of the listener and every other entry.
LEMMA RemoveExact ==
    ASSUME NEW S, NEW s \in Seq(S), NEW l
    PROVE  /\ remove(s, l) \in Seq(S)
           /\ \A x : Entries(remove(s, l), x) = IF x = l THEN 0 ELSE Entries(s, x)
<1> DEFINE N == Len(s)
<1>1. N \in Nat
  OBVIOUS
<1>2. PICK f : Rounds(f, s, l, N) /\ remove(s, l) = f[N]
  BY <1>1, RemoveIsLastRound
<1>3. /\ f[0] = s
      /\ \A n \in 1 .. N : f[n] = removeEntry(f[n - 1], N - n + 1, l)
  BY <1>1, <1>2 DEF Rounds
<1> DEFINE Good(n) == /\ f[n] \in Seq(S) /\ Len(f[n]) >= N - n
                      /\ \A k \in N - n + 1 .. Len(f[n]) : f[n][k] # l
                      /\ \A x : x # l => Entries(f[n], x) = Entries(s, x)
           G == {n \in 0 .. N : Good(n)}
<1>4. 0 \in G
  BY <1>1, <1>3
<1>5. ASSUME NEW n \in 1 .. N, n - 1 \in G PROVE n \in G
  <2> DEFINE r == f[n - 1]
             j == N - n + 1
  <2>1. Good(n - 1)
    BY <1>5
  <2>2. r \in Seq(S) /\ j \in 1 .. Len(r)
    BY <1>1, <2>1
  <2>3. \A k \in j + 1 .. Len(r) : r[k] # l
    <3>1. N - (n - 1) + 1 = j + 1
      BY <1>1
    <3> QED BY <2>1, <3>1
  <2>4. f[n] = removeEntry(r, j, l)
    BY <1>3
  <2> HIDE DEF r
  <2>5. /\ f[n] \in Seq(S) /\ Len(f[n]) >= j - 1
        /\ \A k \in j .. Len(f[n]) : f[n][k] # l
        /\ \A x : x # l => Entries(f[n], x) = Entries(r, x)
    <3> HIDE DEF j
    <3> QED BY <2>2, <2>3, <2>4, RemoveEntryExact
  <2>6. \A x : x # l => Entries(f[n], x) = Entries(s, x)
    BY <2>1, <2>5 DEF r
  <2>7. j - 1 = N - n
    BY <1>1
  <2>8. Good(n)
    BY <2>5, <2>6, <2>7
  <2> QED BY <2>8
<1>6. \A n \in 1 .. N : n - 1 \in G => n \in G
  BY <1>5
<1> HIDE DEF G
<1>7. \A n \in 0 .. N : n \in G
  BY <1>1, <1>4, <1>6, FirstFailure
<1>8. N \in G
  BY <1>1, <1>7
<1>9. Good(N)
  BY <1>8 DEF G
<1>10. Entries(f[N], l) = 0
  <2>1. DOMAIN f[N] = 1 .. Len(f[N])
    BY <1>9
  <2>2. {k \in DOMAIN f[N] : f[N][k] = l} = {}
    BY <1>1, <1>9, <2>1
  <2> QED BY <2>2, FS_EmptySet DEF Entries
<1> QED BY <1>2, <1>9, <1>10

-----------------------------------------------------------------------------
(* The threads.                                                            *)

\* The order in which the entries of the two lists are due, last entry first.
LEMMA DueAt ==
    ASSUME NEW S, NEW own \in Seq(S), NEW all \in Seq(S)
    PROVE  /\ Walked(own, all) \in Seq(S) /\ Len(Walked(own, all)) = Len(own) + Len(all)
           /\ \A n \in 1 .. Len(own) : Walked(own, all)[Len(own) - n + 1] = own[n]
           /\ \A n \in 1 .. Len(all) : Walked(own, all)[Len(own) + Len(all) - n + 1] = all[n]
<1> DEFINE a == Reverse(own)
           b == Reverse(all)
<1>1. a \in Seq(S) /\ Len(a) = Len(own)
  BY DEF Reverse
<1>2. b \in Seq(S) /\ Len(b) = Len(all)
  BY DEF Reverse
<1>3. \A n \in 1 .. Len(own) : a[Len(own) - n + 1] = own[n]
  BY DEF Reverse
<1>4. \A n \in 1 .. Len(all) : b[Len(all) - n + 1] = all[n]
  BY DEF Reverse
<1> HIDE DEF a, b
<1>5. a \o b \in Seq(S) /\ Len(a \o b) = Len(own) + Len(all)
  BY <1>1, <1>2
<1>6. \A n \in 1 .. Len(own) : (a \o b)[Len(own) - n + 1] = own[n]
  BY <1>1, <1>2, <1>3
<1>7. ASSUME NEW n \in 1 .. Len(all) PROVE (a \o b)[Len(own) + Len(all) - n + 1] = all[n]
  <2>1. Len(own) + Len(all) - n + 1 \in Len(a) + 1 .. Len(a) + Len(b)
    BY <1>1, <1>2
  <2>2. (a \o b)[Len(own) + Len(all) - n + 1] = b[Len(own) + Len(all) - n + 1 - Len(a)]
    BY <1>1, <1>2, <2>1
  <2>3. Len(own) + Len(all) - n + 1 - Len(a) = Len(all) - n + 1
    BY <1>1
  <2> QED BY <1>4, <2>2, <2>3
<1> QED BY <1>5, <1>6, <1>7 DEF a, b, Walked

LEMMA DueOwn ==
    ASSUME NEW S, NEW own \in Seq(S), NEW all \in Seq(S), NEW n \in 1 .. Len(own),
           NEW k, k = Len(own) - n + 1
    PROVE  Walked(own, all)[k] = own[n]
BY DueAt

LEMMA DueAll ==
    ASSUME NEW S, NEW own \in Seq(S), NEW all \in Seq(S), NEW n \in 1 .. Len(all),
           NEW k, k = Len(own) + Len(all) - n + 1
    PROVE  Walked(own, all)[k] = all[n]
BY DueAt

\* Sequences with the same elements are the same.
LEMMA SameSequence ==
    ASSUME NEW S, NEW a \in Seq(S), NEW b \in Seq(S), Len(a) = Len(b),
           \A n \in 1 .. Len(a) : a[n] = b[n]
    PROVE  a = b
OBVIOUS

\* Append keeps what was there.
LEMMA AppendAt ==
    ASSUME NEW S, NEW s \in Seq(S), NEW e \in S, NEW n \in 1 .. Len(s)
    PROVE  Append(s, e)[n] = s[n]
OBVIOUS

\* A list that is looked up is a sequence of listeners, empty where there is none.
LEMMA ListType == ShapeInv => \A m, k : List(m, k) \in Seq(Listeners)
<1>1. << >> \in Seq(Listeners)
  OBVIOUS
<1> QED BY <1>1 DEF ShapeInv, List

LEMMA ListTypeNext == ShapeInv' => \A m, k : List(m, k)' \in Seq(Listeners)
<1>1. ShapeInv' => (\A m, k : List(m, k) \in Seq(Listeners))'
  BY ListType, PTL
<1> QED BY <1>1

\* What TypeOK says of the data, and all that the invariant says of a thread.
DataOK ==
    /\ \A m \in DOMAIN dispatchers :
          /\ DOMAIN dispatchers[m] \subseteq Keys
          /\ \A k \in DOMAIN dispatchers[m] : dispatchers[m][k] \in Seq(Listeners)
          /\ readers[m] \subseteq Threads
    /\ pc \in [Threads -> {"idle", "lock", "walk", "call", "done"}]
    /\ running \in [Threads -> Listeners \cup {NoListener}]
    /\ queue \in Seq(Ucaids) /\ Len(queue) <= Bound

ThreadOK(t) ==
    /\ i[t] \in 0 .. Len(List(Mode(t), key[t]))
    /\ pc[t] = "done" => got[t] = due[t]
    /\ Walk(t) /\ Progress(t)

LEMMA Parts == IInv <=> DataOK /\ ShapeInv /\ \A t \in Threads : ThreadOK(t)
BY DEF IInv, TypeOK, DataOK, ThreadOK, OncePerRegistration

\* A step keeps what the invariant says of a thread that it does not move, unless
\* it takes its lock away or changes a list that the thread walks.
LEMMA Frame ==
    ASSUME ShapeInv, ShapeInv', NEW u \in Threads, ThreadOK(u),
           /\ pc'[u] = pc[u] /\ key'[u] = key[u] /\ work'[u] = work[u] /\ i'[u] = i[u]
           /\ running'[u] = running[u] /\ got'[u] = got[u] /\ due'[u] = due[u],
           DOMAIN dispatchers' = DOMAIN dispatchers,
           u \in readers[Mode(u)] =>
              u \in readers'[Mode(u)] /\ dispatchers'[Mode(u)] = dispatchers[Mode(u)]
    PROVE  ThreadOK(u)'
<1>1. \A m, k : List(m, k)' \in Seq(Listeners)
  BY ListTypeNext
<1>2. i[u] \in Nat
  BY DEF ShapeInv
<1>3. CASE pc[u] \in {"walk", "call"}
  <2>1. u \in readers'[Mode(u)] /\ dispatchers'[Mode(u)] = dispatchers[Mode(u)]
    BY <1>3 DEF ThreadOK, Walk
  <2>2. /\ List(Mode(u), key[u])' = List(Mode(u), key[u])
        /\ List(Mode(u), work[u])' = List(Mode(u), work[u])
        /\ List(Mode(u), Catchall)' = List(Mode(u), Catchall)
    BY <2>1 DEF List
  <2>3. Walk(u)'
    BY <1>3, <2>1, <2>2 DEF ThreadOK, Walk
  <2>4. Progress(u)'
    BY <1>3, <2>2 DEF ThreadOK, Progress
  <2> QED BY <1>3, <2>2, <2>3, <2>4 DEF ThreadOK
<1>4. CASE pc[u] \notin {"walk", "call"}
  BY <1>1, <1>2, <1>4 DEF ThreadOK, Walk, Progress
<1> QED BY <1>3, <1>4

\* Log, dispatch, registration and removal preserve the inductive invariant.
LEMMA Inductive == IInv /\ [Next]_vars => IInv'
<1> SUFFICES ASSUME DataOK, ShapeInv, \A t \in Threads : ThreadOK(t), [Next]_vars
             PROVE  (DataOK /\ ShapeInv /\ \A t \in Threads : ThreadOK(t))'
  <2>1. IInv' <=> (DataOK /\ ShapeInv /\ \A t \in Threads : ThreadOK(t))'
    BY Parts, PTL
  <2> QED BY <2>1, Parts
<1> USE MultiplexerAssumption DEF fifoVars, counters
<1>l. \A m, k : List(m, k) \in Seq(Listeners)
  BY ListType
<1>m. \A t : Mode(t) = IF t = Notifier THEN "async" ELSE "sync"
  BY DEF Mode
<1>1. ASSUME NEW t \in Loggers, LogStart(t)
      PROVE  (DataOK /\ ShapeInv /\ \A u \in Threads : ThreadOK(u))'
  <2>t. t \in Threads /\ ThreadOK(t)
    BY <1>1 DEF Threads
  <2>l. \A m, k : List(m, k)' = List(m, k)
    BY <1>1 DEF LogStart, List
  <2>1. DataOK'
    BY <1>1, <1>l, <1>m, <2>t DEF DataOK, ShapeInv, ThreadOK, Walk, LogStart
  <2>2. ShapeInv'
    BY <1>1, <1>l, <1>m, <2>t DEF DataOK, ShapeInv, ThreadOK, Walk, hasAsync, Keys, LogStart
  <2>3. ASSUME NEW u \in Threads, u # t PROVE ThreadOK(u)'
    <3>1. /\ pc'[u] = pc[u] /\ key'[u] = key[u] /\ work'[u] = work[u] /\ i'[u] = i[u]
          /\ running'[u] = running[u] /\ got'[u] = got[u] /\ due'[u] = due[u]
          /\ dispatchers' = dispatchers
      BY <1>1, <2>3 DEF DataOK, ShapeInv, LogStart
    <3>2. u \in readers[Mode(u)] => u \in readers'[Mode(u)]
      BY <1>1, <1>m, <2>3, <2>t DEF ShapeInv, ThreadOK, Walk, LogStart
    <3> QED BY <2>2, <3>1, <3>2, Frame
  <2>4. ThreadOK(t)'
    <3>1. pc'[t] = "lock" /\ i'[t] = i[t] /\ key'[t] = key[t] /\ work'[t] \in Ucaids
          /\ running'[t] = running[t] /\ dispatchers' = dispatchers /\ i[t] = 0
          /\ running[t] = NoListener
      BY <1>1 DEF LogStart, ShapeInv, DataOK, ThreadOK, Walk, Threads
    <3>2. Mode(t) \in DOMAIN dispatchers'
      BY <1>m, <1>1, <3>1 DEF LogStart, ShapeInv
    <3> QED BY <3>1, <3>2, <1>l, <2>l DEF ThreadOK, Walk, Progress
  <2> QED BY <2>1, <2>2, <2>3, <2>4
<1>2. ASSUME NEW t \in Threads, LockShared(t)
      PROVE  (DataOK /\ ShapeInv /\ \A u \in Threads : ThreadOK(u))'
  <2>t. t \in Threads /\ ThreadOK(t)
    BY <1>2 DEF Threads
  <2>l. \A m, k : List(m, k)' = List(m, k)
    BY <1>2 DEF LockShared, List
  <2>1. DataOK'
    BY <1>2, <1>l, <1>m, <2>t DEF DataOK, ShapeInv, ThreadOK, Walk, LockShared
  <2>2. ShapeInv'
    <3> DEFINE own == List(Mode(t), work[t])
               all == List(Mode(t), Catchall)
    <3>1. own \in Seq(Listeners) /\ all \in Seq(Listeners)
      BY <1>l
    <3>2. Len(own) \in Nat /\ Walked(own, all) \in Seq(Listeners)
      <4> HIDE DEF own, all
      <4>1. Len(own) \in Nat
        BY <3>1
      <4> QED BY <3>1, <4>1, DueAt
    <3>3. /\ due' \in [Threads -> Seq(Listeners)] /\ i' \in [Threads -> Nat]
          /\ got' \in [Threads -> Seq(Listeners)]
      <4> HIDE DEF own, all
      <4>1. /\ due' = [due EXCEPT ![t] = Walked(own, all)]
            /\ i' = [i EXCEPT ![t] = Len(own)] /\ got' = [got EXCEPT ![t] = << >>]
        BY <1>2 DEF LockShared, own, all
      <4>2. << >> \in Seq(Listeners)
        OBVIOUS
      <4> QED BY <3>2, <4>1, <4>2 DEF ShapeInv
    <3>4. readers' \in [DOMAIN dispatchers -> SUBSET Threads]
      <4>1. Mode(t) \in DOMAIN dispatchers /\ readers \in [DOMAIN dispatchers -> SUBSET Threads]
        BY <1>2, <2>t DEF LockShared, ShapeInv, ThreadOK, Walk
      <4>2. readers[Mode(t)] \cup {t} \in SUBSET Threads
        BY <4>1
      <4>3. readers' = [readers EXCEPT ![Mode(t)] = readers[Mode(t)] \cup {t}]
        BY <1>2 DEF LockShared
      <4> QED BY <4>1, <4>2, <4>3
    <3>5. key' \in [Threads -> Keys]
      BY <1>2, <2>t DEF LockShared, ShapeInv, Keys, ThreadOK, Walk
    <3> QED BY <1>2, <3>3, <3>4, <3>5 DEF ShapeInv, LockShared, hasAsync
  <2>3. ASSUME NEW u \in Threads, u # t PROVE ThreadOK(u)'
    <3>1. /\ pc'[u] = pc[u] /\ key'[u] = key[u] /\ work'[u] = work[u] /\ i'[u] = i[u]
          /\ running'[u] = running[u] /\ got'[u] = got[u] /\ due'[u] = due[u]
          /\ dispatchers' = dispatchers
      BY <1>2, <2>3 DEF DataOK, ShapeInv, LockShared
    <3>2. u \in readers[Mode(u)] => u \in readers'[Mode(u)]
      BY <1>2, <1>m, <2>3, <2>t DEF ShapeInv, ThreadOK, Walk, LockShared
    <3> QED BY <2>2, <3>1, <3>2, Frame
  <2>4. ThreadOK(t)'
    <3> DEFINE own == List(Mode(t), work[t])
               all == List(Mode(t), Catchall)
               cur == List(Mode(t), key[t])
    <3>s. own \in Seq(Listeners) /\ all \in Seq(Listeners) /\ cur \in Seq(Listeners)
      BY <1>l
    <3>1. /\ pc'[t] = "walk" /\ key'[t] = work[t] /\ work' = work /\ i'[t] = Len(own)
          /\ got'[t] = << >> /\ due'[t] = Walked(own, all)
          /\ running'[t] = NoListener /\ t \in readers'[Mode(t)] /\ dispatchers' = dispatchers
          /\ work[t] \in Ucaids /\ work[t] # Catchall /\ Mode(t) \in DOMAIN dispatchers
      BY <1>2, <2>t DEF LockShared, ShapeInv, DataOK, ThreadOK, Walk
    <3>2. /\ List(Mode(t), key[t])' = own /\ List(Mode(t), work[t])' = own
          /\ List(Mode(t), Catchall)' = all
      BY <3>1 DEF List
    <3> HIDE DEF own, all, cur
    <3>3. Walk(t)'
      BY <3>s, <3>1, <3>2 DEF Walk
    <3>4. Progress(t)'
      BY <3>s, <3>1, <3>2 DEF Progress
    <3> QED BY <3>s, <3>1, <3>2, <3>3, <3>4 DEF ThreadOK
  <2> QED BY <2>1, <2>2, <2>3, <2>4
<1>3. ASSUME NEW t \in Threads, CallBegin(t)
      PROVE  (DataOK /\ ShapeInv /\ \A u \in Threads : ThreadOK(u))'
  <2>t. t \in Threads /\ ThreadOK(t)
    BY <1>3 DEF Threads
  <2>l. \A m, k : List(m, k)' = List(m, k)
    BY <1>3 DEF CallBegin, List
  <2>1. DataOK'
    BY <1>3, <1>l, <1>m, <2>t DEF DataOK, ShapeInv, ThreadOK, Walk, CallBegin
  <2>2. ShapeInv'
    <3>1. UNCHANGED <<dispatchers, readers, key, work, due, queue>>
      BY <1>3 DEF CallBegin, fifoVars
    <3>2. i' \in [Threads -> Nat]
      BY <1>3, <2>t DEF CallBegin, ShapeInv
    <3>3. List(Mode(t), key[t])[i[t]] \in Listeners
      <4>1. List(Mode(t), key[t]) \in Seq(Listeners)
        BY <1>l
      <4>2. i[t] \in 1 .. Len(List(Mode(t), key[t]))
        BY <1>3, <2>t, <4>1 DEF CallBegin, ThreadOK
      <4> QED BY <4>1, <4>2
    <3>4. running'[t] \in Listeners /\ got' = [got EXCEPT ![t] = Append(got[t], running'[t])]
      BY <1>3, <3>3 DEF CallBegin, DataOK
    <3>5. got' \in [Threads -> Seq(Listeners)]
      BY <2>t, <3>4 DEF ShapeInv
    <3> QED BY <3>1, <3>2, <3>5 DEF ShapeInv, hasAsync
  <2>3. ASSUME NEW u \in Threads, u # t PROVE ThreadOK(u)'
    <3>1. /\ pc'[u] = pc[u] /\ key'[u] = key[u] /\ work'[u] = work[u] /\ i'[u] = i[u]
          /\ running'[u] = running[u] /\ got'[u] = got[u] /\ due'[u] = due[u]
          /\ dispatchers' = dispatchers
      BY <1>3, <2>3 DEF DataOK, ShapeInv, CallBegin
    <3>2. u \in readers[Mode(u)] => u \in readers'[Mode(u)]
      BY <1>3, <1>m, <2>3, <2>t DEF ShapeInv, ThreadOK, Walk, CallBegin
    <3> QED BY <2>2, <3>1, <3>2, Frame
  <2>4. ThreadOK(t)'
    <3> DEFINE own == List(Mode(t), work[t])
               all == List(Mode(t), Catchall)
               cur == List(Mode(t), key[t])
    <3>s. own \in Seq(Listeners) /\ all \in Seq(Listeners) /\ cur \in Seq(Listeners)
      BY <1>l
    <3>1. /\ pc'[t] = "call" /\ key' = key /\ work' = work /\ i[t] \in Nat /\ i[t] > 0
          /\ i'[t] = i[t] - 1 /\ running'[t] = cur[i[t]] /\ got'[t] = Append(got[t], cur[i[t]])
          /\ due' = due /\ readers' = readers /\ dispatchers' = dispatchers
          /\ work[t] \in Ucaids /\ work[t] # Catchall /\ Mode(t) \in DOMAIN dispatchers
          /\ t \in readers[Mode(t)] /\ i[t] <= Len(cur) /\ got[t] \in Seq(Listeners)
      BY <1>3, <2>t DEF CallBegin, ShapeInv, DataOK, ThreadOK, Walk
    <3>2. /\ List(Mode(t), key[t])' = cur /\ List(Mode(t), work[t])' = own
          /\ List(Mode(t), Catchall)' = all
      BY <3>1 DEF List
    <3>p. /\ key[t] \in {work[t], Catchall} /\ due[t] = Walked(own, all)
          /\ Len(got[t]) = Len(own) + (IF key[t] = Catchall THEN Len(all) ELSE 0) - i[t]
          /\ \A n \in 1 .. Len(got[t]) : got[t][n] = due[t][n]
      BY <1>3, <2>t DEF CallBegin, ThreadOK, Progress
    <3>c. key[t] = Catchall => cur = all
      OBVIOUS
    <3>o. key[t] = work[t] => cur = own
      OBVIOUS
    <3> HIDE DEF own, all, cur
    <3>d. due[t][Len(got[t]) + 1] = cur[i[t]]
      <4>1. CASE key[t] = Catchall
        <5>1. Len(got[t]) + 1 = Len(own) + Len(all) - i[t] + 1
          BY <3>p, <4>1
        <5>2. i[t] \in 1 .. Len(all)
          BY <3>s, <3>1, <3>c, <4>1
        <5>3. Walked(own, all)[Len(got[t]) + 1] = all[i[t]]
          <6>1. PICK k, n : k = Len(got[t]) + 1 /\ n = i[t]
            OBVIOUS
          <6>2. n \in 1 .. Len(all) /\ k = Len(own) + Len(all) - n + 1
            BY <5>1, <5>2, <6>1
          <6>3. Walked(own, all)[k] = all[n]
            BY <3>s, <6>2, DueAll
          <6> QED BY <6>1, <6>3
        <5> QED BY <3>p, <3>c, <4>1, <5>3
      <4>2. CASE key[t] = work[t]
        <5>1. Len(got[t]) + 1 = Len(own) - i[t] + 1
          BY <3>s, <3>1, <3>p, <4>2
        <5>2. i[t] \in 1 .. Len(own)
          BY <3>s, <3>1, <3>o, <4>2
        <5>3. Walked(own, all)[Len(got[t]) + 1] = own[i[t]]
          BY <3>s, <5>1, <5>2, DueOwn
        <5> QED BY <3>p, <3>o, <4>2, <5>3
      <4> QED BY <3>p, <4>1, <4>2
    <3>g. /\ Len(got'[t]) = Len(got[t]) + 1
          /\ \A n \in 1 .. Len(got'[t]) : got'[t][n] = due'[t][n]
      <4>1. Len(got'[t]) = Len(got[t]) + 1
        BY <3>1
      <4>e. cur[i[t]] \in Listeners
        BY <3>s, <3>1
      <4>2. ASSUME NEW n \in 1 .. Len(got'[t]) PROVE got'[t][n] = due[t][n]
        <5>1. CASE n = Len(got[t]) + 1
          BY <3>1, <3>d, <4>e, <5>1
        <5>2. CASE n # Len(got[t]) + 1
          <6>1. n \in 1 .. Len(got[t])
            BY <3>1, <4>1, <5>2
          <6>2. Append(got[t], cur[i[t]])[n] = got[t][n]
            BY <3>1, <4>e, <6>1, AppendAt
          <6> QED BY <3>1, <3>p, <6>1, <6>2
        <5> QED BY <5>1, <5>2
      <4> QED BY <3>1, <4>1, <4>2
    <3>3. Walk(t)'
      BY <3>s, <3>1, <3>2 DEF Walk
    <3>4. Progress(t)'
      <4>1. Len(got'[t]) = Len(own) + (IF key[t] = Catchall THEN Len(all) ELSE 0) - i'[t]
        BY <3>s, <3>1, <3>p, <3>g
      <4> QED BY <3>1, <3>2, <3>p, <3>g, <4>1 DEF Progress
    <3>5. i'[t] \in 0 .. Len(cur)
      BY <3>s, <3>1
    <3> QED BY <3>1, <3>2, <3>3, <3>4, <3>5 DEF ThreadOK
  <2> QED BY <2>1, <2>2, <2>3, <2>4
<1>4. ASSUME NEW t \in Threads, CallEnd(t)
      PROVE  (DataOK /\ ShapeInv /\ \A u \in Threads : ThreadOK(u))'
  <2>t. t \in Threads /\ ThreadOK(t)
    BY <1>4 DEF Threads
  <2>l. \A m, k : List(m, k)' = List(m, k)
    BY <1>4 DEF CallEnd, List
  <2>1. DataOK'
    BY <1>4, <1>l, <1>m, <2>t DEF DataOK, ShapeInv, ThreadOK, Walk, CallEnd
  <2>2. ShapeInv'
    BY <1>4, <1>l, <1>m, <2>t DEF DataOK, ShapeInv, ThreadOK, Walk, hasAsync, Keys, CallEnd
  <2>3. ASSUME NEW u \in Threads, u # t PROVE ThreadOK(u)'
    <3>1. /\ pc'[u] = pc[u] /\ key'[u] = key[u] /\ work'[u] = work[u] /\ i'[u] = i[u]
          /\ running'[u] = running[u] /\ got'[u] = got[u] /\ due'[u] = due[u]
          /\ dispatchers' = dispatchers
      BY <1>4, <2>3 DEF DataOK, ShapeInv, CallEnd
    <3>2. u \in readers[Mode(u)] => u \in readers'[Mode(u)]
      BY <1>4, <1>m, <2>3, <2>t DEF ShapeInv, ThreadOK, Walk, CallEnd
    <3> QED BY <2>2, <3>1, <3>2, Frame
  <2>4. ThreadOK(t)'
    <3> DEFINE own == List(Mode(t), work[t])
               all == List(Mode(t), Catchall)
               cur == List(Mode(t), key[t])
    <3>s. own \in Seq(Listeners) /\ all \in Seq(Listeners) /\ cur \in Seq(Listeners)
      BY <1>l
    <3>1. /\ pc[t] = "call" /\ pc'[t] = "walk" /\ key' = key /\ work' = work /\ i' = i
          /\ got' = got /\ due' = due /\ running'[t] = NoListener /\ readers' = readers
          /\ dispatchers' = dispatchers
      BY <1>4 DEF CallEnd, DataOK
    <3>2. /\ List(Mode(t), key[t])' = cur /\ List(Mode(t), work[t])' = own
          /\ List(Mode(t), Catchall)' = all
      BY <3>1 DEF List
    <3>3. Walk(t)'
      BY <2>t, <3>1, <3>2 DEF ThreadOK, Walk
    <3>4. Progress(t)'
      BY <2>t, <3>1, <3>2 DEF ThreadOK, Progress
    <3> QED BY <2>t, <3>1, <3>2, <3>3, <3>4 DEF ThreadOK
  <2> QED BY <2>1, <2>2, <2>3, <2>4
<1>5. ASSUME NEW t \in Threads, WalkCatchall(t)
      PROVE  (DataOK /\ ShapeInv /\ \A u \in Threads : ThreadOK(u))'
  <2>t. t \in Threads /\ ThreadOK(t)
    BY <1>5 DEF Threads
  <2>l. \A m, k : List(m, k)' = List(m, k)
    BY <1>5 DEF WalkCatchall, List
  <2>1. DataOK'
    BY <1>5, <1>l, <1>m, <2>t DEF DataOK, ShapeInv, ThreadOK, Walk, WalkCatchall
  <2>2. ShapeInv'
    BY <1>5, <1>l, <1>m, <2>t DEF DataOK, ShapeInv, ThreadOK, Walk, hasAsync, Keys,
       WalkCatchall
  <2>3. ASSUME NEW u \in Threads, u # t PROVE ThreadOK(u)'
    <3>1. /\ pc'[u] = pc[u] /\ key'[u] = key[u] /\ work'[u] = work[u] /\ i'[u] = i[u]
          /\ running'[u] = running[u] /\ got'[u] = got[u] /\ due'[u] = due[u]
          /\ dispatchers' = dispatchers
      BY <1>5, <2>3 DEF DataOK, ShapeInv, WalkCatchall
    <3>2. u \in readers[Mode(u)] => u \in readers'[Mode(u)]
      BY <1>5, <1>m, <2>3, <2>t DEF ShapeInv, ThreadOK, Walk, WalkCatchall
    <3> QED BY <2>2, <3>1, <3>2, Frame
  <2>4. ThreadOK(t)'
    <3> DEFINE own == List(Mode(t), work[t])
               all == List(Mode(t), Catchall)
               cur == List(Mode(t), key[t])
    <3>s. own \in Seq(Listeners) /\ all \in Seq(Listeners) /\ cur \in Seq(Listeners)
      BY <1>l
    <3>1. /\ pc[t] = "walk" /\ pc' = pc /\ key[t] # Catchall /\ key'[t] = Catchall /\ i[t] = 0
          /\ i'[t] = Len(all) /\ work' = work /\ got' = got /\ due' = due /\ running' = running
          /\ readers' = readers /\ dispatchers' = dispatchers
      BY <1>5 DEF WalkCatchall, ShapeInv
    <3>2. /\ List(Mode(t), key[t])' = all /\ List(Mode(t), work[t])' = own
          /\ List(Mode(t), Catchall)' = all
      BY <3>1 DEF List
    <3>3. Walk(t)'
      BY <2>t, <3>1, <3>2 DEF ThreadOK, Walk
    <3>4. Progress(t)'
      <4>1. Len(got[t]) = Len(own)
        BY <2>t, <3>s, <3>1 DEF ThreadOK, Progress
      <4>2. Len(got[t]) = Len(own) + Len(all) - Len(all)
        BY <3>s, <4>1
      <4> QED BY <2>t, <3>1, <3>2, <4>2 DEF ThreadOK, Progress
    <3>5. i'[t] \in 0 .. Len(all)
      BY <3>s, <3>1
    <3> QED BY <3>1, <3>2, <3>3, <3>4, <3>5 DEF ThreadOK
  <2> QED BY <2>1, <2>2, <2>3, <2>4
<1>6. ASSUME NEW t \in Threads, UnlockShared(t)
      PROVE  (DataOK /\ ShapeInv /\ \A u \in Threads : ThreadOK(u))'
  <2>t. t \in Threads /\ ThreadOK(t)
    BY <1>6 DEF Threads
  <2>l. \A m, k : List(m, k)' = List(m, k)
    BY <1>6 DEF UnlockShared, List
  <2>1. DataOK'
    BY <1>6, <1>l, <1>m, <2>t DEF DataOK, ShapeInv, ThreadOK, Walk, UnlockShared
  <2>2. ShapeInv'
    BY <1>6, <1>l, <1>m, <2>t DEF DataOK, ShapeInv, ThreadOK, Walk, hasAsync, Keys,
       UnlockShared
  <2>3. ASSUME NEW u \in Threads, u # t PROVE ThreadOK(u)'
    <3>1. /\ pc'[u] = pc[u] /\ key'[u] = key[u] /\ work'[u] = work[u] /\ i'[u] = i[u]
          /\ running'[u] = running[u] /\ got'[u] = got[u] /\ due'[u] = due[u]
          /\ dispatchers' = dispatchers
      BY <1>6, <2>3 DEF DataOK, ShapeInv, UnlockShared
    <3>2. u \in readers[Mode(u)] => u \in readers'[Mode(u)]
      BY <1>6, <1>m, <2>3, <2>t DEF ShapeInv, ThreadOK, Walk, UnlockShared
    <3> QED BY <2>2, <3>1, <3>2, Frame
  <2>4. ThreadOK(t)'
    <3> DEFINE own == List(Mode(t), work[t])
               all == List(Mode(t), Catchall)
               cur == List(Mode(t), key[t])
    <3>s. own \in Seq(Listeners) /\ all \in Seq(Listeners) /\ cur \in Seq(Listeners)
      BY <1>l
    <3>1. /\ pc[t] = "walk" /\ pc'[t] = "done" /\ key[t] = Catchall /\ i[t] = 0
          /\ key' = key /\ i' = i /\ work' = work /\ got' = got /\ due' = due
          /\ running' = running /\ dispatchers' = dispatchers
      BY <1>6 DEF UnlockShared, DataOK
    <3>2. /\ List(Mode(t), key[t])' = cur /\ List(Mode(t), work[t])' = own
          /\ List(Mode(t), Catchall)' = all
      BY <3>1 DEF List
    <3>3. Walk(t)'
      BY <2>t, <3>1, <3>2 DEF ThreadOK, Walk
    <3>4. Progress(t)'
      BY <3>1 DEF Progress
    <3>5. got[t] = due[t]
      <4>1. /\ Len(got[t]) = Len(own) + Len(all) /\ due[t] = Walked(own, all)
            /\ \A n \in 1 .. Len(got[t]) : got[t][n] = due[t][n]
        BY <2>t, <3>s, <3>1 DEF ThreadOK, Progress
      <4>2. got[t] \in Seq(Listeners) /\ due[t] \in Seq(Listeners)
        BY <2>t DEF ShapeInv
      <4> HIDE DEF own, all, cur
      <4>3. Len(due[t]) = Len(got[t])
        BY <3>s, <4>1, DueAt
      <4> QED BY <4>1, <4>2, <4>3, SameSequence
    <3> QED BY <2>t, <3>1, <3>2, <3>3, <3>4, <3>5 DEF ThreadOK
  <2> QED BY <2>1, <2>2, <2>3, <2>4
<1>7. ASSUME NEW t \in Loggers, LogEnd(t)
      PROVE  (DataOK /\ ShapeInv /\ \A u \in Threads : ThreadOK(u))'
  <2>t. t \in Threads /\ ThreadOK(t)
    BY <1>7 DEF Threads
  <2>l. \A m, k : List(m, k)' = List(m, k)
    BY <1>7 DEF LogEnd, List
  <2>1. DataOK'
    <3>1. queue' \in Seq(Ucaids) /\ Len(queue') <= Bound
      <4>1. work[t] \in Ucaids
        BY <1>7, <2>t DEF LogEnd, ThreadOK, Walk
      <4>2. queue' = queue \/ (Len(queue) < Bound /\ queue' = Append(queue, work[t]))
        BY <1>7 DEF LogEnd, Fifo!Accept, Fifo!Discard
      <4> QED BY <4>1, <4>2 DEF DataOK
    <3> QED BY <1>7, <2>t, <3>1 DEF DataOK, LogEnd
  <2>2. ShapeInv'
    BY <1>7, <1>l, <1>m, <2>t DEF DataOK, ShapeInv, ThreadOK, Walk, hasAsync, Keys, LogEnd,
       Fifo!Accept, Fifo!Discard
  <2>3. ASSUME NEW u \in Threads, u # t PROVE ThreadOK(u)'
    <3>1. /\ pc'[u] = pc[u] /\ key'[u] = key[u] /\ work'[u] = work[u] /\ i'[u] = i[u]
          /\ running'[u] = running[u] /\ got'[u] = got[u] /\ due'[u] = due[u]
          /\ dispatchers' = dispatchers
      BY <1>7, <2>3 DEF DataOK, ShapeInv, LogEnd
    <3>2. u \in readers[Mode(u)] => u \in readers'[Mode(u)]
      BY <1>7, <1>m, <2>3, <2>t DEF ShapeInv, ThreadOK, Walk, LogEnd
    <3> QED BY <2>2, <3>1, <3>2, Frame
  <2>4. ThreadOK(t)'
    BY <1>7, <1>l, <1>m, <2>l, <2>t DEF DataOK, ShapeInv, ThreadOK, Walk, Progress, LogEnd,
       Fifo!Accept, Fifo!Discard
  <2> QED BY <2>1, <2>2, <2>3, <2>4
<1>8. ASSUME DispatchStart
      PROVE  (DataOK /\ ShapeInv /\ \A u \in Threads : ThreadOK(u))'
  <2>t. Notifier \in Threads /\ ThreadOK(Notifier)
    BY <1>8 DEF Threads
  <2>l. \A m, k : List(m, k)' = List(m, k)
    BY <1>8 DEF DispatchStart, List
  <2>1. DataOK'
    BY <1>8, <1>l, <1>m, <2>t DEF DataOK, ShapeInv, ThreadOK, Walk, DispatchStart, Fifo!Take
  <2>2. ShapeInv'
    BY <1>8, <1>l, <1>m, <2>t DEF DataOK, ShapeInv, ThreadOK, Walk, hasAsync, Keys,
       DispatchStart, Fifo!Take
  <2>3. ASSUME NEW u \in Threads, u # Notifier PROVE ThreadOK(u)'
    <3>1. /\ pc'[u] = pc[u] /\ key'[u] = key[u] /\ work'[u] = work[u] /\ i'[u] = i[u]
          /\ running'[u] = running[u] /\ got'[u] = got[u] /\ due'[u] = due[u]
          /\ dispatchers' = dispatchers
      BY <1>8, <2>3 DEF DataOK, ShapeInv, DispatchStart
    <3>2. u \in readers[Mode(u)] => u \in readers'[Mode(u)]
      BY <1>8, <1>m, <2>3, <2>t DEF ShapeInv, ThreadOK, Walk, DispatchStart
    <3> QED BY <2>2, <3>1, <3>2, Frame
  <2>4. ThreadOK(Notifier)'
    <3>1. pc'[Notifier] = "lock" /\ i' = i /\ key' = key /\ i[Notifier] = 0
          /\ running' = running /\ dispatchers' = dispatchers
          /\ running[Notifier] = NoListener /\ i[Notifier] \in 0 .. Len(List(Mode(Notifier), key[Notifier]))
      BY <1>8, <2>t DEF DispatchStart, ShapeInv, DataOK, ThreadOK, Walk
    <3>2. Mode(Notifier) \in DOMAIN dispatchers'
      <4>1. queue # << >>
        BY <1>8 DEF DispatchStart, Fifo!Take
      <4> QED BY <1>m, <3>1, <4>1 DEF ShapeInv, hasAsync
    <3>w. work'[Notifier] \in Ucaids
      BY <1>8, <2>t DEF DispatchStart, Fifo!Take, ShapeInv, DataOK
    <3>3. List(Mode(Notifier), key[Notifier])' = List(Mode(Notifier), key[Notifier])
      BY <3>1 DEF List
    <3> QED BY <3>1, <3>2, <3>3, <3>w DEF ThreadOK, Walk, Progress
  <2> QED BY <2>1, <2>2, <2>3, <2>4
<1>9. ASSUME DispatchEnd
      PROVE  (DataOK /\ ShapeInv /\ \A u \in Threads : ThreadOK(u))'
  <2>t. Notifier \in Threads /\ ThreadOK(Notifier)
    BY <1>9 DEF Threads
  <2>l. \A m, k : List(m, k)' = List(m, k)
    BY <1>9 DEF DispatchEnd, List
  <2>1. DataOK'
    BY <1>9, <1>l, <1>m, <2>t DEF DataOK, ShapeInv, ThreadOK, Walk, DispatchEnd,
       Fifo!Deliver
  <2>2. ShapeInv'
    BY <1>9, <1>l, <1>m, <2>t DEF DataOK, ShapeInv, ThreadOK, Walk, hasAsync, Keys,
       DispatchEnd, Fifo!Deliver
  <2>3. ASSUME NEW u \in Threads, u # Notifier PROVE ThreadOK(u)'
    <3>1. /\ pc'[u] = pc[u] /\ key'[u] = key[u] /\ work'[u] = work[u] /\ i'[u] = i[u]
          /\ running'[u] = running[u] /\ got'[u] = got[u] /\ due'[u] = due[u]
          /\ dispatchers' = dispatchers
      BY <1>9, <2>3 DEF DataOK, ShapeInv, DispatchEnd
    <3>2. u \in readers[Mode(u)] => u \in readers'[Mode(u)]
      BY <1>9, <1>m, <2>3, <2>t DEF ShapeInv, ThreadOK, Walk, DispatchEnd
    <3> QED BY <2>2, <3>1, <3>2, Frame
  <2>4. ThreadOK(Notifier)'
    BY <1>9, <1>l, <1>m, <2>l, <2>t DEF DataOK, ShapeInv, ThreadOK, Walk, Progress,
       DispatchEnd, Fifo!Deliver
  <2> QED BY <2>1, <2>2, <2>3, <2>4
<1>10. ASSUME NEW l \in Listeners, NEW k \in Keys, NEW m \in {"sync", "async"},
              registerForUcaid(l, k, m) \/ unregisterForUcaid(l, k, m)
       PROVE  (DataOK /\ ShapeInv /\ \A u \in Threads : ThreadOK(u))'
  <2>1. UNCHANGED <<readers, pc, key, work, i, running, got, due, queue>>
    BY <1>10 DEF registerForUcaid, unregisterForUcaid
  <2>2. CASE dispatchers' = dispatchers
    <3>1. DataOK'
      BY <2>1, <2>2 DEF DataOK
    <3>2. ShapeInv'
      BY <2>1, <2>2 DEF ShapeInv, hasAsync
    <3>3. ASSUME NEW u \in Threads PROVE ThreadOK(u)'
      BY <2>1, <2>2, <3>2, Frame
    <3> QED BY <3>1, <3>2, <3>3
  <2>3. CASE dispatchers' # dispatchers
    <3>1. m \in DOMAIN dispatchers /\ readers[m] = {}
      BY <1>10, <2>3 DEF registerForUcaid, unregisterForUcaid, Ignored, Exclusive, hasAsync,
         ShapeInv
    <3>2. PICK s \in Seq(Listeners) : dispatchers' = WithList(m, k, s)
      <4>1. List(m, k) \in Seq(Listeners)
        BY <1>l
      <4>2. Append(List(m, k), l) \in Seq(Listeners)
        BY <4>1
      <4>3. remove(List(m, k), l) \in Seq(Listeners)
        BY <4>1, RemoveExact
      <4>4. \/ dispatchers' = WithList(m, k, Append(List(m, k), l))
            \/ dispatchers' = WithList(m, k, remove(List(m, k), l))
        BY <1>10, <2>3 DEF registerForUcaid, unregisterForUcaid
      <4> QED BY <4>2, <4>3, <4>4
    <3>3. /\ DOMAIN dispatchers' = DOMAIN dispatchers
          /\ dispatchers' = [n \in DOMAIN dispatchers |-> dispatchers'[n]]
          /\ dispatchers'[m] = [x \in DOMAIN dispatchers[m] \cup {k} |->
                                   IF x = k THEN s ELSE dispatchers[m][x]]
          /\ \A n \in DOMAIN dispatchers \ {m} : dispatchers'[n] = dispatchers[n]
      BY <3>1, <3>2 DEF WithList, ShapeInv
    <3>4. ASSUME NEW n \in DOMAIN dispatchers
          PROVE  /\ DOMAIN dispatchers'[n] \subseteq Keys
                 /\ dispatchers'[n] \in [DOMAIN dispatchers'[n] -> Seq(Listeners)]
      <4>1. CASE n = m
        BY <3>3, <4>1 DEF ShapeInv, DataOK
      <4>2. CASE n # m
        BY <3>3, <4>2 DEF ShapeInv, DataOK
      <4> QED BY <4>1, <4>2
    <3>5. DataOK'
      BY <2>1, <3>3, <3>4 DEF DataOK
    <3>6. ShapeInv'
      BY <2>1, <3>3, <3>4 DEF ShapeInv, hasAsync
    <3>7. ASSUME NEW u \in Threads PROVE ThreadOK(u)'
      <4>2. CASE pc[u] \in {"walk", "call"}
        <5>1. Mode(u) \in DOMAIN dispatchers /\ Mode(u) # m
          BY <3>1, <4>2 DEF ThreadOK, Walk
        <5> QED BY <2>1, <3>3, <3>6, <5>1, Frame
      <4>3. CASE pc[u] \notin {"walk", "call"}
        <5>1. \A n, x : List(n, x)' \in Seq(Listeners)
          BY <3>6, ListTypeNext
        <5> QED BY <2>1, <3>3, <4>3, <5>1 DEF ThreadOK, Walk, Progress
      <4> QED BY <4>2, <4>3
    <3> QED BY <3>5, <3>6, <3>7
  <2> QED BY <2>2, <2>3
<1>11. CASE UNCHANGED vars
  <2>1. DataOK'
    BY <1>11 DEF DataOK, vars
  <2>2. ShapeInv'
    BY <1>11 DEF ShapeInv, vars, hasAsync
  <2>3. ASSUME NEW u \in Threads PROVE ThreadOK(u)'
    BY <1>11, <2>2, Frame DEF vars
  <2> QED BY <2>1, <2>2, <2>3
<1> QED
  BY <1>1, <1>2, <1>3, <1>4, <1>5, <1>6, <1>7, <1>8, <1>9, <1>10, <1>11 DEF Next, Step

\* The inductive invariant holds in every state.
THEOREM Invariance == Spec => []IInv
<1>1. Init => IInv
  <2> SUFFICES ASSUME Init PROVE IInv
    OBVIOUS
  <2> USE MultiplexerAssumption DEF Init, Fifo!Init
  <2>1. /\ DOMAIN dispatchers \in {{"sync"}, {"sync", "async"}}
        /\ dispatchers = [m \in DOMAIN dispatchers |-> << >>]
        /\ readers = [m \in DOMAIN dispatchers |-> {}]
    OBVIOUS
  <2>2. << >> \in Seq(Listeners) /\ << >> \in [{} -> Seq(Listeners)] /\ DOMAIN << >> = {}
    OBVIOUS
  <2>3. DataOK
    BY <2>1, <2>2 DEF DataOK
  <2>4. ShapeInv
    BY <2>1, <2>2 DEF ShapeInv, Keys, hasAsync
  <2>5. \A m, k : List(m, k) \in Seq(Listeners)
    BY <2>4, ListType
  <2>6. \A t \in Threads : ThreadOK(t)
    BY <2>5 DEF ThreadOK, Walk, Progress
  <2> QED BY <2>3, <2>4, <2>6, Parts
<1> QED BY <1>1, Inductive, PTL DEF Spec

\* A listener whose callback executes is registered in the list being walked, for
\* every number of threads, listeners and registrations: unregister returns only
\* when no callback of that list executes.
THEOREM RegisteredWhileRunning == Spec => []RunningIsRegistered
<1>1. IInv => RunningIsRegistered
  <2> SUFFICES ASSUME IInv PROVE RunningIsRegistered
    OBVIOUS
  <2>1. TypeOK
    BY DEF IInv
  <2>2. ASSUME NEW t \in Threads, running[t] # NoListener
        PROVE  \E n \in DOMAIN List(Mode(t), key[t]) : List(Mode(t), key[t])[n] = running[t]
    <3>1. /\ pc[t] = "call" /\ running[t] = List(Mode(t), key[t])[i[t] + 1]
          /\ i[t] < Len(List(Mode(t), key[t]))
      BY <2>2 DEF IInv, Walk
    <3>2. i[t] \in Nat /\ List(Mode(t), key[t]) \in Seq(Listeners)
      BY ListType DEF IInv, ShapeInv
    <3>3. i[t] + 1 \in DOMAIN List(Mode(t), key[t])
      BY <3>1, <3>2
    <3> QED BY <3>1, <3>3
  <2> QED BY <2>1, <2>2 DEF RunningIsRegistered
<1> QED BY <1>1, Invariance, PTL

\* unregister removes all entries of the listener and no other one, for lists of
\* every length, and every activity reaches each registration once.
THEOREM UnregisterExact == Spec => UnregisterIsExact
<1> DEFINE Exact == \A l \in Listeners, k \in Keys, m \in {"sync", "async"} :
             unregisterForUcaid(l, k, m) =>
                \A x \in Listeners :
                   Entries(dispatchers'[m][k], x)
                      = IF x = l THEN 0 ELSE Entries(dispatchers[m][k], x)
<1>1. IInv => OncePerRegistration
  BY DEF IInv
<1>2. IInv => Exact
  <2> SUFFICES ASSUME IInv, NEW l \in Listeners, NEW k \in Keys, NEW m \in {"sync", "async"},
                      unregisterForUcaid(l, k, m), NEW x \in Listeners
               PROVE  Entries(dispatchers'[m][k], x)
                         = IF x = l THEN 0 ELSE Entries(dispatchers[m][k], x)
    OBVIOUS
  <2>1. ShapeInv /\ m \in DOMAIN dispatchers /\ k \in DOMAIN dispatchers[m]
    BY DEF IInv, unregisterForUcaid, Ignored, hasAsync, ShapeInv
  <2>2. List(m, k) = dispatchers[m][k] /\ List(m, k) \in Seq(Listeners)
    BY <2>1, ListType DEF List
  <2>3. dispatchers' = WithList(m, k, remove(List(m, k), l))
    BY DEF unregisterForUcaid
  <2>4. dispatchers'[m][k] = remove(List(m, k), l)
    BY <2>1, <2>3 DEF WithList, ShapeInv
  <2>5. Entries(remove(List(m, k), l), x) = IF x = l THEN 0 ELSE Entries(List(m, k), x)
    BY <2>2, RemoveExact
  <2> QED BY <2>2, <2>4, <2>5
<1> HIDE DEF Exact
<1>3. Spec => [][Exact]_vars
  BY <1>2, Invariance, PTL
<1>4. Spec => []OncePerRegistration
  BY <1>1, Invariance, PTL
<1> QED BY <1>3, <1>4 DEF UnregisterIsExact, Exact

-----------------------------------------------------------------------------
(* The forwarder.                                                          *)

Proved == INSTANCE ActivityNetworkForwarder_proofs WITH
    None <- "none", Ongoing <- BOOLEAN, MaxLogs <- MaxForwarded, pc <- fPc, queue <- fQueue,
    logs <- fLogs

\* The assumption that the run evaluates is the one that the proofs use.
LEMMA AssumptionHolds == Proved!ForwarderAssumption
BY ForwarderInstance DEF
    Forwarder!ForwarderAssumption, Proved!ForwarderAssumption, Forwarder!IsFiniteSet,
    Proved!IsFiniteSet, Forwarder!Notifier, Proved!Notifier, Forwarder!Trigger,
    Proved!Trigger

\* The forwarder starts as it does alone, ...
LEMMA ForwarderStarts == MCInit => Proved!Init
BY DEF MCInit,
    Forwarder!Init, Proved!Init, Forwarder!Positions, Proved!Positions,
    Forwarder!Threads, Proved!Threads, Forwarder!Notifier, Proved!Notifier,
    Forwarder!Trigger, Proved!Trigger

\* ... has the same steps, ...
LEMMA SameSteps == Forwarder!Next <=> Proved!Next
BY DEF
    Forwarder!Next, Proved!Next, Forwarder!Notify, Proved!Notify, Forwarder!NotifyAsync,
    Proved!NotifyAsync, Forwarder!Check, Proved!Check, Forwarder!isend, Proved!isend,
    Forwarder!Insert, Proved!Insert, Forwarder!triggerResponseForAnomaly,
    Proved!triggerResponseForAnomaly, Forwarder!TriggerLoop, Proved!TriggerLoop,
    Forwarder!TriggerCheck, Proved!TriggerCheck, Forwarder!clearAnomalyStatus,
    Proved!clearAnomalyStatus, Forwarder!start, Proved!start, Forwarder!stop,
    Proved!stop, Forwarder!messageSendCB, Proved!messageSendCB,
    Forwarder!messageReceivedCB, Proved!messageReceivedCB, Forwarder!messageResponseCB,
    Proved!messageResponseCB, Forwarder!messageTransferErrorCB,
    Proved!messageTransferErrorCB, Forwarder!connectionErrorCB,
    Proved!connectionErrorCB, Forwarder!Called, Proved!Called, Forwarder!Go, Proved!Go,
    Forwarder!insert, Proved!insert, Forwarder!Wrap, Proved!Wrap, Forwarder!Unmoved,
    Proved!Unmoved, Forwarder!ringVars, Proved!ringVars, Forwarder!netVars,
    Proved!netVars, Forwarder!Notifier, Proved!Notifier, Forwarder!Trigger,
    Proved!Trigger, Forwarder!Threads, Proved!Threads, Forwarder!Positions,
    Proved!Positions

\* ... and every step of the run is one of them, or leaves the forwarder alone.
LEMMA ForwarderSteps == [MCNext]_allVars => [Proved!Next]_(Proved!vars)
<1> SUFFICES ASSUME [MCNext]_allVars PROVE Proved!Next \/ UNCHANGED Proved!vars
  OBVIOUS
<1>1. CASE Forwarder!Next
  BY <1>1, SameSteps
<1>2. CASE UNCHANGED forwarderVars
  BY <1>2 DEF forwarderVars, Proved!vars, Proved!ringVars, Proved!netVars
<1> QED
  BY <1>1, <1>2 DEF MCNext, allVars

LEMMA ForwarderRuns == MCSpec => Proved!Spec
BY ForwarderStarts, ForwarderSteps, PTL DEF MCSpec, Proved!Spec

\* pendingActivities of NotifyAsync and the callbacks, in the specification that
\* the run checks and for every ring, limit, number of loggers and bound.
THEOREM MonitoringPending == MCSpec => []PendingIsExact
<1>1. Proved!Spec => []Proved!PendingIsExact
  BY Proved!Pending, AssumptionHolds
<1>2. Proved!PendingIsExact => PendingIsExact
  BY DEF PendingIsExact,
      Forwarder!PendingIsExact, Proved!PendingIsExact, Forwarder!Threads,
      Proved!Threads, Forwarder!Notifier, Proved!Notifier, Forwarder!Trigger,
      Proved!Trigger, Forwarder!Cardinality, Proved!Cardinality
<1> QED
  BY <1>1, <1>2, ForwarderRuns, PTL

\* The ring of NotifyAsync and triggerResponseForAnomaly, in the same way.
THEOREM MonitoringRing == MCSpec => []RingIsSentOnce
<1>1. Proved!Spec => []Proved!RingIsSentOnce
  BY Proved!RingSentOnce, AssumptionHolds
<1>2. Proved!RingIsSentOnce => RingIsSentOnce
  BY DEF RingIsSentOnce,
      Forwarder!RingIsSentOnce, Proved!RingIsSentOnce, Forwarder!Kept, Proved!Kept,
      Forwarder!Latest, Proved!Latest, Forwarder!Positions, Proved!Positions
<1> QED
  BY <1>1, <1>2, ForwarderRuns, PTL

-----------------------------------------------------------------------------
(* The file surveyor.  First sums over collections of surveys.             *)

\* F holds the sums of v over the subsets of D: none, or one more than a smaller one.
Sums(F, v, D) ==
    /\ F \in [SUBSET D -> Nat] /\ F[{}] = 0
    /\ \A T \in SUBSET D, x \in D : x \notin T => F[T \cup {x}] = F[T] + v[x]

\* Finite subsets, and what taking an element does to their size.
LEMMA SubsetSizes ==
    ASSUME NEW D, IsFiniteSet(D)
    PROVE  /\ Cardinality(D) \in Nat
           /\ \A T \in SUBSET D : /\ IsFiniteSet(T) /\ Cardinality(T) \in 0 .. Cardinality(D)
                                  /\ Cardinality(T) = 0 <=> T = {}
                                  /\ \A x \in T : Cardinality(T \ {x}) = Cardinality(T) - 1
<1>1. Cardinality(D) \in Nat
  BY FS_CardinalityType
<1>2. ASSUME NEW T \in SUBSET D
      PROVE  /\ IsFiniteSet(T) /\ Cardinality(T) \in 0 .. Cardinality(D)
             /\ Cardinality(T) = 0 <=> T = {}
             /\ \A x \in T : Cardinality(T \ {x}) = Cardinality(T) - 1
  <2>1. IsFiniteSet(T) /\ Cardinality(T) <= Cardinality(D)
    BY FS_Subset
  <2>2. Cardinality(T) \in Nat
    BY <2>1, FS_CardinalityType
  <2>3. Cardinality(T) = 0 <=> T = {}
    BY <2>1, FS_EmptySet
  <2>4. \A x \in T : Cardinality(T \ {x}) = Cardinality(T) - 1
    BY <2>1, FS_RemoveElement
  <2> QED BY <1>1, <2>1, <2>2, <2>3, <2>4
<1> QED BY <1>1, <1>2

\* There are such sums over a finite set.
LEMMA SumsExist ==
    ASSUME NEW D, IsFiniteSet(D), NEW v, \A x \in D : v[x] \in Nat
    PROVE  \E F : Sums(F, v, D)
<1> DEFINE N == Cardinality(D)
           G == {n \in 0 .. N : \A T \in SUBSET D : Cardinality(T) = n => \E F : Sums(F, v, T)}
<1>0. N \in Nat
  BY SubsetSizes
<1>1. 0 \in G
  <2> SUFFICES ASSUME NEW T \in SUBSET D, Cardinality(T) = 0 PROVE \E F : Sums(F, v, T)
    BY <1>0
  <2>1. T = {}
    BY SubsetSizes
  <2> DEFINE F == [S \in SUBSET T |-> 0]
  <2>2. Sums(F, v, T)
    BY <2>1 DEF Sums
  <2> QED BY <2>2
<1>2. ASSUME NEW n \in 1 .. N, n - 1 \in G PROVE n \in G
  <2> SUFFICES ASSUME NEW T \in SUBSET D, Cardinality(T) = n PROVE \E F : Sums(F, v, T)
    BY <1>0
  <2>1. T # {}
    BY <1>0, SubsetSizes
  <2>2. PICK x \in T : TRUE
    BY <2>1
  <2> DEFINE R == T \ {x}
  <2>3. Cardinality(R) = n - 1 /\ R \in SUBSET D
    BY SubsetSizes
  <2>4. PICK E : Sums(E, v, R)
    BY <1>2, <2>3
  <2> DEFINE F == [S \in SUBSET T |-> IF x \in S THEN E[S \ {x}] + v[x] ELSE E[S]]
  <2>5. E \in [SUBSET R -> Nat] /\ v[x] \in Nat
    BY <2>4 DEF Sums
  <2>6. \A S \in SUBSET T : S \ {x} \in SUBSET R /\ (x \notin S => S \in SUBSET R)
    OBVIOUS
  <2>7. F \in [SUBSET T -> Nat]
    BY <2>5, <2>6
  <2>8. F[{}] = 0
    BY <2>4 DEF Sums
  <2>9. ASSUME NEW S \in SUBSET T, NEW y \in T, y \notin S
        PROVE  F[S \cup {y}] = F[S] + v[y]
    <3>1. S \cup {y} \in SUBSET T /\ v[y] \in Nat
      OBVIOUS
    <3>2. CASE y = x
      <4>1. (S \cup {y}) \ {x} = S /\ x \notin S
        BY <2>9, <3>2
      <4> QED BY <3>1, <3>2, <4>1
    <3>3. CASE y # x /\ x \notin S
      <4>1. E[S \cup {y}] = E[S] + v[y]
        BY <2>4, <2>9, <3>3 DEF Sums
      <4> QED BY <3>1, <3>3, <4>1
    <3>4. CASE y # x /\ x \in S
      <4> DEFINE Q == S \ {x}
      <4>1. /\ Q \in SUBSET R /\ y \in R /\ y \notin Q /\ (S \cup {y}) \ {x} = Q \cup {y}
            /\ x \in S \cup {y}
        BY <2>9, <3>4
      <4>2. E[Q \cup {y}] = E[Q] + v[y] /\ E[Q] \in Nat
        BY <2>4, <2>5, <4>1 DEF Sums
      <4>3. F[S \cup {y}] = (E[Q] + v[y]) + v[x] /\ F[S] = E[Q] + v[x]
        BY <3>1, <3>4, <4>1, <4>2
      <4> HIDE DEF F, Q
      <4> QED BY <2>5, <3>1, <4>2, <4>3
    <3> QED BY <3>2, <3>3, <3>4
  <2> HIDE DEF F
  <2>10. Sums(F, v, T)
    BY <2>7, <2>8, <2>9 DEF Sums
  <2> QED BY <2>10
<1>3. \A n \in 0 .. N : n \in G
  <2> HIDE DEF G, N
  <2> QED BY <1>0, <1>1, <1>2, FirstFailure
<1> QED BY <1>0, <1>3

\* The fold takes the elements in some order; it is the sum.
LEMMA FoldIsSum ==
    ASSUME NEW v, IsFiniteSet(DOMAIN v), NEW F, Sums(F, v, DOMAIN v), \A x \in DOMAIN v : v[x] \in Nat
    PROVE  Surveyor!SumFunction(v) = F[DOMAIN v]
<1>0. PICK D : D = DOMAIN v
  OBVIOUS
<1>a. IsFiniteSet(D) /\ Sums(F, v, D) /\ \A x \in D : v[x] \in Nat
  BY <1>0
<1> DEFINE Pick(s) == CHOOSE x \in s : TRUE
           Fold(g, s) == IF s = {} THEN 0 ELSE v[Pick(s)] + g[s \ {Pick(s)}]
           iter == CHOOSE g : g = [s \in SUBSET D |-> Fold(g, s)]
<1>1. Surveyor!SumFunction(v) = iter[D]
  BY <1>0 DEF Surveyor!SumFunction, Surveyor!SumFunctionOnSet, Surveyor!FoldFunctionOnSet, Surveyor!MapThenFoldSet
<1>2. F = [s \in SUBSET D |-> Fold(F, s)]
  <2>1. ASSUME NEW s \in SUBSET D PROVE F[s] = Fold(F, s)
    <3>1. CASE s = {}
      BY <1>a, <3>1 DEF Sums
    <3>2. CASE s # {}
      <4>1. Pick(s) \in s
        BY <3>2
      <4>2. PICK p : p = Pick(s)
        OBVIOUS
      <4>3. PICK q \in SUBSET D : q = s \ {p}
        OBVIOUS
      <4>4. p \in D /\ q \cup {p} = s /\ p \notin q
        BY <4>1, <4>2, <4>3
      <4>5. F[q \cup {p}] = F[q] + v[p] /\ F[q] \in Nat /\ v[p] \in Nat
        <5>1. v[p] \in Nat
          BY <1>a, <4>4
        <5> QED BY <1>a, <4>4, <5>1 DEF Sums
      <4>6. F[s] = v[p] + F[s \ {p}]
        <5>1. F[s] = F[q] + v[p]
          BY <4>4, <4>5
        <5>2. F[q] + v[p] = v[p] + F[q]
          BY <4>5
        <5> QED BY <4>3, <5>1, <5>2
      <4> HIDE DEF Pick
      <4> QED BY <3>2, <4>2, <4>6
    <3> QED BY <3>1, <3>2
  <2> HIDE DEF Fold
  <2>2. F = [s \in SUBSET D |-> F[s]]
    BY <1>a DEF Sums
  <2> QED BY <2>1, <2>2
<1>3. iter = [s \in SUBSET D |-> Fold(iter, s)]
  <2> HIDE DEF Fold
  <2> QED BY <1>2
<1> HIDE DEF iter
<1> DEFINE N == Cardinality(D)
           G == {n \in 0 .. N : \A T \in SUBSET D : Cardinality(T) = n => iter[T] = F[T]}
<1>4. N \in Nat
  BY <1>a, SubsetSizes
<1>5. 0 \in G
  <2> SUFFICES ASSUME NEW T \in SUBSET D, Cardinality(T) = 0 PROVE iter[T] = F[T]
    BY <1>4
  <2>1. T = {}
    BY <1>a, SubsetSizes
  <2> QED BY <1>2, <1>3, <2>1
<1>6. ASSUME NEW n \in 1 .. N, n - 1 \in G PROVE n \in G
  <2> SUFFICES ASSUME NEW T \in SUBSET D, Cardinality(T) = n PROVE iter[T] = F[T]
    BY <1>4
  <2>1. T # {}
    BY <1>4, <1>a, SubsetSizes
  <2>2. Pick(T) \in T
    BY <2>1
  <2> DEFINE R == T \ {Pick(T)}
  <2>3. iter[T] = v[Pick(T)] + iter[R] /\ F[T] = v[Pick(T)] + F[R]
    <3>1. iter[T] = Fold(iter, T) /\ F[T] = Fold(F, T)
      <4> HIDE DEF Fold
      <4> QED BY <1>2, <1>3
    <3> HIDE DEF Pick
    <3> QED BY <2>1, <3>1
  <2> HIDE DEF Pick
  <2>4. Cardinality(R) = n - 1 /\ R \in SUBSET D
    BY <1>a, <2>2, SubsetSizes
  <2>5. iter[R] = F[R]
    BY <1>6, <2>4
  <2> QED BY <2>3, <2>5
<1>7. \A n \in 0 .. N : n \in G
  <2> HIDE DEF G, N
  <2> QED BY <1>4, <1>5, <1>6, FirstFailure
<1>8. iter[D] = F[D]
  BY <1>4, <1>7, <1>a
<1> QED BY <1>0, <1>1, <1>8

\* The sum over nothing, ...
LEMMA SumOfNone ==
    ASSUME NEW v, DOMAIN v = {}
    PROVE  Surveyor!SumFunction(v) = 0
<1>1. IsFiniteSet(DOMAIN v) /\ \A x \in DOMAIN v : v[x] \in Nat
  BY FS_EmptySet
<1>2. PICK F : Sums(F, v, DOMAIN v)
  BY <1>1, SumsExist
<1> QED BY <1>1, <1>2, FoldIsSum DEF Sums

\* ... with one value more, ...
LEMMA SumOfMore ==
    ASSUME NEW v, IsFiniteSet(DOMAIN v), \A n \in DOMAIN v : v[n] \in Nat,
           NEW w, NEW x, x \notin DOMAIN v, DOMAIN w = DOMAIN v \cup {x}, w[x] \in Nat,
           \A n \in DOMAIN v : w[n] = v[n]
    PROVE  Surveyor!SumFunction(v) \in Nat /\ Surveyor!SumFunction(w) = Surveyor!SumFunction(v) + w[x]
<1>1. IsFiniteSet(DOMAIN w) /\ \A n \in DOMAIN w : w[n] \in Nat
  BY FS_AddElement
<1>2. PICK F : Sums(F, w, DOMAIN w)
  BY <1>1, SumsExist
<1> DEFINE D == DOMAIN v
           E == [T \in SUBSET D |-> F[T]]
<1>3. F \in [SUBSET DOMAIN w -> Nat] /\ SUBSET D \subseteq SUBSET DOMAIN w
  BY <1>2 DEF Sums
<1>4. Sums(E, v, D)
  <2>1. E \in [SUBSET D -> Nat] /\ E[{}] = 0
    BY <1>2, <1>3 DEF Sums
  <2>2. ASSUME NEW T \in SUBSET D, NEW y \in D, y \notin T PROVE E[T \cup {y}] = E[T] + v[y]
    BY <1>2, <2>2 DEF Sums
  <2> HIDE DEF E
  <2> QED BY <2>1, <2>2 DEF Sums
<1>5. Surveyor!SumFunction(v) = E[D]
  <2> HIDE DEF E
  <2> QED BY <1>4, FoldIsSum
<1>6. E[D] = F[D] /\ F[D] \in Nat
  BY <1>3
<1>7. Surveyor!SumFunction(w) = F[DOMAIN w]
  BY <1>1, <1>2, FoldIsSum
<1>8. F[D \cup {x}] = F[D] + w[x]
  BY <1>2 DEF Sums
<1> QED BY <1>5, <1>6, <1>7, <1>8

\* ... and with the values in other places.
LEMMA SumMoved ==
    ASSUME NEW v, IsFiniteSet(DOMAIN v), \A n \in DOMAIN v : v[n] \in Nat,
           NEW w, IsFiniteSet(DOMAIN w), NEW b \in [DOMAIN v -> DOMAIN w],
           \A n, j \in DOMAIN v : n # j => b[n] # b[j],
           \A j \in DOMAIN w : \E n \in DOMAIN v : b[n] = j,
           \A n \in DOMAIN v : w[b[n]] = v[n]
    PROVE  Surveyor!SumFunction(v) = Surveyor!SumFunction(w)
<1>1. \A j \in DOMAIN w : w[j] \in Nat
  OBVIOUS
<1>2. PICK F : Sums(F, w, DOMAIN w)
  BY <1>1, SumsExist
<1> DEFINE D == DOMAIN v
           Image(T) == {b[n] : n \in T}
           E == [T \in SUBSET D |-> F[Image(T)]]
<1>3. F \in [SUBSET DOMAIN w -> Nat] /\ \A T \in SUBSET D : Image(T) \in SUBSET DOMAIN w
  BY <1>2 DEF Sums
<1>4. Sums(E, v, D)
  <2>1. E \in [SUBSET D -> Nat] /\ E[{}] = 0
    <3>1. Image({}) = {}
      OBVIOUS
    <3> HIDE DEF Image
    <3> QED BY <1>2, <1>3, <3>1 DEF Sums
  <2>2. ASSUME NEW T \in SUBSET D, NEW y \in D, y \notin T PROVE E[T \cup {y}] = E[T] + v[y]
    <3>1. Image(T \cup {y}) = Image(T) \cup {b[y]} /\ b[y] \notin Image(T) /\ b[y] \in DOMAIN w
      BY <2>2
    <3> HIDE DEF Image
    <3>2. F[Image(T) \cup {b[y]}] = F[Image(T)] + w[b[y]]
      BY <1>2, <1>3, <3>1 DEF Sums
    <3> QED BY <3>1, <3>2
  <2> HIDE DEF E
  <2> QED BY <2>1, <2>2 DEF Sums
<1>5. Surveyor!SumFunction(v) = E[D]
  <2> HIDE DEF E
  <2> QED BY <1>4, FoldIsSum
<1>6. Image(D) = DOMAIN w
  OBVIOUS
<1>7. Surveyor!SumFunction(w) = F[DOMAIN w]
  BY <1>1, <1>2, FoldIsSum
<1> QED BY <1>5, <1>6, <1>7

-----------------------------------------------------------------------------
(* Collections of surveys.                                                 *)

\* The operators of the instance are the ones the theorems of the library are about.
LEMMA SameCardinality == \A S : Surveyor!Cardinality(S) = Cardinality(S)
BY DEF Surveyor!Cardinality, Cardinality

\* The counters, and the callbacks that count.
LEMMA CountersAre ==
    /\ Surveyor!Counters = {"open", "seek", "read", "write", "close", "bytes"}
    /\ Surveyor!ToSet(Surveyor!TokenTypes) = {"open", "seek", "read", "write", "close"}
    /\ Surveyor!ToSet(Tail(Surveyor!TokenTypes)) = {"seek", "read", "write", "close"}
<1>1. Surveyor!ToSet(Surveyor!TokenTypes) = {"open", "seek", "read", "write", "close"}
  BY DEF Surveyor!ToSet, Surveyor!TokenTypes
<1>2. Tail(Surveyor!TokenTypes) = <<"seek", "read", "write", "close">>
  BY DEF Surveyor!TokenTypes
<1>3. Surveyor!ToSet(<<"seek", "read", "write", "close">>) = {"seek", "read", "write", "close"}
  BY DEF Surveyor!ToSet
<1> QED BY <1>1, <1>2, <1>3 DEF Surveyor!Counters

\* What a survey has counted.
LEMMA ValueFacts ==
    ASSUME NEW s \in Surveyor!FileSurveys
    PROVE  /\ \A k \in Surveyor!Counters : Surveyor!Value(s, k) \in Nat
           /\ s.fileName \in Files
           /\ Surveyor!Value(s, "open") = s.nOpens /\ Surveyor!Value(s, "close") = s.nCloses
           /\ Surveyor!Value(s, "seek") = s.nSeeks /\ Surveyor!Value(s, "read") = s.read.n
           /\ Surveyor!Value(s, "write") = s.write.n
           /\ Surveyor!Value(s, "bytes") = s.read.bytes + s.write.bytes
<1>1. /\ Surveyor!Value(s, "open") = s.nOpens /\ Surveyor!Value(s, "close") = s.nCloses
      /\ Surveyor!Value(s, "seek") = s.nSeeks /\ Surveyor!Value(s, "read") = s.read.n
      /\ Surveyor!Value(s, "write") = s.write.n
      /\ Surveyor!Value(s, "bytes") = s.read.bytes + s.write.bytes
  BY DEF Surveyor!Value
<1>2. /\ s.nOpens \in Nat /\ s.nCloses \in Nat /\ s.nSeeks \in Nat /\ s.read.n \in Nat
      /\ s.write.n \in Nat /\ s.read.bytes \in Nat /\ s.write.bytes \in Nat /\ s.fileName \in Files
  BY DEF Surveyor!FileSurveys, Surveyor!AccessCounts
<1> QED BY <1>1, <1>2, CountersAre

Collection(m) == m \in [DOMAIN m -> Surveyor!FileSurveys] /\ IsFiniteSet(DOMAIN m)

\* Sums and sizes are numbers.
LEMMA CollectionType ==
    ASSUME NEW m, Collection(m), NEW f, NEW k \in Surveyor!Counters
    PROVE  /\ IsFiniteSet(Surveyor!Of(m, f)) /\ Cardinality(Surveyor!Of(m, f)) \in Nat
           /\ Surveyor!aggregateSurveys(m, f, k) \in Nat
           /\ \A n \in Surveyor!Of(m, f) : Surveyor!Value(m[n], k) \in Nat
<1> DEFINE D == Surveyor!Of(m, f)
           v == [n \in D |-> Surveyor!Value(m[n], k)]
<1>1. D \subseteq DOMAIN m /\ \A n \in D : m[n] \in Surveyor!FileSurveys
  BY DEF Collection, Surveyor!Of
<1>2. IsFiniteSet(D) /\ Cardinality(D) \in Nat
  BY <1>1, FS_Subset, FS_CardinalityType DEF Collection
<1>3. \A n \in D : Surveyor!Value(m[n], k) \in Nat
  BY <1>1, ValueFacts
<1>4. Surveyor!aggregateSurveys(m, f, k) = Surveyor!SumFunction(v)
  BY DEF Surveyor!aggregateSurveys
<1>5. DOMAIN v = D /\ \A n \in D : v[n] \in Nat
  BY <1>3
<1> HIDE DEF v, D
<1>6. PICK F : Sums(F, v, D)
  BY <1>2, <1>5, SumsExist
<1>7. Surveyor!SumFunction(v) = F[D] /\ F[D] \in Nat
  BY <1>2, <1>5, <1>6, FoldIsSum DEF Sums
<1> QED BY <1>2, <1>3, <1>4, <1>7 DEF D

If(b, n) == IF b THEN n ELSE 0

\* One survey more.
Adds(w, m, x) ==
    /\ x \notin DOMAIN m /\ DOMAIN w = DOMAIN m \cup {x} /\ w[x] \in Surveyor!FileSurveys
    /\ \A n \in DOMAIN m : w[n] = m[n]

LEMMA SurveyAdded ==
    ASSUME NEW m, NEW w, NEW x, Collection(m), Adds(w, m, x), NEW f, NEW k \in Surveyor!Counters
    PROVE  /\ w \in [DOMAIN w -> Surveyor!FileSurveys] => Collection(w)
           /\ Surveyor!aggregateSurveys(w, f, k) = Surveyor!aggregateSurveys(m, f, k)
                 + If(w[x].fileName = f, Surveyor!Value(w[x], k))
           /\ Cardinality(Surveyor!Of(w, f)) = Cardinality(Surveyor!Of(m, f))
                 + If(w[x].fileName = f, 1)
<1> DEFINE D == Surveyor!Of(m, f)
           E == Surveyor!Of(w, f)
           v == [n \in D |-> Surveyor!Value(m[n], k)]
           u == [n \in E |-> Surveyor!Value(w[n], k)]
<1> USE DEF Adds
<1>1. /\ Surveyor!aggregateSurveys(m, f, k) = Surveyor!SumFunction(v)
      /\ Surveyor!aggregateSurveys(w, f, k) = Surveyor!SumFunction(u)
  BY DEF Surveyor!aggregateSurveys
<1>2. E = IF w[x].fileName = f THEN D \cup {x} ELSE D
  BY DEF Surveyor!Of
<1>3. x \notin D /\ IsFiniteSet(D) /\ Cardinality(D) \in Nat /\ D \subseteq DOMAIN m
      /\ \A n \in D : v[n] \in Nat
  BY CollectionType DEF Surveyor!Of
<1>4. Surveyor!aggregateSurveys(m, f, k) \in Nat /\ Surveyor!Value(w[x], k) \in Nat
  BY CollectionType, ValueFacts
<1>5. IsFiniteSet(DOMAIN w)
  BY FS_AddElement DEF Collection
<1>6. CASE w[x].fileName = f
  <2>1. E = D \cup {x} /\ DOMAIN v = D /\ DOMAIN u = D \cup {x} /\ u[x] = Surveyor!Value(w[x], k)
        /\ \A n \in D : u[n] = v[n]
    BY <1>2, <1>3, <1>6
  <2>2. Cardinality(E) = Cardinality(D) + 1
    BY <1>3, <2>1, FS_AddElement
  <2> HIDE DEF u, v, D, E
  <2>3. Surveyor!SumFunction(u) = Surveyor!SumFunction(v) + u[x]
    BY <1>3, <1>4, <2>1, SumOfMore
  <2> QED BY <1>1, <1>5, <1>6, <2>1, <2>2, <2>3 DEF If, Collection, D, E
<1>7. CASE w[x].fileName # f
  <2>1. E = D /\ \A n \in D : w[n] = m[n]
    BY <1>2, <1>3, <1>7
  <2>2. u = v
    BY <2>1
  <2> HIDE DEF u, v
  <2> QED BY <1>1, <1>3, <1>4, <1>5, <1>7, <2>1, <2>2 DEF If, Collection
<1> QED BY <1>6, <1>7

\* Surveys in other places.
Moves(b, m, w) ==
    /\ b \in [DOMAIN m -> DOMAIN w]
    /\ \A n, j \in DOMAIN m : n # j => b[n] # b[j]
    /\ \A j \in DOMAIN w : \E n \in DOMAIN m : b[n] = j
    /\ \A n \in DOMAIN m : w[b[n]] = m[n]

LEMMA SurveysMoved ==
    ASSUME NEW m, NEW w, NEW b, Collection(m), Collection(w), Moves(b, m, w),
           NEW f, NEW k \in Surveyor!Counters
    PROVE  /\ Surveyor!aggregateSurveys(w, f, k) = Surveyor!aggregateSurveys(m, f, k)
           /\ Cardinality(Surveyor!Of(w, f)) = Cardinality(Surveyor!Of(m, f))
<1> DEFINE D == Surveyor!Of(m, f)
           E == Surveyor!Of(w, f)
           v == [n \in D |-> Surveyor!Value(m[n], k)]
           u == [n \in E |-> Surveyor!Value(w[n], k)]
           c == [n \in D |-> b[n]]
<1> USE DEF Moves
<1>1. /\ Surveyor!aggregateSurveys(m, f, k) = Surveyor!SumFunction(v)
      /\ Surveyor!aggregateSurveys(w, f, k) = Surveyor!SumFunction(u)
  BY DEF Surveyor!aggregateSurveys
<1>2. /\ IsFiniteSet(D) /\ IsFiniteSet(E) /\ D \subseteq DOMAIN m /\ E \subseteq DOMAIN w
      /\ \A n \in D : v[n] \in Nat
  <2>1. D \subseteq DOMAIN m /\ E \subseteq DOMAIN w
    BY DEF Surveyor!Of
  <2>2. IsFiniteSet(D) /\ IsFiniteSet(E) /\ \A n \in D : Surveyor!Value(m[n], k) \in Nat
    BY CollectionType
  <2> QED BY <2>1, <2>2
<1>3. c \in [D -> E] /\ \A n \in D : c[n] = b[n]
  BY DEF Surveyor!Of
<1>4. \A j \in E : \E n \in D : c[n] = j
  BY DEF Surveyor!Of
<1>5. \A n, j \in D : n # j => c[n] # c[j]
  BY <1>2
<1>6. \A n \in D : u[c[n]] = v[n]
  <2> SUFFICES ASSUME NEW n \in D PROVE u[c[n]] = v[n]
    OBVIOUS
  <2>1. c[n] \in E /\ c[n] = b[n] /\ w[b[n]] = m[n]
    BY <1>2, <1>3
  <2> HIDE DEF c
  <2> QED BY <2>1
<1>7. DOMAIN v = D /\ DOMAIN u = E
  OBVIOUS
<1> HIDE DEF v, u, c, D, E
<1>8. Surveyor!SumFunction(v) = Surveyor!SumFunction(u)
  BY <1>2, <1>3, <1>4, <1>5, <1>6, <1>7, SumMoved
<1>9. ExistsBijection(D, E)
  <2>1. c \in Bijection(D, E)
    BY <1>3, <1>4, <1>5 DEF Bijection, Injection, Surjection, IsInjective
  <2> QED BY <2>1 DEF ExistsBijection
<1>10. Cardinality(E) = Cardinality(D)
  BY <1>2, <1>9, FS_Bijection
<1> QED BY <1>1, <1>8, <1>10 DEF D, E

\* A list of surveys is a collection, ...
LEMMA ListIsCollection ==
    ASSUME NEW c \in Seq(Surveyor!FileSurveys)
    PROVE  Collection(c) /\ DOMAIN c = 1 .. Len(c) /\ Len(c) \in Nat
<1>1. DOMAIN c = 1 .. Len(c) /\ Len(c) \in Nat
  OBVIOUS
<1>2. IsFiniteSet(1 .. Len(c))
  BY <1>1, FS_Interval
<1> QED BY <1>1, <1>2 DEF Collection

\* ... with one more at its end, ...
LEMMA SurveyAppended ==
    ASSUME NEW c \in Seq(Surveyor!FileSurveys), NEW s \in Surveyor!FileSurveys,
           NEW f, NEW k \in Surveyor!Counters
    PROVE  /\ Append(c, s) \in Seq(Surveyor!FileSurveys)
           /\ Surveyor!aggregateSurveys(Append(c, s), f, k) = Surveyor!aggregateSurveys(c, f, k)
                 + If(s.fileName = f, Surveyor!Value(s, k))
           /\ Cardinality(Surveyor!Of(Append(c, s), f)) = Cardinality(Surveyor!Of(c, f))
                 + If(s.fileName = f, 1)
<1>1. PICK w : w = Append(c, s)
  OBVIOUS
<1>2. PICK x : x = Len(c) + 1
  OBVIOUS
<1>3. Collection(c) /\ DOMAIN c = 1 .. Len(c) /\ Len(c) \in Nat
  BY ListIsCollection
<1>4. /\ w \in Seq(Surveyor!FileSurveys) /\ x \notin DOMAIN c /\ DOMAIN w = DOMAIN c \cup {x}
      /\ w[x] = s /\ \A n \in DOMAIN c : w[n] = c[n]
  BY <1>1, <1>2, <1>3
<1>5. w[x] \in Surveyor!FileSurveys
  BY <1>4
<1>6. Adds(w, c, x)
  BY <1>4, <1>5 DEF Adds
<1>7. /\ Surveyor!aggregateSurveys(w, f, k) = Surveyor!aggregateSurveys(c, f, k)
            + If(w[x].fileName = f, Surveyor!Value(w[x], k))
      /\ Cardinality(Surveyor!Of(w, f)) = Cardinality(Surveyor!Of(c, f)) + If(w[x].fileName = f, 1)
  BY <1>3, <1>6, SurveyAdded
<1> QED BY <1>1, <1>4, <1>7

\* ... or with one taken out.
LEMMA RemoveAtExact ==
    ASSUME NEW S, NEW c \in Seq(S), NEW j \in 1 .. Len(c)
    PROVE  /\ Surveyor!RemoveAt(c, j) \in Seq(S) /\ Len(Surveyor!RemoveAt(c, j)) = Len(c) - 1
           /\ \A n \in 1 .. Len(c) - 1 : Surveyor!RemoveAt(c, j)[n] = IF n < j THEN c[n] ELSE c[n + 1]
<1> DEFINE a == SubSeq(c, 1, j - 1)
           b == SubSeq(c, j + 1, Len(c))
           N == Len(c)
<1>1. N \in Nat /\ a \in Seq(S) /\ Len(a) = j - 1 /\ \A n \in 1 .. j - 1 : a[n] = c[n]
  OBVIOUS
<1>2. b \in Seq(S) /\ Len(b) = N - j /\ \A n \in 1 .. N - j : b[n] = c[n + j]
  OBVIOUS
<1> HIDE DEF a, b
<1>3. a \o b \in Seq(S) /\ Len(a \o b) = N - 1
  <2>1. a \o b \in Seq(S) /\ Len(a \o b) = Len(a) + Len(b)
    <3>1. a \in Seq(S) /\ b \in Seq(S)
      BY <1>1, <1>2
    <3> QED BY ONLY <3>1
  <2>2. (j - 1) + (N - j) = N - 1
    BY <1>1
  <2> QED BY <1>1, <1>2, <2>1, <2>2
<1>4. ASSUME NEW n \in 1 .. N - 1 PROVE (a \o b)[n] = IF n < j THEN c[n] ELSE c[n + 1]
  <2>1. CASE n < j
    BY <1>1, <1>2, <2>1
  <2>2. CASE ~(n < j)
    <3>1. n - (j - 1) \in 1 .. N - j /\ (n - (j - 1)) + j = n + 1
      BY <1>1, <2>2
    <3>2. (a \o b)[n] = b[n - (j - 1)]
      BY <1>1, <1>2, <2>2
    <3>3. b[n - (j - 1)] = c[(n - (j - 1)) + j]
      BY <1>2, <3>1
    <3> QED BY <2>2, <3>1, <3>2, <3>3
  <2> QED BY <2>1, <2>2
<1> QED BY <1>3, <1>4 DEF Surveyor!RemoveAt, a, b

LEMMA SurveyTaken ==
    ASSUME NEW c \in Seq(Surveyor!FileSurveys), NEW j \in 1 .. Len(c),
           NEW f, NEW k \in Surveyor!Counters
    PROVE  /\ Surveyor!RemoveAt(c, j) \in Seq(Surveyor!FileSurveys)
           /\ Surveyor!aggregateSurveys(c, f, k) = Surveyor!aggregateSurveys(Surveyor!RemoveAt(c, j), f, k)
                 + If(c[j].fileName = f, Surveyor!Value(c[j], k))
           /\ Cardinality(Surveyor!Of(c, f)) = Cardinality(Surveyor!Of(Surveyor!RemoveAt(c, j), f))
                 + If(c[j].fileName = f, 1)
<1>1. PICK r : r = Surveyor!RemoveAt(c, j)
  OBVIOUS
<1>2. /\ r \in Seq(Surveyor!FileSurveys) /\ Len(r) = Len(c) - 1
      /\ \A n \in 1 .. Len(c) - 1 : r[n] = IF n < j THEN c[n] ELSE c[n + 1]
  BY <1>1, RemoveAtExact
<1>3. Collection(c) /\ DOMAIN c = 1 .. Len(c) /\ Len(c) \in Nat /\ Collection(r) /\ DOMAIN r = 1 .. Len(r)
  BY <1>2, ListIsCollection
<1> DEFINE m == [n \in DOMAIN c \ {j} |-> c[n]]
           b == [n \in DOMAIN c \ {j} |-> IF n < j THEN n ELSE n - 1]
<1>4. DOMAIN m = DOMAIN c \ {j} /\ \A n \in DOMAIN m : c[n] = m[n] /\ m[n] \in Surveyor!FileSurveys
  BY <1>3 DEF Collection
<1>5. Collection(m)
  <2>1. IsFiniteSet(DOMAIN c \ {j})
    BY <1>3, FS_RemoveElement DEF Collection
  <2> QED BY <1>4, <2>1 DEF Collection
<1>6. /\ b \in [DOMAIN m -> DOMAIN r]
      /\ \A n \in DOMAIN m : b[n] = IF n < j THEN n ELSE n - 1
  BY <1>2, <1>3
<1> HIDE DEF m, b
<1>7. \A n, i_1 \in DOMAIN m : n # i_1 => b[n] # b[i_1]
  BY <1>3, <1>4, <1>6
<1>8. \A q \in DOMAIN r : \E n \in DOMAIN m : b[n] = q
  <2> SUFFICES ASSUME NEW q \in DOMAIN r PROVE \E n \in DOMAIN m : b[n] = q
    OBVIOUS
  <2>1. CASE q < j
    <3>1. q \in DOMAIN m
      BY <1>2, <1>3, <1>4, <2>1
    <3> QED BY <1>6, <2>1, <3>1
  <2>2. CASE ~(q < j)
    <3>1. q + 1 \in DOMAIN m /\ ~(q + 1 < j) /\ (q + 1) - 1 = q
      BY <1>2, <1>3, <1>4, <2>2
    <3> QED BY <1>6, <3>1
  <2> QED BY <2>1, <2>2
<1>9. \A n \in DOMAIN m : r[b[n]] = m[n]
  <2> SUFFICES ASSUME NEW n \in DOMAIN m PROVE r[b[n]] = m[n]
    OBVIOUS
  <2>1. n \in 1 .. Len(c) /\ n # j /\ m[n] = c[n]
    BY <1>3, <1>4
  <2>2. CASE n < j
    <3>1. b[n] = n /\ n \in 1 .. Len(c) - 1
      BY <1>3, <1>6, <2>1, <2>2
    <3> QED BY <1>2, <2>1, <2>2, <3>1
  <2>3. CASE ~(n < j)
    <3>1. b[n] = n - 1 /\ n - 1 \in 1 .. Len(c) - 1 /\ ~(n - 1 < j) /\ (n - 1) + 1 = n
      BY <1>3, <1>6, <2>1, <2>3
    <3>2. r[n - 1] = c[(n - 1) + 1]
      BY <1>2, <3>1
    <3> QED BY <2>1, <3>1, <3>2
  <2> QED BY <2>2, <2>3
<1>10. Moves(b, m, r)
  BY <1>6, <1>7, <1>8, <1>9 DEF Moves
<1>11. /\ Surveyor!aggregateSurveys(r, f, k) = Surveyor!aggregateSurveys(m, f, k)
       /\ Cardinality(Surveyor!Of(r, f)) = Cardinality(Surveyor!Of(m, f))
  BY <1>3, <1>5, <1>10, SurveysMoved
<1>12. Adds(c, m, j)
  BY <1>3, <1>4 DEF Adds
<1>13. /\ Surveyor!aggregateSurveys(c, f, k) = Surveyor!aggregateSurveys(m, f, k)
             + If(c[j].fileName = f, Surveyor!Value(c[j], k))
       /\ Cardinality(Surveyor!Of(c, f)) = Cardinality(Surveyor!Of(m, f)) + If(c[j].fileName = f, 1)
  BY <1>5, <1>12, SurveyAdded
<1> QED BY <1>1, <1>2, <1>11, <1>13

-----------------------------------------------------------------------------
(* What the callbacks do to the counts.                                    *)

Agree(m, c, hd, pk) ==
    \A f \in Files :
        /\ Cardinality(Surveyor!Of(m, f)) + Cardinality(Surveyor!Of(c, f)) = pk[f]
        /\ \A k \in Surveyor!Counters :
              Surveyor!aggregateSurveys(m, f, k) + Surveyor!aggregateSurveys(c, f, k) = hd[f][k]

\* One call of a kind, of n bytes, adds to a counter, to a survey and to the history.
Inc(kind, n, k) == IF k = kind THEN 1 ELSE If(k = "bytes", n)
Grows(s, s2, kind, n) ==
    /\ s2 \in Surveyor!FileSurveys /\ s2.fileName = s.fileName
    /\ \A k \in Surveyor!Counters : Surveyor!Value(s2, k) = Surveyor!Value(s, k) + Inc(kind, n, k)
Counts(hd2, hd, f, kind, n) ==
    \A g \in Files, k \in Surveyor!Counters : hd2[g][k] = hd[g][k] + If(g = f, Inc(kind, n, k))

\* The first and the last of some positions.
LEMMA Extremes ==
    ASSUME NEW N \in Nat, NEW S \in SUBSET (1 .. N), S # {}
    PROVE  Surveyor!Min(S) \in S /\ Surveyor!Max(S) \in S
<1>1. \E x \in S : \A y \in S : x <= y
  <2> SUFFICES ASSUME ~ \E x \in S : \A y \in S : x <= y PROVE FALSE
    OBVIOUS
  <2> DEFINE G == {n \in 0 .. N : \A y \in S : y > n}
  <2>1. 0 \in G
    OBVIOUS
  <2>2. ASSUME NEW n \in 1 .. N, n - 1 \in G PROVE n \in G
    <3>1. \A y \in S : y >= n
      BY <2>2
    <3>2. n \notin S
      BY <3>1
    <3> QED BY <3>1, <3>2
  <2> HIDE DEF G
  <2>3. \A n \in 0 .. N : n \in G
    BY <2>1, <2>2, FirstFailure
  <2>4. N \in G
    BY <2>3
  <2>5. PICK y \in S : y \in 1 .. N
    OBVIOUS
  <2> QED BY <2>4, <2>5 DEF G
<1>2. \E x \in S : \A y \in S : x >= y
  <2> SUFFICES ASSUME ~ \E x \in S : \A y \in S : x >= y PROVE FALSE
    OBVIOUS
  <2> DEFINE G == {n \in 0 .. N : \A y \in S : y <= N - n}
  <2>1. 0 \in G
    OBVIOUS
  <2>2. ASSUME NEW n \in 1 .. N, n - 1 \in G PROVE n \in G
    <3>1. \A y \in S : y <= N - (n - 1)
      BY <2>2
    <3>2. N - (n - 1) \notin S
      BY <3>1
    <3> QED BY <3>1, <3>2
  <2> HIDE DEF G
  <2>3. \A n \in 0 .. N : n \in G
    BY <2>1, <2>2, FirstFailure
  <2>4. N \in G
    BY <2>3
  <2>5. PICK y \in S : y \in 1 .. N
    OBVIOUS
  <2> QED BY <2>4, <2>5 DEF G
<1> QED BY <1>1, <1>2 DEF Surveyor!Min, Surveyor!Max

LEMMA MaxOfTwo ==
    ASSUME NEW a \in Nat, NEW b \in Nat
    PROVE  Surveyor!Max({a, b}) = IF a >= b THEN a ELSE b
<1>1. \E x \in {a, b} : \A y \in {a, b} : x >= y
  OBVIOUS
<1>2. PICK x \in {a, b} : x = Surveyor!Max({a, b}) /\ \A y \in {a, b} : x >= y
  BY <1>1 DEF Surveyor!Max
<1>3. x >= a /\ x >= b
  BY <1>2
<1> QED BY <1>2, <1>3

\* A collection without one of its surveys, and with that one changed.
Less(m, x) == [y \in DOMAIN m \ {x} |-> m[y]]
Set(m, x, s) == [y \in DOMAIN m \cup {x} |-> IF y = x THEN s ELSE m[y]]

LEMMA SurveyChanged ==
    ASSUME NEW m, NEW x, NEW s2, Collection(m), x \in DOMAIN m, s2 \in Surveyor!FileSurveys,
           NEW f, NEW k \in Surveyor!Counters
    PROVE  /\ Collection(Less(m, x)) /\ Collection(Set(m, x, s2))
           /\ Surveyor!aggregateSurveys(m, f, k) = Surveyor!aggregateSurveys(Less(m, x), f, k)
                 + If(m[x].fileName = f, Surveyor!Value(m[x], k))
           /\ Cardinality(Surveyor!Of(m, f)) = Cardinality(Surveyor!Of(Less(m, x), f))
                 + If(m[x].fileName = f, 1)
           /\ Surveyor!aggregateSurveys(Set(m, x, s2), f, k)
                 = Surveyor!aggregateSurveys(Less(m, x), f, k)
                   + If(s2.fileName = f, Surveyor!Value(s2, k))
           /\ Cardinality(Surveyor!Of(Set(m, x, s2), f)) = Cardinality(Surveyor!Of(Less(m, x), f))
                 + If(s2.fileName = f, 1)
<1> DEFINE m0 == Less(m, x)
           w == Set(m, x, s2)
<1> USE DEF Less, Set
<1>1. \A y \in DOMAIN m : m[y] \in Surveyor!FileSurveys
  BY DEF Collection
<1>2. Collection(m0)
  <2>1. IsFiniteSet(DOMAIN m \ {x})
    BY FS_RemoveElement DEF Collection
  <2> QED BY <1>1, <2>1 DEF Collection
<1>3. Adds(m, m0, x)
  BY <1>1 DEF Adds
<1>4. Adds(w, m0, x)
  BY DEF Adds
<1>5. w \in [DOMAIN w -> Surveyor!FileSurveys] /\ w[x] = s2
  BY <1>1
<1> HIDE DEF m0, w, Less, Set
<1>6. Collection(w)
  BY <1>2, <1>4, <1>5, SurveyAdded
<1>7. /\ Surveyor!aggregateSurveys(m, f, k) = Surveyor!aggregateSurveys(m0, f, k)
            + If(m[x].fileName = f, Surveyor!Value(m[x], k))
      /\ Cardinality(Surveyor!Of(m, f)) = Cardinality(Surveyor!Of(m0, f)) + If(m[x].fileName = f, 1)
  BY <1>2, <1>3, SurveyAdded
<1>8. /\ Surveyor!aggregateSurveys(w, f, k) = Surveyor!aggregateSurveys(m0, f, k)
            + If(w[x].fileName = f, Surveyor!Value(w[x], k))
      /\ Cardinality(Surveyor!Of(w, f)) = Cardinality(Surveyor!Of(m0, f)) + If(w[x].fileName = f, 1)
  BY <1>2, <1>4, SurveyAdded
<1> QED BY <1>2, <1>5, <1>6, <1>7, <1>8 DEF m0, w

\* A call on an open file, ...
LEMMA CallCounted ==
    ASSUME NEW m, NEW c, NEW hd, NEW pk, NEW x, NEW s2, NEW hd2, NEW kind, NEW n,
           Collection(m), Collection(c), Agree(m, c, hd, pk), x \in DOMAIN m, n \in Nat,
           Grows(m[x], s2, kind, n), Counts(hd2, hd, m[x].fileName, kind, n)
    PROVE  Collection(Set(m, x, s2)) /\ Agree(Set(m, x, s2), c, hd2, pk)
<1>1. PICK w : w = Set(m, x, s2)
  OBVIOUS
<1>2. PICK m0 : m0 = Less(m, x)
  OBVIOUS
<1>3. s2 \in Surveyor!FileSurveys /\ s2.fileName = m[x].fileName /\ m[x] \in Surveyor!FileSurveys
  BY DEF Grows, Collection
<1>4. ASSUME NEW f \in Files, NEW k \in Surveyor!Counters
      PROVE  /\ Collection(w)
             /\ Cardinality(Surveyor!Of(w, f)) + Cardinality(Surveyor!Of(c, f)) = pk[f]
             /\ Surveyor!aggregateSurveys(w, f, k) + Surveyor!aggregateSurveys(c, f, k) = hd2[f][k]
  <2>1. /\ Collection(m0) /\ Collection(w)
        /\ Surveyor!aggregateSurveys(m, f, k) = Surveyor!aggregateSurveys(m0, f, k)
                     + If(m[x].fileName = f, Surveyor!Value(m[x], k))
        /\ Cardinality(Surveyor!Of(m, f)) = Cardinality(Surveyor!Of(m0, f))
                     + If(m[x].fileName = f, 1)
        /\ Surveyor!aggregateSurveys(w, f, k) = Surveyor!aggregateSurveys(m0, f, k)
                     + If(s2.fileName = f, Surveyor!Value(s2, k))
        /\ Cardinality(Surveyor!Of(w, f)) = Cardinality(Surveyor!Of(m0, f))
                     + If(s2.fileName = f, 1)
    BY <1>1, <1>2, <1>3, SurveyChanged
  <2>2. Cardinality(Surveyor!Of(w, f)) = Cardinality(Surveyor!Of(m, f))
    BY <1>3, <2>1
  <2>3. /\ Surveyor!aggregateSurveys(m0, f, k) \in Nat /\ Surveyor!aggregateSurveys(c, f, k) \in Nat
        /\ Surveyor!Value(m[x], k) \in Nat
    BY <1>3, <2>1, CollectionType, ValueFacts
  <2>4. /\ Surveyor!aggregateSurveys(m, f, k) + Surveyor!aggregateSurveys(c, f, k) = hd[f][k]
        /\ hd2[f][k] = hd[f][k] + If(f = m[x].fileName, Inc(kind, n, k))
        /\ Surveyor!Value(s2, k) = Surveyor!Value(m[x], k) + Inc(kind, n, k) /\ Inc(kind, n, k) \in Nat
    BY DEF Agree, Counts, Grows, Inc, If
  <2>5. Surveyor!aggregateSurveys(w, f, k) + Surveyor!aggregateSurveys(c, f, k) = hd2[f][k]
    <3>1. CASE f = m[x].fileName
      BY <1>3, <2>1, <2>3, <2>4, <3>1 DEF If
    <3>2. CASE f # m[x].fileName
      BY <1>3, <2>1, <2>3, <2>4, <3>2 DEF If
    <3> QED BY <3>1, <3>2
  <2> QED BY <2>1, <2>2, <2>5 DEF Agree
<1>5. "open" \in Surveyor!Counters /\ m[x].fileName \in Files
  BY <1>3, CountersAre, ValueFacts
<1> QED BY <1>1, <1>4, <1>5 DEF Agree

\* ... a close, which moves the survey to the closed ones, ...
LEMMA CloseCounted ==
    ASSUME NEW m, NEW c, NEW hd, NEW pk, NEW x, NEW s2, NEW hd2,
           Collection(m), c \in Seq(Surveyor!FileSurveys), Agree(m, c, hd, pk), x \in DOMAIN m,
           Grows(m[x], s2, "close", 0), Counts(hd2, hd, m[x].fileName, "close", 0)
    PROVE  Agree(Less(m, x), Append(c, s2), hd2, pk)
<1>1. PICK a : a = Append(c, s2)
  OBVIOUS
<1>2. PICK m0 : m0 = Less(m, x)
  OBVIOUS
<1>3. s2 \in Surveyor!FileSurveys /\ s2.fileName = m[x].fileName /\ m[x] \in Surveyor!FileSurveys
  BY DEF Grows, Collection
<1>4. Collection(c)
  BY ListIsCollection
<1>5. ASSUME NEW f \in Files, NEW k \in Surveyor!Counters
      PROVE  /\ Cardinality(Surveyor!Of(m0, f)) + Cardinality(Surveyor!Of(a, f)) = pk[f]
             /\ Surveyor!aggregateSurveys(m0, f, k) + Surveyor!aggregateSurveys(a, f, k) = hd2[f][k]
  <2>1. /\ Collection(m0)
        /\ Surveyor!aggregateSurveys(m, f, k) = Surveyor!aggregateSurveys(m0, f, k)
                     + If(m[x].fileName = f, Surveyor!Value(m[x], k))
        /\ Cardinality(Surveyor!Of(m, f)) = Cardinality(Surveyor!Of(m0, f))
                     + If(m[x].fileName = f, 1)
    <3>1. PICK w : w = Set(m, x, s2)
      OBVIOUS
    <3> QED BY <1>2, <1>3, <3>1, SurveyChanged
  <2>2. /\ Surveyor!aggregateSurveys(a, f, k) = Surveyor!aggregateSurveys(c, f, k)
              + If(s2.fileName = f, Surveyor!Value(s2, k))
        /\ Cardinality(Surveyor!Of(a, f)) = Cardinality(Surveyor!Of(c, f)) + If(s2.fileName = f, 1)
    BY <1>1, <1>3, SurveyAppended
  <2>3. /\ Surveyor!aggregateSurveys(m0, f, k) \in Nat /\ Surveyor!aggregateSurveys(c, f, k) \in Nat
        /\ Cardinality(Surveyor!Of(m0, f)) \in Nat /\ Cardinality(Surveyor!Of(c, f)) \in Nat
    BY <1>4, <2>1, CollectionType
  <2>4. Surveyor!Value(m[x], k) \in Nat
    BY <1>3, ValueFacts
  <2>5. /\ Surveyor!aggregateSurveys(m, f, k) + Surveyor!aggregateSurveys(c, f, k) = hd[f][k]
        /\ Cardinality(Surveyor!Of(m, f)) + Cardinality(Surveyor!Of(c, f)) = pk[f]
        /\ hd2[f][k] = hd[f][k] + If(f = m[x].fileName, Inc("close", 0, k))
        /\ Surveyor!Value(s2, k) = Surveyor!Value(m[x], k) + Inc("close", 0, k)
        /\ Inc("close", 0, k) \in Nat
    BY DEF Agree, Counts, Grows, Inc, If
  <2>6. Surveyor!aggregateSurveys(m0, f, k) + Surveyor!aggregateSurveys(a, f, k) = hd2[f][k]
    <3>1. CASE f = m[x].fileName
      BY <1>3, <2>1, <2>2, <2>3, <2>4, <2>5, <3>1 DEF If
    <3>2. CASE f # m[x].fileName
      BY <1>3, <2>1, <2>2, <2>3, <2>4, <2>5, <3>2 DEF If
    <3> QED BY <3>1, <3>2
  <2>7. Cardinality(Surveyor!Of(m0, f)) + Cardinality(Surveyor!Of(a, f)) = pk[f]
    BY <1>3, <2>1, <2>2, <2>3, <2>5 DEF If
  <2> QED BY <2>6, <2>7
<1>6. "open" \in Surveyor!Counters
  BY CountersAre
<1> QED BY <1>1, <1>2, <1>5, <1>6 DEF Agree

\* ... and an open, which begins a survey ...
Peak(pk2, pk, m, f) ==
    \A g \in Files : pk2[g] = IF g = f THEN Surveyor!Max({pk[g], Cardinality(Surveyor!Of(m, g)) + 1})
                              ELSE pk[g]

LEMMA NewSurvey ==
    ASSUME NEW f \in Files
    PROVE  /\ Surveyor!FileSurvey(f) \in Surveyor!FileSurveys /\ Surveyor!FileSurvey(f).fileName = f
           /\ \A k \in Surveyor!Counters : Surveyor!Value(Surveyor!FileSurvey(f), k) = 0
<1>1. PICK s : s = Surveyor!FileSurvey(f)
  OBVIOUS
<1>2. Surveyor!Accesses \in Surveyor!AccessCounts
  BY DEF Surveyor!Accesses, Surveyor!AccessCounts
<1>3. s \in Surveyor!FileSurveys /\ s.fileName = f
  BY <1>1, <1>2 DEF Surveyor!FileSurvey, Surveyor!FileSurveys
<1>4. /\ s.nOpens = 0 /\ s.nCloses = 0 /\ s.nSeeks = 0 /\ s.read.n = 0 /\ s.write.n = 0
      /\ s.read.bytes = 0 /\ s.write.bytes = 0
  BY <1>1 DEF Surveyor!FileSurvey, Surveyor!Accesses
<1> QED BY <1>1, <1>3, <1>4, ValueFacts, CountersAre

LEMMA OpenCounted ==
    ASSUME NEW m, NEW c, NEW hd, NEW pk, NEW x, NEW s2, NEW hd2, NEW pk2, NEW f \in Files,
           Collection(m), c \in Seq(Surveyor!FileSurveys), Agree(m, c, hd, pk), x \notin DOMAIN m,
           Surveyor!Of(c, f) = {}, Grows(Surveyor!FileSurvey(f), s2, "open", 0),
           Counts(hd2, hd, f, "open", 0), Peak(pk2, pk, m, f)
    PROVE  Agree(Set(m, x, s2), c, hd2, pk2)
<1>1. PICK w : w = Set(m, x, s2)
  OBVIOUS
<1>2. s2 \in Surveyor!FileSurveys /\ s2.fileName = f
  BY NewSurvey DEF Grows
<1>3. Adds(w, m, x) /\ w[x] = s2
  BY <1>1, <1>2 DEF Adds, Set
<1>4. Collection(c)
  BY ListIsCollection
<1>5. ASSUME NEW g \in Files, NEW k \in Surveyor!Counters
      PROVE  /\ Cardinality(Surveyor!Of(w, g)) + Cardinality(Surveyor!Of(c, g)) = pk2[g]
             /\ Surveyor!aggregateSurveys(w, g, k) + Surveyor!aggregateSurveys(c, g, k) = hd2[g][k]
  <2>1. /\ Surveyor!aggregateSurveys(w, g, k) = Surveyor!aggregateSurveys(m, g, k)
              + If(w[x].fileName = g, Surveyor!Value(w[x], k))
        /\ Cardinality(Surveyor!Of(w, g)) = Cardinality(Surveyor!Of(m, g)) + If(w[x].fileName = g, 1)
    <3>1. Collection(m) /\ Adds(w, m, x) /\ k \in Surveyor!Counters
      BY <1>3
    <3> QED BY ONLY <3>1, SurveyAdded
  <2>2. /\ Surveyor!aggregateSurveys(m, g, k) \in Nat /\ Surveyor!aggregateSurveys(c, g, k) \in Nat
        /\ Cardinality(Surveyor!Of(m, g)) \in Nat /\ Cardinality(Surveyor!Of(c, g)) \in Nat
    BY <1>4, CollectionType
  <2>3. /\ Surveyor!aggregateSurveys(m, g, k) + Surveyor!aggregateSurveys(c, g, k) = hd[g][k]
        /\ Cardinality(Surveyor!Of(m, g)) + Cardinality(Surveyor!Of(c, g)) = pk[g]
        /\ hd2[g][k] = hd[g][k] + If(g = f, Inc("open", 0, k))
        /\ Inc("open", 0, k) \in Nat
    BY DEF Agree, Counts, Inc, If
  <2>4. Surveyor!Value(s2, k) = Inc("open", 0, k)
    <3>1. Surveyor!Value(s2, k) = 0 + Inc("open", 0, k)
      BY NewSurvey DEF Grows
    <3> QED BY <2>3, <3>1
  <2>5. CASE g = f
    <3>1. Cardinality(Surveyor!Of(c, g)) = 0
      BY <2>5, FS_EmptySet
    <3>2. pk2[g] = Surveyor!Max({pk[g], Cardinality(Surveyor!Of(m, g)) + 1})
      BY <2>5 DEF Peak
    <3>3. pk[g] = Cardinality(Surveyor!Of(m, g))
      BY <2>2, <2>3, <3>1
    <3>4. pk2[g] = Cardinality(Surveyor!Of(m, g)) + 1
      BY <2>2, <3>2, <3>3, MaxOfTwo
    <3> QED BY <1>2, <1>3, <2>1, <2>2, <2>3, <2>4, <2>5, <3>1, <3>4 DEF If
  <2>6. CASE g # f
    <3>1. pk2[g] = pk[g]
      BY <2>6 DEF Peak
    <3> QED BY <1>2, <1>3, <2>1, <2>2, <2>3, <2>4, <2>6, <3>1 DEF If
  <2> QED BY <2>5, <2>6
<1>6. "open" \in Surveyor!Counters
  BY CountersAre
<1> QED BY <1>1, <1>5, <1>6 DEF Agree

\* ... or takes one from the closed ones.
LEMMA ReopenCounted ==
    ASSUME NEW m, NEW c, NEW hd, NEW pk, NEW x, NEW s2, NEW hd2, NEW pk2, NEW f \in Files, NEW j,
           Collection(m), c \in Seq(Surveyor!FileSurveys), Agree(m, c, hd, pk), x \notin DOMAIN m,
           j \in Surveyor!Of(c, f), Grows(c[j], s2, "open", 0),
           Counts(hd2, hd, f, "open", 0), Peak(pk2, pk, m, f)
    PROVE  Agree(Set(m, x, s2), Surveyor!RemoveAt(c, j), hd2, pk2)
<1>1. PICK w : w = Set(m, x, s2)
  OBVIOUS
<1>a. PICK r : r = Surveyor!RemoveAt(c, j)
  OBVIOUS
<1>b. j \in 1 .. Len(c) /\ c[j] \in Surveyor!FileSurveys /\ c[j].fileName = f
  BY ListIsCollection DEF Surveyor!Of
<1>2. s2 \in Surveyor!FileSurveys /\ s2.fileName = f
  BY <1>b DEF Grows
<1>3. Adds(w, m, x) /\ w[x] = s2
  BY <1>1, <1>2 DEF Adds, Set
<1>4. Collection(c) /\ Collection(r)
  <2>1. "open" \in Surveyor!Counters
    BY CountersAre
  <2>2. r \in Seq(Surveyor!FileSurveys)
    BY <1>a, <1>b, <2>1, SurveyTaken
  <2> QED BY <2>2, ListIsCollection
<1>5. ASSUME NEW g \in Files, NEW k \in Surveyor!Counters
      PROVE  /\ Cardinality(Surveyor!Of(w, g)) + Cardinality(Surveyor!Of(r, g)) = pk2[g]
             /\ Surveyor!aggregateSurveys(w, g, k) + Surveyor!aggregateSurveys(r, g, k) = hd2[g][k]
  <2>1. /\ Surveyor!aggregateSurveys(w, g, k) = Surveyor!aggregateSurveys(m, g, k)
              + If(w[x].fileName = g, Surveyor!Value(w[x], k))
        /\ Cardinality(Surveyor!Of(w, g)) = Cardinality(Surveyor!Of(m, g)) + If(w[x].fileName = g, 1)
    <3>1. Collection(m) /\ Adds(w, m, x) /\ k \in Surveyor!Counters
      BY <1>3
    <3> QED BY ONLY <3>1, SurveyAdded
  <2>2. /\ Surveyor!aggregateSurveys(m, g, k) \in Nat /\ Surveyor!aggregateSurveys(r, g, k) \in Nat
        /\ Cardinality(Surveyor!Of(m, g)) \in Nat /\ Cardinality(Surveyor!Of(r, g)) \in Nat
    BY <1>4, CollectionType
  <2>3. /\ Surveyor!aggregateSurveys(m, g, k) + Surveyor!aggregateSurveys(c, g, k) = hd[g][k]
        /\ Cardinality(Surveyor!Of(m, g)) + Cardinality(Surveyor!Of(c, g)) = pk[g]
        /\ hd2[g][k] = hd[g][k] + If(g = f, Inc("open", 0, k))
        /\ Inc("open", 0, k) \in Nat
    BY DEF Agree, Counts, Inc, If
  <2>4. Surveyor!Value(s2, k) = Surveyor!Value(c[j], k) + Inc("open", 0, k)
        /\ Surveyor!Value(c[j], k) \in Nat
    BY <1>b, ValueFacts DEF Grows
  <2>5. /\ Surveyor!aggregateSurveys(c, g, k) = Surveyor!aggregateSurveys(r, g, k)
              + If(c[j].fileName = g, Surveyor!Value(c[j], k))
        /\ Cardinality(Surveyor!Of(c, g)) = Cardinality(Surveyor!Of(r, g)) + If(c[j].fileName = g, 1)
    <3>1. c \in Seq(Surveyor!FileSurveys) /\ j \in 1 .. Len(c) /\ k \in Surveyor!Counters
      BY <1>b
    <3> QED BY ONLY <1>a, <3>1, SurveyTaken
  <2>6. CASE g = f
    <3>1. /\ Cardinality(Surveyor!Of(c, g)) = Cardinality(Surveyor!Of(r, g)) + 1
          /\ Cardinality(Surveyor!Of(w, g)) = Cardinality(Surveyor!Of(m, g)) + 1
      BY <1>b, <1>2, <1>3, <2>1, <2>5, <2>6 DEF If
    <3>2. pk2[g] = Surveyor!Max({pk[g], Cardinality(Surveyor!Of(m, g)) + 1})
      BY <2>6 DEF Peak
    <3>3. pk[g] \in Nat /\ pk[g] >= Cardinality(Surveyor!Of(m, g)) + 1
      BY <2>2, <2>3, <3>1
    <3>4. pk2[g] = pk[g]
      BY <2>2, <3>2, <3>3, MaxOfTwo
    <3>5. Surveyor!aggregateSurveys(w, g, k) + Surveyor!aggregateSurveys(r, g, k) = hd2[g][k]
      BY <1>b, <1>2, <1>3, <2>1, <2>2, <2>3, <2>4, <2>5, <2>6 DEF If
    <3> QED BY <2>2, <2>3, <3>1, <3>4, <3>5
  <2>7. CASE g # f
    <3>1. pk2[g] = pk[g]
      BY <2>7 DEF Peak
    <3> QED BY <1>b, <1>2, <1>3, <2>1, <2>2, <2>3, <2>4, <2>5, <2>7, <3>1 DEF If
  <2> QED BY <2>6, <2>7
<1>6. "open" \in Surveyor!Counters
  BY CountersAre
<1> QED BY <1>1, <1>a, <1>5, <1>6 DEF Agree

-----------------------------------------------------------------------------
(* The threads.                                                            *)

\* A thread that logs ...
LEMMA LogFacts ==
    ASSUME NEW s \in Surveyor!LogStates
    PROVE  /\ s.op = "log" /\ s.act \in Surveyor!Acts /\ s.calls \in Nat /\ s.level \in Int /\ s.i \in Int
           /\ s.pc \in {"ensure", "init", "register", "find", "apply"}
           /\ s.pc = "find" => s.act.kind # "open"
<1>1. PICK A : A = Surveyor!Acts
  OBVIOUS
<1>2. PICK P : P = {"ensure", "init", "register", "find", "apply"}
  OBVIOUS
<1>3. /\ s \in [pc : P, op : {"log"}, act : A, calls : Nat, level : Int, i : Int, parent : Nat]
      /\ s.pc = "find" => s.act.kind # "open"
  BY <1>1, <1>2 DEF Surveyor!LogStates
<1>4. s.op = "log" /\ s.act \in A /\ s.calls \in Nat /\ s.level \in Int /\ s.i \in Int /\ s.pc \in P
  BY ONLY <1>3
<1> QED BY <1>1, <1>2, <1>3, <1>4

\* ... and where it may go.
LogGoes(s, x) ==
    \/ \E p \in {"ensure", "init", "register", "apply"} :
          \/ x = [s EXCEPT !.pc = p]
          \/ \E l \in Int, j \in Int : x = [s EXCEPT !.pc = p, !.level = l, !.i = j]
          \/ \E j \in Int : x = [s EXCEPT !.pc = p, !.i = j]
          \/ \E r \in Nat : x = [s EXCEPT !.pc = p, !.parent = r]
    \/ s.act.kind # "open" /\ x = [s EXCEPT !.pc = "find"]

LEMMA LogPlaces ==
    ASSUME NEW s \in Surveyor!LogStates, NEW x, LogGoes(s, x)
    PROVE  x \in Surveyor!LogStates /\ x.act = s.act /\ x.calls = s.calls
<1>1. PICK A : A = Surveyor!Acts
  OBVIOUS
<1>2. PICK P : P = {"ensure", "init", "register", "find", "apply"}
  OBVIOUS
<1>3. PICK R : R = [pc : P, op : {"log"}, act : A, calls : Nat, level : Int, i : Int, parent : Nat]
  OBVIOUS
<1>4. Surveyor!LogStates = {y \in R : y.pc = "find" => y.act.kind # "open"}
  BY <1>1, <1>2, <1>3 DEF Surveyor!LogStates
<1>5. s \in [pc : P, op : {"log"}, act : A, calls : Nat, level : Int, i : Int, parent : Nat]
  BY <1>3, <1>4
<1>6. CASE s.act.kind # "open" /\ x = [s EXCEPT !.pc = "find"]
  <2>1. "find" \in P
    BY <1>2
  <2>2. x \in R /\ x.pc = "find" /\ x.act = s.act /\ x.calls = s.calls
    BY ONLY <1>3, <1>5, <1>6, <2>1
  <2> QED BY <1>4, <1>6, <2>2
<1>7. ASSUME NEW p \in {"ensure", "init", "register", "apply"},
             \/ x = [s EXCEPT !.pc = p]
             \/ \E l \in Int, j \in Int : x = [s EXCEPT !.pc = p, !.level = l, !.i = j]
             \/ \E j \in Int : x = [s EXCEPT !.pc = p, !.i = j]
             \/ \E r \in Nat : x = [s EXCEPT !.pc = p, !.parent = r]
      PROVE  x \in Surveyor!LogStates /\ x.act = s.act /\ x.calls = s.calls
  <2>1. p \in P /\ p # "find"
    BY <1>2
  <2>2. x \in R /\ x.pc = p /\ x.act = s.act /\ x.calls = s.calls
    <3>1. CASE x = [s EXCEPT !.pc = p]
      BY ONLY <1>3, <1>5, <2>1, <3>1
    <3>2. ASSUME NEW l \in Int, NEW j \in Int, x = [s EXCEPT !.pc = p, !.level = l, !.i = j]
          PROVE  x \in R /\ x.pc = p /\ x.act = s.act /\ x.calls = s.calls
      BY ONLY <1>3, <1>5, <2>1, <3>2
    <3>3. ASSUME NEW j \in Int, x = [s EXCEPT !.pc = p, !.i = j]
          PROVE  x \in R /\ x.pc = p /\ x.act = s.act /\ x.calls = s.calls
      BY ONLY <1>3, <1>5, <2>1, <3>3
    <3>4. ASSUME NEW r \in Nat, x = [s EXCEPT !.pc = p, !.parent = r]
          PROVE  x \in R /\ x.pc = p /\ x.act = s.act /\ x.calls = s.calls
      BY ONLY <1>3, <1>5, <2>1, <3>4
    <3> QED BY <1>7, <3>1, <3>2, <3>3, <3>4
  <2> QED BY <1>4, <2>1, <2>2
<1> QED BY <1>6, <1>7 DEF LogGoes

\* A thread that initialises the plugin or reports ...
LEMMA RegistrarFacts ==
    ASSUME NEW s \in Surveyor!RegistrarStates
    PROVE  /\ s.op \in {"init", "report"} /\ s.level \in Int /\ s.i \in Int
           /\ s.pc \in {"init", "register", "report"}
BY DEF Surveyor!RegistrarStates

\* ... and where it may go.
RegistrarGoes(s, x) ==
    \E p \in {"init", "register", "report"} :
        \/ x = [s EXCEPT !.pc = p]
        \/ \E l \in Int, j \in Int : x = [s EXCEPT !.pc = p, !.level = l, !.i = j]
        \/ \E j \in Int : x = [s EXCEPT !.pc = p, !.i = j]

LEMMA RegistrarPlaces ==
    ASSUME NEW s \in Surveyor!RegistrarStates, NEW x, RegistrarGoes(s, x)
    PROVE  x \in Surveyor!RegistrarStates
<1>1. PICK p \in {"init", "register", "report"} :
        \/ x = [s EXCEPT !.pc = p]
        \/ \E l \in Int, j \in Int : x = [s EXCEPT !.pc = p, !.level = l, !.i = j]
        \/ \E j \in Int : x = [s EXCEPT !.pc = p, !.i = j]
  BY DEF RegistrarGoes
<1>2. CASE x = [s EXCEPT !.pc = p]
  BY <1>2 DEF Surveyor!RegistrarStates
<1>3. ASSUME NEW l \in Int, NEW j \in Int, x = [s EXCEPT !.pc = p, !.level = l, !.i = j]
      PROVE  x \in Surveyor!RegistrarStates
  BY <1>3 DEF Surveyor!RegistrarStates
<1>4. ASSUME NEW j \in Int, x = [s EXCEPT !.pc = p, !.i = j] PROVE x \in Surveyor!RegistrarStates
  BY <1>4 DEF Surveyor!RegistrarStates
<1> QED BY <1>1, <1>2, <1>3, <1>4

\* A call is logged, the plugin is initialised, a report begins.
LEMMA FirstPlaces ==
    /\ \A a \in Surveyor!Acts, c \in Nat :
          [Surveyor!Idle EXCEPT !.pc = "ensure", !.op = "log", !.act = a, !.calls = c] \in Surveyor!LogStates
    /\ \A o \in {"init", "report"}, l \in Int :
          [Surveyor!Idle EXCEPT !.pc = "init", !.op = o, !.level = l, !.i = 1] \in Surveyor!RegistrarStates
    /\ [Surveyor!Idle EXCEPT !.pc = "report", !.op = "report"] \in Surveyor!RegistrarStates
    /\ Surveyor!Idle.pc = "idle" /\ Surveyor!Idle.op = "none"
<1>1. ASSUME NEW o \in {"init", "report"}, NEW l \in Int
      PROVE  [Surveyor!Idle EXCEPT !.pc = "init", !.op = o, !.level = l, !.i = 1] \in Surveyor!RegistrarStates
  <2>1. PICK x : x = [Surveyor!Idle EXCEPT !.pc = "init", !.op = o, !.level = l, !.i = 1]
    OBVIOUS
  <2>2. x = [pc |-> "init", op |-> o, act |-> NoFile, calls |-> 0, level |-> l, i |-> 1, parent |-> 0]
    BY <2>1 DEF Surveyor!Idle
  <2>3. x \in Surveyor!RegistrarStates
    BY <2>2 DEF Surveyor!RegistrarStates
  <2> QED BY <2>1, <2>3
<1>0. [Surveyor!Idle EXCEPT !.pc = "report", !.op = "report"] \in Surveyor!RegistrarStates
  <2>1. PICK x : x = [Surveyor!Idle EXCEPT !.pc = "report", !.op = "report"]
    OBVIOUS
  <2>2. x = [pc |-> "report", op |-> "report", act |-> NoFile, calls |-> 0, level |-> 0, i |-> 0, parent |-> 0]
    BY <2>1 DEF Surveyor!Idle
  <2>3. x \in Surveyor!RegistrarStates
    BY <2>2 DEF Surveyor!RegistrarStates
  <2> QED BY <2>1, <2>3
<1>2. Surveyor!Idle.pc = "idle" /\ Surveyor!Idle.op = "none"
  BY DEF Surveyor!Idle
<1>3. ASSUME NEW a \in Surveyor!Acts, NEW c \in Nat
      PROVE  [Surveyor!Idle EXCEPT !.pc = "ensure", !.op = "log", !.act = a, !.calls = c] \in Surveyor!LogStates
  <2>1. PICK A : A = Surveyor!Acts
    OBVIOUS
  <2>2. PICK x : x = [Surveyor!Idle EXCEPT !.pc = "ensure", !.op = "log", !.act = a, !.calls = c]
    OBVIOUS
  <2>3. x = [pc |-> "ensure", op |-> "log", act |-> a, calls |-> c, level |-> 0, i |-> 0, parent |-> 0]
    BY <2>2 DEF Surveyor!Idle
  <2>4. /\ x \in [pc : {"ensure", "init", "register", "find", "apply"}, op : {"log"}, act : A, calls : Nat,
                  level : Int, i : Int, parent : Nat]
        /\ x.pc = "ensure"
    BY <1>3, <2>1, <2>3
  <2> QED BY <2>1, <2>2, <2>4 DEF Surveyor!LogStates
<1> QED BY <1>0, <1>1, <1>2, <1>3

\* Where the threads are.
LEMMA PlaceFacts ==
    ASSUME Surveyor!ThreadsInv, NEW t \in Loggers
    PROVE  /\ th[t] = Surveyor!Idle \/ th[t] \in Surveyor!LogStates \/ th[t] \in Surveyor!RegistrarStates
           /\ th[t].pc \in {"ensure", "find", "apply"} => th[t] \in Surveyor!LogStates
           /\ th[t].pc \in {"init", "register"} =>
                 th[t] \in Surveyor!LogStates \/ th[t] \in Surveyor!RegistrarStates
           /\ th[t].op = "log" => th[t] \in Surveyor!LogStates
<1>1. th[t] = Surveyor!Idle \/ th[t] \in Surveyor!LogStates \/ th[t] \in Surveyor!RegistrarStates
  BY DEF Surveyor!ThreadsInv, Surveyor!ThreadStates
<1>2. CASE th[t] = Surveyor!Idle
  BY <1>2, FirstPlaces
<1>3. CASE th[t] \in Surveyor!LogStates
  BY <1>3, LogFacts
<1>4. CASE th[t] \in Surveyor!RegistrarStates
  BY <1>4, RegistrarFacts
<1> QED BY <1>1, <1>2, <1>3, <1>4

\* A thread goes on with what it logs, if anything.
Goes(t, x) ==
    /\ th' = [th EXCEPT ![t] = x] /\ x \in Surveyor!ThreadStates
    /\ x.op = "log" => th[t].op = "log" /\ x.act = th[t].act /\ (th[t].calls = 1 => x.calls = 1)
Keeps(t) == \E x : Goes(t, x)

LEMMA BecomesIdle ==
    ASSUME NEW t, th' = [th EXCEPT ![t] = Surveyor!Idle]
    PROVE  Keeps(t)
<1>1. Goes(t, Surveyor!Idle)
  BY FirstPlaces DEF Goes, Surveyor!ThreadStates
<1> QED BY <1>1 DEF Keeps

\* A callback returns: the next one is called, or the thread is done.
LEMMA ReturnedKeeps ==
    ASSUME Surveyor!ThreadsInv, NEW t \in Loggers, th[t] \in Surveyor!LogStates, Surveyor!Returned(t)
    PROVE  /\ Keeps(t)
           /\ th[t].calls = 1 => th' = [th EXCEPT ![t] = Surveyor!Idle]
<1>1. CASE th[t].calls > 1
  <2>1. PICK c : c = th[t].calls - 1
    OBVIOUS
  <2>2. th[t].calls \in Nat /\ c \in Nat /\ th[t].calls # 1
    <3>1. th[t].calls \in Nat
      BY LogFacts
    <3> QED BY <1>1, <2>1, <3>1
  <2>3. PICK x : x = [th[t] EXCEPT !.pc = "ensure", !.calls = c, !.parent = 0]
    OBVIOUS
  <2>4. th' = [th EXCEPT ![t].pc = "ensure", ![t].calls = c, ![t].parent = 0]
    BY <1>1, <2>1 DEF Surveyor!Returned
  <2>5. th' = [th EXCEPT ![t] = x]
    <3>1. th \in [Loggers -> Surveyor!ThreadStates]
      BY DEF Surveyor!ThreadsInv
    <3> QED BY <2>3, <2>4, <3>1
  <2>6. x \in Surveyor!LogStates /\ x.act = th[t].act
    <3>1. PICK A : A = Surveyor!Acts
      OBVIOUS
    <3>2. PICK R : R = [pc : {"ensure", "init", "register", "find", "apply"}, op : {"log"}, act : A,
                        calls : Nat, level : Int, i : Int, parent : Nat]
      OBVIOUS
    <3>3. Surveyor!LogStates = {y \in R : y.pc = "find" => y.act.kind # "open"}
      BY <3>1, <3>2 DEF Surveyor!LogStates
    <3>4. th[t] \in R
      BY <3>3
    <3>5. x \in R /\ x.pc = "ensure" /\ x.act = th[t].act
      BY ONLY <2>2, <2>3, <3>2, <3>4
    <3> QED BY <3>3, <3>5
  <2>8. Goes(t, x)
    BY <2>2, <2>5, <2>6, LogFacts DEF Goes, Surveyor!ThreadStates
  <2> QED BY <2>2, <2>8 DEF Keeps
<1>2. CASE ~(th[t].calls > 1)
  BY <1>2, BecomesIdle DEF Surveyor!Returned
<1> QED BY <1>1, <1>2

\* A thread that goes on at another place.
LEMMA PlaceKeeps ==
    ASSUME NEW t, NEW x, th' = [th EXCEPT ![t] = x],
           \/ th[t] \in Surveyor!LogStates /\ LogGoes(th[t], x)
           \/ th[t] \in Surveyor!RegistrarStates /\ RegistrarGoes(th[t], x)
    PROVE  Keeps(t)
<1>1. CASE th[t] \in Surveyor!LogStates /\ LogGoes(th[t], x)
  <2>1. Goes(t, x)
    BY <1>1, LogPlaces, LogFacts DEF Goes, Surveyor!ThreadStates
  <2> QED BY <2>1 DEF Keeps
<1>2. CASE th[t] \in Surveyor!RegistrarStates /\ RegistrarGoes(th[t], x)
  <2>1. Goes(t, x)
    BY <1>2, RegistrarPlaces, RegistrarFacts DEF Goes, Surveyor!ThreadStates
  <2> QED BY <2>1 DEF Keeps
<1> QED BY <1>1, <1>2

\* A thread does what it does once the plugin is initialised.
LEMMA EnterKeeps ==
    ASSUME NEW t, Surveyor!Enter(t), 
           th[t] \in Surveyor!LogStates \/ (th[t] \in Surveyor!RegistrarStates /\ th[t].op = "report")
    PROVE  Keeps(t)
<1>1. CASE th[t] \in Surveyor!LogStates
  <2>1. th[t].op = "log"
    BY <1>1, LogFacts
  <2>2. PICK q : q = IF th[t].act.kind = "open" THEN "apply" ELSE "find"
    OBVIOUS
  <2>3. PICK x : x = [th[t] EXCEPT !.pc = q]
    OBVIOUS
  <2>4. th' = [th EXCEPT ![t] = x]
    BY <2>1, <2>2, <2>3 DEF Surveyor!Enter
  <2> QED BY <1>1, <2>2, <2>3, <2>4, PlaceKeeps DEF LogGoes
<1>2. CASE th[t] \in Surveyor!RegistrarStates /\ th[t].op = "report"
  <2>1. PICK x : x = [th[t] EXCEPT !.pc = "report"]
    OBVIOUS
  <2>2. th' = [th EXCEPT ![t] = x]
    BY <1>2, <2>1 DEF Surveyor!Enter
  <2> QED BY <1>2, <2>1, <2>2, PlaceKeeps DEF RegistrarGoes
<1> QED BY <1>1, <1>2

-----------------------------------------------------------------------------
(* The steps of the threads.                                               *)

\* The activities that a program logs.
LEMMA ActivityFacts ==
    ASSUME opens \in Nat, NEW k \in Surveyor!ToSet(Surveyor!TokenTypes), NEW a \in Surveyor!Activities(k)
    PROVE  /\ a \in Surveyor!Acts /\ a.kind = k /\ a.token \in Surveyor!Types
           /\ k = "open" => a.aid = opens + 1
<1>1. Surveyor!ToSet(Tokens[k]) \subseteq Surveyor!Types
  BY DEF Surveyor!Types
<1>2. \A ps \in Surveyor!Parents : ps \in Seq(Nat)
  <2>1. \A x, y \in Nat : <<x>> \in Seq(Nat) /\ <<x, y>> \in Seq(Nat)
    OBVIOUS
  <2> SUFFICES ASSUME NEW ps \in Surveyor!Parents PROVE ps \in Seq(Nat)
    OBVIOUS
  <2>2. \/ \E x \in 1 .. opens : ps = <<x>>
        \/ \E x \in 1 .. opens - 1, y \in 2 .. opens : ps = <<x, y>>
    BY DEF Surveyor!Parents
  <2>3. CASE \E x \in 1 .. opens : ps = <<x>>
    BY <2>1, <2>3
  <2>4. CASE \E x \in 1 .. opens - 1, y \in 2 .. opens : ps = <<x, y>>
    <3>1. PICK x \in Nat, y \in Nat : ps = <<x, y>>
      BY <2>4
    <3> QED BY <2>1, <3>1
  <2> QED BY <2>2, <2>3, <2>4
<1>3. CASE k = "open"
  <2>1. PICK x \in Surveyor!ToSet(Tokens[k]), f \in Files :
           a = [kind |-> k, token |-> x, aid |-> opens + 1, file |-> f]
    BY <1>3 DEF Surveyor!Activities
  <2> QED BY <1>1, <1>3, <2>1 DEF Surveyor!Acts
<1>4. CASE k # "open"
  <2>1. PICK x \in Surveyor!ToSet(Tokens[k]), ps \in Surveyor!Parents, fp \in FilePositions \cup {NoFile},
             n \in Sizes \cup {NoFile} :
           a = [kind |-> k, token |-> x, parents |-> ps, fp |-> fp, bytes |-> n]
    <3>1. CASE k = "seek"
      BY <3>1 DEF Surveyor!Activities, Surveyor!On
    <3>2. CASE k = "close"
      BY <3>2 DEF Surveyor!Activities, Surveyor!On
    <3>3. CASE k # "seek" /\ k # "close"
      BY <1>4, <3>3 DEF Surveyor!Activities, Surveyor!On
    <3> QED BY <3>1, <3>2, <3>3
  <2>2. k \in Surveyor!ToSet(Tail(Surveyor!TokenTypes))
    BY <1>4, CountersAre
  <2>3. ps \in Seq(Nat) /\ x \in Surveyor!Types
    BY <1>1, <1>2
  <2> QED BY <1>4, <2>1, <2>2, <2>3 DEF Surveyor!Acts
<1> QED BY <1>3, <1>4


\* What a step of a thread leaves alone, or only adds to.
Calm(t) ==
    /\ Keeps(t) /\ initLevel' \in Int /\ opens' = opens
    /\ registered' \in [Surveyor!Types -> Nat]
    /\ \A k \in Surveyor!Types : registered[k] <= registered'[k]

LEMMA CalmThreads ==
    ASSUME Surveyor!ThreadsInv, NEW t \in Loggers, Calm(t)
    PROVE  /\ Surveyor!ThreadsInv' /\ (Surveyor!RegisteredOnce' => Surveyor!RegisteredOnce)
           /\ Surveyor!CalledOnce => Surveyor!CalledOnce'
<1>1. PICK x : Goes(t, x)
  BY DEF Calm, Keeps
<1>2. /\ th' \in [Loggers -> Surveyor!ThreadStates] /\ th'[t] = x /\ \A u \in Loggers \ {t} : th'[u] = th[u]
  BY <1>1 DEF Goes, Surveyor!ThreadsInv
<1>3. Surveyor!ThreadsInv'
  BY <1>2 DEF Calm, Surveyor!ThreadsInv
<1>4. Surveyor!RegisteredOnce' => Surveyor!RegisteredOnce
  BY DEF Calm, Surveyor!RegisteredOnce, Surveyor!ThreadsInv
<1>5. Surveyor!CalledOnce => Surveyor!CalledOnce'
  BY <1>1, <1>2 DEF Goes, Surveyor!CalledOnce
<1> QED BY <1>3, <1>4, <1>5

\* The callbacks that are registered are unchanged.
LEMMA SameRegistered ==
    ASSUME Surveyor!ThreadsInv, NEW t, Keeps(t), initLevel' \in Int, UNCHANGED <<registered, opens>>
    PROVE  Calm(t)
BY DEF Calm, Surveyor!ThreadsInv

LEMMA EnsureSteps ==
    ASSUME Surveyor!ThreadsInv, NEW t \in Loggers, Surveyor!tryEnsureInitialization(t)
    PROVE  Calm(t)
<1>1. th[t] \in Surveyor!LogStates /\ initLevel' \in Int /\ initLevel \in Int /\ UNCHANGED <<registered, opens>>
  BY PlaceFacts DEF Surveyor!tryEnsureInitialization, Surveyor!ThreadsInv
<1>2. CASE initLevel = Surveyor!initializedLevel
  <2>1. Keeps(t)
    BY <1>1, <1>2, EnterKeeps DEF Surveyor!tryEnsureInitialization
  <2> QED BY <1>1, <2>1, SameRegistered
<1>3. CASE initLevel # Surveyor!initializedLevel
  <2>1. PICK x : x = [th[t] EXCEPT !.pc = "init", !.level = initLevel, !.i = 1]
    OBVIOUS
  <2>2. th' = [th EXCEPT ![t] = x]
    BY <1>3, <2>1 DEF Surveyor!tryEnsureInitialization
  <2>3. LogGoes(th[t], x)
    <3>1. "init" \in {"ensure", "init", "register", "apply"} /\ 1 \in Int
      OBVIOUS
    <3> QED BY <1>1, <2>1, <3>1, Zenon DEF LogGoes
  <2>4. Keeps(t)
    BY <1>1, <2>2, <2>3, PlaceKeeps
  <2> QED BY <1>1, <2>4, SameRegistered
<1> QED BY <1>2, <1>3

\* The autoconfigurator calls init; a report begins or ends.
LEMMA FirstSteps ==
    ASSUME Surveyor!ThreadsInv, NEW t \in Loggers,
           Surveyor!init(t) \/ Surveyor!prepareReport(t) \/ Surveyor!ReportEnds(t)
    PROVE  Calm(t)
<1>1. initLevel' \in Int /\ initLevel \in Int /\ UNCHANGED <<registered, opens>>
  BY DEF Surveyor!init, Surveyor!prepareReport, Surveyor!ReportEnds, Surveyor!ThreadsInv
<1>2. ASSUME NEW x \in Surveyor!RegistrarStates, th' = [th EXCEPT ![t] = x] PROVE Keeps(t)
  <2>1. Goes(t, x)
    BY <1>2, RegistrarFacts DEF Goes, Surveyor!ThreadStates
  <2> QED BY <2>1 DEF Keeps
<1>3. CASE Surveyor!init(t)
  BY <1>1, <1>2, <1>3, FirstPlaces, SameRegistered DEF Surveyor!init
<1>4. CASE Surveyor!prepareReport(t)
  BY <1>1, <1>2, <1>4, FirstPlaces, SameRegistered DEF Surveyor!prepareReport
<1>5. CASE Surveyor!ReportEnds(t)
  BY <1>1, <1>5, BecomesIdle, SameRegistered DEF Surveyor!ReportEnds
<1> QED BY <1>3, <1>4, <1>5

\* initPlugin returns, or goes to another level or to a registration.
LEMMA InitPluginSteps ==
    ASSUME Surveyor!ThreadsInv, NEW t \in Loggers, Surveyor!initPlugin(t)
    PROVE  Calm(t)
<1>1. /\ th[t] \in Surveyor!LogStates \/ th[t] \in Surveyor!RegistrarStates
      /\ initLevel \in Int /\ UNCHANGED <<registered, opens>>
  BY PlaceFacts DEF Surveyor!initPlugin, Surveyor!ThreadsInv, Surveyor!Lacks, Surveyor!InitReturns
<1>2. th[t].level \in Int
  BY <1>1, LogFacts, RegistrarFacts
<1>3. ASSUME NEW l \in Int, Surveyor!InitReturns(t, l) PROVE Keeps(t)
  <2>1. CASE th[t] \in Surveyor!LogStates
    <3>1. th[t].op = "log"
      BY <2>1, LogFacts
    <3> QED BY <1>3, <2>1, <3>1, EnterKeeps, ReturnedKeeps DEF Surveyor!InitReturns
  <2>2. CASE th[t] \in Surveyor!RegistrarStates
    <3>1. th[t].op \in {"init", "report"}
      BY <2>2, RegistrarFacts
    <3> QED BY <1>3, <2>2, <3>1, EnterKeeps, BecomesIdle DEF Surveyor!InitReturns
  <2> QED BY <1>1, <2>1, <2>2
<1>4. ASSUME NEW l \in Int, Surveyor!ToLevel(t, l) PROVE Keeps(t) /\ initLevel' \in Int
  <2>1. PICK x : x = [th[t] EXCEPT !.pc = "init", !.level = l, !.i = 1]
    OBVIOUS
  <2>2. th' = [th EXCEPT ![t] = x] /\ initLevel' = l
    BY <1>4, <2>1 DEF Surveyor!ToLevel
  <2>3. /\ "init" \in {"ensure", "init", "register", "apply"} /\ 1 \in Int
        /\ "init" \in {"init", "register", "report"}
    OBVIOUS
  <2>4. LogGoes(th[t], x)
    BY <2>1, <2>3, Zenon DEF LogGoes
  <2>5. RegistrarGoes(th[t], x)
    BY <2>1, <2>3, Zenon DEF RegistrarGoes
  <2> QED BY <1>1, <2>2, <2>4, <2>5, PlaceKeeps
<1>5. ASSUME th' = [th EXCEPT ![t].pc = "register"] PROVE Keeps(t)
  <2>1. PICK x : x = [th[t] EXCEPT !.pc = "register"]
    OBVIOUS
  <2>2. th' = [th EXCEPT ![t] = x]
    BY <1>5, <2>1
  <2> QED BY <1>1, <2>1, <2>2, PlaceKeeps DEF LogGoes, RegistrarGoes
<1>6. \/ \E l \in Int : Surveyor!InitReturns(t, l) /\ initLevel' \in Int
      \/ \E l \in Int : Surveyor!ToLevel(t, l)
      \/ th' = [th EXCEPT ![t].pc = "register"] /\ initLevel' \in Int
  <2>1. -1 \in Int /\ 2 \in Int /\ 8 \in Int /\ th[t].level + 1 \in Int
    BY <1>2
  <2> QED BY <1>1, <2>1 DEF Surveyor!initPlugin, Surveyor!Lacks, Surveyor!initializedLevel
<1>7. Keeps(t) /\ initLevel' \in Int
  BY <1>3, <1>4, <1>5, <1>6
<1> QED BY <1>1, <1>7, SameRegistered

\* A callback is registered, at the multiplexer.
LEMMA RegisterSteps ==
    ASSUME Surveyor!ThreadsInv, NEW t \in Loggers, Surveyor!registerForUcaid(t)
    PROVE  Calm(t)
<1>1. /\ th[t] \in Surveyor!LogStates \/ th[t] \in Surveyor!RegistrarStates
      /\ initLevel' \in Int /\ opens' = opens
  BY PlaceFacts DEF Surveyor!registerForUcaid, Surveyor!ThreadsInv
<1>2. PICK j \in Int : j = th[t].i + 1
  BY <1>1, LogFacts, RegistrarFacts
<1>3. PICK x : x = [th[t] EXCEPT !.pc = "init", !.i = j]
  OBVIOUS
<1>4. th' = [th EXCEPT ![t].pc = "init", ![t].i = j]
  BY <1>2 DEF Surveyor!registerForUcaid
<1>5. th' = [th EXCEPT ![t] = x]
  <2>1. th \in [Loggers -> Surveyor!ThreadStates]
    BY DEF Surveyor!ThreadsInv
  <2> QED BY <1>3, <1>4, <2>1
<1>6. Keeps(t)
  BY <1>1, <1>3, <1>5, PlaceKeeps DEF LogGoes, RegistrarGoes
<1>7. PICK k : registered' = [registered EXCEPT ![k] = @ + 1]
  BY DEF Surveyor!registerForUcaid
<1>8. /\ registered' \in [Surveyor!Types -> Nat]
      /\ \A h \in Surveyor!Types : registered[h] <= registered'[h]
  <2>1. registered \in [Surveyor!Types -> Nat]
    BY DEF Surveyor!ThreadsInv
  <2>2. \A h \in Surveyor!Types : registered[h] \in Nat /\ registered[h] + 1 \in Nat
    BY <2>1
  <2>3. CASE k \in Surveyor!Types
    <3>1. PICK n : n = registered[k] + 1
      OBVIOUS
    <3>2. registered' = [registered EXCEPT ![k] = n] /\ n \in Nat
      BY <1>7, <2>2, <2>3, <3>1
    <3> QED BY <2>1, <2>2, <2>3, <3>1, <3>2
  <2>4. CASE k \notin Surveyor!Types
    <3>1. registered' = registered
      BY <1>7, <2>1, <2>4
    <3> QED BY <2>1, <2>2, <3>1
  <2> QED BY <2>3, <2>4
<1> QED BY <1>1, <1>6, <1>8 DEF Calm

LEMMA FindSteps ==
    ASSUME Surveyor!ThreadsInv, NEW t \in Loggers, Surveyor!findParentAID(t)
    PROVE  Calm(t)
<1>1. /\ th[t].pc = "find" /\ th[t] \in Surveyor!LogStates /\ initLevel' \in Int
      /\ UNCHANGED <<registered, opens>>
  BY PlaceFacts DEF Surveyor!findParentAID, Surveyor!ThreadsInv
<1> DEFINE ps == th[t].act.parents
           found == {n \in DOMAIN ps : ps[n] \in DOMAIN openFileSurveys}
<1>2. /\ found = {} => Surveyor!Returned(t)
      /\ found # {} => th' = [th EXCEPT ![t] = [@ EXCEPT !.pc = "apply", !.parent = ps[Surveyor!Max(found)]]]
  BY DEF Surveyor!findParentAID
<1>3. CASE found = {}
  BY <1>1, <1>2, <1>3, ReturnedKeeps, SameRegistered
<1>4. CASE found # {}
  <2>1. ps \in Seq(Nat)
    <3>1. th[t].act \in Surveyor!Acts /\ th[t].act.kind # "open"
      BY <1>1, LogFacts
    <3>2. PICK T : T = Surveyor!ToSet(Tail(Surveyor!TokenTypes))
      OBVIOUS
    <3>3. th[t].act \in [kind : T, token : Surveyor!Types, parents : Seq(Nat),
                         fp : FilePositions \cup {NoFile}, bytes : Sizes \cup {NoFile}]
      BY <3>1, <3>2 DEF Surveyor!Acts
    <3> QED BY <3>3
  <2>2. found \in SUBSET (1 .. Len(ps)) /\ Len(ps) \in Nat
    BY <2>1
  <2>3. Surveyor!Max(found) \in found
    <3> HIDE DEF found
    <3> QED BY <1>4, <2>2, Extremes
  <2>4. PICK r \in Nat : r = ps[Surveyor!Max(found)]
    <3>1. PICK n \in 1 .. Len(ps) : n = Surveyor!Max(found)
      BY <2>2, <2>3
    <3>2. ps[n] \in Nat
      BY <2>1
    <3> QED BY <3>1, <3>2
  <2>5. PICK x : x = [th[t] EXCEPT !.pc = "apply", !.parent = r]
    OBVIOUS
  <2>6. th' = [th EXCEPT ![t] = x]
    BY <1>2, <1>4, <2>4, <2>5
  <2>7. Keeps(t)
    BY <1>1, <2>5, <2>6, PlaceKeeps DEF LogGoes
  <2> QED BY <1>1, <2>7, SameRegistered
<1> QED BY <1>3, <1>4

\* What a callback that surveys does to its thread.
LEMMA SurveyThreads ==
    ASSUME Surveyor!ThreadsInv, NEW t \in Loggers, th[t].pc = "apply", Surveyor!Returned(t),
           UNCHANGED <<initLevel, registered, opens>>
    PROVE  /\ Calm(t) /\ th[t].op = "log" /\ th[t].act \in Surveyor!Acts
           /\ Surveyor!CalledOnce => th' = [th EXCEPT ![t] = Surveyor!Idle]
<1>1. th[t] \in Surveyor!LogStates /\ initLevel' \in Int
  BY PlaceFacts DEF Surveyor!ThreadsInv
<1>2. th[t].op = "log" /\ th[t].act \in Surveyor!Acts
  BY <1>1, LogFacts
<1>3. Surveyor!CalledOnce => th[t].calls = 1
  BY <1>2 DEF Surveyor!CalledOnce
<1> QED BY <1>1, <1>2, <1>3, ReturnedKeeps, SameRegistered

-----------------------------------------------------------------------------
(* The surveys.                                                            *)

\* The names in the code and the ones of the lemmas.
LEMMA AgreeIs ==
    /\ Surveyor!SurveysAreReused /\ Surveyor!CountersAddUp
          <=> Agree(openFileSurveys, closedFileSurveys, handled, peak)
    /\ Surveyor!SurveysAreReused' /\ Surveyor!CountersAddUp'
          <=> Agree(openFileSurveys', closedFileSurveys', handled', peak')
<1>1. Surveyor!SurveysAreReused /\ Surveyor!CountersAddUp
         <=> Agree(openFileSurveys, closedFileSurveys, handled, peak)
  BY SameCardinality DEF Surveyor!CountersAddUp, Surveyor!SurveysAreReused, Agree
<1>2. Surveyor!SurveysAreReused' /\ Surveyor!CountersAddUp'
         <=> Agree(openFileSurveys', closedFileSurveys', handled', peak')
  BY SameCardinality DEF Surveyor!CountersAddUp, Surveyor!SurveysAreReused, Agree
<1> QED BY <1>1, <1>2

\* A thread that does not survey leaves the surveys.
LEMMA SurveysKept ==
    ASSUME Surveyor!ThreadsInv, Surveyor!OnceInv, NEW t \in Loggers, Calm(t),
           UNCHANGED <<openFileSurveys, closedFileSurveys, handled, peak>>
    PROVE  Surveyor!OnceInv'
<1> USE DEF Surveyor!OnceInv
<1>1. Surveyor!SurveysAreReused' /\ Surveyor!CountersAddUp' /\ Surveyor!CalledOnce' /\ opens' = opens
  BY AgreeIs, CalmThreads DEF Calm
<1>2. PICK x : Goes(t, x)
  BY DEF Calm, Keeps
<1>3. th'[t] = x /\ \A u \in Loggers \ {t} : th'[u] = th[u]
  BY <1>2 DEF Goes, Surveyor!ThreadsInv
<1>4. \A u \in Loggers : Surveyor!Opening(u)' => Surveyor!Opening(u) /\ th'[u].act = th[u].act
  BY <1>2, <1>3 DEF Goes, Surveyor!Opening
<1> QED BY <1>1, <1>4 DEF Surveyor!SurveysInv

LEMMA SurveyFacts ==
    ASSUME Surveyor!SurveysInv, opens \in Nat
    PROVE  /\ Collection(openFileSurveys) /\ closedFileSurveys \in Seq(Surveyor!FileSurveys)
           /\ Collection(closedFileSurveys)
<1>1. IsFiniteSet(1 .. opens) /\ DOMAIN openFileSurveys \subseteq 1 .. opens
  <2>1. DOMAIN openFileSurveys \subseteq 1 .. opens
    BY DEF Surveyor!SurveysInv
  <2>2. 1 \in Int /\ opens \in Int
    BY <2>1
  <2> QED BY <2>1, <2>2, FS_Interval
<1>2. IsFiniteSet(DOMAIN openFileSurveys)
  BY <1>1, FS_Subset
<1> QED BY <1>2, ListIsCollection DEF Surveyor!SurveysInv, Collection

\* A survey step leaves the thread, and changes the collections as it may.
LEMMA SurveysTyped ==
    ASSUME Surveyor!ThreadsInv, Surveyor!SurveysInv, NEW t \in Loggers,
           th' = [th EXCEPT ![t] = Surveyor!Idle], opens' = opens,
           openFileSurveys' \in [DOMAIN openFileSurveys' -> Surveyor!FileSurveys],
           \/ DOMAIN openFileSurveys' \subseteq DOMAIN openFileSurveys
           \/ Surveyor!Opening(t) /\ DOMAIN openFileSurveys' \subseteq DOMAIN openFileSurveys \cup {th[t].act.aid},
           closedFileSurveys' \in Seq(Surveyor!FileSurveys),
           handled' \in [Files -> [Surveyor!Counters -> Nat]], peak' \in [Files -> Nat]
    PROVE  Surveyor!SurveysInv'
<1>1. th'[t] = Surveyor!Idle /\ \A u \in Loggers \ {t} : th'[u] = th[u]
  BY DEF Surveyor!ThreadsInv
<1>2. ~Surveyor!Opening(t)'
  BY <1>1 DEF Surveyor!Opening, Surveyor!Idle
<1>3. \A u \in Loggers : Surveyor!Opening(u)' => u # t /\ Surveyor!Opening(u) /\ th'[u].act = th[u].act
  BY <1>1, <1>2 DEF Surveyor!Opening
<1>4. DOMAIN openFileSurveys' \subseteq 1 .. opens
  BY DEF Surveyor!SurveysInv
<1>5. ASSUME NEW u \in Loggers, Surveyor!Opening(u)'
      PROVE  /\ th'[u].act.aid \in (1 .. opens) \ DOMAIN openFileSurveys'
             /\ \A v \in Loggers \ {u} : Surveyor!Opening(v)' => th'[v].act.aid # th'[u].act.aid
  <2>1. u # t /\ Surveyor!Opening(u) /\ th'[u].act = th[u].act
    BY <1>3, <1>5
  <2>2. /\ th[u].act.aid \in (1 .. opens) \ DOMAIN openFileSurveys
        /\ Surveyor!Opening(t) => th[t].act.aid # th[u].act.aid
        /\ \A v \in Loggers \ {u} : Surveyor!Opening(v) => th[v].act.aid # th[u].act.aid
    BY <2>1 DEF Surveyor!SurveysInv
  <2> QED BY <1>3, <2>1, <2>2
<1> QED BY <1>4, <1>5 DEF Surveyor!SurveysInv

LEMMA HandleCounts ==
    ASSUME Surveyor!SurveysInv, NEW f \in Files, NEW n \in Nat,
           NEW k \in {"open", "seek", "read", "write", "close"}
    PROVE  /\ Surveyor!Handle(f, k, n) \in [Files -> [Surveyor!Counters -> Nat]]
           /\ Counts(Surveyor!Handle(f, k, n), handled, f, k, n)
<1>1. PICK C : C = Surveyor!Counters
  OBVIOUS
<1>2. k \in C /\ "bytes" \in C /\ k # "bytes"
  BY <1>1, CountersAre
<1>3. handled \in [Files -> [C -> Nat]]
  BY <1>1 DEF Surveyor!SurveysInv
<1>4. PICK h : h = Surveyor!Handle(f, k, n)
  OBVIOUS
<1>5. h = [handled EXCEPT ![f] = [handled[f] EXCEPT ![k] = handled[f][k] + 1, !["bytes"] = handled[f]["bytes"] + n]]
  BY <1>2, <1>3, <1>4 DEF Surveyor!Handle
<1>6. PICK r : r = [handled[f] EXCEPT ![k] = handled[f][k] + 1, !["bytes"] = handled[f]["bytes"] + n]
  OBVIOUS
<1>7. r \in [C -> Nat] /\ \A j \in C : r[j] = handled[f][j] + Inc(k, n, j)
  BY <1>2, <1>3, <1>6 DEF Inc, If
<1>8. h \in [Files -> [C -> Nat]] /\ h[f] = r /\ \A g \in Files \ {f} : h[g] = handled[g]
  BY <1>3, <1>5, <1>6, <1>7
<1>9. \A g \in Files, j \in C : h[g][j] = handled[g][j] + If(g = f, Inc(k, n, j))
  BY <1>3, <1>7, <1>8 DEF If
<1> QED BY <1>1, <1>4, <1>8, <1>9 DEF Counts

\* A survey whose counts are s's, but for one.
LEMMA GrowsBy ==
    ASSUME NEW s \in Surveyor!FileSurveys, NEW s2 \in Surveyor!FileSurveys, NEW k, NEW n \in Nat,
           s2.fileName = s.fileName,
           s2.nOpens = s.nOpens + If(k = "open", 1), s2.nCloses = s.nCloses + If(k = "close", 1),
           s2.nSeeks = s.nSeeks + If(k = "seek", 1),
           s2.read.n = s.read.n + If(k = "read", 1), s2.write.n = s.write.n + If(k = "write", 1),
           s2.read.bytes + s2.write.bytes = s.read.bytes + s.write.bytes + n,
           k # "bytes"
    PROVE  Grows(s, s2, k, n)
<1>1. ASSUME NEW c \in Surveyor!Counters PROVE Surveyor!Value(s2, c) = Surveyor!Value(s, c) + Inc(k, n, c)
  <2>1. c \in {"open", "seek", "read", "write", "close", "bytes"}
    BY CountersAre
  <2>2. /\ Surveyor!Value(s, "open") = s.nOpens /\ Surveyor!Value(s, "close") = s.nCloses
        /\ Surveyor!Value(s, "seek") = s.nSeeks /\ Surveyor!Value(s, "read") = s.read.n
        /\ Surveyor!Value(s, "write") = s.write.n
        /\ Surveyor!Value(s, "bytes") = s.read.bytes + s.write.bytes
    BY ValueFacts
  <2>3. /\ Surveyor!Value(s2, "open") = s2.nOpens /\ Surveyor!Value(s2, "close") = s2.nCloses
        /\ Surveyor!Value(s2, "seek") = s2.nSeeks /\ Surveyor!Value(s2, "read") = s2.read.n
        /\ Surveyor!Value(s2, "write") = s2.write.n
        /\ Surveyor!Value(s2, "bytes") = s2.read.bytes + s2.write.bytes
    BY ValueFacts
  <2>4. CASE c = "bytes"
    BY <2>2, <2>3, <2>4 DEF Inc, If
  <2>5. CASE c # "bytes"
    BY <2>1, <2>2, <2>3, <2>5 DEF Inc, If
  <2> QED BY <2>4, <2>5
<1> QED BY <1>1 DEF Grows

LEMMA FieldTypes ==
    ASSUME NEW s \in Surveyor!FileSurveys
    PROVE  /\ s.nOpens \in Nat /\ s.nCloses \in Nat /\ s.nSeeks \in Nat /\ s.nSeeksShort \in Nat
           /\ s.nSeeksLong \in Nat /\ s.nTotalSeekDistance \in Nat /\ s.positionAfterLastAccess \in Nat
           /\ s.positionAfterLastSeek \in Nat /\ s.fileName \in Files
           /\ s.read \in Surveyor!AccessCounts /\ s.write \in Surveyor!AccessCounts
           /\ s.read.n \in Nat /\ s.write.n \in Nat /\ s.read.bytes \in Nat /\ s.write.bytes \in Nat
<1>1. s.read \in Surveyor!AccessCounts /\ s.write \in Surveyor!AccessCounts
  BY DEF Surveyor!FileSurveys
<1>2. s.read.n \in Nat /\ s.write.n \in Nat /\ s.read.bytes \in Nat /\ s.write.bytes \in Nat
  BY <1>1 DEF Surveyor!AccessCounts
<1> QED BY <1>1, <1>2 DEF Surveyor!FileSurveys

LEMMA Distance ==
    ASSUME NEW a \in Nat, NEW b \in Nat
    PROVE  Surveyor!absu64(a, b) \in Nat
BY DEF Surveyor!absu64

LEMMA SeekGrows ==
    ASSUME NEW s \in Surveyor!FileSurveys, NEW fp \in FilePositions \cup {NoFile}, NEW s2,
           \/ s2 = [s EXCEPT !.nSeeks = @ + 1]
           \/ /\ fp # NoFile
              /\ \E jump : /\ jump = Surveyor!absu64(fp, s.positionAfterLastSeek)
                           /\ s2 = [s EXCEPT !.nSeeks = @ + 1,
                                !.nSeeksLong = IF jump > seekSizeLimit THEN @ + 1 ELSE @,
                                !.nSeeksShort = IF jump > seekSizeLimit THEN @ ELSE @ + 1,
                                !.nTotalSeekDistance = @ + jump, !.positionAfterLastSeek = fp]
    PROVE  Grows(s, s2, "seek", 0)
<1>1. PICK A : A = Surveyor!AccessCounts
  OBVIOUS
<1>2. Surveyor!FileSurveys =
         [fileName : Files, nOpens : Nat, nCloses : Nat, nSeeks : Nat, nSeeksShort : Nat, nSeeksLong : Nat,
          nTotalSeekDistance : Nat, positionAfterLastAccess : Nat, positionAfterLastSeek : Nat, read : A, write : A]
  BY <1>1 DEF Surveyor!FileSurveys
<1>3. /\ s2 \in Surveyor!FileSurveys /\ s2.fileName = s.fileName /\ s2.nOpens = s.nOpens
      /\ s2.nCloses = s.nCloses /\ s2.nSeeks = s.nSeeks + 1 /\ s2.read = s.read /\ s2.write = s.write
  <2>1. CASE s2 = [s EXCEPT !.nSeeks = @ + 1]
    BY <1>2, <2>1
  <2>2. CASE s2 # [s EXCEPT !.nSeeks = @ + 1]
    <3>1. PICK jump : /\ jump = Surveyor!absu64(fp, s.positionAfterLastSeek)
                      /\ s2 = [s EXCEPT !.nSeeks = @ + 1,
                                !.nSeeksLong = IF jump > seekSizeLimit THEN @ + 1 ELSE @,
                                !.nSeeksShort = IF jump > seekSizeLimit THEN @ ELSE @ + 1,
                                !.nTotalSeekDistance = @ + jump, !.positionAfterLastSeek = fp]
      BY <2>2
    <3>2. fp \in Nat /\ seekSizeLimit \in Nat
      BY <2>2, SurveyorInstance DEF Surveyor!SurveyorAssumption
    <3>3. jump \in Nat
      BY <3>1, <3>2, FieldTypes, Distance
    <3>a. s.nSeeksLong \in Nat /\ s.nSeeksShort \in Nat /\ s.nTotalSeekDistance \in Nat /\ s.nSeeks \in Nat
      BY FieldTypes
    <3>4. PICK lg \in Nat : lg = IF jump > seekSizeLimit THEN s.nSeeksLong + 1 ELSE s.nSeeksLong
      BY ONLY <3>a
    <3>5. PICK sh \in Nat : sh = IF jump > seekSizeLimit THEN s.nSeeksShort ELSE s.nSeeksShort + 1
      BY ONLY <3>a
    <3>6. s2 = [s EXCEPT !.nSeeks = s.nSeeks + 1, !.nSeeksLong = lg, !.nSeeksShort = sh,
                         !.nTotalSeekDistance = s.nTotalSeekDistance + jump, !.positionAfterLastSeek = fp]
      BY <1>2, <3>1, <3>4, <3>5
    <3>7. s.nSeeks + 1 \in Nat /\ s.nTotalSeekDistance + jump \in Nat
      BY ONLY <3>3, <3>a
    <3> QED BY <1>2, <3>2, <3>6, <3>7
  <2> QED BY <2>1, <2>2
<1>4. /\ s2.nOpens = s.nOpens + If("seek" = "open", 1) /\ s2.nCloses = s.nCloses + If("seek" = "close", 1)
      /\ s2.nSeeks = s.nSeeks + If("seek" = "seek", 1)
      /\ s2.read.n = s.read.n + If("seek" = "read", 1) /\ s2.write.n = s.write.n + If("seek" = "write", 1)
      /\ s2.read.bytes + s2.write.bytes = s.read.bytes + s.write.bytes + 0 /\ "seek" # "bytes"
  <2>1. /\ s.nOpens \in Nat /\ s.nCloses \in Nat /\ s.nSeeks \in Nat /\ s.read.n \in Nat /\ s.write.n \in Nat
        /\ s.read.bytes \in Nat /\ s.write.bytes \in Nat
    BY FieldTypes
  <2> QED BY ONLY <1>3, <2>1 DEF If
<1> QED BY ONLY <1>3, <1>4, GrowsBy, s \in Surveyor!FileSurveys

LEMMA AccessGrows ==
    ASSUME NEW s \in Surveyor!FileSurveys, NEW k \in {"read", "write"}, NEW y \in Surveyor!AccessCounts,
           NEW n \in Nat, y.n = s[k].n + 1, y.bytes = s[k].bytes + n, NEW p \in Nat, NEW q \in Nat,
           NEW s2, s2 = [s EXCEPT ![k] = y, !.positionAfterLastAccess = p, !.positionAfterLastSeek = q]
    PROVE  Grows(s, s2, k, n)
<1>1. PICK A : A = Surveyor!AccessCounts
  OBVIOUS
<1>2. Surveyor!FileSurveys =
         [fileName : Files, nOpens : Nat, nCloses : Nat, nSeeks : Nat, nSeeksShort : Nat, nSeeksLong : Nat,
          nTotalSeekDistance : Nat, positionAfterLastAccess : Nat, positionAfterLastSeek : Nat, read : A, write : A]
  BY <1>1 DEF Surveyor!FileSurveys
<1>3. CASE k = "read"
  <2>1. /\ s2 \in Surveyor!FileSurveys /\ s2.fileName = s.fileName /\ s2.nOpens = s.nOpens
        /\ s2.nCloses = s.nCloses /\ s2.nSeeks = s.nSeeks /\ s2.read = y /\ s2.write = s.write
    BY <1>1, <1>2, <1>3
  <2>2. /\ s2.nOpens = s.nOpens + If(k = "open", 1) /\ s2.nCloses = s.nCloses + If(k = "close", 1)
        /\ s2.nSeeks = s.nSeeks + If(k = "seek", 1)
        /\ s2.read.n = s.read.n + If(k = "read", 1) /\ s2.write.n = s.write.n + If(k = "write", 1)
        /\ s2.read.bytes + s2.write.bytes = s.read.bytes + s.write.bytes + n /\ k # "bytes"
    <3>1. /\ s.nOpens \in Nat /\ s.nCloses \in Nat /\ s.nSeeks \in Nat /\ s.read.n \in Nat /\ s.write.n \in Nat
          /\ s.read.bytes \in Nat /\ s.write.bytes \in Nat /\ s[k] = s.read
      BY <1>3, FieldTypes
    <3>2. y.n = s[k].n + 1 /\ y.bytes = s[k].bytes + n /\ n \in Nat
      OBVIOUS
    <3> QED BY ONLY <1>3, <2>1, <3>1, <3>2 DEF If
  <2> QED BY ONLY <2>1, <2>2, GrowsBy, s \in Surveyor!FileSurveys, n \in Nat
<1>4. CASE k = "write"
  <2>1. /\ s2 \in Surveyor!FileSurveys /\ s2.fileName = s.fileName /\ s2.nOpens = s.nOpens
        /\ s2.nCloses = s.nCloses /\ s2.nSeeks = s.nSeeks /\ s2.read = s.read /\ s2.write = y
    BY <1>1, <1>2, <1>4
  <2>2. /\ s2.nOpens = s.nOpens + If(k = "open", 1) /\ s2.nCloses = s.nCloses + If(k = "close", 1)
        /\ s2.nSeeks = s.nSeeks + If(k = "seek", 1)
        /\ s2.read.n = s.read.n + If(k = "read", 1) /\ s2.write.n = s.write.n + If(k = "write", 1)
        /\ s2.read.bytes + s2.write.bytes = s.read.bytes + s.write.bytes + n /\ k # "bytes"
    <3>1. /\ s.nOpens \in Nat /\ s.nCloses \in Nat /\ s.nSeeks \in Nat /\ s.read.n \in Nat /\ s.write.n \in Nat
          /\ s.read.bytes \in Nat /\ s.write.bytes \in Nat /\ s[k] = s.write
      BY <1>4, FieldTypes
    <3>2. y.n = s[k].n + 1 /\ y.bytes = s[k].bytes + n /\ n \in Nat
      OBVIOUS
    <3> QED BY ONLY <1>4, <2>1, <3>1, <3>2 DEF If
  <2> QED BY ONLY <2>1, <2>2, GrowsBy, s \in Surveyor!FileSurveys, n \in Nat
<1> QED BY <1>3, <1>4

LEMMA AccessedGrows ==
    ASSUME NEW x \in Surveyor!AccessCounts, NEW jump \in Nat, NEW n \in Nat
    PROVE  /\ Surveyor!Accessed(x, jump, n) \in Surveyor!AccessCounts
           /\ Surveyor!Accessed(x, jump, n).n = x.n + 1 /\ Surveyor!Accessed(x, jump, n).bytes = x.bytes + n
<1>1. seekSizeLimit \in Nat
  BY SurveyorInstance DEF Surveyor!SurveyorAssumption
<1>2. /\ x.n \in Nat /\ x.bytes \in Nat /\ x.distance \in Nat /\ x.sequential \in Nat /\ x.randomShort \in Nat
      /\ x.randomLong \in Nat
  BY DEF Surveyor!AccessCounts
<1>3. PICK sq \in Nat : sq = IF jump = 0 THEN x.sequential + 1 ELSE x.sequential
  BY <1>2
<1>4. PICK sh \in Nat : sh = IF jump > 0 /\ jump <= seekSizeLimit THEN x.randomShort + 1 ELSE x.randomShort
  BY <1>2
<1>5. PICK lg \in Nat : lg = IF jump > seekSizeLimit THEN x.randomLong + 1 ELSE x.randomLong
  BY <1>2
<1>6. Surveyor!Accessed(x, jump, n) =
         [x EXCEPT !.n = x.n + 1, !.bytes = x.bytes + n, !.distance = x.distance + jump, !.sequential = sq,
                   !.randomShort = sh, !.randomLong = lg]
  BY <1>3, <1>4, <1>5 DEF Surveyor!Accessed, Surveyor!AccessCounts
<1>7. PICK z : z = Surveyor!Accessed(x, jump, n)
  OBVIOUS
<1>8. x.n + 1 \in Nat /\ x.bytes + n \in Nat /\ x.distance + jump \in Nat
  BY <1>2
<1>9. z \in Surveyor!AccessCounts /\ z.n = x.n + 1 /\ z.bytes = x.bytes + n
  BY <1>6, <1>7, <1>8 DEF Surveyor!AccessCounts
<1> QED BY <1>7, <1>9

\* A survey is changed.
LEMMA Updated ==
    ASSUME Surveyor!ThreadsInv, Surveyor!OnceInv, NEW t \in Loggers, th[t].pc = "apply", NEW k \in {"seek", "read", "write"},
           th[t].parent \in DOMAIN openFileSurveys, NEW n \in Nat, NEW s2,
           Grows(openFileSurveys[th[t].parent], s2, k, n), Surveyor!Update(t, s2, k, n)
    PROVE  Surveyor!OnceInv'
<1> USE DEF Surveyor!OnceInv
<1>1. PICK a : a = th[t].parent
  OBVIOUS
<1>2. PICK s : s = openFileSurveys[a]
  OBVIOUS
<1>3. /\ openFileSurveys' = Set(openFileSurveys, a, s2) /\ handled' = Surveyor!Handle(s2.fileName, k, n)
      /\ Surveyor!Returned(t) /\ UNCHANGED <<initLevel, registered, started, opens, closedFileSurveys, peak>>
  BY <1>1 DEF Surveyor!Update, Surveyor!With, Set, Surveyor!Others
<1>4. /\ Surveyor!CalledOnce' /\ th' = [th EXCEPT ![t] = Surveyor!Idle]
  BY <1>3, SurveyThreads, CalmThreads
<1>5. s2 \in Surveyor!FileSurveys /\ s2.fileName = s.fileName /\ s2.fileName \in Files /\ a \in DOMAIN openFileSurveys
  BY <1>1, <1>2, ValueFacts DEF Grows
<1>6. /\ Collection(openFileSurveys) /\ closedFileSurveys \in Seq(Surveyor!FileSurveys)
      /\ Collection(closedFileSurveys) /\ Agree(openFileSurveys, closedFileSurveys, handled, peak)
  BY SurveyFacts, AgreeIs DEF Surveyor!ThreadsInv
<1>7. /\ handled' \in [Files -> [Surveyor!Counters -> Nat]]
      /\ Counts(handled', handled, s.fileName, k, n)
  <2>1. k \in {"open", "seek", "read", "write", "close"}
    OBVIOUS
  <2> QED BY <1>3, <1>5, <2>1, HandleCounts
<1>8. Collection(openFileSurveys') /\ Agree(openFileSurveys', closedFileSurveys', handled', peak')
  <2>1. Grows(openFileSurveys[a], s2, k, n) /\ Counts(handled', handled, openFileSurveys[a].fileName, k, n)
    BY <1>1, <1>2, <1>7
  <2>2. Collection(Set(openFileSurveys, a, s2)) /\ Agree(Set(openFileSurveys, a, s2), closedFileSurveys, handled', peak)
    BY <1>5, <1>6, <2>1, CallCounted
  <2> QED BY <1>3, <2>2
<1>9. DOMAIN openFileSurveys' \subseteq DOMAIN openFileSurveys
  BY <1>3, <1>5 DEF Set
<1>10. openFileSurveys' \in [DOMAIN openFileSurveys' -> Surveyor!FileSurveys]
  BY <1>8 DEF Collection
<1>11. closedFileSurveys' \in Seq(Surveyor!FileSurveys) /\ peak' \in [Files -> Nat] /\ opens' = opens
  BY <1>3, <1>6 DEF Surveyor!SurveysInv
<1>12. Surveyor!SurveysInv'
  BY <1>4, <1>7, <1>9, <1>10, <1>11, SurveysTyped
<1> QED BY <1>4, <1>8, <1>12, AgreeIs

LEMMA SeekStep ==
    ASSUME Surveyor!ThreadsInv, Surveyor!OnceInv, NEW t \in Loggers, Surveyor!updateSurveySeek(t)
    PROVE  Surveyor!OnceInv'
<1>1. /\ th[t].pc = "apply" /\ th[t].act.kind = "seek" /\ th[t].parent \in DOMAIN openFileSurveys
  BY DEF Surveyor!updateSurveySeek, Surveyor!Applying
<1>2. PICK s : s = openFileSurveys[th[t].parent]
  OBVIOUS
<1>3. PICK fp : fp = th[t].act.fp
  OBVIOUS
<1>4. PICK jump : jump = Surveyor!absu64(fp, s.positionAfterLastSeek)
  OBVIOUS
<1>5. PICK s2 : s2 = IF fp = NoFile THEN [s EXCEPT !.nSeeks = @ + 1]
                     ELSE [s EXCEPT !.nSeeks = @ + 1,
                            !.nSeeksLong = IF jump > seekSizeLimit THEN @ + 1 ELSE @,
                            !.nSeeksShort = IF jump > seekSizeLimit THEN @ ELSE @ + 1,
                            !.nTotalSeekDistance = @ + jump, !.positionAfterLastSeek = fp]
  OBVIOUS
<1>6. Surveyor!Update(t, s2, "seek", 0)
  BY <1>2, <1>3, <1>4, <1>5 DEF Surveyor!updateSurveySeek
<1>7. s \in Surveyor!FileSurveys /\ fp \in FilePositions \cup {NoFile}
  <2>1. th[t].act \in Surveyor!Acts
    BY <1>1, PlaceFacts, LogFacts
  <2>2. PICK T : T = Surveyor!ToSet(Tail(Surveyor!TokenTypes))
    OBVIOUS
  <2>3. th[t].act \in [kind : T, token : Surveyor!Types, parents : Seq(Nat),
                       fp : FilePositions \cup {NoFile}, bytes : Sizes \cup {NoFile}]
    BY <1>1, <2>1, <2>2 DEF Surveyor!Acts
  <2> QED BY <1>1, <1>2, <1>3, <2>3 DEF Surveyor!OnceInv, Surveyor!SurveysInv
<1>8. Grows(s, s2, "seek", 0)
  <2>1. CASE fp = NoFile
    BY <1>5, <1>7, <2>1, SeekGrows
  <2>2. CASE fp # NoFile
    BY <1>4, <1>5, <1>7, <2>2, SeekGrows
  <2> QED BY <2>1, <2>2
<1> QED BY <1>1, <1>2, <1>6, <1>8, Updated

LEMMA AccessStep ==
    ASSUME Surveyor!ThreadsInv, Surveyor!OnceInv, NEW t \in Loggers, NEW k \in {"read", "write"}, Surveyor!Access(t, k)
    PROVE  Surveyor!OnceInv'
<1>1. /\ th[t].pc = "apply" /\ th[t].act.kind = k /\ th[t].parent \in DOMAIN openFileSurveys
  BY DEF Surveyor!Access, Surveyor!Applying
<1>2. PICK s : s = openFileSurveys[th[t].parent]
  OBVIOUS
<1>3. PICK n : n = th[t].act.bytes
  OBVIOUS
<1>4. PICK fp : fp = IF th[t].act.fp = NoFile THEN s.positionAfterLastSeek ELSE th[t].act.fp
  OBVIOUS
<1>5. /\ n = NoFile => Surveyor!Update(t, [s EXCEPT ![k].n = @ + 1], k, 0)
      /\ n # NoFile => Surveyor!Update(t,
            [s EXCEPT ![k] = Surveyor!Accessed(@, Surveyor!absu64(fp, s.positionAfterLastAccess), n),
                      !.positionAfterLastAccess = fp + n, !.positionAfterLastSeek = fp + n], k, n)
  BY <1>2, <1>3, <1>4 DEF Surveyor!Access
<1>6. s \in Surveyor!FileSurveys /\ fp \in Nat /\ n \in Sizes \cup {NoFile}
  <2>1. th[t].act \in Surveyor!Acts
    BY <1>1, PlaceFacts, LogFacts
  <2>2. PICK T : T = Surveyor!ToSet(Tail(Surveyor!TokenTypes))
    OBVIOUS
  <2>3. th[t].act \in [kind : T, token : Surveyor!Types, parents : Seq(Nat),
                       fp : FilePositions \cup {NoFile}, bytes : Sizes \cup {NoFile}]
    BY <1>1, <2>1, <2>2 DEF Surveyor!Acts
  <2>4. s \in Surveyor!FileSurveys
    BY <1>1, <1>2 DEF Surveyor!OnceInv, Surveyor!SurveysInv
  <2>5. s.positionAfterLastSeek \in Nat /\ FilePositions \subseteq Nat
    BY <2>4, FieldTypes, SurveyorInstance DEF Surveyor!SurveyorAssumption
  <2> QED BY <1>3, <1>4, <2>3, <2>4, <2>5
<1>7. s[k] \in Surveyor!AccessCounts /\ s.positionAfterLastAccess \in Nat /\ s.positionAfterLastSeek \in Nat
  BY <1>6, FieldTypes
<1>8. CASE n = NoFile
  <2>1. PICK y : y = [s[k] EXCEPT !.n = @ + 1]
    OBVIOUS
  <2>2. y \in Surveyor!AccessCounts /\ y.n = s[k].n + 1 /\ y.bytes = s[k].bytes + 0
    BY <1>7, <2>1 DEF Surveyor!AccessCounts
  <2>3. PICK s2 : s2 = [s EXCEPT ![k].n = @ + 1]
    OBVIOUS
  <2>4. s2 = [s EXCEPT ![k] = y, !.positionAfterLastAccess = s.positionAfterLastAccess,
                       !.positionAfterLastSeek = s.positionAfterLastSeek]
    <3>1. CASE k = "read"
      BY <1>6, <2>1, <2>3, <3>1 DEF Surveyor!FileSurveys
    <3>2. CASE k = "write"
      BY <1>6, <2>1, <2>3, <3>2 DEF Surveyor!FileSurveys
    <3> QED BY <3>1, <3>2
  <2>5. Grows(s, s2, k, 0)
    BY <1>6, <1>7, <2>2, <2>4, AccessGrows
  <2>6. k \in {"seek", "read", "write"} /\ Surveyor!Update(t, s2, k, 0)
    BY <1>5, <1>8, <2>3
  <2> QED BY <1>1, <1>2, <2>5, <2>6, Updated
<1>9. CASE n # NoFile
  <2>1. n \in Nat
    BY <1>6, <1>9, SurveyorInstance DEF Surveyor!SurveyorAssumption
  <2>2. PICK jump \in Nat : jump = Surveyor!absu64(fp, s.positionAfterLastAccess)
    BY <1>6, <1>7, Distance
  <2>3. PICK y : y = Surveyor!Accessed(s[k], jump, n)
    OBVIOUS
  <2>4. y \in Surveyor!AccessCounts /\ y.n = s[k].n + 1 /\ y.bytes = s[k].bytes + n
    BY <1>7, <2>1, <2>3, AccessedGrows
  <2>5. PICK p \in Nat : p = fp + n
    BY <1>6, <2>1
  <2>6. PICK s2 : s2 = [s EXCEPT ![k] = y, !.positionAfterLastAccess = p, !.positionAfterLastSeek = p]
    OBVIOUS
  <2>7. Grows(s, s2, k, n)
    BY <1>6, <2>1, <2>4, <2>6, AccessGrows
  <2>8. k \in {"seek", "read", "write"} /\ Surveyor!Update(t, s2, k, n)
    BY <1>5, <1>9, <2>2, <2>3, <2>5, <2>6
  <2> QED BY <1>1, <1>2, <2>1, <2>7, <2>8, Updated
<1> QED BY <1>8, <1>9

LEMMA CloseStep ==
    ASSUME Surveyor!ThreadsInv, Surveyor!OnceInv, NEW t \in Loggers, Surveyor!closeSurvey(t)
    PROVE  Surveyor!OnceInv'
<1> USE DEF Surveyor!OnceInv
<1>1. PICK a : a = th[t].parent
  OBVIOUS
<1>2. PICK s : s = openFileSurveys[a]
  OBVIOUS
<1>3. PICK s2 : s2 = [s EXCEPT !.nCloses = @ + 1]
  OBVIOUS
<1>4. /\ th[t].pc = "apply" /\ a \in DOMAIN openFileSurveys
      /\ openFileSurveys' = Less(openFileSurveys, a) /\ closedFileSurveys' = Append(closedFileSurveys, s2)
      /\ handled' = Surveyor!Handle(s.fileName, "close", 0) /\ Surveyor!Returned(t)
      /\ UNCHANGED <<initLevel, registered, started, opens, peak>>
  BY <1>1, <1>2, <1>3 DEF Surveyor!closeSurvey, Surveyor!Applying, Surveyor!Without, Less, Surveyor!Others
<1>5. /\ Surveyor!CalledOnce' /\ th' = [th EXCEPT ![t] = Surveyor!Idle]
  BY <1>4, SurveyThreads, CalmThreads
<1>6. /\ Collection(openFileSurveys) /\ closedFileSurveys \in Seq(Surveyor!FileSurveys)
      /\ Agree(openFileSurveys, closedFileSurveys, handled, peak)
  BY SurveyFacts, AgreeIs DEF Surveyor!ThreadsInv
<1>7. s \in Surveyor!FileSurveys /\ s.fileName \in Files
  BY <1>2, <1>4, <1>6, ValueFacts DEF Collection
<1>8. Grows(s, s2, "close", 0)
  <2>1. PICK A : A = Surveyor!AccessCounts
    OBVIOUS
  <2>2. Surveyor!FileSurveys =
           [fileName : Files, nOpens : Nat, nCloses : Nat, nSeeks : Nat, nSeeksShort : Nat, nSeeksLong : Nat,
            nTotalSeekDistance : Nat, positionAfterLastAccess : Nat, positionAfterLastSeek : Nat, read : A, write : A]
    BY <2>1 DEF Surveyor!FileSurveys
  <2>3. /\ s2 \in Surveyor!FileSurveys /\ s2.fileName = s.fileName /\ s2.nOpens = s.nOpens
        /\ s2.nCloses = s.nCloses + 1 /\ s2.nSeeks = s.nSeeks /\ s2.read = s.read /\ s2.write = s.write
    BY ONLY <1>3, <1>7, <2>2
  <2>4. /\ s.nOpens \in Nat /\ s.nCloses \in Nat /\ s.nSeeks \in Nat /\ s.read.n \in Nat /\ s.write.n \in Nat
        /\ s.read.bytes \in Nat /\ s.write.bytes \in Nat
    BY <1>7, FieldTypes
  <2>5. /\ s2.nOpens = s.nOpens + If("close" = "open", 1) /\ s2.nCloses = s.nCloses + If("close" = "close", 1)
        /\ s2.nSeeks = s.nSeeks + If("close" = "seek", 1)
        /\ s2.read.n = s.read.n + If("close" = "read", 1) /\ s2.write.n = s.write.n + If("close" = "write", 1)
        /\ s2.read.bytes + s2.write.bytes = s.read.bytes + s.write.bytes + 0 /\ "close" # "bytes"
    BY ONLY <2>3, <2>4 DEF If
  <2> QED BY ONLY <1>7, <2>3, <2>5, GrowsBy
<1>9. /\ handled' \in [Files -> [Surveyor!Counters -> Nat]]
      /\ Counts(handled', handled, s.fileName, "close", 0)
  <2>1. "close" \in {"open", "seek", "read", "write", "close"} /\ 0 \in Nat
    OBVIOUS
  <2> QED BY <1>4, <1>7, <2>1, HandleCounts
<1>10. Agree(openFileSurveys', closedFileSurveys', handled', peak')
  <2>1. Grows(openFileSurveys[a], s2, "close", 0) /\ Counts(handled', handled, openFileSurveys[a].fileName, "close", 0)
    BY <1>2, <1>8, <1>9
  <2>2. Agree(Less(openFileSurveys, a), Append(closedFileSurveys, s2), handled', peak)
    BY <1>4, <1>6, <2>1, CloseCounted
  <2> QED BY <1>4, <2>2
<1>11. DOMAIN openFileSurveys' \subseteq DOMAIN openFileSurveys
       /\ openFileSurveys' \in [DOMAIN openFileSurveys' -> Surveyor!FileSurveys]
  BY <1>4, <1>6 DEF Less, Collection
<1>12. closedFileSurveys' \in Seq(Surveyor!FileSurveys) /\ peak' \in [Files -> Nat] /\ opens' = opens
  <2>1. s2 \in Surveyor!FileSurveys
    BY <1>8 DEF Grows
  <2> QED BY <1>4, <1>6, <2>1 DEF Surveyor!SurveysInv
<1>13. Surveyor!SurveysInv'
  BY <1>5, <1>9, <1>11, <1>12, SurveysTyped
<1> QED BY <1>5, <1>10, <1>13, AgreeIs

\* An open counts as one, and starts again at the beginning of the file.
LEMMA OpenGrows ==
    ASSUME NEW s \in Surveyor!FileSurveys, NEW s2,
           s2 = [s EXCEPT !.nOpens = @ + 1, !.positionAfterLastAccess = 0, !.positionAfterLastSeek = 0]
    PROVE  Grows(s, s2, "open", 0)
<1>1. PICK A : A = Surveyor!AccessCounts
  OBVIOUS
<1>2. Surveyor!FileSurveys =
         [fileName : Files, nOpens : Nat, nCloses : Nat, nSeeks : Nat, nSeeksShort : Nat, nSeeksLong : Nat,
          nTotalSeekDistance : Nat, positionAfterLastAccess : Nat, positionAfterLastSeek : Nat, read : A, write : A]
  BY <1>1 DEF Surveyor!FileSurveys
<1>3. /\ s2 \in Surveyor!FileSurveys /\ s2.fileName = s.fileName /\ s2.nOpens = s.nOpens + 1
      /\ s2.nCloses = s.nCloses /\ s2.nSeeks = s.nSeeks /\ s2.read = s.read /\ s2.write = s.write
  <2>1. PICK r \in Nat : r = s.nOpens + 1
    BY ONLY s \in Surveyor!FileSurveys, FieldTypes
  <2>2. s2 = [s EXCEPT !.nOpens = r, !.positionAfterLastAccess = 0, !.positionAfterLastSeek = 0] /\ 0 \in Nat
    BY <2>1
  <2> QED BY ONLY <1>2, <2>1, <2>2, s \in Surveyor!FileSurveys
<1>4. /\ s.nOpens \in Nat /\ s.nCloses \in Nat /\ s.nSeeks \in Nat /\ s.read.n \in Nat /\ s.write.n \in Nat
      /\ s.read.bytes \in Nat /\ s.write.bytes \in Nat
  BY FieldTypes
<1>5. /\ s2.nOpens = s.nOpens + If("open" = "open", 1) /\ s2.nCloses = s.nCloses + If("open" = "close", 1)
      /\ s2.nSeeks = s.nSeeks + If("open" = "seek", 1)
      /\ s2.read.n = s.read.n + If("open" = "read", 1) /\ s2.write.n = s.write.n + If("open" = "write", 1)
      /\ s2.read.bytes + s2.write.bytes = s.read.bytes + s.write.bytes + 0 /\ "open" # "bytes"
  BY ONLY <1>3, <1>4 DEF If
<1> QED BY ONLY <1>3, <1>5, GrowsBy, s \in Surveyor!FileSurveys

LEMMA OpenStep ==
    ASSUME Surveyor!ThreadsInv, Surveyor!OnceInv, NEW t \in Loggers, Surveyor!openSurvey(t)
    PROVE  Surveyor!OnceInv'
<1> USE DEF Surveyor!OnceInv
<1>1. /\ th[t].pc = "apply" /\ th[t].act.kind = "open" /\ Surveyor!Returned(t)
      /\ UNCHANGED <<initLevel, registered, started, opens>>
  BY DEF Surveyor!openSurvey, Surveyor!Applying, Surveyor!Others
<1>2. /\ Surveyor!CalledOnce' /\ th' = [th EXCEPT ![t] = Surveyor!Idle]
      /\ Calm(t) /\ Surveyor!Opening(t) /\ th[t].act \in Surveyor!Acts
  BY <1>1, SurveyThreads, CalmThreads DEF Surveyor!Opening
<1>3. PICK f : f = th[t].act.file
  OBVIOUS
<1>4. PICK a : a = th[t].act.aid
  OBVIOUS
<1>5. f \in Files
  <2>1. th[t].act \in [kind : {"open"}, token : Surveyor!Types, aid : Nat, file : Files]
    <3>1. PICK T : T = {"seek", "read", "write", "close"}
      OBVIOUS
    <3>2. "open" \notin T
      BY <3>1
    <3>3. th[t].act \in [kind : {"open"}, token : Surveyor!Types, aid : Nat, file : Files]
          \/ th[t].act \in [kind : T, token : Surveyor!Types, parents : Seq(Nat),
                            fp : FilePositions \cup {NoFile}, bytes : Sizes \cup {NoFile}]
      BY <1>2, <3>1, CountersAre DEF Surveyor!Acts
    <3> QED BY <1>1, <3>2, <3>3
  <2> QED BY <1>3, <2>1
<1>6. a \notin DOMAIN openFileSurveys
  BY <1>2, <1>4 DEF Surveyor!SurveysInv
<1>7. PICK closed : closed = Surveyor!Of(closedFileSurveys, f)
  OBVIOUS
<1>8. PICK old : old = IF closed = {} THEN Surveyor!FileSurvey(f) ELSE closedFileSurveys[Surveyor!Min(closed)]
  OBVIOUS
<1>9. PICK s2 : s2 = [old EXCEPT !.nOpens = @ + 1, !.positionAfterLastAccess = 0, !.positionAfterLastSeek = 0]
  OBVIOUS
<1>10. CASE f \in Watched \/ Watched = {}
  <2>1. /\ openFileSurveys' = Set(openFileSurveys, a, s2)
        /\ closedFileSurveys' = IF closed = {} THEN closedFileSurveys
                                ELSE Surveyor!RemoveAt(closedFileSurveys, Surveyor!Min(closed))
        /\ handled' = Surveyor!Handle(f, "open", 0)
        /\ peak' = [peak EXCEPT ![f] = Surveyor!Max({@, Surveyor!Cardinality(Surveyor!Of(openFileSurveys, f)) + 1})]
    BY <1>3, <1>4, <1>7, <1>8, <1>9, <1>10 DEF Surveyor!openSurvey, Surveyor!With, Set
  <2>2. /\ Collection(openFileSurveys) /\ closedFileSurveys \in Seq(Surveyor!FileSurveys)
        /\ Collection(closedFileSurveys) /\ Agree(openFileSurveys, closedFileSurveys, handled, peak)
    BY SurveyFacts, AgreeIs DEF Surveyor!ThreadsInv
  <2>3. /\ handled' \in [Files -> [Surveyor!Counters -> Nat]] /\ Counts(handled', handled, f, "open", 0)
    <3>1. "open" \in {"open", "seek", "read", "write", "close"} /\ 0 \in Nat
      OBVIOUS
    <3> QED BY <1>5, <2>1, <3>1, HandleCounts
  <2>4. peak' \in [Files -> Nat] /\ Peak(peak', peak, openFileSurveys, f)
    <3>1. peak \in [Files -> Nat] /\ Cardinality(Surveyor!Of(openFileSurveys, f)) \in Nat
      <4>1. "open" \in Surveyor!Counters
        BY CountersAre
      <4> QED BY <2>2, <4>1, CollectionType DEF Surveyor!SurveysInv
    <3>2. PICK m : m = Surveyor!Max({peak[f], Cardinality(Surveyor!Of(openFileSurveys, f)) + 1})
      OBVIOUS
    <3>3. m \in Nat
      <4>1. peak[f] \in Nat /\ Cardinality(Surveyor!Of(openFileSurveys, f)) + 1 \in Nat
        BY <1>5, <3>1
      <4> QED BY <3>2, <4>1, MaxOfTwo
    <3>4. peak' = [peak EXCEPT ![f] = m]
      BY <2>1, <3>2, SameCardinality
    <3> QED BY <1>5, <3>1, <3>2, <3>3, <3>4 DEF Peak
  <2>5. /\ s2 \in Surveyor!FileSurveys /\ closedFileSurveys' \in Seq(Surveyor!FileSurveys)
        /\ Agree(openFileSurveys', closedFileSurveys', handled', peak')
    <3>1. CASE closed = {}
      <4>1. old = Surveyor!FileSurvey(f) /\ closedFileSurveys' = closedFileSurveys
        BY <1>8, <2>1, <3>1
      <4>2. Grows(Surveyor!FileSurvey(f), s2, "open", 0)
        BY <1>5, <1>9, <4>1, NewSurvey, OpenGrows
      <4>3. Agree(Set(openFileSurveys, a, s2), closedFileSurveys, handled', peak')
        BY <1>5, <1>6, <1>7, <2>2, <2>3, <2>4, <3>1, <4>2, OpenCounted
      <4> QED BY <2>1, <2>2, <4>1, <4>2, <4>3 DEF Grows
    <3>2. CASE closed # {}
      <4>1. PICK j : j = Surveyor!Min(closed)
        OBVIOUS
      <4>2. j \in closed /\ j \in 1 .. Len(closedFileSurveys)
        <5>1. Len(closedFileSurveys) \in Nat /\ closed \in SUBSET (1 .. Len(closedFileSurveys))
          BY <1>7, <2>2, ListIsCollection DEF Surveyor!Of
        <5> QED BY <3>2, <4>1, <5>1, Extremes
      <4>3. old = closedFileSurveys[j] /\ closedFileSurveys' = Surveyor!RemoveAt(closedFileSurveys, j)
        BY <1>8, <2>1, <3>2, <4>1
      <4>4. closedFileSurveys[j] \in Surveyor!FileSurveys
        BY <2>2, <4>2
      <4>5. Grows(closedFileSurveys[j], s2, "open", 0)
        BY <1>9, <4>3, <4>4, OpenGrows
      <4>6. Agree(Set(openFileSurveys, a, s2), Surveyor!RemoveAt(closedFileSurveys, j), handled', peak')
        <5>1. j \in Surveyor!Of(closedFileSurveys, f)
          BY <1>7, <4>2
        <5> QED BY <1>5, <1>6, <2>2, <2>3, <2>4, <4>5, <5>1, ReopenCounted
      <4>7. Surveyor!RemoveAt(closedFileSurveys, j) \in Seq(Surveyor!FileSurveys)
        BY <2>2, <4>2, RemoveAtExact
      <4> QED BY <2>1, <4>3, <4>5, <4>6, <4>7 DEF Grows
    <3> QED BY <3>1, <3>2
  <2>6. /\ openFileSurveys' \in [DOMAIN openFileSurveys' -> Surveyor!FileSurveys]
        /\ DOMAIN openFileSurveys' \subseteq DOMAIN openFileSurveys \cup {th[t].act.aid}
    BY <1>4, <2>1, <2>2, <2>5 DEF Set, Collection
  <2>7. Surveyor!SurveysInv'
    BY <1>1, <1>2, <2>3, <2>4, <2>5, <2>6, SurveysTyped
  <2> QED BY <1>2, <2>5, <2>7, AgreeIs
<1>11. CASE ~(f \in Watched \/ Watched = {})
  <2>1. UNCHANGED <<openFileSurveys, closedFileSurveys, handled, peak, opens>>
    BY <1>1, <1>3, <1>11 DEF Surveyor!openSurvey, Surveyor!surveys
  <2> QED BY <1>2, <2>1, SurveysKept
<1> QED BY <1>10, <1>11

\* A call is logged: its callbacks are called as often as they are registered.
LEMMA LogThreads ==
    ASSUME Surveyor!ThreadsInv, NEW t \in Loggers, NEW k \in Surveyor!ToSet(Surveyor!TokenTypes),
           NEW a \in Surveyor!Activities(k), Surveyor!Log(t, a)
    PROVE  /\ Surveyor!ThreadsInv' /\ UNCHANGED registered
           /\ Surveyor!RegisteredOnce /\ Surveyor!CalledOnce => Surveyor!CalledOnce'
<1>1. /\ opens \in Nat /\ registered \in [Surveyor!Types -> Nat]
      /\ th \in [Loggers -> Surveyor!ThreadStates]
  BY DEF Surveyor!ThreadsInv
<1>2. a \in Surveyor!Acts /\ a.kind = k /\ a.token \in Surveyor!Types
  BY <1>1, ActivityFacts
<1>3. PICK c \in Nat : c = registered[a.token]
  BY <1>1, <1>2
<1>4. PICK x : x = [Surveyor!Idle EXCEPT !.pc = "ensure", !.op = "log", !.act = a, !.calls = c]
  OBVIOUS
<1>5. x \in Surveyor!ThreadStates /\ x.calls = c
  <2>1. x.calls = c
    BY <1>4 DEF Surveyor!Idle
  <2> QED BY <1>2, <1>4, <2>1, FirstPlaces DEF Surveyor!ThreadStates
<1>6. /\ opens' \in Nat /\ initLevel' = initLevel /\ registered' = registered
      /\ UNCHANGED th \/ (c # 0 /\ th' = [th EXCEPT ![t] = x])
  BY <1>1, <1>3, <1>4 DEF Surveyor!Log
<1>7. CASE UNCHANGED th
  BY <1>1, <1>6, <1>7 DEF Surveyor!ThreadsInv, Surveyor!CalledOnce
<1>8. CASE c # 0 /\ th' = [th EXCEPT ![t] = x]
  <2>1. /\ th' \in [Loggers -> Surveyor!ThreadStates]
        /\ th'[t] = x /\ \A u \in Loggers \ {t} : th'[u] = th[u]
    BY <1>1, <1>5, <1>8
  <2>2. Surveyor!ThreadsInv'
    BY <1>1, <1>6, <2>1 DEF Surveyor!ThreadsInv
  <2>3. Surveyor!RegisteredOnce => c = 1
    BY <1>2, <1>3, <1>8 DEF Surveyor!RegisteredOnce
  <2> QED BY <1>5, <1>6, <2>1, <2>2, <2>3 DEF Surveyor!CalledOnce
<1> QED BY <1>6, <1>7, <1>8

\* An open has an ID that no other has.
LEMMA LogStep ==
    ASSUME Surveyor!ThreadsInv, Surveyor!RegisteredOnce, Surveyor!OnceInv, NEW t \in Loggers,
           NEW k \in Surveyor!ToSet(Surveyor!TokenTypes), NEW a \in Surveyor!Activities(k), Surveyor!Log(t, a)
    PROVE  Surveyor!OnceInv'
<1> USE DEF Surveyor!OnceInv
<1>1. opens \in Nat /\ UNCHANGED <<openFileSurveys, closedFileSurveys, handled, peak>>
  BY DEF Surveyor!Log, Surveyor!ThreadsInv, Surveyor!surveys
<1>2. a \in Surveyor!Acts /\ a.kind = k /\ a.token \in Surveyor!Types /\ (k = "open" => a.aid = opens + 1)
  BY <1>1, ActivityFacts
<1>3. Surveyor!CalledOnce'
  BY LogThreads
<1>4. /\ opens' = IF k = "open" THEN opens + 1 ELSE opens
      /\ th[t].pc = "idle"
      /\ UNCHANGED th \/ th' = [th EXCEPT ![t] = [Surveyor!Idle EXCEPT !.pc = "ensure", !.op = "log", !.act = a,
                                                          !.calls = registered[a.token]]]
  BY <1>2 DEF Surveyor!Log
<1>5. ASSUME NEW u \in Loggers, Surveyor!Opening(u)'
      PROVE  \/ Surveyor!Opening(u) /\ th'[u].act = th[u].act
             \/ u = t /\ th'[u].act = a /\ k = "open"
  <2>1. CASE UNCHANGED th
    BY <1>5, <2>1 DEF Surveyor!Opening
  <2>2. CASE th' = [th EXCEPT ![t] = [Surveyor!Idle EXCEPT !.pc = "ensure", !.op = "log", !.act = a,
                                                          !.calls = registered[a.token]]]
    <3>1. PICK x : x = [Surveyor!Idle EXCEPT !.pc = "ensure", !.op = "log", !.act = a, !.calls = registered[a.token]]
      OBVIOUS
    <3>2. x.act = a
      BY <3>1 DEF Surveyor!Idle
    <3>3. th'[t] = x /\ \A v \in Loggers \ {t} : th'[v] = th[v]
      BY <2>2, <3>1 DEF Surveyor!ThreadsInv
    <3> QED BY <1>2, <1>5, <3>2, <3>3 DEF Surveyor!Opening
  <2> QED BY <1>4, <2>1, <2>2
<1>6. /\ opens' \in Nat /\ opens' >= opens /\ DOMAIN openFileSurveys \subseteq 1 .. opens
      /\ DOMAIN openFileSurveys' \subseteq 1 .. opens'
  <2>1. opens' \in Nat /\ opens' >= opens
    BY <1>1, <1>4
  <2>2. DOMAIN openFileSurveys \subseteq 1 .. opens
    BY DEF Surveyor!SurveysInv
  <2> QED BY <1>1, <2>1, <2>2
<1>7. ASSUME NEW u \in Loggers, Surveyor!Opening(u) PROVE th[u].act.aid \in (1 .. opens) \ DOMAIN openFileSurveys
  BY <1>7 DEF Surveyor!SurveysInv
<1>8. ASSUME NEW u \in Loggers, Surveyor!Opening(u)'
      PROVE  /\ th'[u].act.aid \in (1 .. opens') \ DOMAIN openFileSurveys'
             /\ \A v \in Loggers \ {u} : Surveyor!Opening(v)' => th'[v].act.aid # th'[u].act.aid
  <2>1. CASE Surveyor!Opening(u) /\ th'[u].act = th[u].act
    <3>1. th'[u].act.aid \in (1 .. opens) \ DOMAIN openFileSurveys
      BY <1>7, <2>1
    <3>2. ASSUME NEW v \in Loggers \ {u}, Surveyor!Opening(v)' PROVE th'[v].act.aid # th'[u].act.aid
      <4>1. CASE Surveyor!Opening(v) /\ th'[v].act = th[v].act
        BY <2>1, <4>1 DEF Surveyor!SurveysInv
      <4>2. CASE th'[v].act = a /\ k = "open"
        BY <1>1, <1>2, <3>1, <4>2
      <4> QED BY <1>5, <3>2, <4>1, <4>2
    <3> QED BY <1>1, <1>6, <3>1, <3>2
  <2>2. CASE u = t /\ th'[u].act = a /\ k = "open"
    <3>1. th'[u].act.aid = opens + 1 /\ opens' = opens + 1
      BY <1>2, <1>4, <2>2
    <3>2. ASSUME NEW v \in Loggers \ {u}, Surveyor!Opening(v)' PROVE th'[v].act.aid # th'[u].act.aid
      <4>1. Surveyor!Opening(v) /\ th'[v].act = th[v].act
        BY <1>5, <2>2, <3>2
      <4>2. th'[v].act.aid \in 1 .. opens
        BY <1>7, <4>1
      <4> QED BY <1>1, <3>1, <4>2
    <3> QED BY <1>1, <1>6, <3>1, <3>2
  <2> QED BY <1>5, <1>8, <2>1, <2>2
<1>9. Surveyor!SurveysInv'
  BY <1>1, <1>6, <1>8 DEF Surveyor!SurveysInv
<1>10. Surveyor!SurveysAreReused' /\ Surveyor!CountersAddUp'
  BY <1>1, AgreeIs
<1> QED BY <1>3, <1>9, <1>10

\* Something that is not about threads or surveys.
LEMMA SurveyorStutters ==
    ASSUME Surveyor!IInv,
           UNCHANGED <<initLevel, registered, th, openFileSurveys, closedFileSurveys, opens, handled, peak>>
    PROVE  Surveyor!IInv'
<1>1. Surveyor!ThreadsInv' /\ (Surveyor!RegisteredOnce' <=> Surveyor!RegisteredOnce)
  BY DEF Surveyor!IInv, Surveyor!ThreadsInv, Surveyor!RegisteredOnce
<1>2. ASSUME Surveyor!OnceInv PROVE Surveyor!OnceInv'
  <2>1. Surveyor!SurveysInv' /\ Surveyor!CalledOnce'
    BY <1>2 DEF Surveyor!OnceInv, Surveyor!SurveysInv, Surveyor!Opening, Surveyor!CalledOnce
  <2> QED BY <1>2, <2>1, AgreeIs DEF Surveyor!OnceInv
<1> QED BY <1>1, <1>2 DEF Surveyor!IInv

LEMMA SurveyorInductive ==
    ASSUME Surveyor!IInv, Surveyor!Next
    PROVE  Surveyor!IInv'
<1> USE DEF Surveyor!IInv
<1>1. ASSUME NEW t \in Loggers, Calm(t), Surveyor!OnceInv => Surveyor!OnceInv' PROVE Surveyor!IInv'
  BY <1>1, CalmThreads
<1>2. ASSUME NEW t \in Loggers, Calm(t), UNCHANGED Surveyor!surveys PROVE Surveyor!IInv'
  <2>1. UNCHANGED <<openFileSurveys, closedFileSurveys, handled, peak>>
    BY <1>2 DEF Surveyor!surveys
  <2> QED BY <1>1, <1>2, <2>1, SurveysKept
<1>3. ASSUME NEW n \in Surveyor!Names, Surveyor!Learn(n) PROVE Surveyor!IInv'
  BY <1>3, SurveyorStutters DEF Surveyor!Learn, Surveyor!surveys
<1>4. ASSUME NEW t \in Loggers, Surveyor!OutOfRange(t) PROVE Surveyor!IInv'
  BY <1>4, SurveyorStutters DEF Surveyor!OutOfRange, Surveyor!surveys, Surveyor!Others
<1>5. ASSUME NEW t \in Loggers, Surveyor!init(t) \/ Surveyor!prepareReport(t) \/ Surveyor!ReportEnds(t)
      PROVE  Surveyor!IInv'
  <2>1. UNCHANGED Surveyor!surveys
    BY <1>5 DEF Surveyor!init, Surveyor!prepareReport, Surveyor!ReportEnds
  <2> QED BY <1>2, <1>5, <2>1, FirstSteps
<1>6. ASSUME NEW t \in Loggers, Surveyor!tryEnsureInitialization(t) \/ Surveyor!findParentAID(t)
      PROVE  Surveyor!IInv'
  <2>1. UNCHANGED Surveyor!surveys
    BY <1>6 DEF Surveyor!tryEnsureInitialization, Surveyor!findParentAID
  <2> QED BY <1>2, <1>6, <2>1, EnsureSteps, FindSteps
<1>7. ASSUME NEW t \in Loggers, Surveyor!initPlugin(t) \/ Surveyor!registerForUcaid(t) PROVE Surveyor!IInv'
  <2>1. UNCHANGED Surveyor!surveys
    BY <1>7 DEF Surveyor!initPlugin, Surveyor!registerForUcaid
  <2> QED BY <1>2, <1>7, <2>1, InitPluginSteps, RegisterSteps
<1>8. ASSUME NEW t \in Loggers, th[t].pc = "apply", Surveyor!Returned(t),
             UNCHANGED <<initLevel, registered, opens>>, Surveyor!OnceInv => Surveyor!OnceInv'
      PROVE  Surveyor!IInv'
  BY <1>1, <1>8, SurveyThreads
<1>9. ASSUME NEW t \in Loggers, Surveyor!updateSurveyRead(t) \/ Surveyor!updateSurveyWrite(t) PROVE Surveyor!IInv'
  <2>1. PICK k \in {"read", "write"} : Surveyor!Access(t, k)
    BY <1>9 DEF Surveyor!updateSurveyRead, Surveyor!updateSurveyWrite
  <2>2. /\ th[t].pc = "apply" /\ Surveyor!Returned(t) /\ UNCHANGED <<initLevel, registered, opens>>
    BY <2>1 DEF Surveyor!Access, Surveyor!Applying, Surveyor!Update, Surveyor!Others
  <2> QED BY <1>8, <2>1, <2>2, AccessStep
<1>10. ASSUME NEW t \in Loggers, Surveyor!updateSurveySeek(t) PROVE Surveyor!IInv'
  <2>1. /\ th[t].pc = "apply" /\ Surveyor!Returned(t) /\ UNCHANGED <<initLevel, registered, opens>>
    BY <1>10 DEF Surveyor!updateSurveySeek, Surveyor!Applying, Surveyor!Update, Surveyor!Others
  <2> QED BY <1>8, <1>10, <2>1, SeekStep
<1>11. ASSUME NEW t \in Loggers, Surveyor!openSurvey(t) \/ Surveyor!closeSurvey(t) PROVE Surveyor!IInv'
  <2>1. /\ th[t].pc = "apply" /\ Surveyor!Returned(t) /\ UNCHANGED <<initLevel, registered, opens>>
    BY <1>11 DEF Surveyor!openSurvey, Surveyor!closeSurvey, Surveyor!Applying, Surveyor!Others
  <2> QED BY <1>8, <1>11, <2>1, OpenStep, CloseStep
<1>12. ASSUME NEW t \in Loggers, NEW k \in Surveyor!ToSet(Surveyor!TokenTypes),
              NEW a \in Surveyor!Activities(k), Surveyor!Log(t, a)
       PROVE  Surveyor!IInv'
  <2>1. Surveyor!ThreadsInv' /\ (Surveyor!RegisteredOnce' => Surveyor!RegisteredOnce)
    BY <1>12, LogThreads DEF Surveyor!RegisteredOnce
  <2> QED BY <1>12, <2>1, LogStep
<1>13. \/ \E n \in Surveyor!Names : Surveyor!Learn(n)
       \/ \E t \in Loggers :
            \/ Surveyor!init(t) \/ Surveyor!prepareReport(t) \/ Surveyor!Step(t)
            \/ \E k \in Surveyor!ToSet(Surveyor!TokenTypes) : \E a \in Surveyor!Activities(k) : Surveyor!Log(t, a)
  BY DEF Surveyor!Next
<1>14. ASSUME NEW t \in Loggers, Surveyor!Step(t) PROVE Surveyor!IInv'
  BY <1>4, <1>5, <1>6, <1>7, <1>9, <1>10, <1>11, <1>14 DEF Surveyor!Step
<1> QED BY <1>3, <1>5, <1>12, <1>13, <1>14

\* Nothing is counted at first.
LEMMA SurveyorBegins ==
    ASSUME Surveyor!Init
    PROVE  Surveyor!IInv
<1>1. /\ initLevel = 0 /\ registered = [k \in Surveyor!Types |-> 0] /\ started = FALSE
      /\ th = [t \in Loggers |-> Surveyor!Idle] /\ openFileSurveys = << >> /\ closedFileSurveys = << >>
      /\ opens = 0 /\ handled = [f \in Files |-> [k \in Surveyor!Counters |-> 0]] /\ peak = [f \in Files |-> 0]
  BY DEF Surveyor!Init
<1>2. Surveyor!ThreadsInv
  <2>1. th \in [Loggers -> Surveyor!ThreadStates]
    BY <1>1 DEF Surveyor!ThreadStates
  <2> QED BY <1>1, <2>1 DEF Surveyor!ThreadsInv
<1>3. Surveyor!CalledOnce
  BY <1>1 DEF Surveyor!CalledOnce, Surveyor!Idle
<1>4. Surveyor!SurveysInv
  BY <1>1 DEF Surveyor!SurveysInv, Surveyor!Opening, Surveyor!Idle
<1>5. ASSUME NEW f \in Files, NEW k \in Surveyor!Counters
      PROVE  Surveyor!Of(<< >>, f) = {} /\ Surveyor!aggregateSurveys(<< >>, f, k) = 0
  <2>1. Surveyor!Of(<< >>, f) = {}
    BY DEF Surveyor!Of
  <2>2. PICK v : v = [n \in Surveyor!Of(<< >>, f) |-> Surveyor!Value(<< >>[n], k)]
    OBVIOUS
  <2>3. DOMAIN v = {} /\ Surveyor!aggregateSurveys(<< >>, f, k) = Surveyor!SumFunction(v)
    BY <2>1, <2>2 DEF Surveyor!aggregateSurveys
  <2> QED BY <2>1, <2>3, SumOfNone
<1>6. Agree(openFileSurveys, closedFileSurveys, handled, peak)
  <2>1. Cardinality({}) = 0
    BY FS_EmptySet
  <2>2. ASSUME NEW f \in Files
        PROVE  /\ Cardinality(Surveyor!Of(<< >>, f)) + Cardinality(Surveyor!Of(<< >>, f)) = 0
               /\ \A k \in Surveyor!Counters :
                     Surveyor!aggregateSurveys(<< >>, f, k) + Surveyor!aggregateSurveys(<< >>, f, k) = 0
    <3>1. Surveyor!Of(<< >>, f) = {}
      BY DEF Surveyor!Of
    <3>2. \A k \in Surveyor!Counters : Surveyor!aggregateSurveys(<< >>, f, k) = 0
      BY <1>5
    <3>3. Cardinality(Surveyor!Of(<< >>, f)) = 0
      BY <2>1, <3>1
    <3>4. 0 + 0 = 0
      OBVIOUS
    <3> QED BY <3>2, <3>3, <3>4, Zenon
  <2>3. \A f \in Files : peak[f] = 0 /\ \A k \in Surveyor!Counters : handled[f][k] = 0
    BY <1>1
  <2> QED BY <1>1, <2>2, <2>3 DEF Agree
<1> QED BY <1>2, <1>3, <1>4, <1>6, AgreeIs DEF Surveyor!IInv, Surveyor!OnceInv

LEMMA SurveyorRuns == MCSpec => []Surveyor!IInv
<1>1. MCInit => Surveyor!IInv
  BY SurveyorBegins DEF MCInit
<1>2. Surveyor!IInv /\ [MCNext]_allVars => Surveyor!IInv'
  <2> SUFFICES ASSUME Surveyor!IInv, [MCNext]_allVars PROVE Surveyor!IInv'
    OBVIOUS
  <2>1. CASE Surveyor!Next
    BY <2>1, SurveyorInductive
  <2>2. CASE UNCHANGED surveyorVars
    BY <2>2, SurveyorStutters DEF surveyorVars
  <2> QED BY <2>1, <2>2 DEF MCNext, allVars
<1> QED BY <1>1, <1>2, PTL DEF MCSpec

\* FileSurveyor: unless a retried level has registered a callback again, an
\* activity on an open file is counted in one survey, and opens and closes that
\* move surveys between the collections lose none and double none, for any
\* number of threads and files and any lists of tokens.
THEOREM SurveyCounting == MCSpec => []CountedOnce
<1>1. Surveyor!IInv => CountedOnce
  BY DEF Surveyor!IInv, Surveyor!OnceInv, CountedOnce, Surveyor!CountedOnce
<1> QED BY <1>1, SurveyorRuns, PTL
=============================================================================
