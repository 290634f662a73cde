------------------------- MODULE Application_proofs -------------------------
(***************************************************************************)
(* Proofs about the low-level API as the application run has it, for every *)
(* set of threads and interfaces and any number of initialisations, forks  *)
(* and activities: IDs are unique and name the process, parents enclose    *)
(* their children, and after a re-initialisation nothing of the earlier    *)
(* one is used.  And about the replay of a program, with any handles,      *)
(* files and calls: it goes where the program went.                        *)
(***************************************************************************)
EXTENDS MCApplication, FiniteSetTheorems, TLAPS

-----------------------------------------------------------------------------
(* What a step does to the activities.                                     *)

\* The activities and their builders stay as they are.
Quiet == UNCHANGED <<thread_id, next_activity_id, activity_stack, current_thread_ID, aAct>>

\* A step leaves the activities alone, adds one or changes the phase of one.
LEMMA StepKinds ==
    ASSUME API!Next
    PROVE  \/ Quiet
           \/ API!siox_initialize_monitoring \/ API!finalizeEnd
           \/ \E t \in ApiThreads, u \in Uids : API!siox_activity_begin(t, u)
           \/ \E t \in ApiThreads :
                 API!siox_activity_start(t) \/ API!siox_activity_stop(t) \/ API!siox_activity_end(t)
<1> USE DEF Quiet, API!actVars
<1>1. CASE API!siox_disable_monitoring \/ API!siox_enable_monitoring \/ API!initialize_fails
  BY <1>1 DEF API!siox_disable_monitoring, API!siox_enable_monitoring, API!initialize_fails
<1>2. CASE API!siox_finalize_monitoring \/ API!siox_ll_dtor
  BY <1>2 DEF API!siox_finalize_monitoring, API!siox_ll_dtor, API!finalizeSIOX
<1>3. ASSUME NEW u \in Uids, API!sioxFinal(u) PROVE Quiet
  BY <1>3 DEF API!sioxFinal
<1>4. ASSUME NEW t \in ApiThreads, NEW u \in Uids, API!sioxInit(t, u) PROVE Quiet
  BY <1>4 DEF API!sioxInit
<1>5. ASSUME NEW t \in ApiThreads, API!registerLoad(t) \/ API!siox_component_register(t) PROVE Quiet
  BY <1>5 DEF API!registerLoad, API!siox_component_register
<1>6. ASSUME NEW t \in ApiThreads,
             \/ API!siox_handle_prepare_fork(t) \/ API!forkParent(t) \/ API!forkChild(t)
             \/ API!siox_handle_fork_complete(t)
      PROVE  Quiet
  BY <1>6 DEF API!siox_handle_prepare_fork, API!forkParent, API!forkChild,
              API!siox_handle_fork_complete
<1> QED
  BY <1>1, <1>2, <1>3, <1>4, <1>5, <1>6 DEF API!Next

\* A new activity of thread t, with the thread's number and the next one of its own.
Draws(t, a) ==
    /\ a \in API!Activity /\ aAct' = Append(aAct, a) /\ API!getThreadInstance(t)
    /\ next_activity_id' = [next_activity_id EXCEPT ![t] = @ + 1]
    /\ a.aid[3] = thread_id'[t] /\ a.aid[4] = next_activity_id[t]

LEMMA AppendFacts ==
    ASSUME NEW S, NEW s \in Seq(S), NEW x \in S, NEW s1, s1 = Append(s, x)
    PROVE  /\ s1 \in Seq(S) /\ Len(s) \in Nat /\ Len(s1) = Len(s) + 1
           /\ DOMAIN s = 1 .. Len(s) /\ DOMAIN s1 = 1 .. Len(s) + 1
           /\ \A i \in 1 .. Len(s) : s1[i] = s[i]
           /\ s1[Len(s) + 1] = x
OBVIOUS

LEMMA NewNumber ==
    ASSUME API!ActivitiesOK, API!NumbersInv, NEW t \in ApiThreads, NEW a, Draws(t, a)
    PROVE  /\ API!NumbersInv' /\ thread_id' \in [ApiThreads -> Nat]
           /\ next_activity_id' \in [ApiThreads -> Nat] /\ current_thread_ID' \in Nat
<1>0. /\ aAct \in Seq(API!Activity) /\ thread_id \in [ApiThreads -> Nat]
      /\ next_activity_id \in [ApiThreads -> Nat] /\ current_thread_ID \in Nat
      /\ a \in API!Activity /\ aAct' = Append(aAct, a)
  BY DEF API!ActivitiesOK, Draws
<1>1. /\ Len(aAct) \in Nat /\ DOMAIN aAct = 1 .. Len(aAct) /\ DOMAIN aAct' = 1 .. Len(aAct) + 1
      /\ \A i \in 1 .. Len(aAct) : aAct'[i] = aAct[i]
      /\ aAct'[Len(aAct) + 1] = a
  BY <1>0, AppendFacts
<1>2. /\ next_activity_id' \in [ApiThreads -> Nat] /\ next_activity_id'[t] = next_activity_id[t] + 1
      /\ \A x \in ApiThreads \ {t} : next_activity_id'[x] = next_activity_id[x]
  BY <1>0 DEF Draws
<1>3. /\ thread_id' \in [ApiThreads -> Nat] /\ current_thread_ID' \in Nat /\ thread_id'[t] # 0
      /\ \A x \in ApiThreads : thread_id[x] # 0 => thread_id'[x] = thread_id[x]
      /\ \A x \in ApiThreads \ {t} : thread_id'[x] = thread_id[x]
      /\ \A x \in ApiThreads : thread_id'[x] <= current_thread_ID'
      /\ \A x, y \in ApiThreads : thread_id'[x] # 0 /\ thread_id'[x] = thread_id'[y] => x = y
  <2>1. CASE thread_id[t] # 0
    BY <1>0, <2>1 DEF Draws, API!getThreadInstance, API!NumbersInv
  <2>2. CASE thread_id[t] = 0
    <3>1. /\ current_thread_ID' = current_thread_ID + 1
          /\ thread_id' = [thread_id EXCEPT ![t] = current_thread_ID + 1]
      BY <2>2 DEF Draws, API!getThreadInstance
    <3>2. \A x \in ApiThreads : thread_id[x] <= current_thread_ID
      BY DEF API!NumbersInv
    <3>3. \A x, y \in ApiThreads : thread_id[x] # 0 /\ thread_id[x] = thread_id[y] => x = y
      BY DEF API!NumbersInv
    <3> QED BY <1>0, <2>2, <3>1, <3>2, <3>3
  <2> QED BY <2>1, <2>2
<1>4. ASSUME NEW i \in 1 .. Len(aAct)
      PROVE  \E x \in ApiThreads : /\ thread_id[x] # 0 /\ aAct[i].aid[3] = thread_id[x]
                                   /\ aAct[i].aid[4] < next_activity_id[x]
  BY <1>1 DEF API!NumbersInv
<1>5. ASSUME NEW i \in 1 .. Len(aAct) PROVE aAct[i].aid[4] \in Nat /\ aAct[i].aid # a.aid
  <2>1. PICK x \in ApiThreads : /\ thread_id[x] # 0 /\ aAct[i].aid[3] = thread_id[x]
                                /\ aAct[i].aid[4] < next_activity_id[x]
    BY <1>4
  <2>2. aAct[i].aid \in Nat \X Nat \X Nat \X Nat
    <3>1. aAct[i] \in API!Activity
      BY <1>0, <1>1
    <3> QED BY <3>1, Zenon DEF API!Activity
  <2>3. CASE aAct[i].aid[3] = a.aid[3]
    <3>1. x = t
      BY <1>3, <2>1, <2>3 DEF Draws
    <3> QED BY <1>0, <2>1, <2>2, <3>1 DEF Draws
  <2> QED BY <2>2, <2>3
<1>6. \A i \in DOMAIN aAct' : \E x \in ApiThreads :
         /\ thread_id'[x] # 0 /\ aAct'[i].aid[3] = thread_id'[x]
         /\ aAct'[i].aid[4] < next_activity_id'[x]
  <2> SUFFICES ASSUME NEW i \in 1 .. Len(aAct) + 1
               PROVE  \E x \in ApiThreads :
                         /\ thread_id'[x] # 0 /\ aAct'[i].aid[3] = thread_id'[x]
                         /\ aAct'[i].aid[4] < next_activity_id'[x]
    BY <1>1
  <2>1. CASE i \in 1 .. Len(aAct)
    <3>1. PICK x \in ApiThreads : /\ thread_id[x] # 0 /\ aAct[i].aid[3] = thread_id[x]
                                  /\ aAct[i].aid[4] < next_activity_id[x]
      BY <1>4, <2>1
    <3>2. aAct'[i].aid[4] < next_activity_id'[x]
      <4>1. aAct'[i] = aAct[i] /\ aAct[i].aid[4] \in Nat
        BY <1>1, <1>5, <2>1
      <4>2. next_activity_id[x] \in Nat /\ next_activity_id'[x] \in Nat
            /\ next_activity_id[x] <= next_activity_id'[x]
        <5>1. CASE x = t
          BY <1>0, <1>2, <5>1
        <5>2. CASE x # t
          BY <1>0, <1>2, <5>2
        <5> QED BY <5>1, <5>2
      <4>3. \A m, n, o \in Nat : m < n /\ n <= o => m < o
        OBVIOUS
      <4> QED BY <3>1, <4>1, <4>2, <4>3
    <3> QED BY <1>1, <1>3, <2>1, <3>1, <3>2
  <2>2. CASE i = Len(aAct) + 1
    BY <1>0, <1>1, <1>2, <1>3, <2>2 DEF Draws
  <2> QED BY <1>1, <2>1, <2>2
<1>7. \A i, j \in DOMAIN aAct' : aAct'[i].aid = aAct'[j].aid => i = j
  BY <1>1, <1>5 DEF API!NumbersInv
<1> QED
  BY <1>2, <1>3, <1>6, <1>7 DEF API!NumbersInv

LEMMA ThreadNumber ==
    ASSUME API!ActivitiesOK, NEW t \in ApiThreads, API!getThreadInstance(t)
    PROVE  thread_id'[t] \in Nat
BY DEF API!ActivitiesOK, API!getThreadInstance

\* The activities of initialisation and finalisation are over at once.
LEMMA TraceDraws ==
    ASSUME API!ActivitiesOK, NEW p \in Nat, getpid \in Nat, Main \in ApiThreads,
           API!internal_trace_heavyWeight(Main, p)
    PROVE  \E a : /\ Draws(Main, a) /\ a.phase = "ended" /\ a.aid[1] = p /\ a.begunIn = getpid
                  /\ UNCHANGED <<activity_stack, late>>
<1> DEFINE d == <<p, 0, thread_id'[Main], next_activity_id[Main]>>
           a == [aid |-> d, begunIn |-> getpid, parent |-> 0, comp |-> 0, phase |-> "ended"]
<1>1. API!getThreadInstance(Main)
  BY DEF API!internal_trace_heavyWeight
<1>2. thread_id'[Main] \in Nat /\ next_activity_id[Main] \in Nat
  BY <1>1, ThreadNumber DEF API!ActivitiesOK
<1>3. d \in Nat \X Nat \X Nat \X Nat
  BY <1>2
<1>4. d[1] = p /\ d[3] = thread_id'[Main] /\ d[4] = next_activity_id[Main]
  OBVIOUS
<1>5. /\ next_activity_id' = [next_activity_id EXCEPT ![Main] = @ + 1] /\ aAct' = Append(aAct, a)
      /\ UNCHANGED <<activity_stack, late>>
  BY DEF API!internal_trace_heavyWeight
<1> HIDE DEF d
<1>6. a \in API!Activity
  BY <1>3 DEF API!Activity
<1> QED
  BY <1>1, <1>4, <1>5, <1>6 DEF Draws

\* The activity of an instrumented function, pushed on the thread's stack.
Pushes(t, a) ==
    /\ Draws(t, a) /\ a.phase = "begun" /\ a.begunIn = getpid
    /\ a.parent = IF activity_stack[t] = << >> THEN 0 ELSE API!Last(activity_stack[t])
    /\ activity_stack' = [activity_stack EXCEPT ![t] = Append(@, Len(aAct) + 1)]

LEMMA ComponentFacts ==
    ASSUME API!ComponentsOK, API!TypeOK, NEW u \in Uids, aLayer[u] # 0
    PROVE  /\ aLayer[u] \in Nat /\ aLayer[u] \in DOMAIN comp
           /\ comp[aLayer[u]] \in API!Component
<1>1. aLayer[u] \in 1 .. Len(comp) /\ Len(comp) \in Nat
  BY DEF API!TypeOK, API!ComponentsOK
<1>2. \A S, s : s \in Seq(S) => DOMAIN s = 1 .. Len(s) /\ \A i \in 1 .. Len(s) : s[i] \in S
  OBVIOUS
<1>3. comp \in Seq(API!Component)
  BY DEF API!ComponentsOK
<1>4. DOMAIN comp = 1 .. Len(comp)
      /\ \A i \in 1 .. Len(comp) : comp[i] \in API!Component
  BY <1>2, <1>3, Zenon
<1> QED BY <1>1, <1>4

LEMMA BeginDraws ==
    ASSUME API!ActivitiesOK, API!ComponentsOK, API!TypeOK, NEW t \in ApiThreads, NEW u \in Uids,
           API!siox_activity_begin(t, u)
    PROVE  \E a : /\ Pushes(t, a) /\ a.comp = aLayer[u] /\ a.aid[1] = comp[aLayer[u]].pid
<1> DEFINE c == comp[aLayer[u]]
           d == <<c.pid, aLayer[u], thread_id'[t], next_activity_id[t]>>
           e == IF activity_stack[t] = << >> THEN 0 ELSE API!Last(activity_stack[t])
           a == [aid |-> d, begunIn |-> getpid, parent |-> e, comp |-> aLayer[u], phase |-> "begun"]
<1>1. API!beginActivity(t, aLayer[u], c.pid) /\ aLayer[u] # 0
      /\ activity_stack' = [activity_stack EXCEPT ![t] = Append(@, Len(aAct'))]
  BY DEF API!siox_activity_begin
<1>2. thread_id'[t] \in Nat /\ next_activity_id[t] \in Nat /\ API!getThreadInstance(t)
  BY <1>1, ThreadNumber DEF API!ActivitiesOK, API!beginActivity
<1>3. aLayer[u] \in Nat /\ c.pid \in Nat /\ getpid \in Nat
  BY <1>1, ComponentFacts DEF API!ComponentsOK, API!Component
<1>4. e \in Nat
  <2>1. activity_stack[t] \in Seq(Nat)
    BY DEF API!ActivitiesOK
  <2> QED BY <2>1 DEF API!Last
<1>5. d \in Nat \X Nat \X Nat \X Nat
  BY <1>2, <1>3
<1>6. d[1] = c.pid /\ d[3] = thread_id'[t] /\ d[4] = next_activity_id[t]
  OBVIOUS
<1>7. /\ next_activity_id' = [next_activity_id EXCEPT ![t] = @ + 1] /\ aAct' = Append(aAct, a)
  BY <1>1 DEF API!beginActivity
<1> HIDE DEF d, e
<1>8. a \in API!Activity
  BY <1>3, <1>4, <1>5 DEF API!Activity
<1>9. Len(aAct') = Len(aAct) + 1
  BY <1>7, <1>8, AppendFacts DEF API!ActivitiesOK
<1>10. Draws(t, a)
  BY <1>2, <1>6, <1>7, <1>8 DEF Draws
<1> QED
  BY <1>1, <1>6, <1>9, <1>10 DEF Pushes, e

\* A step of an activity changes its phase and nothing else of it.
PhaseSet(b, v) ==
    /\ b \in DOMAIN aAct /\ aAct' \in Seq(API!Activity)
    /\ Len(aAct') = Len(aAct) /\ DOMAIN aAct' = DOMAIN aAct
    /\ \A i \in DOMAIN aAct :
         /\ aAct'[i].aid = aAct[i].aid /\ aAct'[i].begunIn = aAct[i].begunIn
         /\ aAct'[i].parent = aAct[i].parent /\ aAct'[i].comp = aAct[i].comp
         /\ aAct'[i].phase = IF i = b THEN v ELSE aAct[i].phase

LEMMA PhaseOnly ==
    ASSUME API!ActivitiesOK, NEW b \in DOMAIN aAct,
           NEW v \in {"begun", "started", "stopped", "ended"},
           aAct' = [aAct EXCEPT ![b].phase = v]
    PROVE  PhaseSet(b, v)
<1>1. aAct \in Seq(API!Activity) /\ \A i \in DOMAIN aAct : aAct[i] \in API!Activity
  BY DEF API!ActivitiesOK
<1> DEFINE g == [aAct[b] EXCEPT !.phase = v]
<1>2. g \in API!Activity /\ g.aid = aAct[b].aid /\ g.begunIn = aAct[b].begunIn
      /\ g.parent = aAct[b].parent /\ g.comp = aAct[b].comp /\ g.phase = v
  BY <1>1 DEF API!Activity
<1>3. aAct' = [aAct EXCEPT ![b] = g]
  OBVIOUS
<1> HIDE DEF g
<1>4. \A S, s, x : s \in Seq(S) /\ x \in S =>
        \A i \in DOMAIN s : /\ [s EXCEPT ![i] = x] \in Seq(S)
                            /\ Len([s EXCEPT ![i] = x]) = Len(s)
  OBVIOUS
<1>5. aAct' \in Seq(API!Activity) /\ Len(aAct') = Len(aAct)
  BY <1>1, <1>2, <1>3, <1>4
<1>6. \A i \in DOMAIN aAct : aAct'[i] = IF i = b THEN g ELSE aAct[i]
  BY <1>3
<1> QED BY <1>2, <1>3, <1>5, <1>6 DEF PhaseSet

-----------------------------------------------------------------------------
(* The stacks.                                                             *)

LEMMA FrontFacts ==
    ASSUME NEW s \in Seq(Nat), s # << >>
    PROVE  /\ Len(s) \in Nat \ {0} /\ API!Last(s) = s[Len(s)] /\ API!Front(s) \in Seq(Nat)
           /\ DOMAIN s = 1 .. Len(s) /\ DOMAIN API!Front(s) = 1 .. Len(s) - 1
           /\ \A i \in 1 .. Len(s) - 1 : API!Front(s)[i] = s[i]
<1>1. Len(s) \in Nat \ {0} /\ DOMAIN s = 1 .. Len(s) /\ \A i \in 1 .. Len(s) : s[i] \in Nat
  OBVIOUS
<1>2. API!Front(s) = SubSeq(s, 1, Len(s) - 1)
  BY DEF API!Front
<1>3. SubSeq(s, 1, Len(s) - 1) \in Seq(Nat) /\ Len(SubSeq(s, 1, Len(s) - 1)) = Len(s) - 1
      /\ \A i \in 1 .. Len(s) - 1 : SubSeq(s, 1, Len(s) - 1)[i] = s[i]
  BY <1>1
<1> QED BY <1>1, <1>2, <1>3 DEF API!Last

LEMMA StackTrace ==
    ASSUME API!ActivitiesOK, API!StackInv, NEW t \in ApiThreads, NEW a, Draws(t, a),
           a.phase = "ended", activity_stack' = activity_stack
    PROVE  API!StackInv'
<1>1. /\ Len(aAct) \in Nat /\ DOMAIN aAct = 1 .. Len(aAct) /\ DOMAIN aAct' = 1 .. Len(aAct) + 1
      /\ \A i \in 1 .. Len(aAct) : aAct'[i] = aAct[i]
      /\ aAct'[Len(aAct) + 1] = a
  BY AppendFacts DEF Draws, API!ActivitiesOK
<1>2. \A i \in DOMAIN aAct' : aAct'[i].phase # "ended" => i \in DOMAIN aAct /\ aAct'[i] = aAct[i]
  BY <1>1
<1>3. \A i \in DOMAIN aAct : i \in DOMAIN aAct' /\ aAct'[i] = aAct[i]
  BY <1>1
<1>4. \A x \in ApiThreads : \A k \in DOMAIN activity_stack[x] : activity_stack[x][k] \in DOMAIN aAct
  BY DEF API!StackInv
<1>5. \A x \in ApiThreads : \A k \in DOMAIN activity_stack[x] :
        aAct'[activity_stack[x][k]] = aAct[activity_stack[x][k]]
  BY <1>3, <1>4
<1> QED BY <1>2, <1>3, <1>5 DEF API!StackInv

LEMMA StackPush ==
    ASSUME API!ActivitiesOK, API!StackInv, NEW t \in ApiThreads, NEW a, Pushes(t, a)
    PROVE  API!StackInv' /\ activity_stack' \in [ApiThreads -> Seq(Nat)]
<1> DEFINE N == Len(aAct) + 1
           s == activity_stack[t]
           s1 == activity_stack'[t]
<1>1. /\ Len(aAct) \in Nat /\ DOMAIN aAct = 1 .. Len(aAct) /\ DOMAIN aAct' = 1 .. Len(aAct) + 1
      /\ \A i \in 1 .. Len(aAct) : aAct'[i] = aAct[i]
      /\ aAct'[Len(aAct) + 1] = a
  BY AppendFacts DEF Pushes, Draws, API!ActivitiesOK
<1>2. s \in Seq(Nat) /\ activity_stack \in [ApiThreads -> Seq(Nat)] /\ N \in Nat
  BY <1>1 DEF API!ActivitiesOK
<1>3. /\ activity_stack' = [activity_stack EXCEPT ![t] = Append(s, N)]
      /\ Append(s, N) \in Seq(Nat)
  BY <1>2 DEF Pushes
<1>4. /\ s1 = Append(s, N) /\ activity_stack' \in [ApiThreads -> Seq(Nat)]
      /\ \A x \in ApiThreads \ {t} : activity_stack'[x] = activity_stack[x]
  BY <1>2, <1>3
<1>5. /\ Len(s) \in Nat /\ DOMAIN s = 1 .. Len(s) /\ DOMAIN s1 = 1 .. Len(s) + 1
      /\ (\A k \in 1 .. Len(s) : s1[k] = s[k]) /\ s1[Len(s) + 1] = N
  BY <1>2, <1>4, AppendFacts
<1>6. \A x \in ApiThreads : \A k \in DOMAIN activity_stack[x] :
        /\ activity_stack[x][k] \in DOMAIN aAct /\ activity_stack[x][k] # N
        /\ k \in DOMAIN activity_stack'[x] /\ activity_stack'[x][k] = activity_stack[x][k]
        /\ aAct'[activity_stack[x][k]] = aAct[activity_stack[x][k]]
  <2> TAKE x \in ApiThreads
  <2> TAKE k \in DOMAIN activity_stack[x]
  <2>1. activity_stack[x][k] \in DOMAIN aAct
    BY DEF API!StackInv
  <2>2. CASE x = t
    BY <1>1, <1>5, <2>1, <2>2
  <2>3. CASE x # t
    BY <1>1, <1>4, <2>1, <2>3
  <2> QED BY <2>2, <2>3
<1>7. \A x \in ApiThreads : \A k \in DOMAIN activity_stack'[x] :
        \/ k \in DOMAIN activity_stack[x]
        \/ x = t /\ k = Len(s) + 1 /\ activity_stack'[x][k] = N
  <2> TAKE x \in ApiThreads
  <2>1. CASE x = t
    BY <1>5, <2>1
  <2>2. CASE x # t
    BY <1>4, <2>2
  <2> QED BY <2>1, <2>2
<1>8. a.parent = IF Len(s) + 1 = 1 THEN 0 ELSE s1[Len(s)]
  <2>1. CASE s = << >>
    BY <2>1 DEF Pushes
  <2>2. CASE s # << >>
    <3>1. Len(s) \in Nat \ {0} /\ API!Last(s) = s[Len(s)]
      BY <1>2, <2>2, FrontFacts
    <3>2. s1[Len(s)] = s[Len(s)] /\ Len(s) + 1 # 1
      BY <1>5, <3>1
    <3>3. a.parent = API!Last(s)
      BY <2>2 DEF Pushes
    <3> QED BY <3>1, <3>2, <3>3
  <2> QED BY <2>1, <2>2
<1>9. a.phase # "ended"
  BY DEF Pushes
<1> HIDE DEF N, s, s1
<1>10. ASSUME NEW x \in ApiThreads, NEW k \in DOMAIN activity_stack'[x]
       PROVE  /\ activity_stack'[x][k] \in DOMAIN aAct'
              /\ aAct'[activity_stack'[x][k]].phase # "ended"
              /\ aAct'[activity_stack'[x][k]].parent = IF k = 1 THEN 0 ELSE activity_stack'[x][k - 1]
              /\ \A y \in ApiThreads : \A l \in DOMAIN activity_stack'[y] :
                   activity_stack'[x][k] = activity_stack'[y][l] => x = y /\ k = l
  <2>1. CASE k \in DOMAIN activity_stack[x]
    <3>1. activity_stack'[x][k] = activity_stack[x][k] /\ activity_stack[x][k] \in DOMAIN aAct
          /\ activity_stack[x][k] # N
      BY <1>6, <2>1
    <3>2. aAct'[activity_stack'[x][k]].phase # "ended" /\ activity_stack'[x][k] \in DOMAIN aAct'
      BY <1>1, <1>6, <2>1, <3>1 DEF API!StackInv
    <3>3. k # 1 => k - 1 \in DOMAIN activity_stack[x]
      BY <1>2, <2>1
    <3>4. aAct'[activity_stack'[x][k]].parent = IF k = 1 THEN 0 ELSE activity_stack'[x][k - 1]
      BY <1>6, <2>1, <3>1, <3>3 DEF API!StackInv
    <3>5. ASSUME NEW y \in ApiThreads, NEW l \in DOMAIN activity_stack'[y],
                 activity_stack'[x][k] = activity_stack'[y][l]
          PROVE  x = y /\ k = l
      <4>1. l \in DOMAIN activity_stack[y] /\ activity_stack'[y][l] = activity_stack[y][l]
        BY <1>6, <1>7, <3>1, <3>5
      <4>2. \A z \in ApiThreads : \A m \in DOMAIN activity_stack[z] :
              activity_stack[x][k] = activity_stack[z][m] => x = z /\ k = m
        BY <2>1 DEF API!StackInv
      <4> QED BY <3>1, <3>5, <4>1, <4>2
    <3> QED BY <3>1, <3>2, <3>4, <3>5
  <2>2. CASE x = t /\ k = Len(s) + 1 /\ activity_stack'[x][k] = N
    <3>1. aAct'[N] = a /\ N \in DOMAIN aAct'
      BY <1>1 DEF N
    <3>2. aAct'[N].parent = IF k = 1 THEN 0 ELSE activity_stack'[x][k - 1]
      BY <1>5, <1>8, <2>2, <3>1 DEF s1
    <3>3. ASSUME NEW y \in ApiThreads, NEW l \in DOMAIN activity_stack'[y],
                 N = activity_stack'[y][l]
          PROVE  x = y /\ k = l
      BY <1>6, <1>7, <2>2, <3>3
    <3> QED BY <1>9, <2>2, <3>1, <3>2, <3>3
  <2> QED BY <1>7, <2>1, <2>2
<1>11. ASSUME NEW i \in DOMAIN aAct', aAct'[i].phase # "ended"
       PROVE  \E x \in ApiThreads : \E k \in DOMAIN activity_stack'[x] : activity_stack'[x][k] = i
  <2>1. CASE i = N
    BY <1>5, <2>1 DEF s1
  <2>2. CASE i # N
    <3>1. i \in DOMAIN aAct /\ aAct'[i] = aAct[i]
      BY <1>1, <2>2 DEF N
    <3>2. PICK x \in ApiThreads : \E k \in DOMAIN activity_stack[x] : activity_stack[x][k] = i
      BY <1>11, <3>1 DEF API!StackInv
    <3> QED BY <1>6, <3>2
  <2> QED BY <2>1, <2>2
<1> QED
  BY <1>4, <1>10, <1>11 DEF API!StackInv

LEMMA StackPhase ==
    ASSUME API!StackInv, NEW b, NEW v, PhaseSet(b, v), v # "ended", aAct[b].phase # "ended",
           activity_stack' = activity_stack
    PROVE  API!StackInv'
<1>1. /\ DOMAIN aAct' = DOMAIN aAct
      /\ \A i \in DOMAIN aAct : /\ aAct'[i].parent = aAct[i].parent
                                /\ aAct'[i].phase # "ended" <=> aAct[i].phase # "ended"
  BY DEF PhaseSet
<1> QED BY <1>1 DEF API!StackInv

LEMMA StackPop ==
    ASSUME API!ActivitiesOK, API!StackInv, NEW t \in ApiThreads, activity_stack[t] # << >>,
           PhaseSet(API!Last(activity_stack[t]), "ended"),
           activity_stack' = [activity_stack EXCEPT ![t] = API!Front(@)]
    PROVE  API!StackInv' /\ activity_stack' \in [ApiThreads -> Seq(Nat)]
<1> DEFINE s == activity_stack[t]
           n == Len(s)
           b == API!Last(s)
<1>1. s \in Seq(Nat) /\ activity_stack \in [ApiThreads -> Seq(Nat)]
  BY DEF API!ActivitiesOK
<1>2. /\ n \in Nat \ {0} /\ b = s[n] /\ API!Front(s) \in Seq(Nat)
      /\ DOMAIN s = 1 .. n /\ DOMAIN API!Front(s) = 1 .. n - 1
      /\ \A i \in 1 .. n - 1 : API!Front(s)[i] = s[i]
  BY <1>1, FrontFacts
<1>3. /\ activity_stack' \in [ApiThreads -> Seq(Nat)] /\ activity_stack'[t] = API!Front(s)
      /\ \A x \in ApiThreads \ {t} : activity_stack'[x] = activity_stack[x]
  BY <1>1, <1>2
<1>4. n \in DOMAIN s
  BY <1>2
<1>5. \A x \in ApiThreads : \A k \in DOMAIN activity_stack[x] :
        activity_stack[x][k] = b => x = t /\ k = n
  BY <1>2, <1>4 DEF API!StackInv
<1>6. ASSUME NEW x \in ApiThreads, NEW k \in DOMAIN activity_stack'[x]
      PROVE  /\ k \in DOMAIN activity_stack[x] /\ activity_stack'[x][k] = activity_stack[x][k]
             /\ activity_stack[x][k] # b
  <2>1. CASE x = t
    <3>1. k \in 1 .. n - 1
      BY <1>2, <1>3, <2>1
    <3>2. k \in DOMAIN activity_stack[x] /\ activity_stack'[x][k] = activity_stack[x][k] /\ k # n
      BY <1>2, <1>3, <2>1, <3>1
    <3> QED BY <1>5, <3>2
  <2>2. CASE x # t
    BY <1>3, <1>5, <2>2
  <2> QED BY <2>1, <2>2
<1>7. ASSUME NEW x \in ApiThreads, NEW k \in DOMAIN activity_stack[x], activity_stack[x][k] # b
      PROVE  k \in DOMAIN activity_stack'[x] /\ activity_stack'[x][k] = activity_stack[x][k]
  <2>1. CASE x = t
    <3>1. k \in 1 .. n /\ k # n
      BY <1>2, <1>7, <2>1
    <3>2. k \in 1 .. n - 1
      BY <1>2, <3>1
    <3> QED BY <1>2, <1>3, <2>1, <3>2
  <2>2. CASE x # t
    BY <1>3, <2>2
  <2> QED BY <2>1, <2>2
<1>8. /\ DOMAIN aAct' = DOMAIN aAct
      /\ \A i \in DOMAIN aAct : /\ aAct'[i].parent = aAct[i].parent
                                /\ aAct'[i].phase = IF i = b THEN "ended" ELSE aAct[i].phase
  BY DEF PhaseSet
<1> HIDE DEF s, n, b
<1>9. ASSUME NEW x \in ApiThreads, NEW k \in DOMAIN activity_stack'[x]
      PROVE  /\ activity_stack'[x][k] \in DOMAIN aAct'
             /\ aAct'[activity_stack'[x][k]].phase # "ended"
             /\ aAct'[activity_stack'[x][k]].parent = IF k = 1 THEN 0 ELSE activity_stack'[x][k - 1]
             /\ \A y \in ApiThreads : \A l \in DOMAIN activity_stack'[y] :
                  activity_stack'[x][k] = activity_stack'[y][l] => x = y /\ k = l
  <2>1. k \in DOMAIN activity_stack[x] /\ activity_stack'[x][k] = activity_stack[x][k]
        /\ activity_stack[x][k] # b
    BY <1>6
  <2>2. /\ activity_stack[x][k] \in DOMAIN aAct /\ aAct[activity_stack[x][k]].phase # "ended"
        /\ aAct[activity_stack[x][k]].parent = IF k = 1 THEN 0 ELSE activity_stack[x][k - 1]
        /\ \A y \in ApiThreads : \A l \in DOMAIN activity_stack[y] :
             activity_stack[x][k] = activity_stack[y][l] => x = y /\ k = l
    BY <2>1 DEF API!StackInv
  <2>3. k # 1 => k - 1 \in DOMAIN activity_stack'[x]
    <3>1. activity_stack'[x] \in Seq(Nat)
      BY <1>3
    <3> QED BY <3>1
  <2>4. k # 1 => activity_stack'[x][k - 1] = activity_stack[x][k - 1]
    BY <1>6, <2>3
  <2> QED BY <1>6, <1>8, <2>1, <2>2, <2>4
<1>10. ASSUME NEW i \in DOMAIN aAct', aAct'[i].phase # "ended"
       PROVE  \E x \in ApiThreads : \E k \in DOMAIN activity_stack'[x] : activity_stack'[x][k] = i
  <2>1. i \in DOMAIN aAct /\ i # b /\ aAct[i].phase # "ended"
    BY <1>8, <1>10
  <2>2. PICK x \in ApiThreads : \E k \in DOMAIN activity_stack[x] : activity_stack[x][k] = i
    BY <2>1 DEF API!StackInv
  <2> QED BY <1>7, <2>1, <2>2
<1> QED
  BY <1>3, <1>9, <1>10 DEF API!StackInv

\* What start, stop and end do to the activity on top of the stack of thread t.
LEMMA TopPhase ==
    ASSUME API!ActivitiesOK, API!StackInv, NEW t \in ApiThreads,
           API!siox_activity_start(t) \/ API!siox_activity_stop(t) \/ API!siox_activity_end(t)
    PROVE  /\ activity_stack[t] # << >> /\ aAct[API!Last(activity_stack[t])].phase # "ended"
           /\ UNCHANGED <<thread_id, next_activity_id, current_thread_ID>>
           /\ \/ /\ \E v : v # "ended" /\ PhaseSet(API!Last(activity_stack[t]), v)
                 /\ activity_stack' = activity_stack
              \/ /\ PhaseSet(API!Last(activity_stack[t]), "ended")
                 /\ activity_stack' = [activity_stack EXCEPT ![t] = API!Front(@)]
<1>1. activity_stack[t] # << >> /\ UNCHANGED <<thread_id, next_activity_id, current_thread_ID>>
  BY DEF API!siox_activity_start, API!siox_activity_stop, API!siox_activity_end
<1>2. activity_stack[t] \in Seq(Nat)
  BY DEF API!ActivitiesOK
<1>3. /\ Len(activity_stack[t]) \in DOMAIN activity_stack[t]
      /\ API!Last(activity_stack[t]) = activity_stack[t][Len(activity_stack[t])]
  BY <1>1, <1>2, FrontFacts
<1>4. API!Last(activity_stack[t]) \in DOMAIN aAct /\ aAct[API!Last(activity_stack[t])].phase # "ended"
  BY <1>3 DEF API!StackInv
<1>5. CASE API!siox_activity_start(t)
  <2>1. PhaseSet(API!Last(activity_stack[t]), "started") /\ activity_stack' = activity_stack
    BY <1>4, <1>5, PhaseOnly DEF API!siox_activity_start
  <2> QED BY <1>1, <1>4, <2>1
<1>6. CASE API!siox_activity_stop(t)
  <2>1. PhaseSet(API!Last(activity_stack[t]), "stopped") /\ activity_stack' = activity_stack
    BY <1>4, <1>6, PhaseOnly DEF API!siox_activity_stop
  <2> QED BY <1>1, <1>4, <2>1
<1>7. CASE API!siox_activity_end(t)
  <2>1. PhaseSet(API!Last(activity_stack[t]), "ended")
    BY <1>4, <1>7, PhaseOnly DEF API!siox_activity_end, API!endActivity
  <2> QED BY <1>1, <1>4, <1>7, <2>1 DEF API!siox_activity_end, API!endActivity
<1> QED BY <1>5, <1>6, <1>7

\* Every step keeps the numbers apart and the stacks in order.
LEMMA ActivitiesStep ==
    ASSUME API!IInv, API!Next
    PROVE  API!ActivitiesOK' /\ API!NumbersInv' /\ API!StackInv'
<1> USE DEF API!IInv
<1>m. Main \in ApiThreads
  BY ApiAssumption DEF API!LowLevelAssumption
<1>1. CASE Quiet
  <2>1. API!ActivitiesOK'
    BY <1>1 DEF Quiet, API!ActivitiesOK
  <2>2. API!NumbersInv'
    BY <1>1 DEF Quiet, API!NumbersInv
  <2>3. API!StackInv'
    BY <1>1 DEF Quiet, API!StackInv
  <2> QED BY <2>1, <2>2, <2>3
<1>2. CASE API!siox_initialize_monitoring \/ API!finalizeEnd
  <2>1. PICK p \in Nat : API!internal_trace_heavyWeight(Main, p)
    BY <1>2 DEF API!siox_initialize_monitoring, API!finalizeEnd, API!ComponentsOK
  <2>2. PICK a : Draws(Main, a) /\ a.phase = "ended" /\ activity_stack' = activity_stack
    BY <1>m, <2>1, TraceDraws DEF API!ComponentsOK
  <2>3. API!NumbersInv' /\ API!StackInv'
    BY <1>m, <2>2, NewNumber, StackTrace
  <2>4. API!ActivitiesOK'
    <3>1. aAct' \in Seq(API!Activity)
      BY <2>2, AppendFacts DEF Draws, API!ActivitiesOK
    <3> QED BY <1>m, <2>2, <3>1, NewNumber DEF API!ActivitiesOK
  <2> QED BY <2>3, <2>4
<1>3. ASSUME NEW t \in ApiThreads, NEW u \in Uids, API!siox_activity_begin(t, u)
      PROVE  API!ActivitiesOK' /\ API!NumbersInv' /\ API!StackInv'
  <2>1. PICK a : Pushes(t, a)
    BY <1>3, BeginDraws
  <2>2. Draws(t, a)
    BY <2>1 DEF Pushes
  <2>3. API!NumbersInv' /\ API!StackInv'
    BY <2>1, <2>2, NewNumber, StackPush
  <2>4. API!ActivitiesOK'
    <3>1. aAct' \in Seq(API!Activity)
      BY <2>2, AppendFacts DEF Draws, API!ActivitiesOK
    <3> QED BY <2>1, <2>2, <3>1, NewNumber, StackPush DEF API!ActivitiesOK
  <2> QED BY <2>3, <2>4
<1>4. ASSUME NEW t \in ApiThreads,
             API!siox_activity_start(t) \/ API!siox_activity_stop(t) \/ API!siox_activity_end(t)
      PROVE  API!ActivitiesOK' /\ API!NumbersInv' /\ API!StackInv'
  <2>1. PICK v : PhaseSet(API!Last(activity_stack[t]), v)
    BY <1>4, TopPhase
  <2>2. UNCHANGED <<thread_id, next_activity_id, current_thread_ID>>
    BY <1>4, TopPhase
  <2>3. API!NumbersInv'
    BY <2>1, <2>2 DEF PhaseSet, API!NumbersInv
  <2>4. API!StackInv' /\ activity_stack' \in [ApiThreads -> Seq(Nat)]
    BY <1>4, TopPhase, StackPhase, StackPop DEF API!ActivitiesOK
  <2>5. API!ActivitiesOK'
    BY <2>1, <2>2, <2>4 DEF PhaseSet, API!ActivitiesOK
  <2> QED BY <2>3, <2>4, <2>5
<1> QED BY <1>1, <1>2, <1>3, <1>4, StepKinds

-----------------------------------------------------------------------------
(* The components.                                                         *)

\* The components and the pointers to them stay as they are.
Still == UNCHANGED <<comp, registeredComponents, aLayer, cbs>>

LEMMA LayerKinds ==
    ASSUME API!Next
    PROVE  \/ Still
           \/ \E u \in Uids : API!sioxFinal(u)
           \/ \E t \in ApiThreads : API!siox_component_register(t) \/ API!siox_handle_fork_complete(t)
<1> USE DEF Still, API!compVars
<1>1. CASE API!siox_disable_monitoring \/ API!siox_enable_monitoring \/ API!initialize_fails
  BY <1>1 DEF API!siox_disable_monitoring, API!siox_enable_monitoring, API!initialize_fails
<1>2. CASE API!siox_finalize_monitoring \/ API!siox_ll_dtor
  BY <1>2 DEF API!siox_finalize_monitoring, API!siox_ll_dtor, API!finalizeSIOX
<1>3. CASE API!siox_initialize_monitoring \/ API!finalizeEnd
  BY <1>3 DEF API!siox_initialize_monitoring, API!finalizeEnd
<1>4. ASSUME NEW t \in ApiThreads, NEW u \in Uids,
             API!sioxInit(t, u) \/ API!siox_activity_begin(t, u)
      PROVE  Still
  BY <1>4 DEF API!sioxInit, API!siox_activity_begin
<1>5. ASSUME NEW t \in ApiThreads,
             \/ API!siox_activity_start(t) \/ API!siox_activity_stop(t) \/ API!siox_activity_end(t)
             \/ API!registerLoad(t)
      PROVE  Still
  BY <1>5 DEF API!siox_activity_start, API!siox_activity_stop, API!siox_activity_end,
              API!registerLoad
<1>6. ASSUME NEW t \in ApiThreads,
             API!siox_handle_prepare_fork(t) \/ API!forkParent(t) \/ API!forkChild(t)
      PROVE  Still
  BY <1>6 DEF API!siox_handle_prepare_fork, API!forkParent, API!forkChild
<1> QED
  BY <1>1, <1>2, <1>3, <1>4, <1>5, <1>6 DEF API!Next

LEMMA ComponentType ==
    ASSUME API!ComponentsOK
    PROVE  /\ comp \in Seq(API!Component) /\ Len(comp) \in Nat /\ DOMAIN comp = 1 .. Len(comp)
           /\ \A i \in 1 .. Len(comp) : comp[i] \in API!Component
<1>1. \A S, s : s \in Seq(S) => /\ Len(s) \in Nat /\ DOMAIN s = 1 .. Len(s)
                                /\ \A i \in 1 .. Len(s) : s[i] \in S
  OBVIOUS
<1> QED BY <1>1, Zenon DEF API!ComponentsOK

\* A terminate callback drops the component of a layer.
Drops(u) ==
    /\ aLayer' = [aLayer EXCEPT ![u] = 0]
    /\ registeredComponents' = [registeredComponents EXCEPT ![u] = 0]
    /\ comp' \in Seq(API!Component) /\ Len(comp') = Len(comp)
    /\ \A i \in 1 .. Len(comp) :
         /\ comp'[i].uid = comp[i].uid /\ comp'[i].pid = comp[i].pid
         /\ comp'[i].init = comp[i].init /\ (i # aLayer[u] => comp'[i].live = comp[i].live)

LEMMA FinalFacts ==
    ASSUME API!ComponentsOK, API!TypeOK, API!LayerInv, NEW u \in Uids, API!sioxFinal(u)
    PROVE  Drops(u)
<1>1. aLayer' = [aLayer EXCEPT ![u] = 0] /\ registeredComponents = aLayer
  BY DEF API!sioxFinal, API!LayerInv
<1>2. comp \in Seq(API!Component) /\ Len(comp) \in Nat /\ DOMAIN comp = 1 .. Len(comp)
      /\ \A i \in 1 .. Len(comp) : comp[i] \in API!Component
  BY ComponentType
<1>3. CASE aLayer[u] = 0
  <2>1. comp' = comp /\ registeredComponents' = registeredComponents
    BY <1>3 DEF API!sioxFinal
  <2>2. registeredComponents = [registeredComponents EXCEPT ![u] = 0]
    BY <1>1, <1>3 DEF API!TypeOK
  <2> QED BY <1>1, <1>2, <2>1, <2>2 DEF Drops
<1>4. CASE aLayer[u] # 0
  <2> DEFINE c == aLayer[u]
             g == [comp[c] EXCEPT !.live = FALSE]
  <2>1. c \in 1 .. Len(comp)
    BY <1>2, <1>4, ComponentFacts
  <2>2. /\ g \in API!Component /\ g.uid = comp[c].uid /\ g.pid = comp[c].pid
        /\ g.init = comp[c].init
    BY <1>2, <2>1 DEF API!Component
  <2>3. comp' = [comp EXCEPT ![c] = g]
        /\ registeredComponents' = [registeredComponents EXCEPT ![u] = 0]
    BY <1>1, <1>4 DEF API!sioxFinal
  <2> HIDE DEF c, g
  <2>4. \A S, s, x : s \in Seq(S) /\ x \in S =>
          \A i \in DOMAIN s : /\ [s EXCEPT ![i] = x] \in Seq(S)
                              /\ Len([s EXCEPT ![i] = x]) = Len(s)
    OBVIOUS
  <2>5. comp' \in Seq(API!Component) /\ Len(comp') = Len(comp)
    BY <1>2, <2>1, <2>2, <2>3, <2>4
  <2>6. \A i \in 1 .. Len(comp) : comp'[i] = IF i = c THEN g ELSE comp[i]
    BY <1>2, <2>3
  <2> QED BY <1>1, <2>2, <2>3, <2>5, <2>6 DEF Drops, c
<1> QED BY <1>3, <1>4

\* A registration makes the newest component that of its layer.
Adds(v) ==
    /\ v \in Uids /\ aLayer' = [aLayer EXCEPT ![v] = Len(comp) + 1]
    /\ registeredComponents' = [registeredComponents EXCEPT ![v] = Len(comp) + 1]
    /\ cbs' = cbs \cup {v}
    /\ comp' \in Seq(API!Component) /\ Len(comp') = Len(comp) + 1
    /\ \A i \in 1 .. Len(comp) : comp'[i] = comp[i]
    /\ comp'[Len(comp) + 1] = [uid |-> v, pid |-> pid, init |-> initalizationCounter, live |-> TRUE]

LEMMA RegisterFacts ==
    ASSUME API!ComponentsOK, NEW t \in ApiThreads, API!siox_component_register(t)
    PROVE  Adds(arg[t])
<1> DEFINE g == [uid |-> arg[t], pid |-> pid, init |-> initalizationCounter, live |-> TRUE]
<1>1. comp' = Append(comp, g)
  BY DEF API!siox_component_register
<1>a. arg[t] \in Uids
  <2>1. pc[t] = "loaded"
    BY DEF API!siox_component_register, API!At
  <2> QED BY <2>1, Zenon DEF API!ComponentsOK
<1>2. g \in API!Component
  BY <1>a DEF API!Component, API!ComponentsOK
<1>3. /\ aLayer' = [aLayer EXCEPT ![arg[t]] = Len(comp')]
      /\ registeredComponents' = [registeredComponents EXCEPT ![arg[t]] = Len(comp')]
      /\ cbs' = cbs \cup {arg[t]}
  BY DEF API!siox_component_register
<1> HIDE DEF g
<1>4. /\ comp' \in Seq(API!Component) /\ Len(comp') = Len(comp) + 1
      /\ (\A i \in 1 .. Len(comp) : comp'[i] = comp[i]) /\ comp'[Len(comp) + 1] = g
  BY <1>1, <1>2, ComponentType, AppendFacts
<1> QED BY <1>a, <1>3, <1>4 DEF Adds, g

\* After a fork the registered components get the pid of the process.
Renames ==
    /\ comp' \in Seq(API!Component) /\ Len(comp') = Len(comp)
    /\ \A i \in 1 .. Len(comp) :
         /\ comp'[i].uid = comp[i].uid /\ comp'[i].live = comp[i].live
         /\ comp'[i].init = comp[i].init
         /\ registeredComponents[comp[i].uid] = i => comp'[i].pid = getpid

LEMMA ForkFacts ==
    ASSUME API!ComponentsOK, NEW t \in ApiThreads, API!siox_handle_fork_complete(t)
    PROVE  Renames
<1> DEFINE g(i) == IF registeredComponents[comp[i].uid] = i THEN [comp[i] EXCEPT !.pid = getpid]
                   ELSE comp[i]
<1>1. Len(comp) \in Nat /\ DOMAIN comp = 1 .. Len(comp)
      /\ \A i \in 1 .. Len(comp) : comp[i] \in API!Component
  BY ComponentType
<1>2. comp' = [i \in 1 .. Len(comp) |-> g(i)]
  BY <1>1 DEF API!siox_handle_fork_complete
<1>3. ASSUME NEW i \in 1 .. Len(comp)
      PROVE  /\ g(i) \in API!Component /\ g(i).uid = comp[i].uid /\ g(i).live = comp[i].live
             /\ g(i).init = comp[i].init
             /\ registeredComponents[comp[i].uid] = i => g(i).pid = getpid
  <2>1. comp[i] \in API!Component /\ getpid \in Nat
    BY <1>1 DEF API!ComponentsOK
  <2> QED BY <2>1 DEF API!Component
<1> HIDE DEF g
<1>4. \A S, n, s : n \in Nat /\ s \in [1 .. n -> S] => s \in Seq(S) /\ Len(s) = n
  OBVIOUS
<1>5. comp' \in [1 .. Len(comp) -> API!Component]
  BY <1>2, <1>3
<1>6. comp' \in Seq(API!Component) /\ Len(comp') = Len(comp)
  BY <1>1, <1>4, <1>5
<1> QED BY <1>2, <1>3, <1>6 DEF Renames

\* Every step keeps the pointers to the components in order.
LEMMA LayerStep ==
    ASSUME API!IInv, API!Next
    PROVE  /\ API!LayerInv' /\ comp' \in Seq(API!Component) /\ cbs' \subseteq Uids
           /\ registeredComponents' \in [Uids -> 0 .. Len(comp')]
           /\ aLayer' \in [Uids -> 0 .. Len(comp')]
<1> USE DEF API!IInv
<1>1. comp \in Seq(API!Component) /\ Len(comp) \in Nat
  BY ComponentType
<1>2. /\ aLayer \in [Uids -> 0 .. Len(comp)] /\ registeredComponents = aLayer /\ cbs \subseteq Uids
      /\ \A u \in Uids : aLayer[u] # 0 => u \in cbs /\ comp[aLayer[u]].uid = u
  BY DEF API!TypeOK, API!LayerInv
<1>3. CASE Still
  BY <1>1, <1>2, <1>3 DEF Still, API!LayerInv
<1>4. ASSUME NEW u \in Uids, API!sioxFinal(u)
      PROVE  /\ API!LayerInv' /\ comp' \in Seq(API!Component) /\ cbs' \subseteq Uids
             /\ registeredComponents' \in [Uids -> 0 .. Len(comp')]
             /\ aLayer' \in [Uids -> 0 .. Len(comp')]
  <2>1. Drops(u) /\ cbs' = cbs
    BY <1>4, FinalFacts DEF API!sioxFinal
  <2>2. aLayer' \in [Uids -> 0 .. Len(comp')] /\ registeredComponents' = aLayer'
    BY <1>1, <1>2, <2>1 DEF Drops
  <2>3. \A v \in Uids : aLayer'[v] # 0 => aLayer'[v] = aLayer[v] /\ aLayer[v] \in 1 .. Len(comp)
    BY <1>1, <1>2, <2>1 DEF Drops
  <2>4. \A v \in Uids : aLayer'[v] # 0 => v \in cbs' /\ comp'[aLayer'[v]].uid = v
    BY <1>2, <2>1, <2>3 DEF Drops
  <2> QED BY <1>2, <2>1, <2>2, <2>4 DEF Drops, API!LayerInv
<1>5. ASSUME NEW t \in ApiThreads, API!siox_component_register(t)
      PROVE  /\ API!LayerInv' /\ comp' \in Seq(API!Component) /\ cbs' \subseteq Uids
             /\ registeredComponents' \in [Uids -> 0 .. Len(comp')]
             /\ aLayer' \in [Uids -> 0 .. Len(comp')]
  <2> DEFINE a == arg[t]
  <2>1. Adds(a)
    BY <1>5, RegisterFacts
  <2> HIDE DEF a
  <2>2. aLayer' \in [Uids -> 0 .. Len(comp')] /\ registeredComponents' = aLayer'
    BY <1>1, <1>2, <2>1 DEF Adds
  <2>3. ASSUME NEW v \in Uids, aLayer'[v] # 0
        PROVE  v \in cbs' /\ comp'[aLayer'[v]].uid = v
    <3>1. CASE v = a
      BY <1>2, <2>1, <3>1 DEF Adds
    <3>2. CASE v # a
      <4>1. aLayer'[v] = aLayer[v] /\ aLayer[v] \in 1 .. Len(comp)
        BY <1>1, <1>2, <2>1, <2>3, <3>2 DEF Adds
      <4> QED BY <1>2, <2>1, <2>3, <4>1 DEF Adds
    <3> QED BY <3>1, <3>2
  <2> QED BY <1>2, <2>1, <2>2, <2>3 DEF Adds, API!LayerInv
<1>6. ASSUME NEW t \in ApiThreads, API!siox_handle_fork_complete(t)
      PROVE  /\ API!LayerInv' /\ comp' \in Seq(API!Component) /\ cbs' \subseteq Uids
             /\ registeredComponents' \in [Uids -> 0 .. Len(comp')]
             /\ aLayer' \in [Uids -> 0 .. Len(comp')]
  <2>1. Renames /\ aLayer' = aLayer /\ registeredComponents' = registeredComponents /\ cbs' = cbs
    BY <1>6, ForkFacts DEF API!siox_handle_fork_complete
  <2>2. \A v \in Uids : aLayer[v] # 0 => aLayer[v] \in 1 .. Len(comp)
    BY <1>1, <1>2
  <2> QED BY <1>1, <1>2, <2>1, <2>2 DEF Renames, API!LayerInv
<1> QED BY <1>3, <1>4, <1>5, <1>6, LayerKinds

-----------------------------------------------------------------------------
(* Places, locks and flags.                                                *)

\* The parts of the type invariants that are about them.
FlagsOK == finalized \in BOOLEAN /\ running \in BOOLEAN /\ late \in BOOLEAN

ControlOK ==
    /\ monitoringDisabled \in {"permanent", "enabled", "user", "uninitialized"}
    /\ upgrade \in ApiThreads \cup {None} /\ getpid \in Nat /\ pid \in Nat
    /\ initalizationCounter \in Nat /\ todo \in [ApiThreads -> SUBSET Uids]
    /\ DOMAIN pc = ApiThreads /\ DOMAIN arg = ApiThreads
    /\ \A t \in ApiThreads : pc[t] \in {"checked", "loaded"} => arg[t] \in Uids
    /\ \A t \in ApiThreads \ {Main} : todo[t] = {} /\ pc[t] # "final"
    /\ \A t \in ApiThreads : pc[t] = "loaded" => upgrade = t

LEMMA ControlParts ==
    ASSUME API!TypeOK, API!ComponentsOK PROVE FlagsOK /\ ControlOK /\ cbs \subseteq Uids
<1>1. FlagsOK
  BY DEF API!TypeOK, FlagsOK
<1>2. ControlOK
  BY DEF API!TypeOK, API!ComponentsOK, ControlOK, API!At
<1> QED BY <1>1, <1>2 DEF API!TypeOK

LEMMA FlagsStep ==
    ASSUME FlagsOK, API!Next PROVE FlagsOK'
<1> USE DEF FlagsOK, API!stateVars, API!actVars
<1>1. CASE API!siox_disable_monitoring \/ API!siox_enable_monitoring \/ API!initialize_fails
  BY <1>1 DEF API!siox_disable_monitoring, API!siox_enable_monitoring, API!initialize_fails
<1>2. CASE API!siox_finalize_monitoring \/ API!siox_ll_dtor
  BY <1>2 DEF API!siox_finalize_monitoring, API!siox_ll_dtor, API!finalizeSIOX
<1>3. CASE API!siox_initialize_monitoring \/ API!finalizeEnd
  BY <1>3 DEF API!siox_initialize_monitoring, API!finalizeEnd, API!internal_trace_heavyWeight
<1>4. ASSUME NEW u \in Uids, API!sioxFinal(u) PROVE FlagsOK'
  BY <1>4 DEF API!sioxFinal
<1>5. ASSUME NEW t \in ApiThreads, NEW u \in Uids, API!sioxInit(t, u) PROVE FlagsOK'
  BY <1>5 DEF API!sioxInit
<1>6. ASSUME NEW t \in ApiThreads, NEW u \in Uids, API!siox_activity_begin(t, u) PROVE FlagsOK'
  BY <1>6 DEF API!siox_activity_begin
<1>7. ASSUME NEW t \in ApiThreads,
             API!siox_activity_start(t) \/ API!siox_activity_stop(t) \/ API!siox_activity_end(t)
      PROVE  FlagsOK'
  BY <1>7 DEF API!siox_activity_start, API!siox_activity_stop, API!siox_activity_end
<1>8. ASSUME NEW t \in ApiThreads, API!registerLoad(t) \/ API!siox_component_register(t)
      PROVE  FlagsOK'
  BY <1>8 DEF API!registerLoad, API!siox_component_register
<1>9. ASSUME NEW t \in ApiThreads,
             \/ API!siox_handle_prepare_fork(t) \/ API!forkParent(t) \/ API!forkChild(t)
             \/ API!siox_handle_fork_complete(t)
      PROVE  FlagsOK'
  BY <1>9 DEF API!siox_handle_prepare_fork, API!forkParent, API!forkChild,
              API!siox_handle_fork_complete
<1> QED
  BY <1>1, <1>2, <1>3, <1>4, <1>5, <1>6, <1>7, <1>8, <1>9 DEF API!Next

LEMMA ControlStep ==
    ASSUME ControlOK, cbs \subseteq Uids, API!Next PROVE ControlOK'
<1> USE ApiAssumption DEF API!LowLevelAssumption, ControlOK, API!pidVars, API!stateVars,
        API!compVars, API!At, API!Goto
<1>1. CASE API!siox_disable_monitoring \/ API!siox_enable_monitoring \/ API!initialize_fails
  BY <1>1 DEF API!siox_disable_monitoring, API!siox_enable_monitoring, API!initialize_fails
<1>2. CASE API!siox_finalize_monitoring \/ API!siox_ll_dtor
  BY <1>2 DEF API!siox_finalize_monitoring, API!siox_ll_dtor, API!finalizeSIOX
<1>3. CASE API!siox_initialize_monitoring
  BY <1>3 DEF API!siox_initialize_monitoring
<1>a. CASE API!finalizeEnd
  BY <1>a DEF API!finalizeEnd
<1>4. ASSUME NEW u \in Uids, API!sioxFinal(u) PROVE ControlOK'
  BY <1>4 DEF API!sioxFinal
<1>5. ASSUME NEW t \in ApiThreads, NEW u \in Uids, API!sioxInit(t, u) PROVE ControlOK'
  BY <1>5 DEF API!sioxInit
<1>6. ASSUME NEW t \in ApiThreads, NEW u \in Uids, API!siox_activity_begin(t, u) PROVE ControlOK'
  BY <1>6 DEF API!siox_activity_begin
<1>7. ASSUME NEW t \in ApiThreads,
             API!siox_activity_start(t) \/ API!siox_activity_stop(t) \/ API!siox_activity_end(t)
      PROVE  ControlOK'
  BY <1>7 DEF API!siox_activity_start, API!siox_activity_stop, API!siox_activity_end
<1>8. ASSUME NEW t \in ApiThreads, API!registerLoad(t) PROVE ControlOK'
  BY <1>8 DEF API!registerLoad
<1>b. ASSUME NEW t \in ApiThreads, API!siox_component_register(t) PROVE ControlOK'
  BY <1>b DEF API!siox_component_register
<1>9. ASSUME NEW t \in ApiThreads,
             \/ API!siox_handle_prepare_fork(t) \/ API!forkParent(t)
             \/ API!siox_handle_fork_complete(t)
      PROVE  ControlOK'
  BY <1>9 DEF API!siox_handle_prepare_fork, API!forkParent, API!siox_handle_fork_complete
<1>c. ASSUME NEW t \in ApiThreads, API!forkChild(t) PROVE ControlOK'
  BY <1>c DEF API!forkChild
<1> QED
  BY <1>1, <1>2, <1>3, <1>a, <1>4, <1>5, <1>6, <1>7, <1>8, <1>b, <1>9, <1>c DEF API!Next

LEMMA TypeStep ==
    ASSUME API!IInv, API!Next PROVE API!TypeOK' /\ API!ComponentsOK'
<1>1. FlagsOK' /\ ControlOK'
  BY ControlParts, FlagsStep, ControlStep DEF API!IInv
<1>2. /\ comp' \in Seq(API!Component) /\ cbs' \subseteq Uids
      /\ registeredComponents' \in [Uids -> 0 .. Len(comp')]
      /\ aLayer' \in [Uids -> 0 .. Len(comp')]
  BY LayerStep
<1>3. \A t \in ApiThreads : API!Range(activity_stack[t])' \subseteq DOMAIN aAct'
  <2>1. API!StackInv'
    BY ActivitiesStep
  <2> QED BY <2>1 DEF API!StackInv, API!Range
<1>4. API!ComponentsOK'
  BY <1>1, <1>2 DEF ControlOK, API!ComponentsOK
<1>5. API!TypeOK'
  <2>1. {finalized, running, late}' \subseteq BOOLEAN
    BY <1>1 DEF FlagsOK
  <2> QED BY <1>1, <1>2, <1>3, <2>1 DEF ControlOK, API!TypeOK, API!At
<1> QED BY <1>4, <1>5

-----------------------------------------------------------------------------
(* The life of the library.                                                *)

\* A thread that is in a function of the library keeps it alive.
LEMMA LibraryInUse ==
    ASSUME API!LifeInv, NEW t \in ApiThreads,
           pc[t] \notin {"idle", "gone", "final"} \/ activity_stack[t] # << >>
    PROVE  ~finalized /\ pc[Main] # "final"
<1>1. ASSUME finalized \/ pc[Main] = "final"
      PROVE  /\ activity_stack[t] = << >>
             /\ pc[t] \in {"idle", "gone"} \/ (t = Main /\ pc[Main] = "final")
  BY <1>1, Zenon DEF API!LifeInv, API!Finalizing
<1> QED BY <1>1, Zenon

LEMMA LifeStep ==
    ASSUME API!IInv, API!Next PROVE API!LifeInv'
<1>0. /\ API!LifeInv /\ API!LayerInv /\ DOMAIN pc = ApiThreads /\ Main \in ApiThreads
      /\ aLayer \in [Uids -> 0 .. Len(comp)] /\ todo \in [ApiThreads -> SUBSET Uids]
      /\ activity_stack \in [ApiThreads -> Seq(Nat)]
  BY ApiAssumption DEF API!IInv, API!LowLevelAssumption, API!TypeOK, API!ComponentsOK,
     API!ActivitiesOK
<1> USE DEF API!Finalizing, API!At, API!Goto, API!stateVars, API!compVars, API!actVars
<1>1. CASE API!siox_disable_monitoring \/ API!siox_enable_monitoring \/ API!initialize_fails
  BY <1>0, <1>1 DEF API!LifeInv, API!siox_disable_monitoring, API!siox_enable_monitoring,
     API!initialize_fails
<1>2. CASE API!siox_finalize_monitoring \/ API!siox_ll_dtor
  <2>1. PICK m : API!finalizeSIOX(m)
    BY <1>2 DEF API!siox_finalize_monitoring, API!siox_ll_dtor
  <2>2. /\ ~finalized' /\ pc'[Main] = "final" /\ todo'[Main] = cbs /\ aLayer' = aLayer
        /\ \A t \in ApiThreads : activity_stack'[t] = << >> /\ pc[t] \in {"idle", "gone"}
        /\ \A t \in ApiThreads \ {Main} : pc'[t] = pc[t]
    BY <1>0, <2>1 DEF API!finalizeSIOX, API!Quiescent
  <2> QED BY <1>0, <2>2 DEF API!LifeInv, API!LayerInv
<1>3. CASE API!siox_initialize_monitoring
  BY <1>0, <1>3 DEF API!LifeInv, API!siox_initialize_monitoring
<1>a. CASE API!finalizeEnd
  <2>1. /\ finalized' /\ aLayer' = aLayer /\ activity_stack' = activity_stack
        /\ pc' = [pc EXCEPT ![Main] = "idle"] /\ pc[Main] = "final" /\ todo[Main] = {}
    BY <1>a DEF API!finalizeEnd, API!internal_trace_heavyWeight
  <2> QED BY <1>0, <2>1 DEF API!LifeInv
<1>4. ASSUME NEW u \in Uids, API!sioxFinal(u) PROVE API!LifeInv'
  <2>1. /\ aLayer' = [aLayer EXCEPT ![u] = 0] /\ todo' = [todo EXCEPT ![Main] = @ \ {u}]
        /\ UNCHANGED <<pc, activity_stack, finalized, monitoringDisabled>>
    BY <1>4 DEF API!sioxFinal
  <2>2. \A v \in Uids : aLayer'[v] # 0 => v # u /\ aLayer[v] # 0
    BY <1>0, <2>1
  <2> QED BY <1>0, <2>1, <2>2 DEF API!LifeInv
<1>5. ASSUME NEW t \in ApiThreads, NEW u \in Uids, API!sioxInit(t, u) PROVE API!LifeInv'
  BY <1>0, <1>5 DEF API!LifeInv, API!sioxInit
<1>6. ASSUME NEW t \in ApiThreads, NEW u \in Uids, API!siox_activity_begin(t, u)
      PROVE  API!LifeInv'
  <2>1. ~finalized /\ pc[Main] # "final"
    BY <1>0, <1>6 DEF API!LifeInv, API!siox_activity_begin
  <2> QED BY <1>0, <1>6, <2>1 DEF API!LifeInv, API!siox_activity_begin
<1>7. ASSUME NEW t \in ApiThreads,
             API!siox_activity_start(t) \/ API!siox_activity_stop(t) \/ API!siox_activity_end(t)
      PROVE  API!LifeInv'
  <2>1. ~finalized /\ pc[Main] # "final"
    BY <1>0, <1>7, LibraryInUse DEF API!siox_activity_start, API!siox_activity_stop, API!siox_activity_end
  <2>2. UNCHANGED <<pc, finalized, monitoringDisabled>>
    BY <1>7 DEF API!siox_activity_start, API!siox_activity_stop, API!siox_activity_end
  <2> QED BY <1>0, <2>1, <2>2 DEF API!LifeInv
<1>8. ASSUME NEW t \in ApiThreads, API!registerLoad(t) \/ API!siox_component_register(t)
      PROVE  API!LifeInv'
  <2>1. ~finalized /\ pc[Main] # "final"
    BY <1>0, <1>8, LibraryInUse DEF API!registerLoad, API!siox_component_register
  <2>2. /\ UNCHANGED <<finalized, monitoringDisabled>>
        /\ \E l \in {"loaded", "idle"} : pc' = [pc EXCEPT ![t] = l]
    BY <1>8 DEF API!registerLoad, API!siox_component_register
  <2> QED BY <1>0, <2>1, <2>2 DEF API!LifeInv
<1>9. ASSUME NEW t \in ApiThreads,
             \/ API!siox_handle_prepare_fork(t) \/ API!forkParent(t)
             \/ API!siox_handle_fork_complete(t)
      PROVE  API!LifeInv'
  <2>1. ~finalized /\ pc[Main] # "final"
    <3>1. CASE API!siox_handle_prepare_fork(t)
      BY <3>1 DEF API!siox_handle_prepare_fork
    <3>2. CASE API!forkParent(t) \/ API!siox_handle_fork_complete(t)
      BY <1>0, <3>2, LibraryInUse DEF API!forkParent, API!siox_handle_fork_complete
    <3> QED BY <1>9, <3>1, <3>2
  <2>2. /\ UNCHANGED <<finalized, monitoringDisabled>>
        /\ \E l \in {"forking", "forked", "idle"} : pc' = [pc EXCEPT ![t] = l]
    BY <1>9 DEF API!siox_handle_prepare_fork, API!forkParent, API!siox_handle_fork_complete
  <2> QED BY <1>0, <2>1, <2>2 DEF API!LifeInv
<1>c. ASSUME NEW t \in ApiThreads, API!forkChild(t) PROVE API!LifeInv'
  <2>1. ~finalized /\ pc[Main] # "final"
    BY <1>0, <1>c, LibraryInUse DEF API!forkChild
  <2>2. UNCHANGED <<finalized, monitoringDisabled>> /\ pc'[Main] \in {"forked", "gone"}
    BY <1>0, <1>c DEF API!forkChild
  <2> QED BY <1>0, <2>1, <2>2 DEF API!LifeInv
<1> QED
  BY <1>1, <1>2, <1>3, <1>a, <1>4, <1>5, <1>6, <1>7, <1>8, <1>9, <1>c DEF API!Next

-----------------------------------------------------------------------------
(* Processes.                                                              *)

\* The process and its components know their pid.
KnowsPid == pid = getpid /\ \A u \in Uids : aLayer[u] # 0 => comp[aLayer[u]].pid = getpid

\* Nothing was ever initialised.
Fresh == finalized /\ comp = << >> /\ \A t \in ApiThreads : pc[t] = "idle"

\* In the child of a fork nobody moves but the thread that forked.
LEMMA OnlyChild ==
    ASSUME API!InChild, NEW t \in ApiThreads, pc[t] # "forked"
    PROVE  pc[t] = "gone"
BY DEF API!InChild, API!At

LEMMA PidParts ==
    ASSUME API!PidInv PROVE API!OwnPid /\ (API!InChild \/ KnowsPid \/ Fresh)
BY DEF API!PidInv, KnowsPid, Fresh, API!At

\* An activity begins in a process that knows its pid.
LEMMA PidOfActivities ==
    ASSUME API!IInv, API!Next PROVE API!OwnPid'
<1> USE DEF API!IInv
<1>0. Main \in ApiThreads /\ aAct \in Seq(API!Activity)
  BY ApiAssumption DEF API!LowLevelAssumption, API!ActivitiesOK
<1>n. ASSUME NEW t \in ApiThreads, NEW a, Draws(t, a), a.aid[1] = a.begunIn PROVE API!OwnPid'
  <2>1. /\ Len(aAct) \in Nat /\ DOMAIN aAct = 1 .. Len(aAct) /\ DOMAIN aAct' = 1 .. Len(aAct) + 1
        /\ \A i \in 1 .. Len(aAct) : aAct'[i] = aAct[i]
        /\ aAct'[Len(aAct) + 1] = a
    BY <1>0, <1>n, AppendFacts DEF Draws
  <2> QED BY <1>n, <2>1, PidParts DEF API!OwnPid
<1>1. CASE Quiet
  BY <1>1, PidParts DEF Quiet, API!OwnPid
<1>2. CASE API!siox_initialize_monitoring
  <2>1. API!internal_trace_heavyWeight(Main, getpid)
    BY <1>2 DEF API!siox_initialize_monitoring
  <2>2. PICK a : Draws(Main, a) /\ a.aid[1] = getpid /\ a.begunIn = getpid
    BY <1>0, <2>1, TraceDraws DEF API!ComponentsOK
  <2> QED BY <1>0, <1>n, <2>2
<1>3. CASE API!finalizeEnd
  <2>1. API!internal_trace_heavyWeight(Main, pid) /\ pc[Main] = "final"
    BY <1>3 DEF API!finalizeEnd, API!At
  <2>2. pid = getpid
    BY <1>0, <2>1, PidParts, OnlyChild DEF KnowsPid, Fresh
  <2>3. PICK a : Draws(Main, a) /\ a.aid[1] = pid /\ a.begunIn = getpid
    BY <1>0, <2>1, TraceDraws DEF API!ComponentsOK
  <2> QED BY <1>0, <1>n, <2>2, <2>3
<1>4. ASSUME NEW t \in ApiThreads, NEW u \in Uids, API!siox_activity_begin(t, u) PROVE API!OwnPid'
  <2>1. PICK a : Pushes(t, a) /\ a.aid[1] = comp[aLayer[u]].pid
    BY <1>4, BeginDraws
  <2>2. pc[t] = "idle" /\ aLayer[u] # 0
    BY <1>4 DEF API!siox_activity_begin, API!At
  <2>3. ~Fresh
    BY <2>2 DEF Fresh, API!LifeInv
  <2>4. comp[aLayer[u]].pid = getpid
    BY <2>2, <2>3, PidParts, OnlyChild DEF KnowsPid
  <2> QED BY <1>n, <2>1, <2>4 DEF Pushes
<1>5. ASSUME NEW t \in ApiThreads,
             API!siox_activity_start(t) \/ API!siox_activity_stop(t) \/ API!siox_activity_end(t)
      PROVE  API!OwnPid'
  <2>1. PICK v : PhaseSet(API!Last(activity_stack[t]), v)
    BY <1>5, TopPhase
  <2> QED BY <2>1, PidParts DEF PhaseSet, API!OwnPid
<1> QED BY <1>1, <1>2, <1>3, <1>4, <1>5, StepKinds

LEMMA PidStep ==
    ASSUME API!IInv, API!Next PROVE API!PidInv'
<1> USE DEF API!IInv, API!At, API!Goto, API!pidVars, API!stateVars, API!compVars
<1>0. /\ Main \in ApiThreads /\ DOMAIN pc = ApiThreads /\ Len(comp) \in Nat
      /\ aLayer \in [Uids -> 0 .. Len(comp)] /\ registeredComponents = aLayer
      /\ \A u \in Uids : aLayer[u] # 0 => comp[aLayer[u]].uid = u
  BY ApiAssumption, ComponentType DEF API!LowLevelAssumption, API!ComponentsOK, API!TypeOK, API!LayerInv
<1>p. API!InChild \/ KnowsPid \/ Fresh
  BY PidParts
<1>f. finalized => \A u \in Uids : aLayer[u] = 0
  BY DEF API!LifeInv
<1> SUFFICES API!InChild' \/ KnowsPid' \/ Fresh'
  <2>1. API!OwnPid'
    BY PidOfActivities
  <2> QED BY <2>1 DEF API!PidInv, KnowsPid, Fresh
<1>1. CASE API!siox_disable_monitoring \/ API!siox_enable_monitoring
  <2>1. UNCHANGED <<pc, pid, getpid, comp, aLayer, finalized>>
    BY <1>1 DEF API!siox_disable_monitoring, API!siox_enable_monitoring
  <2> QED BY <1>p, <2>1 DEF API!InChild, KnowsPid, Fresh
<1>2. CASE API!initialize_fails
  <2>1. UNCHANGED <<pc, pid, getpid, comp, aLayer, finalized>>
    BY <1>2 DEF API!initialize_fails
  <2> QED BY <1>p, <2>1 DEF API!InChild, KnowsPid, Fresh
<1>3. CASE API!siox_initialize_monitoring
  <2>1. pid' = getpid /\ getpid' = getpid /\ aLayer' = aLayer /\ finalized
    BY <1>3 DEF API!siox_initialize_monitoring
  <2> QED BY <1>f, <2>1 DEF KnowsPid
<1>k. ASSUME NEW t \in ApiThreads, pc[t] \notin {"forked", "gone"},
             pc[t] # "idle" \/ ~finalized
      PROVE  KnowsPid
  BY <1>p, <1>k, OnlyChild DEF Fresh
<1>s. ASSUME KnowsPid, UNCHANGED <<pid, getpid, comp, aLayer>> PROVE KnowsPid'
  BY <1>s DEF KnowsPid
<1>4. CASE API!siox_finalize_monitoring \/ API!siox_ll_dtor
  <2>1. pc[Main] = "idle" /\ ~finalized /\ UNCHANGED <<pid, getpid, comp, aLayer>>
    BY <1>4 DEF API!siox_finalize_monitoring, API!siox_ll_dtor, API!finalizeSIOX
  <2> QED BY <1>0, <1>k, <1>s, <2>1
<1>5. CASE API!finalizeEnd
  <2>1. pc[Main] = "final" /\ UNCHANGED <<pid, getpid, comp, aLayer>>
    BY <1>5 DEF API!finalizeEnd
  <2> QED BY <1>0, <1>k, <1>s, <2>1
<1>6. ASSUME NEW u \in Uids, API!sioxFinal(u) PROVE KnowsPid'
  <2>1. pc[Main] = "final" /\ UNCHANGED <<pid, getpid>> /\ Drops(u)
    BY <1>6, FinalFacts DEF API!sioxFinal
  <2>2. KnowsPid
    BY <1>0, <1>k, <2>1
  <2>3. \A v \in Uids : aLayer'[v] # 0 => aLayer'[v] = aLayer[v] /\ aLayer[v] \in 1 .. Len(comp)
    BY <1>0, <2>1 DEF Drops
  <2> QED BY <2>1, <2>2, <2>3 DEF Drops, KnowsPid
<1>7. ASSUME NEW t \in ApiThreads, NEW u \in Uids, API!sioxInit(t, u) PROVE KnowsPid'
  <2>1. pc[t] = "idle" /\ ~finalized /\ UNCHANGED <<pid, getpid, comp, aLayer>>
    BY <1>7 DEF API!sioxInit
  <2> QED BY <1>k, <1>s, <2>1
<1>8. ASSUME NEW t \in ApiThreads, NEW u \in Uids, API!siox_activity_begin(t, u) PROVE KnowsPid'
  <2>1. pc[t] = "idle" /\ aLayer[u] # 0 /\ UNCHANGED <<pid, getpid, comp, aLayer>>
    BY <1>8 DEF API!siox_activity_begin
  <2> QED BY <1>f, <1>k, <1>s, <2>1
<1>9. ASSUME NEW t \in ApiThreads,
             API!siox_activity_start(t) \/ API!siox_activity_stop(t) \/ API!siox_activity_end(t)
      PROVE  KnowsPid'
  <2>1. /\ pc[t] = "idle" /\ activity_stack[t] # << >>
        /\ UNCHANGED <<pid, getpid, comp, aLayer>>
    BY <1>9 DEF API!siox_activity_start, API!siox_activity_stop, API!siox_activity_end
  <2>2. ~finalized
    BY <2>1, LibraryInUse
  <2> QED BY <1>k, <1>s, <2>1, <2>2
<1>10. ASSUME NEW t \in ApiThreads, API!registerLoad(t) PROVE KnowsPid'
  <2>1. pc[t] = "checked" /\ UNCHANGED <<pid, getpid, comp, aLayer>>
    BY <1>10 DEF API!registerLoad
  <2> QED BY <1>k, <1>s, <2>1
<1>11. ASSUME NEW t \in ApiThreads, API!siox_component_register(t) PROVE KnowsPid'
  <2>1. pc[t] = "loaded" /\ UNCHANGED <<pid, getpid>>
    BY <1>11 DEF API!siox_component_register
  <2>2. KnowsPid
    BY <1>k, <2>1
  <2> DEFINE a == arg[t]
  <2>3. Adds(a)
    BY <1>11, RegisterFacts
  <2> HIDE DEF a
  <2>4. ASSUME NEW v \in Uids, aLayer'[v] # 0 PROVE comp'[aLayer'[v]].pid = getpid
    <3>1. CASE v = a
      BY <1>0, <2>2, <2>3, <3>1 DEF Adds, KnowsPid
    <3>2. CASE v # a
      <4>1. aLayer'[v] = aLayer[v] /\ aLayer[v] \in 1 .. Len(comp)
        BY <1>0, <2>3, <2>4, <3>2 DEF Adds
      <4> QED BY <2>2, <2>3, <2>4, <4>1 DEF Adds, KnowsPid
    <3> QED BY <3>1, <3>2
  <2> QED BY <2>1, <2>2, <2>4 DEF KnowsPid
<1>12. ASSUME NEW t \in ApiThreads, API!siox_handle_prepare_fork(t) \/ API!forkParent(t)
       PROVE  KnowsPid'
  <2>1. /\ pc[t] \in {"idle", "forking"} /\ (pc[t] = "idle" => ~finalized)
        /\ UNCHANGED <<pid, getpid, comp, aLayer>>
    BY <1>12 DEF API!siox_handle_prepare_fork, API!forkParent
  <2> QED BY <1>k, <1>s, <2>1
<1>13. ASSUME NEW t \in ApiThreads, API!forkChild(t) PROVE API!InChild'
  BY <1>13 DEF API!forkChild, API!InChild
<1>14. ASSUME NEW t \in ApiThreads, API!siox_handle_fork_complete(t) PROVE KnowsPid'
  <2>1. /\ Renames /\ pid' = getpid /\ getpid' = getpid /\ aLayer' = aLayer
    BY <1>14, ForkFacts DEF API!siox_handle_fork_complete
  <2>2. \A v \in Uids : aLayer[v] # 0 =>
           aLayer[v] \in 1 .. Len(comp) /\ registeredComponents[comp[aLayer[v]].uid] = aLayer[v]
    BY <1>0
  <2> QED BY <2>1, <2>2 DEF Renames, KnowsPid
<1> QED
  BY <1>1, <1>2, <1>3, <1>4, <1>5, <1>6, <1>7, <1>8, <1>9, <1>10, <1>11, <1>12, <1>13, <1>14
  DEF API!Next

-----------------------------------------------------------------------------
(* Nothing of an earlier initialisation is used.                           *)

\* The parts of CurrentInv: the components of the layers, ...
LayersCurrent ==
    \A u \in Uids : aLayer[u] # 0 =>
        comp[aLayer[u]].live /\ comp[aLayer[u]].init = initalizationCounter

\* ... those of the activities on the stacks, ...
StacksCurrent ==
    \A t \in ApiThreads : \A k \in DOMAIN activity_stack[t] :
        /\ aAct[activity_stack[t][k]].comp \in DOMAIN comp
        /\ comp[aAct[activity_stack[t][k]].comp].live
        /\ comp[aAct[activity_stack[t][k]].comp].init = initalizationCounter

\* ... and the layers that have called back.
LayersServed ==
    ~finalized /\ pc[Main] \notin {"final", "gone"} =>
        \A u \in cbs : \/ u \in todo[Main]
                       \/ aLayer[u] # 0
                       \/ (pc[Main] \in {"checked", "loaded"} /\ arg[Main] = u)

LEMMA CurrentParts ==
    API!CurrentInv <=> ~late /\ LayersCurrent /\ StacksCurrent /\ LayersServed
BY DEF API!CurrentInv, LayersCurrent, StacksCurrent, LayersServed, API!Finalizing, API!At

LEMMA CurrentPartsNext ==
    API!CurrentInv' <=> ~late' /\ LayersCurrent' /\ StacksCurrent' /\ LayersServed'
BY DEF API!CurrentInv, LayersCurrent, StacksCurrent, LayersServed, API!Finalizing, API!At

\* The counter of initialisations changes only when there is no library.
LEMMA CounterStep ==
    ASSUME API!Next
    PROVE  initalizationCounter' = initalizationCounter \/ finalized
<1> USE DEF API!stateVars
<1>1. CASE API!siox_disable_monitoring \/ API!siox_enable_monitoring \/ API!initialize_fails
  BY <1>1 DEF API!siox_disable_monitoring, API!siox_enable_monitoring, API!initialize_fails
<1>2. CASE API!siox_finalize_monitoring \/ API!siox_ll_dtor
  BY <1>2 DEF API!siox_finalize_monitoring, API!siox_ll_dtor, API!finalizeSIOX
<1>3. CASE API!siox_initialize_monitoring \/ API!finalizeEnd
  BY <1>3 DEF API!siox_initialize_monitoring, API!finalizeEnd
<1>4. ASSUME NEW u \in Uids, API!sioxFinal(u) PROVE initalizationCounter' = initalizationCounter
  BY <1>4 DEF API!sioxFinal
<1>5. ASSUME NEW t \in ApiThreads, NEW u \in Uids,
             API!sioxInit(t, u) \/ API!siox_activity_begin(t, u)
      PROVE  initalizationCounter' = initalizationCounter
  BY <1>5 DEF API!sioxInit, API!siox_activity_begin
<1>6. ASSUME NEW t \in ApiThreads,
             \/ API!siox_activity_start(t) \/ API!siox_activity_stop(t) \/ API!siox_activity_end(t)
             \/ API!registerLoad(t) \/ API!siox_component_register(t)
      PROVE  initalizationCounter' = initalizationCounter
  BY <1>6 DEF API!siox_activity_start, API!siox_activity_stop, API!siox_activity_end,
              API!registerLoad, API!siox_component_register
<1>7. ASSUME NEW t \in ApiThreads,
             \/ API!siox_handle_prepare_fork(t) \/ API!forkParent(t) \/ API!forkChild(t)
             \/ API!siox_handle_fork_complete(t)
      PROVE  initalizationCounter' = initalizationCounter
  BY <1>7 DEF API!siox_handle_prepare_fork, API!forkParent, API!forkChild,
              API!siox_handle_fork_complete
<1> QED
  BY <1>1, <1>2, <1>3, <1>4, <1>5, <1>6, <1>7 DEF API!Next

LEMMA LayersCurrentStep ==
    ASSUME API!IInv, API!Next PROVE LayersCurrent'
<1> USE DEF API!IInv
<1>0. /\ Len(comp) \in Nat /\ aLayer \in [Uids -> 0 .. Len(comp)]
      /\ \A u \in Uids : aLayer[u] # 0 => aLayer[u] \in 1 .. Len(comp) /\ comp[aLayer[u]].uid = u
  BY ComponentType DEF API!TypeOK, API!LayerInv
<1>1. LayersCurrent
  BY CurrentParts
<1>2. initalizationCounter' # initalizationCounter => \A u \in Uids : aLayer[u] = 0
  BY CounterStep DEF API!LifeInv
<1>3. CASE Still
  BY <1>0, <1>1, <1>2, <1>3 DEF Still, LayersCurrent
<1>4. ASSUME NEW u \in Uids, API!sioxFinal(u) PROVE LayersCurrent'
  <2>1. Drops(u) /\ initalizationCounter' = initalizationCounter
    BY <1>4, FinalFacts DEF API!sioxFinal, API!stateVars
  <2>2. ASSUME NEW v \in Uids, aLayer'[v] # 0
        PROVE  comp'[aLayer'[v]].live /\ comp'[aLayer'[v]].init = initalizationCounter
    <3>1. v # u /\ aLayer'[v] = aLayer[v] /\ aLayer[v] # 0
      BY <1>0, <2>1, <2>2 DEF Drops
    <3>2. aLayer[v] \in 1 .. Len(comp) /\ aLayer[v] # aLayer[u]
      BY <1>0, <3>1
    <3> QED BY <1>1, <2>1, <3>1, <3>2 DEF Drops, LayersCurrent
  <2> QED BY <2>1, <2>2 DEF LayersCurrent
<1>5. ASSUME NEW t \in ApiThreads, API!siox_component_register(t) PROVE LayersCurrent'
  <2> DEFINE a == arg[t]
  <2>1. Adds(a) /\ initalizationCounter' = initalizationCounter
    BY <1>5, RegisterFacts DEF API!siox_component_register, API!stateVars
  <2> HIDE DEF a
  <2>2. ASSUME NEW v \in Uids, aLayer'[v] # 0
        PROVE  comp'[aLayer'[v]].live /\ comp'[aLayer'[v]].init = initalizationCounter
    <3>1. CASE v = a
      BY <1>0, <2>1, <3>1 DEF Adds
    <3>2. CASE v # a
      <4>1. aLayer'[v] = aLayer[v] /\ aLayer[v] # 0 /\ aLayer[v] \in 1 .. Len(comp)
        BY <1>0, <2>1, <2>2, <3>2 DEF Adds
      <4> QED BY <1>1, <2>1, <4>1 DEF Adds, LayersCurrent
    <3> QED BY <3>1, <3>2
  <2> QED BY <2>1, <2>2 DEF LayersCurrent
<1>6. ASSUME NEW t \in ApiThreads, API!siox_handle_fork_complete(t) PROVE LayersCurrent'
  <2>1. Renames /\ aLayer' = aLayer /\ initalizationCounter' = initalizationCounter
    BY <1>6, ForkFacts DEF API!siox_handle_fork_complete
  <2> QED BY <1>0, <1>1, <2>1 DEF Renames, LayersCurrent
<1> QED BY <1>3, <1>4, <1>5, <1>6, LayerKinds

LEMMA StacksCurrentStep ==
    ASSUME API!IInv, API!Next PROVE StacksCurrent'
<1> USE DEF API!IInv
<1>0. /\ Len(comp) \in Nat /\ DOMAIN comp = 1 .. Len(comp) /\ Main \in ApiThreads
      /\ activity_stack \in [ApiThreads -> Seq(Nat)] /\ aAct \in Seq(API!Activity)
      /\ \A t \in ApiThreads : \A k \in DOMAIN activity_stack[t] : activity_stack[t][k] \in DOMAIN aAct
  BY ComponentType, ApiAssumption DEF API!LowLevelAssumption, API!ActivitiesOK, API!StackInv
<1>1. StacksCurrent /\ LayersCurrent
  BY CurrentParts
<1>e. ASSUME finalized \/ pc[Main] = "final", activity_stack' = activity_stack
      PROVE  StacksCurrent'
  <2>1. \A t \in ApiThreads : activity_stack[t] = << >>
    BY <1>e DEF API!LifeInv, API!Finalizing
  <2> QED BY <1>e, <2>1 DEF StacksCurrent
<1>2. ASSUME NEW u \in Uids, API!sioxFinal(u) PROVE StacksCurrent'
  BY <1>2, <1>e DEF API!sioxFinal, API!At, API!actVars
<1>3. CASE API!siox_initialize_monitoring \/ API!finalizeEnd
  BY <1>3, <1>e DEF API!siox_initialize_monitoring, API!finalizeEnd, API!At,
     API!internal_trace_heavyWeight
<1>4. ASSUME NEW t \in ApiThreads, NEW u \in Uids, API!siox_activity_begin(t, u)
      PROVE  StacksCurrent'
  <2> DEFINE c == aLayer[u]
             s == activity_stack[t]
  <2>1. PICK a : Pushes(t, a) /\ a.comp = c
    BY <1>4, BeginDraws
  <2>2. c # 0 /\ comp' = comp /\ initalizationCounter' = initalizationCounter
    BY <1>4 DEF API!siox_activity_begin, API!compVars, API!stateVars
  <2>3. c \in DOMAIN comp /\ comp[c].live /\ comp[c].init = initalizationCounter
    BY <1>1, <2>2, ComponentFacts DEF LayersCurrent
  <2>4. /\ Len(aAct) \in Nat /\ DOMAIN aAct = 1 .. Len(aAct)
        /\ \A i \in 1 .. Len(aAct) : aAct'[i] = aAct[i]
        /\ aAct'[Len(aAct) + 1] = a
    BY <1>0, <2>1, AppendFacts DEF Pushes, Draws
  <2>5. activity_stack' = [activity_stack EXCEPT ![t] = Append(s, Len(aAct) + 1)]
    BY <2>1 DEF Pushes
  <2>6. s \in Seq(Nat) /\ Len(aAct) + 1 \in Nat
    BY <1>0, <2>4
  <2> HIDE DEF c, s
  <2>7. /\ \A k \in DOMAIN Append(s, Len(aAct) + 1) :
             \/ k \in DOMAIN s /\ Append(s, Len(aAct) + 1)[k] = s[k]
             \/ Append(s, Len(aAct) + 1)[k] = Len(aAct) + 1
    BY <2>6
  <2>8. ASSUME NEW x \in ApiThreads, NEW k \in DOMAIN activity_stack'[x]
        PROVE  /\ aAct'[activity_stack'[x][k]].comp \in DOMAIN comp
               /\ comp[aAct'[activity_stack'[x][k]].comp].live
               /\ comp[aAct'[activity_stack'[x][k]].comp].init = initalizationCounter
    <3>1. \/ k \in DOMAIN activity_stack[x] /\ activity_stack'[x][k] = activity_stack[x][k]
          \/ activity_stack'[x][k] = Len(aAct) + 1
      BY <1>0, <2>5, <2>7 DEF s
    <3>2. CASE k \in DOMAIN activity_stack[x] /\ activity_stack'[x][k] = activity_stack[x][k]
      <4>1. aAct'[activity_stack'[x][k]] = aAct[activity_stack[x][k]]
        BY <1>0, <2>4, <3>2
      <4> QED BY <1>1, <3>2, <4>1 DEF StacksCurrent
    <3>3. CASE activity_stack'[x][k] = Len(aAct) + 1
      BY <2>1, <2>3, <2>4, <3>3
    <3> QED BY <3>1, <3>2, <3>3
  <2> QED BY <2>2, <2>8 DEF StacksCurrent
<1>5. ASSUME NEW t \in ApiThreads,
             API!siox_activity_start(t) \/ API!siox_activity_stop(t) \/ API!siox_activity_end(t)
      PROVE  StacksCurrent'
  <2>1. PICK v : PhaseSet(API!Last(activity_stack[t]), v)
    BY <1>5, TopPhase
  <2>2. comp' = comp /\ initalizationCounter' = initalizationCounter
    BY <1>5 DEF API!siox_activity_start, API!siox_activity_stop, API!siox_activity_end,
       API!compVars, API!stateVars
  <2>3. \A x \in ApiThreads : \A k \in DOMAIN activity_stack'[x] :
          k \in DOMAIN activity_stack[x] /\ activity_stack'[x][k] = activity_stack[x][k]
    <3>1. CASE activity_stack' = activity_stack
      BY <3>1
    <3>2. CASE activity_stack' = [activity_stack EXCEPT ![t] = API!Front(@)]
      <4> DEFINE s == activity_stack[t]
      <4>1. s \in Seq(Nat) /\ s # << >>
        BY <1>0, <1>5, TopPhase
      <4>2. /\ Len(s) \in Nat /\ DOMAIN s = 1 .. Len(s) /\ DOMAIN API!Front(s) = 1 .. Len(s) - 1
            /\ \A i \in 1 .. Len(s) - 1 : API!Front(s)[i] = s[i]
        BY <4>1, FrontFacts
      <4>3. \A k \in DOMAIN API!Front(s) : k \in DOMAIN s /\ API!Front(s)[k] = s[k]
        BY <4>2
      <4> QED BY <1>0, <3>2, <4>3
    <3> QED BY <1>5, <3>1, <3>2, TopPhase
  <2>4. \A x \in ApiThreads : \A k \in DOMAIN activity_stack'[x] :
          aAct'[activity_stack'[x][k]].comp = aAct[activity_stack[x][k]].comp
    BY <1>0, <2>1, <2>3 DEF PhaseSet
  <2> QED BY <1>1, <2>2, <2>3, <2>4 DEF StacksCurrent
<1>6. ASSUME Quiet, ~(\E u \in Uids : API!sioxFinal(u)) PROVE StacksCurrent'
  <2>1. \A i \in DOMAIN comp :
          i \in DOMAIN comp' /\ comp'[i].live = comp[i].live /\ comp'[i].init = comp[i].init
    <3>1. CASE Still
      BY <3>1 DEF Still
    <3>2. ASSUME NEW t \in ApiThreads, API!siox_component_register(t)
          PROVE  \A i \in DOMAIN comp : i \in DOMAIN comp' /\ comp'[i].live = comp[i].live
                                        /\ comp'[i].init = comp[i].init
      <4>1. Adds(arg[t])
        BY <3>2, RegisterFacts
      <4>2. /\ comp' \in Seq(API!Component) /\ Len(comp') = Len(comp) + 1
            /\ \A i \in 1 .. Len(comp) : comp'[i] = comp[i]
        BY <4>1 DEF Adds
      <4>3. DOMAIN comp' = 1 .. Len(comp) + 1
        BY <4>2
      <4> QED BY <1>0, <4>2, <4>3
    <3>3. ASSUME NEW t \in ApiThreads, API!siox_handle_fork_complete(t)
          PROVE  \A i \in DOMAIN comp : i \in DOMAIN comp' /\ comp'[i].live = comp[i].live
                                        /\ comp'[i].init = comp[i].init
      BY <1>0, <3>3, ForkFacts DEF Renames
    <3> QED BY <1>6, <3>1, <3>2, <3>3, LayerKinds
  <2>2. CASE finalized
    BY <1>6, <1>e, <2>2 DEF Quiet
  <2>3. CASE initalizationCounter' = initalizationCounter
    BY <1>1, <1>6, <2>1, <2>3 DEF Quiet, StacksCurrent
  <2> QED BY <2>2, <2>3, CounterStep
<1> QED BY <1>2, <1>3, <1>4, <1>5, <1>6, StepKinds

LEMMA NeverLate ==
    ASSUME API!IInv, API!Next PROVE ~late'
<1> USE DEF API!IInv, API!actVars
<1>0. ~late /\ LayersCurrent /\ StacksCurrent
  BY CurrentParts
<1>1. ASSUME NEW t \in ApiThreads, activity_stack[t] # << >>
      PROVE  ~API!Gone(API!Last(activity_stack[t]))
  <2>1. activity_stack[t] \in Seq(Nat)
    BY DEF API!ActivitiesOK
  <2>2. /\ Len(activity_stack[t]) \in DOMAIN activity_stack[t]
        /\ API!Last(activity_stack[t]) = activity_stack[t][Len(activity_stack[t])]
    BY <1>1, <2>1, FrontFacts
  <2>3. ~finalized
    BY <1>1, LibraryInUse
  <2> QED BY <1>0, <2>2, <2>3 DEF API!Gone, StacksCurrent
<1>2. ASSUME NEW t \in ApiThreads, NEW u \in Uids, API!siox_activity_begin(t, u) PROVE ~late'
  BY <1>0, <1>2 DEF API!siox_activity_begin, LayersCurrent
<1>3. ASSUME NEW t \in ApiThreads,
             API!siox_activity_start(t) \/ API!siox_activity_stop(t) \/ API!siox_activity_end(t)
      PROVE  ~late'
  BY <1>0, <1>1, <1>3 DEF API!siox_activity_start, API!siox_activity_stop, API!siox_activity_end
<1>4. CASE API!siox_disable_monitoring \/ API!siox_enable_monitoring \/ API!initialize_fails
  BY <1>0, <1>4 DEF API!siox_disable_monitoring, API!siox_enable_monitoring, API!initialize_fails
<1>5. CASE API!siox_finalize_monitoring \/ API!siox_ll_dtor
  BY <1>0, <1>5 DEF API!siox_finalize_monitoring, API!siox_ll_dtor, API!finalizeSIOX
<1>6. CASE API!siox_initialize_monitoring \/ API!finalizeEnd
  BY <1>0, <1>6 DEF API!siox_initialize_monitoring, API!finalizeEnd, API!internal_trace_heavyWeight
<1>7. ASSUME NEW u \in Uids, API!sioxFinal(u) PROVE ~late'
  BY <1>0, <1>7 DEF API!sioxFinal
<1>8. ASSUME NEW t \in ApiThreads, NEW u \in Uids, API!sioxInit(t, u) PROVE ~late'
  BY <1>0, <1>8 DEF API!sioxInit
<1>9. ASSUME NEW t \in ApiThreads, API!registerLoad(t) \/ API!siox_component_register(t)
      PROVE  ~late'
  BY <1>0, <1>9 DEF API!registerLoad, API!siox_component_register
<1>10. ASSUME NEW t \in ApiThreads,
              \/ API!siox_handle_prepare_fork(t) \/ API!forkParent(t) \/ API!forkChild(t)
              \/ API!siox_handle_fork_complete(t)
       PROVE  ~late'
  BY <1>0, <1>10 DEF API!siox_handle_prepare_fork, API!forkParent, API!forkChild,
                     API!siox_handle_fork_complete
<1> QED
  BY <1>2, <1>3, <1>4, <1>5, <1>6, <1>7, <1>8, <1>9, <1>10 DEF API!Next

LEMMA LayersServedStep ==
    ASSUME API!IInv, API!Next PROVE LayersServed'
<1> USE DEF API!IInv, API!At, API!Goto, API!stateVars, API!compVars
<1>0. /\ LayersServed /\ Main \in ApiThreads /\ registeredComponents = aLayer
      /\ DOMAIN pc = ApiThreads /\ DOMAIN arg = ApiThreads /\ DOMAIN todo = ApiThreads
      /\ aLayer \in [Uids -> 0 .. Len(comp)] /\ Len(comp) \in Nat /\ cbs \subseteq Uids
  BY CurrentParts, ComponentType, ApiAssumption
     DEF API!LowLevelAssumption, API!ComponentsOK, API!TypeOK, API!LayerInv
<1>s. ASSUME UNCHANGED <<finalized, pc, cbs, todo, aLayer, arg>> PROVE LayersServed'
  BY <1>0, <1>s DEF LayersServed
<1>1. CASE API!siox_disable_monitoring \/ API!siox_enable_monitoring \/ API!initialize_fails
  BY <1>1, <1>s DEF API!siox_disable_monitoring, API!siox_enable_monitoring, API!initialize_fails
<1>2. CASE API!siox_finalize_monitoring \/ API!siox_ll_dtor
  BY <1>0, <1>2 DEF API!siox_finalize_monitoring, API!siox_ll_dtor, API!finalizeSIOX, LayersServed
<1>3. CASE API!siox_initialize_monitoring
  BY <1>0, <1>3 DEF API!siox_initialize_monitoring, LayersServed
<1>4. CASE API!finalizeEnd
  BY <1>4 DEF API!finalizeEnd, LayersServed
<1>5. ASSUME NEW u \in Uids, API!sioxFinal(u) PROVE LayersServed'
  BY <1>5 DEF API!sioxFinal, LayersServed
<1>6. ASSUME NEW t \in ApiThreads, NEW u \in Uids, API!sioxInit(t, u) PROVE LayersServed'
  <2>1. /\ pc[t] = "idle" /\ ~finalized /\ pc[Main] # "final" /\ cbs' = cbs /\ aLayer' = aLayer
        /\ todo' = [todo EXCEPT ![t] = @ \ {u}]
    BY <1>6 DEF API!sioxInit, API!Finalizing
  <2>2. monitoringDisabled # "permanent"
    BY <2>1 DEF API!LifeInv, API!Finalizing
  <2>3. \/ aLayer[u] # 0 /\ UNCHANGED <<pc, arg>>
        \/ pc' = [pc EXCEPT ![t] = "checked"] /\ arg' = [arg EXCEPT ![t] = u]
    BY <1>0, <1>6, <2>2 DEF API!sioxInit
  <2>4. CASE t # Main
    <3>1. todo'[Main] = todo[Main] /\ pc'[Main] = pc[Main] /\ arg'[Main] = arg[Main]
      BY <1>0, <2>1, <2>3, <2>4
    <3> QED BY <1>0, <2>1, <3>1 DEF LayersServed
  <2>5. CASE t = Main
    <3>1. \A v \in cbs : v \in todo[Main] \/ aLayer[v] # 0
      BY <1>0, <2>1, <2>5 DEF LayersServed
    <3>2. \A v \in cbs : v # u => v \in todo'[Main] \/ aLayer[v] # 0
      BY <1>0, <2>1, <2>5, <3>1
    <3>3. \/ aLayer[u] # 0
          \/ pc'[Main] = "checked" /\ arg'[Main] = u
      BY <1>0, <2>3, <2>5
    <3> QED BY <2>1, <3>2, <3>3 DEF LayersServed
  <2> QED BY <2>4, <2>5
<1>7. ASSUME NEW t \in ApiThreads, NEW u \in Uids, API!siox_activity_begin(t, u)
      PROVE  LayersServed'
  BY <1>7, <1>s DEF API!siox_activity_begin
<1>8. ASSUME NEW t \in ApiThreads,
             API!siox_activity_start(t) \/ API!siox_activity_stop(t) \/ API!siox_activity_end(t)
      PROVE  LayersServed'
  BY <1>8, <1>s DEF API!siox_activity_start, API!siox_activity_stop, API!siox_activity_end
<1>9. ASSUME NEW t \in ApiThreads, API!registerLoad(t) PROVE LayersServed'
  <2>1. /\ pc[t] = "checked" /\ pc' = [pc EXCEPT ![t] = "loaded"]
        /\ UNCHANGED <<finalized, cbs, todo, aLayer, arg>>
    BY <1>9 DEF API!registerLoad
  <2> QED BY <1>0, <2>1 DEF LayersServed
<1>10. ASSUME NEW t \in ApiThreads, API!siox_component_register(t) PROVE LayersServed'
  <2> DEFINE a == arg[t]
  <2>1. /\ Adds(a) /\ pc[t] = "loaded" /\ pc' = [pc EXCEPT ![t] = "idle"]
        /\ UNCHANGED <<finalized, todo, arg>>
    BY <1>10, RegisterFacts DEF API!siox_component_register
  <2>2. aLayer'[a] # 0 /\ \A v \in Uids : aLayer[v] # 0 => aLayer'[v] # 0
    BY <1>0, <2>1 DEF Adds
  <2>3. cbs' = cbs \cup {a}
    BY <2>1 DEF Adds
  <2>4. pc'[Main] = pc[Main] \/ (t = Main /\ arg[Main] = a)
    BY <1>0, <2>1
  <2>5. pc[Main] \in {"final", "gone"} => pc'[Main] = pc[Main]
    BY <1>0, <2>1
  <2> HIDE DEF a
  <2> QED BY <1>0, <2>1, <2>2, <2>3, <2>4, <2>5 DEF LayersServed
<1>11. ASSUME NEW t \in ApiThreads,
              \/ API!siox_handle_prepare_fork(t) \/ API!forkParent(t)
              \/ API!siox_handle_fork_complete(t)
       PROVE  LayersServed'
  <2>1. /\ pc[t] \in {"idle", "forking", "forked"} /\ UNCHANGED <<finalized, cbs, todo, aLayer, arg>>
        /\ \E l \in {"forking", "forked", "idle"} : pc' = [pc EXCEPT ![t] = l]
    BY <1>11 DEF API!siox_handle_prepare_fork, API!forkParent, API!siox_handle_fork_complete
  <2>2. \/ pc'[Main] = pc[Main]
        \/ pc[Main] \in {"idle", "forking", "forked"}
    BY <1>0, <2>1
  <2> QED BY <1>0, <2>1, <2>2 DEF LayersServed
<1>12. ASSUME NEW t \in ApiThreads, API!forkChild(t) PROVE LayersServed'
  <2>1. /\ pc[t] = "forking" /\ UNCHANGED <<finalized, cbs, todo, aLayer, arg>>
        /\ pc' = [x \in ApiThreads |-> IF x = t THEN "forked" ELSE "gone"]
    BY <1>12 DEF API!forkChild
  <2>2. CASE t = Main
    BY <1>0, <2>1, <2>2 DEF LayersServed
  <2>3. CASE t # Main
    BY <1>0, <2>1, <2>3 DEF LayersServed
  <2> QED BY <2>2, <2>3
<1> QED
  BY <1>1, <1>2, <1>3, <1>4, <1>5, <1>6, <1>7, <1>8, <1>9, <1>10, <1>11, <1>12 DEF API!Next

-----------------------------------------------------------------------------
(* The theorems.                                                           *)

LEMMA ApiInductive ==
    ASSUME API!IInv, API!Next PROVE API!IInv'
<1>1. API!TypeOK' /\ API!ComponentsOK'
  BY TypeStep
<1>2. API!ActivitiesOK' /\ API!NumbersInv' /\ API!StackInv'
  BY ActivitiesStep
<1>3. API!LayerInv' /\ API!LifeInv' /\ API!PidInv'
  BY LayerStep, LifeStep, PidStep
<1>4. API!CurrentInv'
  BY NeverLate, LayersCurrentStep, StacksCurrentStep, LayersServedStep, CurrentPartsNext
<1> QED BY <1>1, <1>2, <1>3, <1>4 DEF API!IInv

LEMMA ApiInitial == API!Init => API!IInv
<1> SUFFICES ASSUME API!Init PROVE API!IInv
  OBVIOUS
<1> USE ApiAssumption DEF API!LowLevelAssumption
<1>e. \A S : << >> \in Seq(S) /\ Len(<< >>) = 0 /\ DOMAIN << >> = {}
  OBVIOUS
<1>1. API!TypeOK
  <2>1. {finalized, running, late} \subseteq BOOLEAN
    BY DEF API!Init
  <2>2. \A t \in ApiThreads : API!Range(activity_stack[t]) \subseteq DOMAIN aAct
    BY <1>e DEF API!Init, API!Range
  <2>3. /\ registeredComponents \in [Uids -> 0 .. Len(comp)]
        /\ aLayer \in [Uids -> 0 .. Len(comp)]
    BY <1>e DEF API!Init
  <2> QED BY <2>1, <2>2, <2>3 DEF API!Init, API!TypeOK, API!At
<1>2. API!ActivitiesOK
  BY <1>e DEF API!Init, API!ActivitiesOK
<1>3. API!ComponentsOK
  BY <1>e DEF API!Init, API!ComponentsOK
<1>4. API!NumbersInv
  BY <1>e DEF API!Init, API!NumbersInv
<1>5. API!StackInv
  BY <1>e DEF API!Init, API!StackInv
<1>6. API!LayerInv /\ API!PidInv
  BY <1>e DEF API!Init, API!LayerInv, API!PidInv, API!OwnPid, API!At
<1>7. API!LifeInv
  BY DEF API!Init, API!LifeInv, API!Finalizing
<1>8. API!CurrentInv
  BY <1>e, CurrentParts DEF API!Init, LayersCurrent, StacksCurrent, LayersServed
<1> QED BY <1>1, <1>2, <1>3, <1>4, <1>5, <1>6, <1>7, <1>8 DEF API!IInv

LEMMA ApiInvariant == MCSpec => []API!IInv
<1>1. MCInit => API!IInv
  BY ApiInitial DEF MCInit
<1>2. API!IInv /\ [MCNext]_allVars => API!IInv'
  <2> SUFFICES ASSUME API!IInv, [MCNext]_allVars PROVE API!IInv'
    OBVIOUS
  <2>1. CASE API!Next
    BY <2>1, ApiInductive
  <2>2. CASE UNCHANGED apiVars
    <3>1. /\ finalized' = finalized /\ monitoringDisabled' = monitoringDisabled
          /\ initalizationCounter' = initalizationCounter /\ running' = running
          /\ comp' = comp /\ registeredComponents' = registeredComponents /\ aLayer' = aLayer
          /\ cbs' = cbs /\ todo' = todo /\ upgrade' = upgrade /\ thread_id' = thread_id
          /\ next_activity_id' = next_activity_id /\ activity_stack' = activity_stack
          /\ current_thread_ID' = current_thread_ID /\ aAct' = aAct /\ late' = late
          /\ getpid' = getpid /\ pid' = pid /\ pc' = pc /\ arg' = arg
      BY <2>2 DEF apiVars
    <3> USE <3>1
    <3>2. API!TypeOK' /\ API!ActivitiesOK' /\ API!ComponentsOK'
      BY DEF API!IInv, API!TypeOK, API!ActivitiesOK, API!ComponentsOK, API!At
    <3>3. API!NumbersInv' /\ API!LayerInv'
      BY DEF API!IInv, API!NumbersInv, API!LayerInv
    <3>4. API!StackInv'
      BY DEF API!IInv, API!StackInv
    <3>5. API!PidInv'
      BY DEF API!IInv, API!PidInv, API!OwnPid, API!InChild, API!At
    <3>6. API!LifeInv' /\ API!CurrentInv'
      BY DEF API!IInv, API!LifeInv, API!CurrentInv, API!Finalizing, API!At
    <3> QED BY <3>2, <3>3, <3>4, <3>5, <3>6 DEF API!IInv
  <2> QED BY <2>1, <2>2 DEF MCNext, allVars
<1> QED BY <1>1, <1>2, PTL DEF MCSpec

\* LowLevelAPI, for every set of threads and interfaces: no two activities have the
\* same ID, whichever threads begin them and however often the library is initialised
\* and the process forks; the ID holds the pid of the process that began the activity,
\* and an activity in progress lies within its parent.
THEOREM ActivityIdentity == MCSpec => []ActivityIdsUnique
<1>1. API!IInv => ActivityIdsUnique
  <2> SUFFICES ASSUME API!IInv PROVE API!ActivityIdsUnique
    BY DEF ActivityIdsUnique
  <2>1. API!ParentsEnclose
    <3> SUFFICES ASSUME NEW i \in DOMAIN aAct, aAct[i].parent # 0, aAct[i].phase # "ended"
                 PROVE  aAct[aAct[i].parent].phase # "ended"
      BY DEF API!ParentsEnclose
    <3>1. PICK t \in ApiThreads : \E k \in DOMAIN activity_stack[t] : activity_stack[t][k] = i
      BY DEF API!IInv, API!StackInv
    <3>2. PICK k \in DOMAIN activity_stack[t] : activity_stack[t][k] = i
      BY <3>1
    <3>3. k # 1 /\ aAct[i].parent = activity_stack[t][k - 1]
      BY <3>2 DEF API!IInv, API!StackInv
    <3>4. k - 1 \in DOMAIN activity_stack[t]
      <4>1. activity_stack[t] \in Seq(Nat)
        BY DEF API!IInv, API!ActivitiesOK
      <4> QED BY <3>3, <4>1
    <3> QED BY <3>3, <3>4 DEF API!IInv, API!StackInv
  <2>2. API!TypeOK /\ API!OwnPid
    BY DEF API!IInv, API!PidInv
  <2> QED BY <2>1, <2>2 DEF API!IInv, API!NumbersInv, API!ActivityIdsUnique
<1> QED BY <1>1, ApiInvariant, PTL

\* LowLevelAPI: after a re-initialisation every layer that was there has its new
\* component, the registered one, and nothing is begun for or logged through a
\* component of an earlier initialisation.
THEOREM LayerReturn == MCSpec => []LayersReturn
<1>1. API!IInv => LayersReturn
  <2> SUFFICES ASSUME API!IInv PROVE API!LayersReturn
    BY DEF LayersReturn
  <2>0. /\ ~late /\ LayersCurrent /\ LayersServed /\ registeredComponents = aLayer
        /\ cbs \subseteq Uids /\ Main \in ApiThreads
    BY CurrentParts, ApiAssumption DEF API!IInv, API!LayerInv, API!TypeOK, API!LowLevelAssumption
  <2>1. ASSUME ~finalized, todo[Main] = {}, pc[Main] # "gone",
               \A t \in ApiThreads : pc[t] \notin {"checked", "loaded", "final"}, NEW u \in cbs
        PROVE  /\ aLayer[u] # 0 /\ registeredComponents[u] = aLayer[u]
               /\ comp[aLayer[u]].live /\ comp[aLayer[u]].init = initalizationCounter
    <3>1. aLayer[u] # 0
      BY <2>0, <2>1 DEF LayersServed
    <3> QED BY <2>0, <3>1 DEF LayersCurrent
  <2> QED BY <2>0, <2>1 DEF API!LayersReturn, API!At
<1> QED BY <1>1, ApiInvariant, PTL

-----------------------------------------------------------------------------
(* The replay.                                                             *)

AllHandles == ReplayHandles \cup Pointers

\* Where what was done with an inherited handle goes to.
StdTarget(h) == IF h \in ReplayHandles THEN 0 ELSE -1

\* A free descriptor is one that is not open.
LEMMA LowestIsFree ==
    ASSUME Player!TypeInv
    PROVE  Player!LowestFree \in Nat \ DOMAIN plugin
<1>1. PICK D : D = DOMAIN plugin
  OBVIOUS
<1>2. D \subseteq Nat /\ IsFiniteSet(D)
  BY <1>1 DEF Player!TypeInv, Player!IsFiniteSet, IsFiniteSet
<1>3. Cardinality(D) \in Nat
  BY <1>2, FS_CardinalityType
<1>4. PICK T : T = (0 .. Cardinality(D)) \ D
  OBVIOUS
<1>5. T # {} /\ T \subseteq Nat
  <2>1. T \subseteq Nat
    BY <1>3, <1>4
  <2>2. ASSUME T = {} PROVE FALSE
    <3>1. 0 .. Cardinality(D) \in SUBSET D
      BY <1>4, <2>2
    <3>2. Cardinality(0 .. Cardinality(D)) <= Cardinality(D)
      BY <1>2, <3>1, FS_Subset
    <3>3. Cardinality(0 .. Cardinality(D)) = Cardinality(D) + 1
      <4>1. PICK n \in Nat : n = Cardinality(D)
        BY <1>3
      <4>2. Cardinality(0 .. n) = IF 0 > n THEN 0 ELSE n - 0 + 1
        BY FS_Interval
      <4> QED BY <4>1, <4>2
    <3> QED BY <1>3, <3>2, <3>3
  <2> QED BY <2>1, <2>2
<1>6. \E m \in T : \A y \in T : m <= y
  <2>1. PICK R : R = OpToRel(<, Nat)
    OBVIOUS
  <2>2. \A x, y \in Nat : <<x, y>> \in R <=> x < y
    BY <2>1 DEF OpToRel
  <2>3. IsWellFoundedOn(R, Nat)
    BY <2>1, NatLessThanWellFounded
  <2>4. PICK m \in T : \A y \in T : ~(<<y, m>> \in R)
    BY <1>5, <2>3, WFMin
  <2>5. ASSUME NEW y \in T PROVE m <= y
    <3>1. y \in Nat /\ m \in Nat
      BY <1>5, <2>4
    <3>2. ~(y < m)
      BY <2>2, <2>4, <3>1
    <3> QED BY <3>1, <3>2
  <2> QED BY <2>4, <2>5
<1>7. Player!LowestFree = CHOOSE x \in T : \A y \in T : x <= y
  <2>1. Player!Cardinality(D) = Cardinality(D)
    BY DEF Player!Cardinality, Cardinality
  <2> QED BY <1>1, <1>4, <2>1 DEF Player!LowestFree, Player!Min
<1>8. Player!LowestFree \in T
  BY <1>6, <1>7
<1> QED BY <1>1, <1>4, <1>5, <1>8

\* What is behind a handle that is not closed.
LEMMA EntryFacts ==
    /\ \A e \in Player!Entries : e # Player!Closed =>
          /\ e.file \in Files \cup {Player!Std} /\ e.position \in Nat
          /\ e = [file |-> e.file, position |-> e.position]
          /\ \A p \in Nat : [e EXCEPT !.position = p] \in Player!Entries \ {Player!Closed}
          /\ \A p : [e EXCEPT !.position = p].file = e.file
    /\ \A f \in Files : Player!At(f) \in Player!Entries \ {Player!Closed}
    /\ Player!Closed \in Player!Entries
    /\ Player!At(Player!Std) \in Player!Entries /\ Player!At(Player!Std).file = Player!Std
    /\ ~Player!Traced(Player!Closed) /\ Player!Closed.file # Player!Std /\ Player!Std \notin Files
<1>1. None \notin Files /\ Player!Std \notin Files /\ Player!Std # None
  BY PlayerAssumption DEF Player!ReplayAssumption
<1>2. \A f \in Files \cup {Player!Std} : \A p : [file |-> f, position |-> p] # Player!Closed
  BY <1>1 DEF Player!Closed
<1>3. ASSUME NEW e \in Player!Entries, e # Player!Closed
      PROVE  /\ e.file \in Files \cup {Player!Std} /\ e.position \in Nat
             /\ e = [file |-> e.file, position |-> e.position]
             /\ \A p \in Nat : [e EXCEPT !.position = p] \in Player!Entries \ {Player!Closed}
             /\ \A p : [e EXCEPT !.position = p].file = e.file
  <2>1. e \in [file : Files \cup {Player!Std}, position : Nat]
    BY <1>3 DEF Player!Entries
  <2>2. ASSUME NEW p \in Nat
        PROVE  [e EXCEPT !.position = p] \in Player!Entries \ {Player!Closed}
    <3>1. [e EXCEPT !.position = p] = [file |-> e.file, position |-> p]
      BY <2>1
    <3> QED BY <1>2, <2>1, <3>1 DEF Player!Entries
  <2> QED BY <2>1, <2>2
<1>4. \A f \in Files : Player!At(f) \in Player!Entries \ {Player!Closed}
  BY <1>2 DEF Player!At, Player!Entries
<1>5. /\ Player!At(Player!Std) \in Player!Entries /\ Player!At(Player!Std).file = Player!Std
  BY DEF Player!At, Player!Entries
<1>6. ~Player!Traced(Player!Closed) /\ Player!Closed.file # Player!Std
  BY <1>1 DEF Player!Traced, Player!Closed
<1> QED BY <1>1, <1>3, <1>4, <1>5, <1>6 DEF Player!Entries

\* A call of the recorded program goes from one entry to the next.
LEMMA ReplayPerformed ==
    ASSUME Player!IInv, NEW t \in Threads, NEW h \in AllHandles, NEW e \in Player!Entries,
           NEW a \in Player!Activities, a.handle = h, NEW spoils,
           Player!Performed(t, h, e, a, spoils),
           ~spoils => Player!Fits(a, expert[h]) /\ e = Player!After(a, expert[h])
    PROVE  Player!IInv'
<1>1. CASE hasSize'
  BY <1>1 DEF Player!IInv
<1>2. CASE ~hasSize'
  <2>1. /\ ask[t] = None /\ expert' = [expert EXCEPT ![h] = e] /\ ask' = [ask EXCEPT ![t] = a]
        /\ plugin' = plugin /\ openFileHints' = openFileHints /\ performanceHistory' = performanceHistory
        /\ ~hasSize /\ ~spoils /\ \A u \in Threads : ask[u] = None \/ ask[u].handle # h
    BY <1>2 DEF Player!Performed, Player!pluginVars
  <2>2. Player!TypeInv
    BY <2>1 DEF Player!IInv
  <2>3. PICK old \in [AllHandles -> Player!Entries] : Player!Matches(old)
    BY <2>1 DEF Player!IInv, AllHandles
  <2>4. expert \in [AllHandles -> Player!Entries] /\ ask \in [Threads -> Player!Activities \cup {None}]
    BY <2>2 DEF Player!TypeInv, AllHandles
  <2>5. a # None
    BY PlayerAssumption DEF Player!ReplayAssumption
  <2>6. /\ ask'[t] = a /\ \A u \in Threads \ {t} : ask'[u] = ask[u]
        /\ expert'[h] = e /\ \A g \in AllHandles \ {h} : expert'[g] = expert[g]
    BY <2>1, <2>4
  <2>7. Player!TypeInv'
    <3>1. expert' \in [AllHandles -> Player!Entries] /\ ask' \in [Threads -> Player!Activities \cup {None}]
      BY <2>1, <2>4
    <3> QED BY <2>1, <2>2, <3>1 DEF Player!TypeInv, AllHandles
  <2>8. Player!Settled(h)
    BY <2>1 DEF Player!Settled
  <2>9. old[h] = expert[h]
    BY <2>3, <2>8 DEF Player!Matches, AllHandles
  <2>10. \A g \in AllHandles : Player!Settled(g)' => g # h /\ Player!Settled(g)
    BY <2>1, <2>5, <2>6 DEF Player!Settled
  <2>11. \A g \in AllHandles : Player!Settled(g)' => old[g] = expert'[g]
    BY <2>3, <2>6, <2>10 DEF Player!Matches, AllHandles
  <2>12. ASSUME NEW u \in Threads, ask'[u] # None
         PROVE  /\ Player!Fits(ask'[u], old[ask'[u].handle])
                /\ expert'[ask'[u].handle] = Player!After(ask'[u], old[ask'[u].handle])
                /\ \A v \in Threads : ask'[v] # None /\ ask'[v].handle = ask'[u].handle => v = u
    <3>1. CASE u = t
      BY <2>1, <2>6, <2>9, <3>1
    <3>2. CASE u # t
      <4>1. ask'[u] = ask[u] /\ ask[u] # None /\ ask[u].handle # h
        BY <2>1, <2>6, <2>12, <3>2
      <4>2. ask[u].handle \in AllHandles
        BY <2>4, <4>1 DEF Player!Activities, AllHandles
      <4>3. /\ Player!Fits(ask[u], old[ask[u].handle]) /\ expert[ask[u].handle] = Player!After(ask[u], old[ask[u].handle])
            /\ \A v \in Threads : ask[v] # None /\ ask[v].handle = ask[u].handle => v = u
        BY <2>3, <4>1 DEF Player!Matches
      <4> QED BY <2>6, <4>1, <4>2, <4>3
    <3> QED BY <3>1, <3>2
  <2>13. \A g : Player!Target(g)' = Player!Target(g)
    BY <2>1 DEF Player!Target, Player!fdOf, Player!streamOf
  <2>14. Player!Matches(old)'
    <3>1. /\ 0 \in DOMAIN plugin'
          /\ \A g \in AllHandles : Player!Traced(old[g]) =>
                Player!Target(g)' = -1 \/ (Player!Target(g)' \in DOMAIN plugin' \ {0} /\ plugin'[Player!Target(g)'] = old[g])
          /\ \A g, f \in AllHandles :
                g # f /\ Player!Traced(old[g]) /\ Player!Traced(old[f]) /\ Player!Target(g)' = Player!Target(f)' => Player!Target(f)' = -1
          /\ \A g \in AllHandles : old[g].file = Player!Std => Player!Target(g)' = StdTarget(g)
      BY <2>1, <2>3, <2>13 DEF Player!Matches, AllHandles, StdTarget
    <3> QED BY <2>3, <2>11, <2>12, <3>1 DEF Player!Matches, AllHandles, StdTarget
  <2> QED BY <2>7, <2>14, <2>3 DEF Player!IInv, AllHandles
<1> QED BY <1>1, <1>2

\* A replayed activity takes the plugin to the entry that its call had led to.
LEMMA ReplayAdvances ==
    ASSUME ~hasSize, Player!TypeInv, NEW old \in [AllHandles -> Player!Entries], Player!Matches(old),
           NEW t \in Threads, ask[t] # None, NEW h, h = ask[t].handle,
           ask' = [ask EXCEPT ![t] = None], expert' = expert,
           DOMAIN plugin' \subseteq Nat, IsFiniteSet(DOMAIN plugin'), 0 \in DOMAIN plugin',
           \A g \in AllHandles \ {h} : Player!Target(g)' = Player!Target(g),
           \A g \in AllHandles \ {h} : Player!Traced(old[g]) /\ Player!Target(g) # -1 =>
               Player!Target(g) \in DOMAIN plugin' /\ plugin'[Player!Target(g)] = plugin[Player!Target(g)],
           expert[h].file = Player!Std => Player!Target(h)' = StdTarget(h),
           Player!Traced(expert[h]) =>
               \/ Player!Target(h)' = -1
               \/ /\ Player!Target(h)' \in DOMAIN plugin' \ {0} /\ plugin'[Player!Target(h)'] = expert[h]
                  /\ \A g \in AllHandles \ {h} : Player!Traced(old[g]) => Player!Target(g) # Player!Target(h)'
    PROVE  Player!IInv'
<1>1. expert \in [AllHandles -> Player!Entries] /\ ask \in [Threads -> Player!Activities \cup {None}]
  BY DEF Player!TypeInv, AllHandles
<1>2. h \in AllHandles
  BY <1>1 DEF Player!Activities, AllHandles
<1>3. PICK new : new = [old EXCEPT ![h] = expert[h]]
  OBVIOUS
<1>4. new \in [AllHandles -> Player!Entries] /\ new[h] = expert[h] /\ \A g \in AllHandles \ {h} : new[g] = old[g]
  BY <1>1, <1>2, <1>3
<1>5. ask'[t] = None /\ \A u \in Threads \ {t} : ask'[u] = ask[u]
  BY <1>1
<1>6. \A u \in Threads \ {t} : ask[u] # None => ask[u].handle # h
  BY DEF Player!Matches
<1>7. Player!TypeInv'
  <2>1. ask' \in [Threads -> Player!Activities \cup {None}]
    BY <1>1
  <2> QED BY <1>1, <2>1 DEF Player!TypeInv, AllHandles, Player!IsFiniteSet, IsFiniteSet
<1>8. ASSUME NEW g \in AllHandles, Player!Settled(g)'
      PROVE  new[g] = expert'[g]
  <2>1. CASE g = h
    BY <1>4, <2>1
  <2>2. CASE g # h
    <3>1. Player!Settled(g)
      <4>1. ASSUME NEW u \in Threads PROVE ask[u] = None \/ ask[u].handle # g
        <5>1. CASE u = t
          BY <2>2, <5>1
        <5>2. CASE u # t
          BY <1>5, <1>8, <5>2 DEF Player!Settled
        <5> QED BY <5>1, <5>2
      <4> QED BY <4>1 DEF Player!Settled
    <3> QED BY <1>4, <2>2, <3>1 DEF Player!Matches, AllHandles
  <2> QED BY <2>1, <2>2
<1>9. ASSUME NEW u \in Threads, ask'[u] # None
      PROVE  /\ Player!Fits(ask'[u], new[ask'[u].handle])
             /\ expert'[ask'[u].handle] = Player!After(ask'[u], new[ask'[u].handle])
             /\ \A v \in Threads : ask'[v] # None /\ ask'[v].handle = ask'[u].handle => v = u
  <2>1. u # t /\ ask'[u] = ask[u] /\ ask[u] # None /\ ask[u].handle # h
    BY <1>5, <1>6, <1>9
  <2>2. ask[u].handle \in AllHandles
    BY <1>1, <2>1 DEF Player!Activities, AllHandles
  <2>3. /\ Player!Fits(ask[u], old[ask[u].handle]) /\ expert[ask[u].handle] = Player!After(ask[u], old[ask[u].handle])
        /\ \A v \in Threads : ask[v] # None /\ ask[v].handle = ask[u].handle => v = u
    BY <2>1 DEF Player!Matches
  <2> QED BY <1>4, <1>5, <2>1, <2>2, <2>3
<1>10. \A g \in AllHandles : Player!Traced(new[g]) =>
          Player!Target(g)' = -1 \/ (Player!Target(g)' \in DOMAIN plugin' \ {0} /\ plugin'[Player!Target(g)'] = new[g])
  <2>1. ASSUME NEW g \in AllHandles, Player!Traced(new[g])
        PROVE  Player!Target(g)' = -1 \/ (Player!Target(g)' \in DOMAIN plugin' \ {0} /\ plugin'[Player!Target(g)'] = new[g])
    <3>1. CASE g = h
      BY <1>4, <2>1, <3>1
    <3>2. CASE g # h
      <4>1. old[g] = new[g] /\ Player!Target(g)' = Player!Target(g)
        BY <1>4, <3>2
      <4>2. Player!Target(g) = -1 \/ (Player!Target(g) \in DOMAIN plugin \ {0} /\ plugin[Player!Target(g)] = old[g])
        BY <2>1, <4>1 DEF Player!Matches, AllHandles
      <4> QED BY <2>1, <3>2, <4>1, <4>2
    <3> QED BY <3>1, <3>2
  <2> QED BY <2>1
<1>11. ASSUME NEW f \in AllHandles, NEW g \in AllHandles, f # g, Player!Traced(new[f]), Player!Traced(new[g]),
              Player!Target(f)' = Player!Target(g)'
       PROVE  Player!Target(g)' = -1
  <2>1. CASE f = h
    BY <1>4, <1>11, <2>1
  <2>2. CASE g = h
    BY <1>4, <1>11, <2>2
  <2>3. CASE f # h /\ g # h
    <3>1. /\ Player!Traced(old[f]) /\ Player!Traced(old[g]) /\ Player!Target(f) = Player!Target(g)
          /\ Player!Target(g)' = Player!Target(g)
      BY <1>4, <1>11, <2>3
    <3> QED BY <1>11, <3>1 DEF Player!Matches, AllHandles
  <2> QED BY <2>1, <2>2, <2>3
<1>13. ASSUME NEW g \in AllHandles, new[g].file = Player!Std PROVE Player!Target(g)' = StdTarget(g)
  <2>1. CASE g = h
    BY <1>4, <1>13, <2>1
  <2>2. CASE g # h
    <3>1. old[g].file = Player!Std /\ Player!Target(g)' = Player!Target(g)
      BY <1>4, <1>13, <2>2
    <3> QED BY <3>1 DEF Player!Matches, AllHandles, StdTarget
  <2> QED BY <2>1, <2>2
<1>12. Player!Matches(new)'
  <2>1. \A g \in AllHandles : Player!Settled(g)' => new[g] = expert'[g]
    BY <1>8
  <2>2. \A f, g \in AllHandles :
           f # g /\ Player!Traced(new[f]) /\ Player!Traced(new[g]) /\ Player!Target(f)' = Player!Target(g)' => Player!Target(g)' = -1
    BY <1>11
  <2> QED BY <1>4, <1>9, <1>10, <1>13, <2>1, <2>2 DEF Player!Matches, AllHandles, StdTarget
<1> QED BY <1>4, <1>7, <1>12 DEF Player!IInv, AllHandles

\* The plugin gets the activity of thread t, on handle h, when it holds the entries old.
Replaying(old, t, h) ==
    /\ ~hasSize /\ Player!TypeInv /\ old \in [AllHandles -> Player!Entries] /\ Player!Matches(old)
    /\ t \in Threads /\ ask[t] # None /\ h = ask[t].handle
    /\ ask' = [ask EXCEPT ![t] = None] /\ expert' = expert

OthersStay(h) == \A g \in AllHandles \ {h} : Player!Target(g)' = Player!Target(g)

\* What Replaying says of the handles.
LEMMA ReplayingFacts ==
    ASSUME NEW old, NEW t, NEW h, Replaying(old, t, h)
    PROVE  /\ h \in AllHandles /\ ask[t] \in Player!Activities
           /\ Player!Fits(ask[t], old[h]) /\ expert[h] = Player!After(ask[t], old[h])
           /\ DOMAIN plugin \subseteq Nat /\ IsFiniteSet(DOMAIN plugin) /\ 0 \in DOMAIN plugin
           /\ \A g \in AllHandles : Player!Traced(old[g]) =>
                 Player!Target(g) = -1 \/ (Player!Target(g) \in DOMAIN plugin \ {0} /\ plugin[Player!Target(g)] = old[g])
           /\ \A f, g \in AllHandles :
                 f # g /\ Player!Traced(old[f]) /\ Player!Traced(old[g]) /\ Player!Target(f) = Player!Target(g) => Player!Target(g) = -1
           /\ old[h] \in Player!Entries /\ (old[h].file = Player!Std => Player!Target(h) = StdTarget(h))
<1>1. ask \in [Threads -> Player!Activities \cup {None}]
  BY DEF Replaying, Player!TypeInv
<1>2. ask[t] \in Player!Activities
  BY <1>1 DEF Replaying
<1>3. h \in AllHandles
  BY <1>2 DEF Player!Activities, AllHandles, Replaying
<1>4. Player!Fits(ask[t], old[h]) /\ expert[h] = Player!After(ask[t], old[h])
  BY DEF Replaying, Player!Matches
<1>5. DOMAIN plugin \subseteq Nat /\ IsFiniteSet(DOMAIN plugin) /\ 0 \in DOMAIN plugin
  BY DEF Replaying, Player!Matches, Player!TypeInv, Player!IsFiniteSet, IsFiniteSet
<1>6. old[h] \in Player!Entries /\ (old[h].file = Player!Std => Player!Target(h) = StdTarget(h))
  BY <1>3 DEF Replaying, Player!Matches, AllHandles, StdTarget
<1> QED BY <1>2, <1>3, <1>4, <1>5, <1>6 DEF Replaying, Player!Matches, AllHandles

\* Nothing is replayed of a failed call, or of an fclose.
LEMMA ReplayStays ==
    ASSUME NEW old, NEW t, NEW h, Replaying(old, t, h), OthersStay(h), Player!Target(h)' = Player!Target(h),
           plugin' = plugin, expert[h] = Player!Closed \/ expert[h] = old[h]
    PROVE  Player!IInv'
<1>1. /\ h \in AllHandles /\ DOMAIN plugin \subseteq Nat /\ IsFiniteSet(DOMAIN plugin) /\ 0 \in DOMAIN plugin
      /\ \A g \in AllHandles : Player!Traced(old[g]) =>
            Player!Target(g) = -1 \/ (Player!Target(g) \in DOMAIN plugin \ {0} /\ plugin[Player!Target(g)] = old[g])
      /\ \A f, g \in AllHandles :
            f # g /\ Player!Traced(old[f]) /\ Player!Traced(old[g]) /\ Player!Target(f) = Player!Target(g) => Player!Target(g) = -1
  BY ReplayingFacts
<1>2. \A g \in AllHandles \ {h} : Player!Traced(old[g]) /\ Player!Target(g) # -1 =>
         Player!Target(g) \in DOMAIN plugin' /\ plugin'[Player!Target(g)] = plugin[Player!Target(g)]
  BY <1>1
<1>3. Player!Traced(expert[h]) =>
         \/ Player!Target(h)' = -1
         \/ /\ Player!Target(h)' \in DOMAIN plugin' \ {0} /\ plugin'[Player!Target(h)'] = expert[h]
            /\ \A g \in AllHandles \ {h} : Player!Traced(old[g]) => Player!Target(g) # Player!Target(h)'
  <2>1. SUFFICES ASSUME Player!Traced(expert[h]), Player!Target(h) # -1
                 PROVE  /\ Player!Target(h) \in DOMAIN plugin \ {0} /\ plugin[Player!Target(h)] = expert[h]
                        /\ \A g \in AllHandles \ {h} : Player!Traced(old[g]) => Player!Target(g) # Player!Target(h)
    BY <2>1
  <2>2. old[h] = expert[h] /\ Player!Traced(old[h])
    BY <2>1, EntryFacts
  <2>3. \A g \in AllHandles \ {h} : Player!Traced(old[g]) => Player!Target(g) # Player!Target(h)
    BY <1>1, <2>1, <2>2
  <2> QED BY <1>1, <2>1, <2>2, <2>3
<1>4. DOMAIN plugin' \subseteq Nat /\ IsFiniteSet(DOMAIN plugin') /\ 0 \in DOMAIN plugin'
  BY <1>1
<1>5. expert[h].file = Player!Std => Player!Target(h)' = StdTarget(h)
  <2>1. old[h].file = Player!Std => Player!Target(h) = StdTarget(h)
    BY ReplayingFacts
  <2>2. Player!Closed.file # Player!Std
    BY EntryFacts
  <2> QED BY ONLY <2>1, <2>2, expert[h] = Player!Closed \/ expert[h] = old[h], Player!Target(h)' = Player!Target(h)
<1> QED BY <1>2, <1>3, <1>4, <1>5, ReplayAdvances DEF Replaying, OthersStay

\* A file that is opened gets a descriptor of its own, or none.
LEMMA ReplayOpens ==
    ASSUME NEW old, NEW t, NEW h, Replaying(old, t, h), OthersStay(h), NEW f \in Files, expert[h] = Player!At(f),
           \/ plugin' = Player!Put(plugin, Player!LowestFree, Player!At(f)) /\ Player!Target(h)' = Player!LowestFree
           \/ plugin' = plugin /\ Player!Target(h)' = -1
    PROVE  Player!IInv'
<1>1. /\ h \in AllHandles /\ DOMAIN plugin \subseteq Nat /\ IsFiniteSet(DOMAIN plugin) /\ 0 \in DOMAIN plugin
      /\ \A g \in AllHandles : Player!Traced(old[g]) =>
            Player!Target(g) = -1 \/ (Player!Target(g) \in DOMAIN plugin \ {0} /\ plugin[Player!Target(g)] = old[g])
  BY ReplayingFacts
<1>2. PICK d \in Nat \ DOMAIN plugin : d = Player!LowestFree
  BY LowestIsFree DEF Replaying
<1>5. expert[h].file # Player!Std
  <2>1. expert[h].file = f
    BY DEF Player!At
  <2> QED BY <2>1, EntryFacts
<1>3. CASE plugin' = plugin /\ Player!Target(h)' = -1
  <2>1. \A g \in AllHandles \ {h} : Player!Traced(old[g]) /\ Player!Target(g) # -1 =>
           Player!Target(g) \in DOMAIN plugin' /\ plugin'[Player!Target(g)] = plugin[Player!Target(g)]
    BY <1>1, <1>3
  <2> QED BY <1>1, <1>3, <1>5, <2>1, ReplayAdvances DEF Replaying, OthersStay
<1>4. CASE plugin' = Player!Put(plugin, d, Player!At(f)) /\ Player!Target(h)' = d
  <2>1. DOMAIN plugin' = DOMAIN plugin \cup {d} /\ plugin'[d] = Player!At(f) /\ \A x \in DOMAIN plugin : plugin'[x] = plugin[x]
    BY <1>2, <1>4 DEF Player!Put
  <2>2. IsFiniteSet(DOMAIN plugin') /\ DOMAIN plugin' \subseteq Nat /\ 0 \in DOMAIN plugin'
    BY <1>1, <1>2, <2>1, FS_AddElement
  <2>3. \A g \in AllHandles \ {h} : Player!Traced(old[g]) /\ Player!Target(g) # -1 =>
           Player!Target(g) \in DOMAIN plugin' /\ plugin'[Player!Target(g)] = plugin[Player!Target(g)]
    BY <1>1, <2>1
  <2>4. /\ Player!Target(h)' \in DOMAIN plugin' \ {0} /\ plugin'[Player!Target(h)'] = expert[h]
        /\ \A g \in AllHandles \ {h} : Player!Traced(old[g]) => Player!Target(g) # Player!Target(h)'
    BY <1>1, <1>2, <1>4, <2>1
  <2> QED BY <1>5, <2>2, <2>3, <2>4, ReplayAdvances DEF Replaying, OthersStay
<1> QED BY <1>2, <1>3, <1>4

\* A close takes the descriptor of its handle, and of no other.
LEMMA ReplayCloses ==
    ASSUME NEW old, NEW t, NEW h, Replaying(old, t, h), OthersStay(h),
           Player!Traced(old[h]), expert[h] = Player!Closed,
           plugin' = [x \in DOMAIN plugin \ {Player!Target(h)} |-> plugin[x]]
    PROVE  Player!IInv'
<1>1. /\ h \in AllHandles /\ DOMAIN plugin \subseteq Nat /\ IsFiniteSet(DOMAIN plugin) /\ 0 \in DOMAIN plugin
      /\ \A g \in AllHandles : Player!Traced(old[g]) =>
            Player!Target(g) = -1 \/ (Player!Target(g) \in DOMAIN plugin \ {0} /\ plugin[Player!Target(g)] = old[g])
      /\ \A f, g \in AllHandles :
            f # g /\ Player!Traced(old[f]) /\ Player!Traced(old[g]) /\ Player!Target(f) = Player!Target(g) => Player!Target(g) = -1
  BY ReplayingFacts
<1>2. PICK d : d = Player!Target(h)
  OBVIOUS
<1>3. DOMAIN plugin' = DOMAIN plugin \ {d} /\ \A x \in DOMAIN plugin \ {d} : plugin'[x] = plugin[x]
  BY <1>2
<1>4. IsFiniteSet(DOMAIN plugin') /\ DOMAIN plugin' \subseteq Nat
  BY <1>1, <1>3, FS_RemoveElement
<1>5. d # 0
  BY <1>1, <1>2
<1>6. 0 \in DOMAIN plugin'
  BY <1>1, <1>3, <1>5
<1>7. \A g \in AllHandles \ {h} : Player!Traced(old[g]) /\ Player!Target(g) # -1 =>
         Player!Target(g) \in DOMAIN plugin' /\ plugin'[Player!Target(g)] = plugin[Player!Target(g)]
  <2>1. ASSUME NEW g \in AllHandles \ {h}, Player!Traced(old[g]), Player!Target(g) # -1
        PROVE  Player!Target(g) \in DOMAIN plugin \ {d}
    <3>1. Player!Target(g) # d
      BY <1>1, <1>2, <2>1
    <3> QED BY <1>1, <2>1, <3>1
  <2> QED BY <1>3, <2>1
<1>8. expert[h].file # Player!Std /\ ~Player!Traced(expert[h])
  BY EntryFacts
<1> QED BY <1>4, <1>6, <1>7, <1>8, ReplayAdvances DEF Replaying, OthersStay

\* A read, write or seek moves the descriptor of its handle, and no other.
LEMMA ReplayMoves ==
    ASSUME NEW old, NEW t, NEW h, Replaying(old, t, h), OthersStay(h), Player!Target(h)' = Player!Target(h),
           old[h] # Player!Closed, expert[h].file = old[h].file, NEW p, Player!Moved(Player!Target(h), p),
           Player!Traced(old[h]) /\ Player!Target(h) # -1 => expert[h] = [old[h] EXCEPT !.position = p]
    PROVE  Player!IInv'
<1>1. /\ h \in AllHandles /\ DOMAIN plugin \subseteq Nat /\ IsFiniteSet(DOMAIN plugin) /\ 0 \in DOMAIN plugin
      /\ \A g \in AllHandles : Player!Traced(old[g]) =>
            Player!Target(g) = -1 \/ (Player!Target(g) \in DOMAIN plugin \ {0} /\ plugin[Player!Target(g)] = old[g])
      /\ \A f, g \in AllHandles :
            f # g /\ Player!Traced(old[f]) /\ Player!Traced(old[g]) /\ Player!Target(f) = Player!Target(g) => Player!Target(g) = -1
  BY ReplayingFacts
<1>2. PICK d : d = Player!Target(h)
  OBVIOUS
<1>3. DOMAIN plugin' = DOMAIN plugin /\ \A x \in DOMAIN plugin \ {d} : plugin'[x] = plugin[x]
  BY <1>2 DEF Player!Moved
<1>4. Player!Traced(old[h]) /\ d # -1 => plugin'[d] = expert[h]
  <2>1. SUFFICES ASSUME Player!Traced(old[h]), d # -1 PROVE plugin'[d] = expert[h]
    BY <2>1
  <2>2. d \in DOMAIN plugin /\ plugin[d] = old[h] /\ expert[h] = [old[h] EXCEPT !.position = p]
    BY <1>1, <1>2, <2>1
  <2>3. plugin' = [plugin EXCEPT ![d].position = p]
    BY <1>2, <2>2 DEF Player!Moved
  <2>4. plugin'[d] = [plugin[d] EXCEPT !.position = p]
    BY <2>2, <2>3
  <2> QED BY <2>2, <2>4
<1>10. Player!Traced(old[h]) \/ (~Player!Traced(old[h]) /\ d \in {0, -1} /\ expert[h].file = Player!Std)
  BY <1>2, ReplayingFacts, EntryFacts DEF Player!Traced, StdTarget
<1>11. expert[h].file = Player!Std => Player!Target(h)' = StdTarget(h)
  <2>1. old[h].file = Player!Std => Player!Target(h) = StdTarget(h)
    BY ReplayingFacts
  <2> QED BY ONLY <2>1, expert[h].file = old[h].file, Player!Target(h)' = Player!Target(h)
<1>5. \A g \in AllHandles \ {h} : Player!Traced(old[g]) /\ Player!Target(g) # -1 =>
         Player!Target(g) # d /\ Player!Target(g) \in DOMAIN plugin' /\ plugin'[Player!Target(g)] = plugin[Player!Target(g)]
  <2>1. ASSUME NEW g \in AllHandles \ {h}, Player!Traced(old[g]), Player!Target(g) # -1
        PROVE  Player!Target(g) # d /\ Player!Target(g) \in DOMAIN plugin \ {d}
    <3>1. Player!Target(g) # d
      BY <1>1, <1>2, <1>10, <2>1
    <3> QED BY <1>1, <2>1, <3>1
  <2> QED BY <1>3, <2>1
<1>6. Player!Traced(expert[h]) =>
      \/ Player!Target(h)' = -1
      \/ /\ Player!Target(h)' \in DOMAIN plugin' \ {0} /\ plugin'[Player!Target(h)'] = expert[h]
         /\ \A g \in AllHandles \ {h} : Player!Traced(old[g]) => Player!Target(g) # Player!Target(h)'
  <2> SUFFICES ASSUME Player!Traced(expert[h])
               PROVE  \/ Player!Target(h)' = -1
                      \/ /\ Player!Target(h)' \in DOMAIN plugin' \ {0} /\ plugin'[Player!Target(h)'] = expert[h]
                         /\ \A g \in AllHandles \ {h} : Player!Traced(old[g]) => Player!Target(g) # Player!Target(h)'
    OBVIOUS
  <2> Player!Traced(old[h])
    BY DEF Player!Traced
  <2>1. CASE d = -1
    BY <1>2, <2>1
  <2>2. CASE d # -1
    <3>1. d \in DOMAIN plugin \ {0}
      BY <1>1, <1>2, <2>2
    <3>2. \A g \in AllHandles \ {h} : Player!Traced(old[g]) => Player!Target(g) # d
      BY <1>5, <2>2
    <3> QED BY <1>2, <1>3, <1>4, <2>2, <3>1, <3>2
  <2> QED BY <2>1, <2>2
<1>7. /\ DOMAIN plugin' \subseteq Nat /\ IsFiniteSet(DOMAIN plugin') /\ 0 \in DOMAIN plugin'
  BY <1>1, <1>3
<1>8. \A g \in AllHandles \ {h} : Player!Traced(old[g]) /\ Player!Target(g) # -1 =>
         Player!Target(g) \in DOMAIN plugin' /\ plugin'[Player!Target(g)] = plugin[Player!Target(g)]
  BY <1>5
<1>9. Replaying(old, t, h) /\ OthersStay(h)
  OBVIOUS
<1> QED BY ONLY <1>6, <1>7, <1>8, <1>9, <1>11, ReplayAdvances DEF Replaying, OthersStay

\* What an activity that fits says of its handle.
LEMMA ActivityFacts ==
    ASSUME NEW a \in Player!Activities, ~a.error, NEW e, Player!Fits(a, e)
    PROVE  /\ a.op \in {"open", "close", "lseek", "read", "write"} => a.handle \in ReplayHandles
           /\ a.op \in {"fopen", "fclose", "fseek", "fread", "fwrite"} => a.handle \notin ReplayHandles
           /\ a.op \in {"open", "fopen"} => a.file \in Files /\ Player!After(a, e) = Player!At(a.file)
           /\ a.op \in {"close", "fclose"} => e # Player!Closed /\ Player!After(a, e) = Player!Closed
           /\ a.op = "close" => Player!Traced(e)
           /\ a.op \in {"lseek", "fseek"} => e # Player!Closed /\ Player!After(a, e) = [e EXCEPT !.position = a.position]
           /\ a.op \in {"read", "write", "fread", "fwrite"} =>
                 e # Player!Closed /\ a.position = a.size /\ Player!After(a, e) = [e EXCEPT !.position = e.position + a.size]
<1>1. \/ a.op = Player!OpOf(a.handle, "open", "fopen") /\ a.file \in Files
      \/ a.op \in {Player!OpOf(a.handle, "close", "fclose"), Player!OpOf(a.handle, "lseek", "fseek")} /\ e # Player!Closed
         /\ (a.op = "close" => Player!Traced(e))
      \/ a.op \in {Player!OpOf(a.handle, "read", "fread"), Player!OpOf(a.handle, "write", "fwrite")}
         /\ e # Player!Closed /\ a.position = a.size
  BY DEF Player!Fits
<1>2. /\ a.op \in {"open", "close", "lseek", "read", "write"} => a.handle \in ReplayHandles
      /\ a.op \in {"fopen", "fclose", "fseek", "fread", "fwrite"} => a.handle \notin ReplayHandles
      /\ a.op \in {"open", "fopen"} => a.file \in Files
      /\ a.op \in {"close", "fclose", "lseek", "fseek"} => e # Player!Closed
      /\ a.op = "close" => Player!Traced(e)
      /\ a.op \in {"read", "write", "fread", "fwrite"} => e # Player!Closed /\ a.position = a.size
  BY <1>1 DEF Player!OpOf
<1>3. CASE a.op \in {"open", "fopen"}
  BY <1>2, <1>3 DEF Player!After
<1>4. CASE a.op \in {"close", "fclose"}
  BY <1>2, <1>4 DEF Player!After
<1>5. CASE a.op \in {"lseek", "fseek"}
  BY <1>2, <1>5 DEF Player!After
<1>6. CASE a.op \in {"read", "write", "fread", "fwrite"}
  <2>1. Player!After(a, e) = [e EXCEPT !.position = @ + a.size]
    BY <1>6 DEF Player!After
  <2> QED BY <1>2, <1>6, <2>1
<1> QED BY <1>2, <1>3, <1>4, <1>5, <1>6

\* An assignment to one map of the plugin gives the handle its target, and keeps the others'.
LEMMA ReplayTargets ==
    ASSUME NEW h \in AllHandles, NEW d,
           \/ h \in ReplayHandles /\ openFileHints' = Player!Put(openFileHints, h, d)
              /\ performanceHistory' = performanceHistory
           \/ h \notin ReplayHandles /\ performanceHistory' = Player!Put(performanceHistory, h, d)
              /\ openFileHints' = openFileHints
    PROVE  Player!Target(h)' = d /\ OthersStay(h)
<1>1. CASE h \in ReplayHandles /\ openFileHints' = Player!Put(openFileHints, h, d) /\ performanceHistory' = performanceHistory
  <2>1. DOMAIN openFileHints' = DOMAIN openFileHints \cup {h} /\ openFileHints'[h] = d
        /\ \A x \in DOMAIN openFileHints \ {h} : openFileHints'[x] = openFileHints[x]
    BY <1>1 DEF Player!Put
  <2>2. Player!Target(h)' = d
    BY <1>1, <2>1 DEF Player!Target, Player!fdOf
  <2>3. \A g \in AllHandles \ {h} : Player!Target(g)' = Player!Target(g)
    BY <1>1, <2>1 DEF Player!Target, Player!fdOf, Player!streamOf
  <2> QED BY <2>2, <2>3 DEF OthersStay
<1>2. CASE h \notin ReplayHandles /\ performanceHistory' = Player!Put(performanceHistory, h, d) /\ openFileHints' = openFileHints
  <2>1. DOMAIN performanceHistory' = DOMAIN performanceHistory \cup {h} /\ performanceHistory'[h] = d
        /\ \A x \in DOMAIN performanceHistory \ {h} : performanceHistory'[x] = performanceHistory[x]
    BY <1>2 DEF Player!Put
  <2>2. Player!Target(h)' = d
    BY <1>2, <2>1 DEF Player!Target, Player!streamOf
  <2>3. \A g \in AllHandles \ {h} : Player!Target(g)' = Player!Target(g)
    BY <1>2, <2>1 DEF Player!Target, Player!fdOf, Player!streamOf
  <2> QED BY <2>2, <2>3 DEF OthersStay
<1> QED BY <1>1, <1>2

\* The activity of a call that did not fail is replayed.
LEMMA ReplayActivity ==
    ASSUME NEW old, NEW t, NEW h, Replaying(old, t, h), ~ask[t].error, ask[t].op \in types,
           Player!replayActivity(ask[t])
    PROVE  Player!IInv'
<1>1. PICK a : a = ask[t]
  OBVIOUS
<1>2. /\ h \in AllHandles /\ a \in Player!Activities /\ h = a.handle
      /\ Player!Fits(a, old[h]) /\ expert[h] = Player!After(a, old[h])
      /\ old[h] \in Player!Entries
      /\ Player!Traced(old[h]) =>
            Player!Target(h) = -1 \/ (Player!Target(h) \in DOMAIN plugin /\ plugin[Player!Target(h)] = old[h])
  <2>1. /\ h \in AllHandles /\ ask[t] \in Player!Activities
        /\ Player!Fits(ask[t], old[h]) /\ expert[h] = Player!After(ask[t], old[h])
        /\ \A g \in AllHandles : Player!Traced(old[g]) =>
              Player!Target(g) = -1 \/ (Player!Target(g) \in DOMAIN plugin \ {0} /\ plugin[Player!Target(g)] = old[g])
        /\ old[h] \in Player!Entries
    BY ReplayingFacts
  <2>2. h = ask[t].handle
    BY DEF Replaying
  <2> QED BY <1>1, <2>1, <2>2
<1>3. /\ a.op \in {"open", "close", "lseek", "read", "write"} => h \in ReplayHandles
      /\ a.op \in {"fopen", "fclose", "fseek", "fread", "fwrite"} => h \notin ReplayHandles
      /\ a.op \in {"open", "fopen"} => a.file \in Files /\ expert[h] = Player!At(a.file)
      /\ a.op \in {"close", "fclose"} => old[h] # Player!Closed /\ expert[h] = Player!Closed
      /\ a.op = "close" => Player!Traced(old[h])
      /\ a.op \in {"lseek", "fseek"} => old[h] # Player!Closed /\ expert[h] = [old[h] EXCEPT !.position = a.position]
      /\ a.op \in {"read", "write", "fread", "fwrite"} =>
            old[h] # Player!Closed /\ a.position = a.size /\ expert[h] = [old[h] EXCEPT !.position = old[h].position + a.size]
  BY <1>1, <1>2, ActivityFacts
<1>4. \/ a.op = "open" /\ Player!open(a)
      \/ a.op = "close" /\ Player!close(a)
      \/ a.op \in {"read", "write"} /\ Player!access(a)
      \/ a.op = "lseek" /\ Player!lseek(a)
      \/ a.op = "fopen" /\ Player!fopen(a)
      \/ a.op \in {"fread", "fwrite", "fseek"} /\ Player!stream(a)
      \/ a.op = "fclose" /\ UNCHANGED Player!pluginVars
  BY <1>1 DEF Player!replayActivity
<1>5. h \in ReplayHandles => Player!fdOf(h) = Player!Target(h)
  BY DEF Player!Target
<1>6. h \notin ReplayHandles => Player!streamOf(h) = Player!Target(h)
  BY DEF Player!Target
<1>15. a.op \in {"lseek", "fseek", "read", "write", "fread", "fwrite"} => expert[h].file = old[h].file
  BY <1>2, <1>3, EntryFacts
<1>7. Player!Traced(old[h]) /\ Player!Target(h) # -1 => Player!Position(Player!Target(h)) = old[h].position
  BY <1>2 DEF Player!Position
<1>8. CASE a.op = "open" /\ Player!open(a)
  <2>1. CASE plugin' = Player!Put(plugin, Player!LowestFree, Player!At(a.file))
             /\ openFileHints' = Player!Put(openFileHints, h, Player!LowestFree)
    <3>1. performanceHistory' = performanceHistory
      BY <1>8 DEF Player!open
    <3>2. Player!Target(h)' = Player!LowestFree /\ OthersStay(h)
      BY <1>2, <1>3, <1>8, <2>1, <3>1, ReplayTargets
    <3> QED BY <1>3, <1>8, <2>1, <3>2, ReplayOpens
  <2>2. CASE plugin' = plugin /\ openFileHints' = Player!Put(openFileHints, h, -1)
    <3>1. performanceHistory' = performanceHistory
      BY <1>8 DEF Player!open
    <3>2. Player!Target(h)' = -1 /\ OthersStay(h)
      BY <1>2, <1>3, <1>8, <2>2, <3>1, ReplayTargets
    <3> QED BY <1>3, <1>8, <2>2, <3>2, ReplayOpens
  <2> QED BY <1>2, <1>8, <2>1, <2>2 DEF Player!open, Player!OwnOpen
<1>9. CASE a.op = "fopen" /\ Player!fopen(a)
  <2>1. CASE plugin' = Player!Put(plugin, Player!LowestFree, Player!At(a.file))
             /\ performanceHistory' = Player!Put(performanceHistory, h, Player!LowestFree)
    <3>1. openFileHints' = openFileHints
      BY <1>9 DEF Player!fopen
    <3>2. Player!Target(h)' = Player!LowestFree /\ OthersStay(h)
      BY <1>2, <1>3, <1>9, <2>1, <3>1, ReplayTargets
    <3> QED BY <1>3, <1>9, <2>1, <3>2, ReplayOpens
  <2>2. CASE plugin' = plugin /\ performanceHistory' = Player!Put(performanceHistory, h, -1)
    <3>1. openFileHints' = openFileHints
      BY <1>9 DEF Player!fopen
    <3>2. Player!Target(h)' = -1 /\ OthersStay(h)
      BY <1>2, <1>3, <1>9, <2>2, <3>1, ReplayTargets
    <3> QED BY <1>3, <1>9, <2>2, <3>2, ReplayOpens
  <2> QED BY <1>2, <1>9, <2>1, <2>2 DEF Player!fopen, Player!OwnOpen, Player!NULL
<1>10. CASE a.op = "close" /\ Player!close(a)
  <2>1. /\ plugin' = [x \in DOMAIN plugin \ {Player!Target(h)} |-> plugin[x]]
        /\ openFileHints' = Player!Put(openFileHints, h, Player!Target(h)) /\ performanceHistory' = performanceHistory
    BY <1>2, <1>3, <1>5, <1>10 DEF Player!close
  <2>2. OthersStay(h)
    BY <1>2, <1>3, <1>10, <2>1, ReplayTargets
  <2> QED BY <1>3, <1>10, <2>1, <2>2, ReplayCloses
<1>11. CASE a.op \in {"read", "write"} /\ Player!access(a)
  <2>1. PICK p : p = Player!Position(Player!Target(h)) + IF a.op = "read" THEN a.position ELSE a.size
    OBVIOUS
  <2>2. /\ Player!Moved(Player!Target(h), p) /\ performanceHistory' = performanceHistory
        /\ openFileHints' = Player!Put(openFileHints, h, Player!Target(h))
    BY <1>2, <1>3, <1>5, <1>11, <2>1 DEF Player!access
  <2>3. Player!Target(h)' = Player!Target(h) /\ OthersStay(h)
    BY <1>2, <1>3, <1>11, <2>2, ReplayTargets
  <2>4. Player!Traced(old[h]) /\ Player!Target(h) # -1 => expert[h] = [old[h] EXCEPT !.position = p]
    BY <1>3, <1>7, <1>11, <2>1
  <2> QED BY <1>3, <1>11, <1>15, <2>2, <2>3, <2>4, ReplayMoves
<1>12. CASE a.op = "lseek" /\ Player!lseek(a)
  <2>1. /\ Player!Moved(Player!Target(h), a.position) /\ performanceHistory' = performanceHistory
        /\ openFileHints' = Player!Put(openFileHints, h, Player!Target(h))
    BY <1>2, <1>3, <1>5, <1>12 DEF Player!lseek
  <2>2. Player!Target(h)' = Player!Target(h) /\ OthersStay(h)
    BY <1>2, <1>3, <1>12, <2>1, ReplayTargets
  <2> QED BY <1>3, <1>12, <1>15, <2>1, <2>2, ReplayMoves
<1>13. CASE a.op \in {"fread", "fwrite", "fseek"} /\ Player!stream(a)
  <2>1. PICK p : p = IF a.op = "fseek" THEN a.position
                     ELSE Player!Position(Player!Target(h)) + IF a.op = "fread" THEN a.position ELSE a.size
    OBVIOUS
  <2>2. /\ Player!Moved(Player!Target(h), p) /\ openFileHints' = openFileHints
        /\ performanceHistory' = Player!Put(performanceHistory, h, Player!Target(h))
    BY <1>2, <1>3, <1>6, <1>13, <2>1 DEF Player!stream
  <2>3. Player!Target(h)' = Player!Target(h) /\ OthersStay(h)
    BY <1>2, <1>3, <1>13, <2>2, ReplayTargets
  <2>4. Player!Traced(old[h]) /\ Player!Target(h) # -1 => expert[h] = [old[h] EXCEPT !.position = p]
    BY <1>3, <1>7, <1>13, <2>1
  <2> QED BY <1>3, <1>13, <1>15, <2>2, <2>3, <2>4, ReplayMoves
<1>14. CASE a.op = "fclose" /\ UNCHANGED Player!pluginVars
  <2>1. plugin' = plugin /\ openFileHints' = openFileHints /\ performanceHistory' = performanceHistory
    BY <1>14 DEF Player!pluginVars
  <2>2. \A g : Player!Target(g)' = Player!Target(g)
    BY <2>1 DEF Player!Target, Player!fdOf, Player!streamOf
  <2> QED BY <1>3, <1>14, <2>1, <2>2, ReplayStays DEF OthersStay
<1> QED BY <1>4, <1>8, <1>9, <1>10, <1>11, <1>12, <1>13, <1>14

\* An activity that is lost without loss of information, or that is replayed.
LEMMA ReplayTaken ==
    ASSUME Player!IInv, NEW t \in Threads, Player!notify(t) \/ Player!Lose(t)
    PROVE  Player!IInv'
<1>1. CASE hasSize'
  BY <1>1 DEF Player!IInv
<1>2. CASE ~hasSize'
  <2>1. /\ ~hasSize /\ ask[t] # None /\ ask' = [ask EXCEPT ![t] = None] /\ expert' = expert
        /\ \/ ~ask[t].error /\ ask[t].op \in types /\ Player!replayActivity(ask[t])
           \/ ask[t].error /\ UNCHANGED Player!pluginVars
    <3>1. CASE Player!notify(t)
      BY <1>2, <3>1 DEF Player!notify, Player!replayActivity
    <3>2. CASE Player!Lose(t)
      BY <1>2, <3>2 DEF Player!Lose
    <3> QED BY <3>1, <3>2
  <2>2. PICK old \in [AllHandles -> Player!Entries] : Player!Matches(old)
    BY <2>1 DEF Player!IInv, AllHandles
  <2>3. PICK h : h = ask[t].handle
    OBVIOUS
  <2>4. Replaying(old, t, h)
    BY <2>1, <2>2, <2>3 DEF Player!IInv, Replaying
  <2>5. CASE ~ask[t].error /\ ask[t].op \in types /\ Player!replayActivity(ask[t])
    BY <2>4, <2>5, ReplayActivity
  <2>6. CASE ask[t].error /\ UNCHANGED Player!pluginVars
    <3>1. plugin' = plugin /\ openFileHints' = openFileHints /\ performanceHistory' = performanceHistory
      BY <2>6 DEF Player!pluginVars
    <3>2. \A g : Player!Target(g)' = Player!Target(g)
      BY <3>1 DEF Player!Target, Player!fdOf, Player!streamOf
    <3>3. expert[h] = Player!After(ask[t], old[h])
      BY <2>4, ReplayingFacts
    <3>4. expert[h] = old[h]
      BY <2>6, <3>3 DEF Player!After
    <3> QED BY <2>4, <3>1, <3>2, <3>4, ReplayStays DEF OthersStay
  <2> QED BY <2>1, <2>5, <2>6
<1> QED BY <1>1, <1>2

\* A call of the recorded program, one action after the other.
LEMMA ReplayCalled ==
    ASSUME Player!IInv, ~hasSize, NEW t \in Threads, NEW h \in AllHandles,
           \/ \E f \in Files : Player!Open(t, h, f)
           \/ Player!Close(t, h) \/ Player!Fail(t, h)
           \/ \E n \in ReplaySizes : \E m \in 0 .. n :
                 Player!Access(t, h, <<"write", "fwrite">>, n, m) \/ Player!Access(t, h, <<"read", "fread">>, n, m)
           \/ \E p \in 0 .. MaxPosition : Player!Seek(t, h, p)
    PROVE  Player!IInv'
<1>1. expert[h] \in Player!Entries
  BY DEF Player!IInv, Player!TypeInv, AllHandles
<1>2. /\ Player!Closed \in Player!Entries /\ \A f \in Files : Player!At(f) \in Player!Entries \ {Player!Closed}
      /\ expert[h] # Player!Closed => expert[h].position \in Nat
            /\ \A p \in Nat : [expert[h] EXCEPT !.position = p] \in Player!Entries \ {Player!Closed}
  BY <1>1, EntryFacts
<1>3. ReplaySizes \subseteq Nat /\ MaxPosition \in Nat
  BY PlayerAssumption DEF Player!ReplayAssumption
<1>4. \A op \in {"open", "fopen", "creat", "close", "fclose", "read", "fread", "write", "fwrite", "lseek", "fseek"} :
      \A f \in Files \cup {None} : \A n, p \in Nat : \A wrong \in BOOLEAN :
         Player!Activity(op, h, f, n, p, wrong) \in Player!Activities /\ Player!Activity(op, h, f, n, p, wrong).handle = h
  BY DEF Player!Activity, Player!Activities, AllHandles
<1>5. ASSUME NEW f \in Files, Player!Open(t, h, f) PROVE Player!IInv'
  <2>1. CASE Player!Performed(t, h, Player!At(f), Player!Activity("creat", h, f, 0, 0, FALSE), TRUE)
    <3>1. PICK a \in Player!Activities : a = Player!Activity("creat", h, f, 0, 0, FALSE) /\ a.handle = h
      BY <1>4
    <3>2. PICK e \in Player!Entries : e = Player!At(f)
      BY <1>2
    <3> QED BY <2>1, <3>1, <3>2, ReplayPerformed
  <2>2. CASE Player!Performed(t, h, Player!At(f), Player!Activity(Player!OpOf(h, "open", "fopen"), h, f, 0, 0, FALSE), FALSE)
    <3>1. PICK op \in {"open", "fopen"} : op = Player!OpOf(h, "open", "fopen")
      BY DEF Player!OpOf
    <3>2. PICK a \in Player!Activities : a = Player!Activity(op, h, f, 0, 0, FALSE) /\ a.handle = h
      BY <1>4, <3>1
    <3>3. PICK e \in Player!Entries : e = Player!At(f)
      BY <1>2
    <3>4. a.op = op /\ ~a.error /\ a.file = f
      BY <3>2 DEF Player!Activity
    <3>5. Player!Fits(a, expert[h])
      BY <1>5, <3>1, <3>2, <3>4 DEF Player!Open, Player!Fits
    <3>6. e = Player!After(a, expert[h])
      BY <3>1, <3>3, <3>4 DEF Player!After
    <3>7. Player!Performed(t, h, e, a, FALSE)
      BY <2>2, <3>1, <3>2, <3>3
    <3> QED BY <3>2, <3>5, <3>6, <3>7, ReplayPerformed
  <2> QED BY <1>5, <2>1, <2>2 DEF Player!Open
<1>6. CASE Player!Close(t, h)
  <2>1. PICK op \in {"close", "fclose"} : op = Player!OpOf(h, "close", "fclose")
    BY DEF Player!OpOf
  <2>2. PICK a \in Player!Activities : a = Player!Activity(op, h, None, 0, 0, FALSE) /\ a.handle = h
    BY <1>4, <2>1
  <2>3. PICK e \in Player!Entries : e = Player!Closed
    BY <1>2
  <2>4. a.op = op /\ ~a.error
    BY <2>2 DEF Player!Activity
  <2>5. ~(h \in ReplayHandles /\ ~Player!Traced(expert[h])) => Player!Fits(a, expert[h])
    BY <1>6, <2>1, <2>2, <2>4 DEF Player!Close, Player!Fits, Player!OpOf
  <2>6. e = Player!After(a, expert[h])
    BY <2>1, <2>3, <2>4 DEF Player!After
  <2>7. Player!Performed(t, h, e, a, h \in ReplayHandles /\ ~Player!Traced(expert[h]))
    BY <1>6, <2>1, <2>2, <2>3 DEF Player!Close
  <2> QED BY <2>2, <2>5, <2>6, <2>7, ReplayPerformed
<1>7. CASE Player!Fail(t, h)
  <2>1. PICK op \in {"close", "fclose", "lseek", "fseek"}, p \in Nat :
           Player!Performed(t, h, expert[h], Player!Activity(op, h, None, 0, p, TRUE), FALSE)
    BY <1>7 DEF Player!Fail, Player!OpOf
  <2>2. PICK a \in Player!Activities : a = Player!Activity(op, h, None, 0, p, TRUE) /\ a.handle = h
    BY <1>4
  <2>3. a.error
    BY <2>2 DEF Player!Activity
  <2>4. Player!Fits(a, expert[h]) /\ expert[h] = Player!After(a, expert[h])
    BY <2>3 DEF Player!Fits, Player!After
  <2> QED BY <1>1, <2>1, <2>2, <2>4, ReplayPerformed
<1>8. ASSUME NEW n \in ReplaySizes, NEW m \in 0 .. n, NEW ops \in {<<"write", "fwrite">>, <<"read", "fread">>},
             Player!Access(t, h, ops, n, m)
      PROVE  Player!IInv'
  <2>1. n \in Nat /\ m \in Nat
    BY <1>3
  <2>2. PICK op \in {"read", "fread", "write", "fwrite"} : op = Player!OpOf(h, ops[1], ops[2])
    BY DEF Player!OpOf
  <2>3. PICK a \in Player!Activities : a = Player!Activity(op, h, None, n, m, FALSE) /\ a.handle = h
    BY <1>4, <2>1, <2>2
  <2>4. expert[h] # Player!Closed /\ expert[h].position \in Nat
    BY <1>2, <1>8 DEF Player!Access
  <2>5. PICK e \in Player!Entries : e = [expert[h] EXCEPT !.position = @ + m]
    <3>1. PICK p \in Nat : p = expert[h].position + m
      BY <2>1, <2>4
    <3> QED BY <1>2, <2>4, <3>1
  <2>6. a.op = op /\ ~a.error /\ a.size = n /\ a.position = m
    BY <2>3 DEF Player!Activity
  <2>7. ASSUME m = n PROVE Player!Fits(a, expert[h]) /\ e = Player!After(a, expert[h])
    <3>1. a.op \in {Player!OpOf(a.handle, "read", "fread"), Player!OpOf(a.handle, "write", "fwrite")}
      <4>1. CASE ops = <<"write", "fwrite">>
        BY <2>2, <2>3, <2>6, <4>1
      <4>2. CASE ops = <<"read", "fread">>
        BY <2>2, <2>3, <2>6, <4>2
      <4> QED BY <4>1, <4>2
    <3>2. Player!Fits(a, expert[h])
      BY <2>4, <2>6, <2>7, <3>1 DEF Player!Fits
    <3>3. Player!After(a, expert[h]) = [expert[h] EXCEPT !.position = @ + a.size]
      BY <2>2, <2>6 DEF Player!After
    <3> QED BY <2>5, <2>6, <2>7, <3>2, <3>3
  <2>8. Player!Performed(t, h, e, a, m # n)
    BY <1>8, <2>2, <2>3, <2>5 DEF Player!Access
  <2> QED BY <2>3, <2>7, <2>8, ReplayPerformed
<1>9. ASSUME NEW p \in 0 .. MaxPosition, Player!Seek(t, h, p) PROVE Player!IInv'
  <2>1. p \in Nat
    BY <1>3
  <2>2. PICK op \in {"lseek", "fseek"} : op = Player!OpOf(h, "lseek", "fseek")
    BY DEF Player!OpOf
  <2>3. PICK a \in Player!Activities : a = Player!Activity(op, h, None, 0, p, FALSE) /\ a.handle = h
    BY <1>4, <2>1, <2>2
  <2>4. expert[h] # Player!Closed
    BY <1>9 DEF Player!Seek
  <2>5. PICK e \in Player!Entries : e = [expert[h] EXCEPT !.position = p]
    BY <1>2, <2>1, <2>4
  <2>6. a.op = op /\ ~a.error /\ a.position = p
    BY <2>3 DEF Player!Activity
  <2>7. Player!Fits(a, expert[h])
    BY <2>2, <2>3, <2>4, <2>6 DEF Player!Fits
  <2>8. e = Player!After(a, expert[h])
    BY <2>2, <2>5, <2>6 DEF Player!After
  <2>9. Player!Performed(t, h, e, a, FALSE)
    BY <1>9, <2>2, <2>3, <2>5 DEF Player!Seek
  <2> QED BY <2>3, <2>7, <2>8, <2>9, ReplayPerformed
<1> QED BY <1>5, <1>6, <1>7, <1>8, <1>9

\* The invariant holds when the replay starts.
LEMMA ReplayStarts ==
    ASSUME Player!Init
    PROVE  Player!IInv
<1>1. PICK inherited \in Inherited :
         expert = [h \in AllHandles |-> IF h \in inherited THEN Player!At(Player!Std) ELSE Player!Closed]
  BY DEF Player!Init, AllHandles
<1>2. /\ Player!Closed \in Player!Entries /\ Player!At(Player!Std) \in Player!Entries
      /\ Player!At(Player!Std).file = Player!Std
      /\ ~Player!Traced(Player!Closed) /\ Player!Closed.file # Player!Std /\ Player!Std \notin Files
  BY EntryFacts
<1>3. expert \in [AllHandles -> Player!Entries] /\ \A h \in AllHandles : ~Player!Traced(expert[h])
  BY <1>1, <1>2 DEF Player!Traced
<1>4. ask = [t \in Threads |-> None] /\ \A t \in Threads : ask[t] = None
  BY DEF Player!Init
<1>5. DOMAIN plugin = 0 .. 2
  BY DEF Player!Init
<1>6. IsFiniteSet(DOMAIN plugin) /\ DOMAIN plugin \subseteq Nat /\ 0 \in DOMAIN plugin
  <2>1. \A a, b \in Int : IsFiniteSet(a .. b)
    BY FS_Interval
  <2>2. IsFiniteSet(0 .. 2)
    <3>1. 0 \in Int /\ 2 \in Int
      OBVIOUS
    <3> QED BY <2>1, <3>1, Zenon
  <2> QED BY <1>5, <2>2
<1>7. Player!TypeInv
  BY <1>3, <1>4, <1>6 DEF Player!TypeInv, AllHandles, Player!IsFiniteSet, IsFiniteSet
<1>8. \A h \in AllHandles : Player!Target(h) = StdTarget(h)
  BY DEF Player!Init, Player!Target, Player!fdOf, Player!streamOf, Player!NULL, StdTarget
<1>9. Player!Matches(expert)
  BY <1>3, <1>4, <1>6, <1>8 DEF Player!Matches, AllHandles, StdTarget
<1> QED BY <1>3, <1>7, <1>9 DEF Player!IInv, AllHandles

\* The plugin holds what the program held, for every handle without a pending call.
LEMMA ReplayHolds ==
    ASSUME Player!IInv
    PROVE  Player!ReplayFollows
<1>1. SUFFICES ASSUME ~hasSize PROVE Player!ReplayFollows
  BY <1>1 DEF Player!ReplayFollows
<1>2. PICK old \in [AllHandles -> Player!Entries] : Player!Matches(old)
  BY <1>1 DEF Player!IInv, AllHandles
<1>3. \A h \in AllHandles : Player!Settled(h) => old[h] = expert[h]
  BY <1>2 DEF Player!Matches, AllHandles
<1>4. 0 \in DOMAIN plugin
  BY <1>2 DEF Player!Matches
<1>5. \A h \in AllHandles : Player!Traced(old[h]) =>
         Player!Target(h) = -1 \/ (Player!Target(h) \in DOMAIN plugin \ {0} /\ plugin[Player!Target(h)] = old[h])
  BY <1>2 DEF Player!Matches, AllHandles
<1>6. \A g, h \in AllHandles :
         g # h /\ Player!Traced(old[g]) /\ Player!Traced(old[h]) /\ Player!Target(g) = Player!Target(h) => Player!Target(h) = -1
  BY <1>2 DEF Player!Matches, AllHandles
<1>7. ASSUME NEW h \in AllHandles, Player!Traced(expert[h]), Player!Settled(h)
      PROVE  /\ Player!Target(h) # -1 => Player!Target(h) \in DOMAIN plugin \ {0} /\ plugin[Player!Target(h)] = expert[h]
             /\ \A g \in AllHandles :
                   g # h /\ Player!Traced(expert[g]) /\ Player!Settled(g) /\ Player!Target(g) = Player!Target(h) =>
                       Player!Target(h) = -1
  <2>1. old[h] = expert[h]
    BY <1>3, <1>7
  <2>2. Player!Target(h) # -1 => Player!Target(h) \in DOMAIN plugin \ {0} /\ plugin[Player!Target(h)] = expert[h]
    BY <1>5, <1>7, <2>1
  <2>3. ASSUME NEW g \in AllHandles, g # h, Player!Traced(expert[g]), Player!Settled(g), Player!Target(g) = Player!Target(h)
        PROVE  Player!Target(h) = -1
    BY <1>3, <1>6, <1>7, <2>1, <2>3
  <2> QED BY <2>2, <2>3
<1>8. \A h \in AllHandles : expert[h].file = Player!Std /\ Player!Settled(h) =>
         Player!Target(h) = IF h \in ReplayHandles THEN 0 ELSE Player!NULL
  BY <1>2, <1>3 DEF Player!Matches, AllHandles, Player!NULL
<1> QED BY <1>4, <1>7, <1>8 DEF Player!ReplayFollows, AllHandles

\* Replay.cpp: as long as the trace misses nothing, is in order and closes no inherited
\* descriptor, what is replayed through a handle that the recorded program has opened
\* goes to the file and the position it went to there, or nowhere, and what it did with
\* an inherited descriptor goes to the plugin's own input and to no file of the trace;
\* with any number of handles, inherited or not, streams, files and calls.
THEOREM ReplayOrder == MCSpec => []ReplayFollows
<1> DEFINE Inv == part = "replay" => Player!IInv
<1>1. MCInit => Inv
  BY ReplayStarts DEF MCInit
<1>2. Inv /\ [MCNext]_allVars => Inv'
  <2>1. SUFFICES ASSUME Inv, [MCNext]_allVars, part' = "replay"
                 PROVE  Player!IInv'
    BY <2>1
  <2>2. CASE UNCHANGED allVars
    <3>1. part' = part /\ UNCHANGED replayVars
      BY <2>2 DEF allVars, pluginVars
    <3>2. Player!IInv
      BY <2>1, <3>1
    <3>3. /\ expert' = expert /\ ask' = ask /\ plugin' = plugin /\ hasSize' = hasSize
          /\ openFileHints' = openFileHints /\ performanceHistory' = performanceHistory
      BY <3>1 DEF replayVars
    <3>4. CASE hasSize
      BY <3>3, <3>4 DEF Player!IInv
    <3>5. CASE ~hasSize
      <4>1. PICK old \in [AllHandles -> Player!Entries] : Player!Matches(old)
        BY <3>2, <3>5 DEF Player!IInv, AllHandles
      <4>2. Player!TypeInv'
        BY <3>2, <3>3, <3>5 DEF Player!IInv, Player!TypeInv
      <4>3. \A g : Player!Target(g)' = Player!Target(g) /\ (Player!Settled(g)' <=> Player!Settled(g))
        BY <3>3 DEF Player!Target, Player!fdOf, Player!streamOf, Player!Settled
      <4>4. Player!Matches(old)'
        BY <3>3, <4>1, <4>3 DEF Player!Matches
      <4> QED BY <4>1, <4>2, <4>4 DEF Player!IInv, AllHandles
    <3> QED BY <3>4, <3>5
  <2>3. CASE MCNext
    <3>1. part = "replay" /\ ~hasSize /\ Player!Next /\ Player!IInv
      BY <2>1, <2>3 DEF MCNext
    <3>2. PICK t \in Threads :
             \/ Player!notify(t) \/ Player!Lose(t)
             \/ \E h \in AllHandles :
                   \/ \E f \in Files : Player!Open(t, h, f)
                   \/ Player!Close(t, h) \/ Player!Fail(t, h)
                   \/ \E n \in ReplaySizes : \E m \in 0 .. n :
                         Player!Access(t, h, <<"write", "fwrite">>, n, m) \/ Player!Access(t, h, <<"read", "fread">>, n, m)
                   \/ \E p \in 0 .. MaxPosition : Player!Seek(t, h, p)
      BY <3>1 DEF Player!Next, AllHandles
    <3>3. CASE Player!notify(t) \/ Player!Lose(t)
      BY <3>1, <3>3, ReplayTaken
    <3>4. ASSUME NEW h \in AllHandles,
                 \/ \E f \in Files : Player!Open(t, h, f)
                 \/ Player!Close(t, h) \/ Player!Fail(t, h)
                 \/ \E n \in ReplaySizes : \E m \in 0 .. n :
                       Player!Access(t, h, <<"write", "fwrite">>, n, m) \/ Player!Access(t, h, <<"read", "fread">>, n, m)
                 \/ \E p \in 0 .. MaxPosition : Player!Seek(t, h, p)
          PROVE  Player!IInv'
      BY <3>1, <3>4, ReplayCalled
    <3> QED BY <3>2, <3>3, <3>4
  <2> QED BY <2>1, <2>2, <2>3
<1>3. Inv => ReplayFollows
  BY ReplayHolds DEF ReplayFollows
<1> QED BY <1>1, <1>2, <1>3, PTL DEF MCSpec
=============================================================================
