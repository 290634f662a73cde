---------------------------- MODULE LowLevelAPI ----------------------------
(***************************************************************************)
(* siox-ll.cpp and ActivityBuilder.cpp as the generated layers use them    *)
(* (tools/siox-skeleton-builder/template.py): initialisation and           *)
(* finalisation, the monitoring state, registration of the layers'         *)
(* components, activities of several threads, and fork.                    *)
(*                                                                         *)
(* Main initialises and finalises; every thread calls instrumented         *)
(* functions, registers layers, switches monitoring and forks.  After fork *)
(* the model goes on as the parent or as the child, of which only the      *)
(* forking thread is left.  An ActivityID is <<pid, component, thread id,  *)
(* number>>.  All modules behind the API count as one: running says if the *)
(* registrar has started them.  Attributes, errors, links and remote calls *)
(* only fill an activity with data and are left out.                       *)
(***************************************************************************)
EXTENDS Integers, Sequences, FiniteSets, SequencesExt

CONSTANTS
    Threads, Main, None,
    Uids,            \* interfaces, each with a layer that instruments it
    Overlap,         \* may the others be in a function while Main finalises?
    MaxComponents,   \* bound: components ever registered
    MaxActivities,   \* bound: activities ever begun
    MaxCalls         \* bound: initialisations, switches and forks

LowLevelAssumption ==
    /\ Main \in Threads /\ None \notin Threads /\ Overlap \in BOOLEAN
    /\ {MaxComponents, MaxActivities, MaxCalls} \subseteq Nat

VARIABLES
    monitoringDisabled, finalized, initalizationCounter, running,
    comp,          \* components ever made: uid, pid, init (the counter then), live
    registeredComponents,
    layer,         \* the component pointer of each layer, 0 is NULL
    cbs,           \* layers that registered their callbacks
    todo,          \* callbacks a thread is going through
    upgrade,       \* holder of critical_mutex
    thread_id, next_activity_id, activity_stack, current_thread_ID,
    act,           \* activities ever begun
    late,          \* was a component or multiplexer used that was gone?
    getpid, pid,   \* of the system, of process_data
    pc, arg, calls

stateVars == <<monitoringDisabled, finalized, initalizationCounter, running>>
compVars == <<comp, registeredComponents, layer, cbs, upgrade>>
actVars == <<thread_id, next_activity_id, activity_stack, current_thread_ID, act, late>>
pidVars == <<getpid, pid>>
vars == <<stateVars, compVars, actVars, pidVars, todo, pc, arg, calls>>

At(t, l) == pc[t] = l
Goto(t, l) == pc' = [pc EXCEPT ![t] = l]
MayCall == calls < MaxCalls /\ calls' = calls + 1

Finalizing == pc[Main] = "final"
Quiescent == \A t \in Threads : activity_stack[t] = << >> /\ pc[t] \in {"idle", "gone"}

-----------------------------------------------------------------------------
(* ActivityBuilder.                                                        *)

\* The builder of a thread draws its thread_id when it is made.
getThreadInstance(t) ==
    IF thread_id[t] # 0 THEN UNCHANGED <<thread_id, current_thread_ID>>
    ELSE /\ current_thread_ID' = current_thread_ID + 1
         /\ thread_id' = [thread_id EXCEPT ![t] = current_thread_ID + 1]

\* A new activity of component c; its parent is the one on top of the stack.
beginActivity(t, c, p) ==
    /\ getThreadInstance(t)
    /\ next_activity_id' = [next_activity_id EXCEPT ![t] = @ + 1]
    /\ act' = Append(act,
         [aid |-> <<p, c, thread_id'[t], next_activity_id[t]>>, begunIn |-> getpid,
          parent |-> IF activity_stack[t] = << >> THEN 0 ELSE Last(activity_stack[t]),
          comp |-> c, phase |-> "begun"])

endActivity(t) ==
    /\ act' = [act EXCEPT ![Last(activity_stack[t])].phase = "ended"]
    /\ activity_stack' = [activity_stack EXCEPT ![t] = Front(@)]

\* An activity of the API itself, begun, ended and logged at once.
internal_trace_heavyWeight(t, p) ==
    /\ getThreadInstance(t)
    /\ next_activity_id' = [next_activity_id EXCEPT ![t] = @ + 1]
    /\ act' = Append(act,
         [aid |-> <<p, 0, thread_id'[t], next_activity_id[t]>>, begunIn |-> getpid,
          parent |-> 0, comp |-> 0, phase |-> "ended"])
    /\ UNCHANGED <<activity_stack, late>>

-----------------------------------------------------------------------------
(* The monitoring state, initialisation and finalisation.                  *)

siox_disable_monitoring ==
    /\ monitoringDisabled = "enabled" /\ MayCall
    /\ monitoringDisabled' = "user"
    /\ UNCHANGED <<finalized, initalizationCounter, running, compVars, actVars, pidVars, todo,
                   pc, arg>>

siox_enable_monitoring ==
    /\ monitoringDisabled \notin {"user", "enabled"} /\ MayCall
    /\ monitoringDisabled' = "enabled"
    /\ UNCHANGED <<finalized, initalizationCounter, running, compVars, actVars, pidVars, todo,
                   pc, arg>>

\* siox_initialize_monitoring: siox_ctor succeeds, then the callbacks ...
siox_initialize_monitoring ==
    /\ At(Main, "idle") /\ finalized /\ MayCall /\ Len(act) < MaxActivities
    /\ initalizationCounter' = initalizationCounter + 1
    /\ finalized' = FALSE /\ running' = TRUE /\ monitoringDisabled' = "enabled"
    /\ pid' = getpid /\ internal_trace_heavyWeight(Main, getpid)
    /\ todo' = [todo EXCEPT ![Main] = cbs]
    /\ UNCHANGED <<compVars, getpid, pc, arg>>

\* ... or it gets an exception, finalizeSIOX and the callbacks return at once
initialize_fails ==
    /\ At(Main, "idle") /\ finalized /\ MayCall
    /\ initalizationCounter' = initalizationCounter + 1
    /\ monitoringDisabled' = "permanent"
    /\ UNCHANGED <<finalized, running, compVars, actVars, pidVars, todo, pc, arg>>

\* finalizeSIOX up to the callbacks: from siox_finalize_monitoring, which
\* disables monitoring first, or from the destructor of the library.
finalizeSIOX(monitoring) ==
    /\ At(Main, "idle") /\ ~finalized /\ todo[Main] = {} /\ MayCall
    /\ activity_stack[Main] = << >> /\ (Overlap \/ Quiescent)
    /\ monitoringDisabled' = monitoring
    /\ Goto(Main, "final") /\ todo' = [todo EXCEPT ![Main] = cbs]
    /\ UNCHANGED <<finalized, initalizationCounter, running, compVars, actVars, pidVars, arg>>

siox_finalize_monitoring == finalizeSIOX("permanent")
siox_ll_dtor == finalizeSIOX(monitoringDisabled)

\* sioxFinal of a layer, a terminate callback: siox_component_unregister
sioxFinal(u) ==
    /\ At(Main, "final") /\ u \in todo[Main] /\ upgrade = None
    /\ todo' = [todo EXCEPT ![Main] = @ \ {u}]
    /\ IF layer[u] = 0 \/ registeredComponents[u] = 0 THEN UNCHANGED <<comp, registeredComponents>>
       ELSE /\ comp' = [comp EXCEPT ![layer[u]].live = FALSE]
            /\ registeredComponents' = [registeredComponents EXCEPT ![u] = 0]
    /\ layer' = [layer EXCEPT ![u] = 0]
    /\ UNCHANGED <<stateVars, cbs, upgrade, actVars, pidVars, pc, arg, calls>>

\* Mutant: the terminate callbacks are not called.
finalizeForgets ==
    /\ At(Main, "final")
    /\ internal_trace_heavyWeight(Main, pid)
    /\ running' = FALSE /\ finalized' = TRUE /\ monitoringDisabled' = "permanent"
    /\ Goto(Main, "idle") /\ todo' = [todo EXCEPT ![Main] = {}]
    /\ UNCHANGED <<initalizationCounter, compVars, pidVars, arg, calls>>

\* The exit event, stop, shutdown, and everything is deleted.
finalizeEnd ==
    /\ At(Main, "final") /\ todo[Main] = {}
    /\ internal_trace_heavyWeight(Main, pid)
    /\ running' = FALSE /\ finalized' = TRUE /\ monitoringDisabled' = "permanent"
    /\ Goto(Main, "idle")
    /\ UNCHANGED <<initalizationCounter, compVars, pidVars, todo, arg, calls>>

-----------------------------------------------------------------------------
(* sioxInit of a layer and siox_component_register.                        *)

\* The library is initialised before a layer; sioxInit returns at once if
\* monitoring is permanently disabled or the layer has a component, or if the
\* interface is registered, which the assertion of the register call repeats.
sioxInit(t, u) ==
    /\ At(t, "idle") /\ ~finalized /\ (Overlap \/ ~Finalizing)
    /\ t = Main => todo[Main] = {} \/ u \in todo[Main]
    /\ todo' = [todo EXCEPT ![t] = @ \ {u}]
    /\ IF monitoringDisabled = "permanent" \/ layer[u] # 0 \/ registeredComponents[u] # 0
       THEN u \in todo[t] /\ UNCHANGED <<pc, arg>>
       ELSE Goto(t, "checked") /\ arg' = [arg EXCEPT ![t] = u]
    /\ UNCHANGED <<stateVars, compVars, actVars, pidVars, calls>>

\* The upgrade lock; the configuration is loaded and started, unless it is invalid.
registerLoad(t) ==
    /\ At(t, "checked") /\ upgrade = None /\ Len(comp) < MaxComponents
    /\ upgrade' = t /\ Goto(t, "loaded")
    /\ running' \in {running, TRUE}
    /\ UNCHANGED <<monitoringDisabled, finalized, initalizationCounter, comp,
                   registeredComponents, layer, cbs, actVars, pidVars, todo, arg, calls>>

siox_component_register(t) ==
    /\ At(t, "loaded")
    /\ comp' = Append(comp, [uid |-> arg[t], pid |-> pid, init |-> initalizationCounter,
                             live |-> TRUE])
    /\ registeredComponents' = [registeredComponents EXCEPT ![arg[t]] = Len(comp')]
    /\ layer' = [layer EXCEPT ![arg[t]] = Len(comp')]
    /\ cbs' = cbs \cup {arg[t]} /\ upgrade' = None /\ Goto(t, "idle")
    /\ UNCHANGED <<stateVars, actVars, pidVars, todo, arg, calls>>

-----------------------------------------------------------------------------
(* An instrumented function: guard and begin, start, stop, end.            *)

\* The component of activity a, or the multiplexers it points to, are gone.
Gone(a) == LET c == comp[act[a].comp] IN ~c.live \/ finalized \/ c.init # initalizationCounter

siox_activity_begin(t, u) ==
    /\ At(t, "idle") /\ (Overlap \/ ~Finalizing) /\ Len(act) < MaxActivities
    /\ layer[u] # 0 /\ monitoringDisabled = "enabled"
    /\ LET c == comp[layer[u]] IN
       /\ beginActivity(t, layer[u], c.pid)
       /\ late' = (late \/ ~c.live)
    /\ activity_stack' = [activity_stack EXCEPT ![t] = Append(@, Len(act'))]
    /\ UNCHANGED <<stateVars, compVars, pidVars, todo, pc, arg, calls>>

\* ... with preCallAmux->Log if monitoring is enabled
siox_activity_start(t) ==
    /\ At(t, "idle") /\ activity_stack[t] # << >>
    /\ LET a == Last(activity_stack[t]) IN
       /\ act[a].phase = "begun" /\ act' = [act EXCEPT ![a].phase = "started"]
       /\ late' = (late \/ (monitoringDisabled = "enabled" /\ Gone(a)))
    /\ UNCHANGED <<stateVars, compVars, thread_id, next_activity_id, activity_stack,
                   current_thread_ID, pidVars, todo, pc, arg, calls>>

siox_activity_stop(t) ==
    /\ At(t, "idle") /\ activity_stack[t] # << >>
    /\ LET a == Last(activity_stack[t]) IN
       act[a].phase = "started" /\ act' = [act EXCEPT ![a].phase = "stopped"]
    /\ UNCHANGED <<stateVars, compVars, thread_id, next_activity_id, activity_stack,
                   current_thread_ID, late, pidVars, todo, pc, arg, calls>>

\* endActivity, then component->amux->Log if monitoring is enabled
siox_activity_end(t) ==
    /\ At(t, "idle") /\ activity_stack[t] # << >>
    /\ act[Last(activity_stack[t])].phase = "stopped"
    /\ endActivity(t)
    /\ late' = (late \/ (monitoringDisabled = "enabled" /\ Gone(Last(activity_stack[t]))))
    /\ UNCHANGED <<stateVars, compVars, thread_id, next_activity_id, current_thread_ID,
                   pidVars, todo, pc, arg, calls>>

-----------------------------------------------------------------------------
(* fork.                                                                   *)

siox_handle_prepare_fork(t) ==
    /\ At(t, "idle") /\ ~finalized /\ todo[t] = {} /\ MayCall /\ (Overlap \/ ~Finalizing)
    /\ running' = FALSE /\ Goto(t, "forking")
    /\ UNCHANGED <<monitoringDisabled, finalized, initalizationCounter, compVars, actVars,
                   pidVars, todo, arg>>

forkParent(t) ==
    /\ At(t, "forking") /\ Goto(t, "forked")
    /\ UNCHANGED <<stateVars, compVars, actVars, pidVars, todo, arg, calls>>

\* In the child the other threads are gone.
forkChild(t) ==
    /\ At(t, "forking") /\ getpid' = getpid + 1
    /\ pc' = [x \in Threads |-> IF x = t THEN "forked" ELSE "gone"]
    /\ UNCHANGED <<stateVars, compVars, actVars, pid, todo, arg, calls>>

\* Mutant: the components keep the pid they were registered with.
forkKeepsPids(t) ==
    /\ At(t, "forked") /\ Goto(t, "idle")
    /\ pid' = getpid /\ running' = TRUE
    /\ UNCHANGED <<monitoringDisabled, finalized, initalizationCounter, compVars, actVars,
                   getpid, todo, arg, calls>>

siox_handle_fork_complete(t) ==
    /\ At(t, "forked") /\ Goto(t, "idle")
    /\ pid' = getpid /\ running' = TRUE
    /\ comp' = [i \in DOMAIN comp |->
                  IF registeredComponents[comp[i].uid] = i THEN [comp[i] EXCEPT !.pid = getpid]
                  ELSE comp[i]]
    /\ UNCHANGED <<monitoringDisabled, finalized, initalizationCounter, registeredComponents,
                   layer, cbs, upgrade, actVars, getpid, todo, arg, calls>>

-----------------------------------------------------------------------------
\* Before the constructor of the library has run.
Init ==
    /\ monitoringDisabled = "uninitialized" /\ finalized = TRUE
    /\ initalizationCounter = 0 /\ running = FALSE
    /\ comp = << >> /\ registeredComponents = [u \in Uids |-> 0]
    /\ layer = [u \in Uids |-> 0] /\ cbs = {} /\ upgrade = None
    /\ todo = [t \in Threads |-> {}]
    /\ thread_id = [t \in Threads |-> 0] /\ next_activity_id = [t \in Threads |-> 1]
    /\ activity_stack = [t \in Threads |-> << >>] /\ current_thread_ID = 0
    /\ act = << >> /\ late = FALSE /\ getpid = 1 /\ pid = 0
    /\ pc = [t \in Threads |-> "idle"] /\ arg = [t \in Threads |-> None] /\ calls = 0

Next ==
    \/ siox_disable_monitoring \/ siox_enable_monitoring
    \/ siox_initialize_monitoring \/ initialize_fails
    \/ siox_finalize_monitoring \/ siox_ll_dtor \/ finalizeEnd
    \/ \E u \in Uids : sioxFinal(u)
    \/ \E t \in Threads :
          \/ \E u \in Uids : sioxInit(t, u) \/ siox_activity_begin(t, u)
          \/ registerLoad(t) \/ siox_component_register(t)
          \/ siox_activity_start(t) \/ siox_activity_stop(t) \/ siox_activity_end(t)
          \/ siox_handle_prepare_fork(t) \/ forkParent(t) \/ forkChild(t)
          \/ siox_handle_fork_complete(t)

Spec == Init /\ [][Next]_vars

-----------------------------------------------------------------------------
(* Properties.                                                             *)

\* The type of the state.
TypeOK ==
    /\ monitoringDisabled \in {"permanent", "enabled", "user", "uninitialized"}
    /\ registeredComponents \in [Uids -> 0 .. Len(comp)] /\ layer \in [Uids -> 0 .. Len(comp)]
    /\ cbs \subseteq Uids /\ upgrade \in Threads \cup {None}
    /\ {finalized, running, late} \subseteq BOOLEAN
    /\ \A t \in Threads : Range(activity_stack[t]) \subseteq DOMAIN act /\ todo[t] \subseteq Uids
    /\ \A t \in Threads : At(t, "loaded") => upgrade = t

\* An activity in progress lies within its parent, which is in progress too:
\* the builder's stack mirrors the nesting of the calls of a thread.
ParentsEnclose ==
    \A i \in DOMAIN act :
        act[i].parent # 0 /\ act[i].phase # "ended" => act[act[i].parent].phase # "ended"

\* The pid in the ID of an activity is that of the process that began it,
\* although the components were registered before the fork.
OwnPid == \A i \in DOMAIN act : act[i].aid[1] = act[i].begunIn

\* No two activities of a process have the same ID, whichever threads and
\* layers begin them, also after a re-initialisation; the ID names the process
\* (OwnPid), and a parent is one that encloses (ParentsEnclose).
ActivityIdsUnique ==
    /\ TypeOK /\ OwnPid /\ ParentsEnclose
    /\ \A i, j \in DOMAIN act : act[i].aid = act[j].aid => i = j

\* When Main is through with an initialisation, and no registration is under
\* way, every layer that was there has a component of this initialisation, the
\* one that is registered.  (In the child of a fork by another thread Main is
\* gone, maybe in the middle of its callbacks.)  Nothing is begun for or logged
\* through a component or a multiplexer of an earlier initialisation.
LayersReturn ==
    /\ ~late
    /\ (~finalized /\ monitoringDisabled = "enabled" /\ todo[Main] = {} /\ ~At(Main, "gone")
        /\ (\A t \in Threads : ~(pc[t] \in {"checked", "loaded", "final"})))
       => \A u \in cbs : /\ layer[u] # 0 /\ registeredComponents[u] = layer[u]
                         /\ comp[layer[u]].live /\ comp[layer[u]].init = initalizationCounter

\* What the assertion of siox_component_register states: a component is
\* registered for an interface only if none is.
OneComponentPerInterface ==
    \A i, j \in DOMAIN comp : comp[i].live /\ comp[j].live /\ comp[i].uid = comp[j].uid => i = j
-----------------------------------------------------------------------------
(* The inductive invariant of ActivityIdsUnique and LayersReturn.          *)

Activity == [aid : Nat \X Nat \X Nat \X Nat, begunIn : Nat, parent : Nat, comp : Nat,
             phase : {"begun", "started", "stopped", "ended"}]

ActivitiesOK ==
    /\ act \in Seq(Activity) /\ activity_stack \in [Threads -> Seq(Nat)]
    /\ thread_id \in [Threads -> Nat] /\ next_activity_id \in [Threads -> Nat]
    /\ current_thread_ID \in Nat

Component == [uid : Uids, pid : Nat, init : Nat, live : BOOLEAN]

ComponentsOK ==
    /\ comp \in Seq(Component)
    /\ {getpid, pid, initalizationCounter} \subseteq Nat
    /\ todo \in [Threads -> SUBSET Uids] /\ DOMAIN pc = Threads /\ DOMAIN arg = Threads
    /\ \A t \in Threads : pc[t] \in {"checked", "loaded"} => arg[t] \in Uids
    /\ \A t \in Threads \ {Main} : todo[t] = {} /\ pc[t] # "final"

\* Threads have numbers of their own, and a thread has used those below its next.
NumbersInv ==
    /\ \A t \in Threads : thread_id[t] <= current_thread_ID
    /\ \A t, x \in Threads : thread_id[t] # 0 /\ thread_id[t] = thread_id[x] => t = x
    /\ \A i \in DOMAIN act : \E t \in Threads :
          thread_id[t] # 0 /\ act[i].aid[3] = thread_id[t] /\ act[i].aid[4] < next_activity_id[t]
    /\ \A i, j \in DOMAIN act : act[i].aid = act[j].aid => i = j

\* What has not ended is on one stack, above its parent.
StackInv ==
    /\ \A t \in Threads : \A k \in DOMAIN activity_stack[t] :
          LET a == activity_stack[t][k] IN
          /\ a \in DOMAIN act /\ act[a].phase # "ended"
          /\ act[a].parent = IF k = 1 THEN 0 ELSE activity_stack[t][k - 1]
          /\ \A x \in Threads : \A l \in DOMAIN activity_stack[x] :
                a = activity_stack[x][l] => t = x /\ k = l
    /\ \A i \in DOMAIN act : act[i].phase # "ended" =>
          \E t \in Threads : \E k \in DOMAIN activity_stack[t] : activity_stack[t][k] = i

\* The pointer of a layer and the registry agree; a layer has called back.
LayerInv ==
    /\ layer = registeredComponents
    /\ \A u \in Uids : layer[u] # 0 => u \in cbs /\ comp[layer[u]].uid = u

\* The child of a fork, before siox_handle_fork_complete.
InChild == \E t \in Threads : At(t, "forked") /\ \A x \in Threads \ {t} : At(x, "gone")

\* Outside of it, processes and components know their pid.
PidInv ==
    /\ OwnPid
    /\ \/ InChild
       \/ pid = getpid /\ \A u \in Uids : layer[u] # 0 => comp[layer[u]].pid = getpid
       \/ finalized /\ comp = << >> /\ \A t \in Threads : At(t, "idle")

\* While there is no library, or it is being finalised, nothing else goes on.
LifeInv ==
    /\ (finalized \/ Finalizing) =>
          \A t \in Threads : /\ activity_stack[t] = << >>
                             /\ pc[t] \in {"idle", "gone"} \/ (t = Main /\ Finalizing)
    /\ finalized => ~Finalizing /\ \A u \in Uids : layer[u] = 0
    /\ Finalizing => \A u \in Uids : layer[u] # 0 => u \in todo[Main]
    /\ ~finalized /\ ~Finalizing => monitoringDisabled \in {"enabled", "user"}

\* Components in use are of this initialisation, and after it a layer that has
\* called back gets its component in Main's callback if not before.
CurrentInv ==
    /\ ~late
    /\ \A u \in Uids : layer[u] # 0 =>
          comp[layer[u]].live /\ comp[layer[u]].init = initalizationCounter
    /\ \A t \in Threads : \A k \in DOMAIN activity_stack[t] :
          LET c == act[activity_stack[t][k]].comp IN
          c \in DOMAIN comp /\ comp[c].live /\ comp[c].init = initalizationCounter
    /\ ~finalized /\ ~Finalizing /\ ~At(Main, "gone") =>
          \A u \in cbs : \/ u \in todo[Main] \/ layer[u] # 0
                         \/ pc[Main] \in {"checked", "loaded"} /\ arg[Main] = u

IInv ==
    /\ TypeOK /\ ActivitiesOK /\ ComponentsOK
    /\ NumbersInv /\ StackInv /\ LayerInv /\ PidInv /\ LifeInv /\ CurrentInv
=============================================================================
