------------------------- MODULE ActivityMultiplexer -------------------------
(***************************************************************************)
(* How a multiplexer hands activities to its listeners: the dispatch lists *)
(* (Dispatcher.hpp), Log, dispatch and the (un)registration of listeners   *)
(* of ActivityMultiplexerAsync.cpp and ActivityMultiplexerSync.cpp.        *)
(*                                                                         *)
(* Application threads log, the notifier thread dispatches what it takes   *)
(* from the queue, and plugins register and unregister while both run.     *)
(* The queue between them is the abstract one of LossyFifo, which          *)
(* ActivityMultiplexerQueue implements.  A callback is a begin and an end, *)
(* so that other threads act while it executes.  An activity is its ucaid. *)
(***************************************************************************)
EXTENDS Integers, Sequences, FiniteSets, SequencesExt

CONSTANTS
    Loggers,        \* threads that call Log
    Listeners,      \* plugins
    Ucaids,         \* activity types, other than Catchall
    Kinds,          \* the sets of modes of the multiplexers under study
    Bound,          \* length of the queue
    MaxLogs,        \* bound: calls of Log
    MaxRegistrations, \* bound: calls of register*
    MaxListeners    \* bound: length of a dispatch list

Catchall == 0
Notifier == "notifier"
NoActivity == -1
NoListener == "none"
Keys == Ucaids \cup {Catchall}
Threads == Loggers \cup {Notifier}

ASSUME MultiplexerAssumption ==
    /\ Kinds \subseteq {{"sync"}, {"sync", "async"}}
    /\ {Catchall, NoActivity} \cap Ucaids = {}
    /\ {Bound, MaxLogs, MaxRegistrations, MaxListeners} \subseteq Nat

VARIABLES
    dispatchers,   \* dispatchers[mode]: from the keys present to listeners
    readers,       \* readers[mode]: threads that hold the lock shared
    pc,            \* pc[t]: where thread t is in Log or dispatch
    key,           \* key[t]: the ucaid whose list t walks, or Catchall
    work,          \* work[t]: the activity of t
    i,             \* i[t]: entries of the list still to call
    running,       \* running[t]: the listener whose callback t executes
    got,           \* got[t]: listeners called for this activity so far
    due,           \* due[t]: listeners registered when t took the lock
    lostArg,       \* the notifier's count of lost activities
    processed_activities, processed_events_in_async, registrations,
    queue, held, unreported, reported   \* of LossyFifo

fifoVars == <<queue, held, unreported, reported>>
counters == <<processed_activities, processed_events_in_async, registrations>>
vars == <<dispatchers, readers, pc, key, work, i, running, got, due, lostArg,
          counters, fifoVars>>

Fifo == INSTANCE LossyFifo WITH Activity <- Ucaids

Mode(t) == IF t = Notifier THEN "async" ELSE "sync"

\* ActivityMultiplexerSync has no asynchronous dispatchers.
hasAsync == "async" \in DOMAIN dispatchers

\* dispatchers.find(k), as a possibly empty list
List(mode, k) ==
    IF mode \in DOMAIN dispatchers /\ k \in DOMAIN dispatchers[mode]
    THEN dispatchers[mode][k] ELSE << >>

-----------------------------------------------------------------------------
(* Dispatcher.                                                             *)

\* One round of its loop: a matching entry is overwritten by the last one, which
\* is dropped.
removeEntry(r, j, l) == IF r[j] = l THEN Front(ReplaceAt(r, j, Last(r))) ELSE r

\* Mutant: the loop of remove skips the entry at index 0.
removeSkipsFirst(s, l) ==
    LET after[n \in 0 .. Len(s)] ==
          IF n = 0 THEN s
          ELSE IF n = Len(s) THEN after[n - 1]
          ELSE removeEntry(after[n - 1], Len(s) - n + 1, l)
    IN  after[Len(s)]

\* Dispatcher::remove: from the last entry to the first.
remove(s, l) ==
    LET after[n \in 0 .. Len(s)] ==
          IF n = 0 THEN s ELSE removeEntry(after[n - 1], Len(s) - n + 1, l)
    IN  after[Len(s)]

\* Dispatcher::dispatch calls the entries of a list from the last to the first: what
\* the walk of two lists calls.
Walked(own, all) == Reverse(own) \o Reverse(all)

-----------------------------------------------------------------------------
(* Log (application threads) and dispatch (notifier thread).               *)

\* Log begins.
LogStart(t) ==
    /\ t # Notifier /\ pc[t] = "idle"
    /\ processed_activities < MaxLogs
    /\ processed_activities' = processed_activities + 1
    /\ \E u \in Ucaids : work' = [work EXCEPT ![t] = u]
    /\ pc' = [pc EXCEPT ![t] = "lock"]
    /\ UNCHANGED <<dispatchers, readers, key, i, running, got, due, lostArg,
                   processed_events_in_async, registrations, fifoVars>>

\* The notifier takes an activity, and the number of losses to report with it.
DispatchStart ==
    /\ pc[Notifier] = "idle"
    /\ Fifo!Take
    /\ lostArg' \in 0 .. unreported
    /\ work' = [work EXCEPT ![Notifier] = held']
    /\ pc' = [pc EXCEPT ![Notifier] = "lock"]
    /\ UNCHANGED <<dispatchers, readers, key, i, running, got, due, counters>>

\* lock_shared() and the first find.  No writer ever holds the lock between
\* two steps: a registration is one step.
LockShared(t) ==
    /\ pc[t] = "lock"
    /\ readers' = [readers EXCEPT ![Mode(t)] = @ \cup {t}]
    /\ key' = [key EXCEPT ![t] = work[t]]
    /\ i' = [i EXCEPT ![t] = Len(List(Mode(t), work[t]))]
    /\ got' = [got EXCEPT ![t] = << >>]
    /\ due' = [due EXCEPT ![t] = Walked(List(Mode(t), work[t]), List(Mode(t), Catchall))]
    /\ pc' = [pc EXCEPT ![t] = "walk"]
    /\ UNCHANGED <<dispatchers, work, running, lostArg, counters, fifoVars>>

\* Dispatcher::dispatch: the callback of the next entry begins ...
CallBegin(t) ==
    /\ pc[t] = "walk" /\ i[t] > 0
    /\ i' = [i EXCEPT ![t] = @ - 1]
    /\ running' = [running EXCEPT ![t] = List(Mode(t), key[t])[i[t]]]
    /\ got' = [got EXCEPT ![t] = Append(@, running'[t])]
    /\ pc' = [pc EXCEPT ![t] = "call"]
    /\ UNCHANGED <<dispatchers, readers, key, work, due, lostArg, counters, fifoVars>>

\* ... and ends.
CallEnd(t) ==
    /\ pc[t] = "call"
    /\ running' = [running EXCEPT ![t] = NoListener]
    /\ pc' = [pc EXCEPT ![t] = "walk"]
    /\ UNCHANGED <<dispatchers, readers, key, work, i, got, due, lostArg, counters,
                   fifoVars>>

\* The second find, for the listeners of every activity.
WalkCatchall(t) ==
    /\ pc[t] = "walk" /\ i[t] = 0 /\ key[t] # Catchall
    /\ key' = [key EXCEPT ![t] = Catchall]
    /\ i' = [i EXCEPT ![t] = Len(List(Mode(t), Catchall))]
    /\ UNCHANGED <<dispatchers, readers, pc, work, running, got, due, lostArg,
                   counters, fifoVars>>

\* unlock_shared()
UnlockShared(t) ==
    /\ pc[t] = "walk" /\ i[t] = 0 /\ key[t] = Catchall
    /\ readers' = [readers EXCEPT ![Mode(t)] = @ \ {t}]
    /\ pc' = [pc EXCEPT ![t] = "done"]
    /\ UNCHANGED <<dispatchers, key, work, i, running, got, due, lostArg, counters,
                   fifoVars>>

\* Log ends: the activity is queued if any asynchronous dispatcher exists,
\* which is tested without the lock.
LogEnd(t) ==
    /\ t # Notifier /\ pc[t] = "done"
    /\ IF hasAsync /\ DOMAIN dispatchers["async"] # {}
       THEN Fifo!Accept(work[t]) \/ Fifo!Discard
       ELSE UNCHANGED fifoVars
    /\ pc' = [pc EXCEPT ![t] = "idle"]
    /\ UNCHANGED <<dispatchers, readers, key, work, i, running, got, due, lostArg,
                   counters>>

\* dispatch ends: the statistics of prepareReport.
DispatchEnd ==
    /\ pc[Notifier] = "done"
    /\ Fifo!Deliver(lostArg)
    /\ processed_events_in_async' = processed_events_in_async + 1
    /\ lostArg' = 0
    /\ pc' = [pc EXCEPT ![Notifier] = "idle"]
    /\ UNCHANGED <<dispatchers, readers, key, work, i, running, got, due,
                   processed_activities, registrations>>

-----------------------------------------------------------------------------
(* Registration.  The exclusive lock needs the absence of readers.         *)

\* ActivityMultiplexerSync silently ignores asynchronous registrations.
Ignored(mode) == mode = "async" /\ ~hasAsync

Exclusive(mode) == readers[mode] = {}

\* The new lists of a mode: operator[] creates the entry for the key.
WithList(mode, k, s) ==
    [dispatchers EXCEPT ![mode] =
        [x \in DOMAIN @ \cup {k} |-> IF x = k THEN s ELSE @[x]]]

registerForUcaid(l, k, mode) ==
    /\ registrations < MaxRegistrations
    /\ registrations' = registrations + 1
    /\ Len(List(mode, k)) < MaxListeners
    /\ IF Ignored(mode)
       THEN UNCHANGED dispatchers
       ELSE /\ Exclusive(mode)
            /\ dispatchers' = WithList(mode, k, Append(List(mode, k), l))
    /\ UNCHANGED <<readers, pc, key, work, i, running, got, due, lostArg,
                   processed_activities, processed_events_in_async, fifoVars>>

\* Mutant: the entry is removed under the shared lock.
unregisterShared(l, k, mode) ==
    /\ ~Ignored(mode) /\ k \in DOMAIN dispatchers[mode]
    /\ dispatchers' = WithList(mode, k, remove(List(mode, k), l))
    /\ UNCHANGED <<readers, pc, key, work, i, running, got, due, lostArg, counters,
                   fifoVars>>

\* at() throws where there is no entry, and the exception is ignored.
unregisterForUcaid(l, k, mode) ==
    /\ ~Ignored(mode) /\ Exclusive(mode) /\ k \in DOMAIN dispatchers[mode]
    /\ dispatchers' = WithList(mode, k, remove(List(mode, k), l))
    /\ UNCHANGED <<readers, pc, key, work, i, running, got, due, lostArg, counters,
                   fifoVars>>

-----------------------------------------------------------------------------
Init ==
    /\ \E modes \in Kinds : /\ dispatchers = [m \in modes |-> << >>]
                            /\ readers = [m \in modes |-> {}]
    /\ pc = [t \in Threads |-> "idle"]
    /\ key = [t \in Threads |-> Catchall]
    /\ work = [t \in Threads |-> NoActivity]
    /\ i = [t \in Threads |-> 0]
    /\ running = [t \in Threads |-> NoListener]
    /\ got = [t \in Threads |-> << >>] /\ due = [t \in Threads |-> << >>]
    /\ lostArg = 0
    /\ processed_activities = 0 /\ processed_events_in_async = 0
    /\ registrations = 0
    /\ Fifo!Init

Step(t) == LockShared(t) \/ CallBegin(t) \/ CallEnd(t) \/ WalkCatchall(t)
           \/ UnlockShared(t)

Next ==
    \/ \E t \in Loggers : LogStart(t) \/ LogEnd(t)
    \/ \E t \in Threads : Step(t)
    \/ DispatchStart \/ DispatchEnd
    \/ \E l \in Listeners, k \in Keys, m \in {"sync", "async"} :
          registerForUcaid(l, k, m) \/ unregisterForUcaid(l, k, m)

Spec == Init /\ [][Next]_vars

-----------------------------------------------------------------------------
\* Type correctness of the multiplexer.
TypeOK ==
    /\ \A m \in DOMAIN dispatchers :
          /\ DOMAIN dispatchers[m] \subseteq Keys
          /\ \A k \in DOMAIN dispatchers[m] : dispatchers[m][k] \in Seq(Listeners)
          /\ readers[m] \subseteq Threads
    /\ pc \in [Threads -> {"idle", "lock", "walk", "call", "done"}]
    /\ \A t \in Threads : i[t] \in 0 .. Len(List(Mode(t), key[t]))
    /\ running \in [Threads -> Listeners \cup {NoListener}]
    /\ queue \in Seq(Ucaids) /\ Len(queue) <= Bound

\* A plugin may be deleted once its unregister calls have returned: a listener
\* whose callback executes is still registered for the list being walked, and
\* the walk stays inside the list (TypeOK).
RunningIsRegistered ==
    /\ TypeOK
    /\ \A t \in Threads : running[t] # NoListener =>
        \E n \in DOMAIN List(Mode(t), key[t]) : List(Mode(t), key[t])[n] = running[t]

\* An activity reaches every listener that was registered for its type or for
\* all types when the walk began, once per registration, whatever is
\* registered and unregistered meanwhile.
OncePerRegistration ==
    \A t \in Threads : pc[t] = "done" => got[t] = due[t]

\* The number of entries of a listener in a list.
Entries(s, l) == Cardinality({n \in DOMAIN s : s[n] = l})

\* After unregister nothing of the listener is left in the list and no other
\* registration is lost, also where it was registered more than once; so that an
\* activity reaches what is registered (OncePerRegistration).
UnregisterIsExact ==
    /\ []OncePerRegistration
    /\ [][\A l \in Listeners, k \in Keys, m \in {"sync", "async"} :
             unregisterForUcaid(l, k, m) =>
                \A x \in Listeners :
                   Entries(dispatchers'[m][k], x)
                      = IF x = l THEN 0 ELSE Entries(dispatchers[m][k], x)]_vars

-----------------------------------------------------------------------------
\* The inductive strengthening of RunningIsRegistered and OncePerRegistration, in
\* three parts: the lists and the locks of the modes there are, ...
ShapeInv ==
    /\ DOMAIN dispatchers \in {{"sync"}, {"sync", "async"}}
    /\ dispatchers = [m \in DOMAIN dispatchers |-> dispatchers[m]]
    /\ \A m \in DOMAIN dispatchers :
          dispatchers[m] \in [DOMAIN dispatchers[m] -> Seq(Listeners)]
    /\ readers \in [DOMAIN dispatchers -> SUBSET Threads]
    /\ queue # << >> => hasAsync
    /\ key \in [Threads -> Keys] /\ work \in [Threads -> Ucaids \cup {NoActivity}]
    /\ i \in [Threads -> Nat]
    /\ got \in [Threads -> Seq(Listeners)] /\ due \in [Threads -> Seq(Listeners)]

\* ... a thread that walks a list holds its lock, and executes the callback of the
\* entry it was at, ...
Walk(t) ==
    /\ pc[t] # "idle" => work[t] \in Ucaids /\ Mode(t) \in DOMAIN dispatchers
    /\ pc[t] \in {"walk", "call"} => t \in readers[Mode(t)]
    /\ pc[t] \notin {"walk", "call"} => i[t] = 0
    /\ running[t] = IF pc[t] = "call" THEN List(Mode(t), key[t])[i[t] + 1] ELSE NoListener
    /\ pc[t] = "call" => i[t] < Len(List(Mode(t), key[t]))

\* ... and has called what comes before it, in the lists that there were when it
\* took the lock.
Progress(t) ==
    pc[t] \in {"walk", "call"} =>
        LET own == List(Mode(t), work[t])
            all == List(Mode(t), Catchall)
        IN  /\ key[t] \in {work[t], Catchall}
            /\ due[t] = Walked(own, all)
            /\ Len(got[t]) = Len(own) + (IF key[t] = Catchall THEN Len(all) ELSE 0) - i[t]
            /\ \A n \in 1 .. Len(got[t]) : got[t][n] = due[t][n]

IInv ==
    /\ TypeOK /\ ShapeInv /\ OncePerRegistration
    /\ \A t \in Threads : Walk(t) /\ Progress(t)
=============================================================================
