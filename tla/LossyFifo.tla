------------------------------ MODULE LossyFifo ------------------------------
(***************************************************************************)
(* What the queue of the asynchronous multiplexer promises its users: a    *)
(* first-in first-out queue of bounded length that may discard an activity *)
(* instead of accepting it, hands out each accepted one once, and tells    *)
(* how many were discarded, never more than there were.                    *)
(***************************************************************************)
EXTENDS Integers, Sequences

CONSTANTS
    Activity,   \* what is queued
    NoActivity, \* nothing
    Bound       \* the queue's greatest length

VARIABLES
    queue,      \* accepted and not yet taken
    held,       \* taken and not yet delivered
    unreported, \* discarded and not yet reported
    reported    \* discarded and reported

fifoVars == <<queue, held, unreported, reported>>

Init == queue = << >> /\ held = NoActivity /\ unreported = 0 /\ reported = 0

Accept(a) ==
    /\ Len(queue) < Bound
    /\ queue' = Append(queue, a)
    /\ UNCHANGED <<held, unreported, reported>>

Discard ==
    /\ unreported' = unreported + 1
    /\ UNCHANGED <<queue, held, reported>>

Take ==
    /\ held = NoActivity /\ queue # << >>
    /\ held' = Head(queue) /\ queue' = Tail(queue)
    /\ UNCHANGED <<unreported, reported>>

\* The activity is delivered together with the number of losses it reports.
Deliver(n) ==
    /\ held # NoActivity /\ held' = NoActivity
    /\ n \in 0 .. unreported
    /\ unreported' = unreported - n /\ reported' = reported + n
    /\ UNCHANGED queue

Next ==
    \/ \E a \in Activity : Accept(a)
    \/ Discard
    \/ Take
    \/ \E n \in 0 .. unreported : Deliver(n)

Spec == Init /\ [][Next]_fifoVars
=============================================================================
