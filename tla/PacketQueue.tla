----------------------------- MODULE PacketQueue -----------------------------
(***************************************************************************)
(* What queue.Queue (net/queue/queue.go) promises those who push and pull: *)
(* first in, first out, each item to one Pull; a Pull returns as soon as   *)
(* there is an item for it or the queue is closed and empty.  Pushing to a *)
(* closed queue is the caller's error and breaks the queue for everybody.  *)
(***************************************************************************)
EXTENDS Sequences, Naturals

CONSTANTS
    Item,       \* what is queued
    Goroutine,  \* those that pull
    NoItem,     \* what a Pull returns with ok = false
    MaxItems    \* bound: items in the queue

VARIABLES
    items,    \* the queue
    closed,
    broken,   \* somebody pushed after Close: the program is going down
    pulling,  \* the goroutines inside Pull
    got       \* what the last Pull of each goroutine returned

queueVars == <<items, closed, broken, pulling, got>>

Init ==
    /\ items = <<>> /\ closed = FALSE /\ broken = FALSE
    /\ pulling = {} /\ got = [g \in Goroutine |-> NoItem]

Push(i) ==
    /\ ~broken /\ ~closed /\ Len(items) < MaxItems
    /\ items' = Append(items, i)
    /\ UNCHANGED <<closed, broken, pulling, got>>

PushClosed ==
    /\ ~broken /\ closed
    /\ broken' = TRUE
    /\ UNCHANGED <<items, closed, pulling, got>>

Close ==
    /\ ~broken
    /\ closed' = TRUE
    /\ UNCHANGED <<items, broken, pulling, got>>

PullBegins(g) ==
    /\ g \notin pulling
    /\ pulling' = pulling \cup {g}
    /\ UNCHANGED <<items, closed, broken, got>>

PullItem(g) ==
    /\ ~broken /\ g \in pulling /\ items # <<>>
    /\ items' = Tail(items)
    /\ got' = [got EXCEPT ![g] = Head(items)]
    /\ pulling' = pulling \ {g}
    /\ UNCHANGED <<closed, broken>>

PullClosed(g) ==
    /\ ~broken /\ g \in pulling /\ items = <<>> /\ closed
    /\ got' = [got EXCEPT ![g] = NoItem]
    /\ pulling' = pulling \ {g}
    /\ UNCHANGED <<items, closed, broken>>

Next ==
    \/ \E i \in Item : Push(i)
    \/ PushClosed \/ Close
    \/ \E g \in Goroutine : PullBegins(g) \/ PullItem(g) \/ PullClosed(g)

(* An item does not stay while somebody pulls, and nobody stays in Pull of   *)
(* a closed, empty queue.  Which of several pulls gets an item is open.      *)
Fairness ==
    /\ WF_queueVars(\E g \in Goroutine : PullItem(g))
    /\ \A g \in Goroutine : WF_queueVars(PullClosed(g))

Spec == Init /\ [][Next]_queueVars /\ Fairness
=============================================================================
