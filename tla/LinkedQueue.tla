----------------------------- MODULE LinkedQueue -----------------------------
(***************************************************************************)
(* LinkedListQueue (net/queue/queue.go): a list under a mutex and a        *)
(* condition variable.  A critical section is one step: Wait is the only   *)
(* place where one gives the mutex up.  Signal wakes one waiting Pull,     *)
(* which still has to get the mutex and may find that another Pull took    *)
(* the item first.                                                         *)
(***************************************************************************)
EXTENDS Sequences, FiniteSets, Integers

CONSTANTS Item, Goroutine, NoItem, MaxItems

ASSUME LinkedAssumption ==
    NoItem \notin Item /\ MaxItems \in Nat /\ IsFiniteSet(Goroutine)

VARIABLES
    items, closed, broken, got,
    awake,    \* the pulls that want the mutex
    waiting   \* the pulls in cond.Wait

vars == <<items, closed, broken, got, awake, waiting>>

Init ==
    /\ items = <<>> /\ closed = FALSE /\ broken = FALSE
    /\ got = [g \in Goroutine |-> NoItem]
    /\ awake = {} /\ waiting = {}

Signal ==
    IF waiting = {}
    THEN UNCHANGED <<awake, waiting>>
    ELSE \E g \in waiting : awake' = awake \cup {g} /\ waiting' = waiting \ {g}

(* Mutant: the goroutines woken by Broadcast are not taken off the wait list. *)
MutantBroadcast == awake' = awake \cup waiting /\ waiting' = waiting

Broadcast == awake' = awake \cup waiting /\ waiting' = {}

(* Mutant: only the push that ends emptiness signals. *)
MutantPush(i) ==
    /\ ~broken /\ ~closed /\ Len(items) < MaxItems
    /\ items' = Append(items, i)
    /\ IF items = <<>> THEN Signal ELSE UNCHANGED <<awake, waiting>>
    /\ UNCHANGED <<closed, broken, got>>

(* MaxItems is a bound of the model, not of the list. *)
Push(i) ==
    /\ ~broken /\ ~closed /\ Len(items) < MaxItems
    /\ items' = Append(items, i)
    /\ Signal
    /\ UNCHANGED <<closed, broken, got>>

(* Push panics holding the mutex: even if the panic is recovered, no call *)
(* gets the mutex any more.                                               *)
PushClosed ==
    /\ ~broken /\ closed
    /\ broken' = TRUE
    /\ UNCHANGED <<items, closed, got, awake, waiting>>

(* Mutant: Close wakes one Pull. *)
MutantClose ==
    /\ ~broken
    /\ closed' = TRUE
    /\ Signal
    /\ UNCHANGED <<items, broken, got>>

Close ==
    /\ ~broken
    /\ closed' = TRUE
    /\ Broadcast
    /\ UNCHANGED <<items, broken, got>>

PullBegins(g) ==
    /\ g \notin awake \cup waiting
    /\ awake' = awake \cup {g}
    /\ UNCHANGED <<items, closed, broken, got, waiting>>

(* One turn of Pull's loop, with the mutex held. *)
Take(g) ==
    /\ items # <<>>
    /\ items' = Tail(items)
    /\ got' = [got EXCEPT ![g] = Head(items)]
    /\ UNCHANGED waiting

GiveUp(g) ==
    /\ items = <<>> /\ closed
    /\ got' = [got EXCEPT ![g] = NoItem]
    /\ UNCHANGED <<items, waiting>>

Wait(g) ==
    /\ items = <<>> /\ ~closed
    /\ waiting' = waiting \cup {g}
    /\ UNCHANGED <<items, got>>

Pull(g) ==
    /\ ~broken /\ g \in awake
    /\ awake' = awake \ {g}
    /\ Take(g) \/ GiveUp(g) \/ Wait(g)
    /\ UNCHANGED <<closed, broken>>

Next ==
    \/ \E i \in Item : Push(i)
    \/ PushClosed \/ Close
    \/ \E g \in Goroutine : PullBegins(g) \/ Pull(g)

(* sync.Mutex does not starve a goroutine that waits for it. *)
Spec == Init /\ [][Next]_vars /\ \A g \in Goroutine : WF_vars(Pull(g))

-----------------------------------------------------------------------------
(* Every variable keeps its type, and a Pull is awake or waiting, not both. *)
TypeOK ==
    /\ items \in Seq(Item) /\ Len(items) <= MaxItems
    /\ closed \in BOOLEAN /\ broken \in BOOLEAN
    /\ got \in [Goroutine -> Item \cup {NoItem}]
    /\ awake \subseteq Goroutine /\ waiting \subseteq Goroutine
    /\ awake \cap waiting = {}

(* No wakeup is lost: while pulls wait, every queued item has an awake pull  *)
(* of its own that can take it, and nobody waits on a closed queue.  One     *)
(* Signal a Push is enough only because a Pull that loses the item to        *)
(* another goes back to waiting under the same mutex.                        *)
NoLostWakeup ==
    waiting # {} => ~closed /\ Len(items) <= Cardinality(awake)

(* The list keeps the contract of queue.Queue, fairness included: waiting    *)
(* and waking are invisible to the callers.                                  *)
Contract == INSTANCE PacketQueue WITH pulling <- awake \cup waiting
ImplementsContract == Contract!Spec
=============================================================================
