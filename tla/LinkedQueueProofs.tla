-------------------------- MODULE LinkedQueueProofs --------------------------
(***************************************************************************)
(* For any items, any finite set of goroutines that pull and any length of *)
(* the queue, LinkedListQueue loses no wakeup and takes only steps the     *)
(* contract of queue.Queue allows.  The finiteness is needed to count the  *)
(* awake goroutines.                                                       *)
(***************************************************************************)
EXTENDS LinkedQueue, FiniteSetTheorems, SequenceTheorems, TLAPS

(* Signal takes a goroutine from the wait list to the awake ones, if any. *)
LEMMA SignalCases ==
    ASSUME Signal
    PROVE  \/ waiting = {} /\ UNCHANGED <<awake, waiting>>
           \/ \E g \in waiting : awake' = awake \cup {g} /\ waiting' = waiting \ {g}
BY DEF Signal

(* Every variable of LinkedListQueue keeps its type, and no Pull is both     *)
(* awake and in cond.Wait.                                                   *)
THEOREM LinkedTypeOK == Spec => []TypeOK
<1>1. Init => TypeOK
  <2> SUFFICES ASSUME Init PROVE TypeOK
    OBVIOUS
  <2>1. items \in Seq(Item) /\ Len(items) <= MaxItems
    <3>1. items = <<>> /\ MaxItems \in Nat
      BY LinkedAssumption DEF Init
    <3> QED BY <3>1, EmptySeq
  <2> QED BY <2>1 DEF Init, TypeOK
<1>2. TypeOK /\ [Next]_vars => TypeOK'
  <2> SUFFICES ASSUME TypeOK, [Next]_vars PROVE TypeOK'
    OBVIOUS
  <2> USE LinkedAssumption
  <2>1. ASSUME NEW i \in Item, Push(i) PROVE TypeOK'
    <3>1. items' \in Seq(Item) /\ Len(items') <= MaxItems
      BY <2>1 DEF TypeOK, Push
    <3>2. awake' \subseteq Goroutine /\ waiting' \subseteq Goroutine /\ awake' \cap waiting' = {}
      BY <2>1, SignalCases DEF TypeOK, Push
    <3> QED BY <2>1, <3>1, <3>2 DEF TypeOK, Push
  <2>2. CASE PushClosed
    BY <2>2 DEF TypeOK, PushClosed
  <2>3. CASE Close
    BY <2>3 DEF TypeOK, Close, Broadcast
  <2>4. ASSUME NEW g \in Goroutine, PullBegins(g) PROVE TypeOK'
    BY <2>4 DEF TypeOK, PullBegins
  <2>5. ASSUME NEW g \in Goroutine, Pull(g) PROVE TypeOK'
    <3>1. CASE Take(g)
      <4>1. Head(items) \in Item /\ Tail(items) \in Seq(Item) /\ Len(Tail(items)) <= MaxItems
        BY <3>1 DEF TypeOK, Take
      <4> QED BY <2>5, <3>1, <4>1 DEF TypeOK, Pull, Take
    <3>2. CASE GiveUp(g)
      BY <2>5, <3>2 DEF TypeOK, Pull, GiveUp
    <3>3. CASE Wait(g)
      BY <2>5, <3>3 DEF TypeOK, Pull, Wait
    <3> QED BY <2>5, <3>1, <3>2, <3>3 DEF Pull
  <2>6. CASE UNCHANGED vars
    BY <2>6 DEF TypeOK, vars
  <2> QED BY <2>1, <2>2, <2>3, <2>4, <2>5, <2>6 DEF Next
<1> QED BY <1>1, <1>2, PTL DEF Spec

(* One Signal a Push is enough: a step keeps NoLostWakeup, because a Pull    *)
(* leaves the awake ones with an item or finds none left to count.           *)
LEMMA WakeupStep == TypeOK /\ NoLostWakeup /\ [Next]_vars => NoLostWakeup'
<1> SUFFICES ASSUME TypeOK, NoLostWakeup, [Next]_vars, waiting' # {}
             PROVE  ~closed' /\ Len(items') <= Cardinality(awake')
  BY DEF NoLostWakeup
<1>0. IsFiniteSet(awake) /\ Cardinality(awake) \in Nat
  BY LinkedAssumption, FS_Subset, FS_CardinalityType DEF TypeOK
<1>1. ASSUME NEW i \in Item, Push(i) PROVE ~closed' /\ Len(items') <= Cardinality(awake')
  <2>1. PICK g \in waiting : awake' = awake \cup {g} /\ waiting' = waiting \ {g}
    BY <1>1, SignalCases DEF Push
  <2>2. Cardinality(awake') = Cardinality(awake) + 1
    BY <2>1, <1>0, FS_AddElement DEF TypeOK
  <2>3. Len(items') = Len(items) + 1
    BY <1>1 DEF Push, TypeOK
  <2> QED BY <1>1, <1>0, <2>1, <2>2, <2>3 DEF Push, NoLostWakeup, TypeOK
<1>2. CASE PushClosed
  BY <1>2 DEF PushClosed, NoLostWakeup
<1>3. CASE Close
  BY <1>3 DEF Close, Broadcast
<1>4. ASSUME NEW g \in Goroutine, PullBegins(g)
      PROVE  ~closed' /\ Len(items') <= Cardinality(awake')
  <2>1. Cardinality(awake') = Cardinality(awake) + 1
    BY <1>4, <1>0, FS_AddElement DEF PullBegins
  <2> QED BY <1>4, <1>0, <2>1 DEF PullBegins, NoLostWakeup, TypeOK
<1>5. ASSUME NEW g \in Goroutine, Pull(g)
      PROVE  ~closed' /\ Len(items') <= Cardinality(awake')
  <2>1. Cardinality(awake') = Cardinality(awake) - 1 /\ Cardinality(awake') \in Nat
    <3>1. g \in awake /\ awake' = awake \ {g}
      BY <1>5 DEF Pull
    <3> QED BY <3>1, <1>0, FS_RemoveElement, FS_CardinalityType
  <2>2. CASE Take(g)
    <3>1. Len(items') = Len(items) - 1
      BY <2>2 DEF Take, TypeOK
    <3> QED BY <1>5, <1>0, <2>1, <2>2, <3>1 DEF Pull, Take, NoLostWakeup, TypeOK
  <2>3. CASE GiveUp(g)
    BY <1>5, <2>3 DEF Pull, GiveUp, NoLostWakeup
  <2>4. CASE Wait(g)
    <3>1. ~closed' /\ Len(items') = 0
      BY <1>5, <2>4 DEF Pull, Wait
    <3> QED BY <2>1, <3>1
  <2> QED BY <1>5, <2>2, <2>3, <2>4 DEF Pull
<1>6. CASE UNCHANGED vars
  BY <1>6 DEF vars, NoLostWakeup
<1> QED BY <1>1, <1>2, <1>3, <1>4, <1>5, <1>6 DEF Next

(* While pulls wait in cond.Wait every queued item has an awake Pull to take *)
(* it, and no Pull waits on a closed list (queue.go:29-63).                  *)
THEOREM LinkedNoLostWakeup == Spec => []NoLostWakeup
<1>1. Init => NoLostWakeup
  BY DEF Init, NoLostWakeup
<1> QED BY <1>1, WakeupStep, LinkedTypeOK, PTL DEF Spec

(* The safety half of ImplementsContract: every step of the list is a step   *)
(* of the abstract queue, or invisible to its callers (a Pull that waits).   *)
THEOREM LinkedStepsAreContracts ==
    Spec => Contract!Init /\ [][Contract!Next]_(Contract!queueVars)
<1>1. Init => Contract!Init
  BY DEF Init, Contract!Init
<1>2. TypeOK /\ [Next]_vars => [Contract!Next]_(Contract!queueVars)
  <2> SUFFICES ASSUME TypeOK, [Next]_vars
               PROVE  Contract!Next \/ UNCHANGED Contract!queueVars
    OBVIOUS
  <2>1. ASSUME NEW i \in Item, Push(i) PROVE Contract!Next
    <3>1. awake' \cup waiting' = awake \cup waiting
      BY <2>1, SignalCases DEF Push
    <3>2. Contract!Push(i)
      BY <2>1, <3>1 DEF Push, Contract!Push
    <3> QED BY <3>2 DEF Contract!Next
  <2>2. CASE PushClosed
    <3>1. Contract!PushClosed
      BY <2>2 DEF PushClosed, Contract!PushClosed
    <3> QED BY <3>1 DEF Contract!Next
  <2>3. CASE Close
    <3>1. Contract!Close
      BY <2>3 DEF Close, Broadcast, Contract!Close
    <3> QED BY <3>1 DEF Contract!Next
  <2>4. ASSUME NEW g \in Goroutine, PullBegins(g) PROVE Contract!Next
    <3>1. Contract!PullBegins(g)
      BY <2>4 DEF PullBegins, Contract!PullBegins
    <3> QED BY <3>1 DEF Contract!Next
  <2>5. ASSUME NEW g \in Goroutine, Pull(g)
        PROVE  Contract!Next \/ UNCHANGED Contract!queueVars
    <3>1. g \in awake /\ g \notin waiting
      BY <2>5 DEF Pull, TypeOK
    <3>2. CASE Take(g)
      <4>1. awake' \cup waiting' = (awake \cup waiting) \ {g}
        BY <2>5, <3>1, <3>2 DEF Pull, Take
      <4>2. Contract!PullItem(g)
        BY <2>5, <3>1, <3>2, <4>1 DEF Pull, Take, Contract!PullItem
      <4> QED BY <4>2 DEF Contract!Next
    <3>3. CASE GiveUp(g)
      <4>1. awake' \cup waiting' = (awake \cup waiting) \ {g}
        BY <2>5, <3>1, <3>3 DEF Pull, GiveUp
      <4>2. Contract!PullClosed(g)
        BY <2>5, <3>1, <3>3, <4>1 DEF Pull, GiveUp, Contract!PullClosed
      <4> QED BY <4>2 DEF Contract!Next
    <3>4. CASE Wait(g)
      <4>1. awake' \cup waiting' = awake \cup waiting
        BY <2>5, <3>1, <3>4 DEF Pull, Wait
      <4> QED BY <2>5, <3>4, <4>1 DEF Pull, Wait, Contract!queueVars
    <3> QED BY <2>5, <3>2, <3>3, <3>4 DEF Pull
  <2>6. CASE UNCHANGED vars
    BY <2>6 DEF vars, Contract!queueVars
  <2> QED BY <2>1, <2>2, <2>3, <2>4, <2>5, <2>6 DEF Next
<1> QED BY <1>1, <1>2, LinkedTypeOK, PTL DEF Spec
=============================================================================
