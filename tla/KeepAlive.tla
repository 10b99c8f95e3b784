----------------------------- MODULE KeepAlive -----------------------------
(***************************************************************************)
(* The keep-alive component of server/keepalive.go: one goroutine that     *)
(* owns two lists of clients (to be pinged, waiting for the answer), an    *)
(* index from a client to its list element and one timer per list.  The    *)
(* channels are unbuffered, so ClientJoin / ClientLeft / ClientTick and    *)
(* the handler Run calls for them are one step.                            *)
(*                                                                         *)
(* Time is discrete: an item carries its age instead of its timestamp, a   *)
(* timer the time it has left.  Time does not pass while an expired timer  *)
(* is unserved (the handlers take far less than one unit).                 *)
(*                                                                         *)
(* A list element is not given an identity: the index always points at the *)
(* element of the client that was pushed last, hence at the client's last  *)
(* element in the list the index names.                                    *)
(***************************************************************************)
EXTENDS Integers, SequencesExt

CONSTANTS
  Client,        \* the player connections (a *client.Client each)
  Interval,      \* keepAliveInterval
  WaitInterval   \* keepAliveWaitInterval

ASSUME IntervalAssumption == Interval \in Nat \ {0} /\ WaitInterval \in Nat \ {0}

VARIABLES
  pingList,   \* pingList, oldest first: sequence of [player, age]
  waitList,   \* waitList, likewise
  listIndex,  \* the list the client's element is in; "orphan" when kicked
  listTimer,  \* time until listTimer fires
  waitTimer,  \* time until waitTimer fires
  crashed     \* the goroutine has panicked

kaVars == <<pingList, waitList, listIndex, listTimer, waitTimer, crashed>>

Where == {"none", "ping", "wait", "orphan"}
Item == [player : Client, age : Nat]
NewItem(c) == [player |-> c, age |-> 0]

NewKeepAlive ==
  /\ pingList = <<>>
  /\ waitList = <<>>
  /\ listIndex = [c \in Client |-> "none"]
  /\ listTimer = Interval
  /\ waitTimer = WaitInterval
  /\ crashed = FALSE

----------------------------------------------------------------------------
(* Lists and timers *)

Positions(l, c) == {i \in DOMAIN l : l[i].player = c}
LastPosition(l, c) == CHOOSE i \in Positions(l, c) : \A j \in Positions(l, c) : j <= i

\* elem.Prev() = nil: the client's element heads its list, or is in none.
IsFirst(c) ==
  CASE listIndex[c] = "ping" -> LastPosition(pingList, c) = 1
    [] listIndex[c] = "wait" -> LastPosition(waitList, c) = 1
    [] OTHER -> TRUE

\* list.Remove is a no-op for an element of another list.
PingListWithout(c) ==
  IF listIndex[c] = "ping" THEN RemoveAt(pingList, LastPosition(pingList, c)) ELSE pingList
WaitListWithout(c) ==
  IF listIndex[c] = "wait" THEN RemoveAt(waitList, LastPosition(waitList, c)) ELSE waitList

\* Mutant: the timer restarts in full, however long the first item has waited.
MutantTimerFor(l, interval) == interval

\* keepAliveSetTimer: what the timer of list l is reset to.
TimerFor(l, interval) ==
  IF l = <<>> THEN interval
  ELSE IF Head(l).age >= interval THEN 0 ELSE interval - Head(l).age

Aged(l) == [i \in DOMAIN l |-> [l[i] EXCEPT !.age = @ + 1]]

----------------------------------------------------------------------------
(* The handlers of Run *)

pushPlayer(c) ==
  /\ pingList' = Append(pingList, NewItem(c))
  /\ listIndex' = [listIndex EXCEPT ![c] = "ping"]
  /\ UNCHANGED <<waitList, listTimer, waitTimer, crashed>>

\* Mutant: the two intervals are swapped.
MutantRemovePlayer(c) ==
  /\ listIndex' = [listIndex EXCEPT ![c] = "none"]
  /\ pingList' = PingListWithout(c)
  /\ waitList' = WaitListWithout(c)
  /\ listTimer' = IF IsFirst(c) THEN TimerFor(pingList', WaitInterval) ELSE listTimer
  /\ waitTimer' = IF IsFirst(c) THEN TimerFor(waitList', Interval) ELSE waitTimer
  /\ UNCHANGED crashed

removePlayer(c) ==
  /\ listIndex' = [listIndex EXCEPT ![c] = "none"]
  /\ pingList' = PingListWithout(c)
  /\ waitList' = WaitListWithout(c)
  /\ listTimer' = IF IsFirst(c) THEN TimerFor(pingList', Interval) ELSE listTimer
  /\ waitTimer' = IF IsFirst(c) THEN TimerFor(waitList', WaitInterval) ELSE waitTimer
  /\ UNCHANGED crashed

\* Mutant: the index keeps naming the element of pingList.
MutantPingFirst ==
  /\ pingList' = Tail(pingList)
  /\ waitList' = Append(waitList, NewItem(Head(pingList).player))
  /\ UNCHANGED listIndex

PingFirst ==
  LET c == Head(pingList).player IN
  /\ pingList' = Tail(pingList)
  /\ waitList' = Append(waitList, NewItem(c))
  /\ listIndex' = [listIndex EXCEPT ![c] = "wait"]

pingPlayer ==
  /\ \/ pingList # <<>> /\ PingFirst
     \/ pingList = <<>> /\ UNCHANGED <<pingList, waitList, listIndex>>
  /\ listTimer' = TimerFor(pingList', Interval)
  /\ UNCHANGED <<waitTimer, crashed>>

\* Mutant: PushFront for PushBack.
MutantTickKnownPlayer(c) ==
  /\ listIndex[c] # "none"
  /\ waitList' = WaitListWithout(c)
  /\ pingList' = <<NewItem(c)>> \o pingList
  /\ listIndex' = [listIndex EXCEPT ![c] = "ping"]
  /\ waitTimer' = IF IsFirst(c) THEN TimerFor(waitList', WaitInterval) ELSE waitTimer
  /\ UNCHANGED <<listTimer, crashed>>

tickKnownPlayer(c) ==
  /\ listIndex[c] # "none"
  /\ waitList' = WaitListWithout(c)
  /\ pingList' = Append(pingList, NewItem(c))
  /\ listIndex' = [listIndex EXCEPT ![c] = "ping"]
  /\ waitTimer' = IF IsFirst(c) THEN TimerFor(waitList', WaitInterval) ELSE waitTimer
  /\ UNCHANGED <<listTimer, crashed>>

\* Mutant: a client the index does not know is taken in, for no panic.
MutantTickUnknownPlayer(c) ==
  /\ listIndex[c] = "none"
  /\ pushPlayer(c)

\* The lookup in listIndex fails: the handler panics.
tickUnknownPlayer(c) ==
  /\ listIndex[c] = "none"
  /\ crashed' = TRUE
  /\ UNCHANGED <<pingList, waitList, listIndex, listTimer, waitTimer>>

tickPlayer(c) == tickKnownPlayer(c) \/ tickUnknownPlayer(c)

\* Mutant: the kicked client is dropped from the index.
MutantKickFirst ==
  /\ waitList' = Tail(waitList)
  /\ listIndex' = [listIndex EXCEPT ![Head(waitList).player] = "none"]

\* Mutant: the client is put back to wait once more.
MutantKickAgain ==
  /\ waitList' = Append(Tail(waitList), NewItem(Head(waitList).player))
  /\ UNCHANGED listIndex

\* The element popped is the indexed one unless the client has a later one.
KickFirst ==
  LET c == Head(waitList).player IN
  /\ waitList' = Tail(waitList)
  /\ listIndex' = [listIndex EXCEPT ![c] =
       IF @ = "wait" /\ LastPosition(waitList, c) = 1 THEN "orphan" ELSE @]

kickPlayer ==
  /\ \/ waitList # <<>> /\ KickFirst
     \/ waitList = <<>> /\ UNCHANGED <<waitList, listIndex>>
  /\ waitTimer' = TimerFor(waitList', WaitInterval)
  /\ UNCHANGED <<pingList, listTimer, crashed>>

----------------------------------------------------------------------------
(* Run's select: the timers it serves, and the clock *)

ListTimerFires == ~crashed /\ listTimer = 0 /\ pingPlayer
WaitTimerFires == ~crashed /\ waitTimer = 0 /\ kickPlayer

Time ==
  /\ ~crashed
  /\ listTimer > 0 /\ waitTimer > 0
  /\ listTimer' = listTimer - 1
  /\ waitTimer' = waitTimer - 1
  /\ pingList' = Aged(pingList)
  /\ waitList' = Aged(waitList)
  /\ UNCHANGED <<listIndex, crashed>>

----------------------------------------------------------------------------
(* Facts about the lists *)

\* Types.  The timers never exceed the intervals of keepalive.go:12-16.
KeepAliveTypeOK ==
  /\ pingList \in Seq(Item)
  /\ waitList \in Seq(Item)
  /\ listIndex \in [Client -> Where]
  /\ listTimer \in 0..Interval
  /\ waitTimer \in 0..WaitInterval
  /\ crashed \in BOOLEAN

Count(l, c) == Cardinality(Positions(l, c))

----------------------------------------------------------------------------
(* What the contract calls a client's status, and its age in it. *)

ClientStatus(c) ==
  CASE listIndex[c] = "ping" -> "idle"
    [] listIndex[c] = "wait" -> "waiting"
    [] listIndex[c] = "orphan" -> "kicked"
    [] OTHER -> "out"

ClientAge(c) ==
  CASE listIndex[c] = "ping" -> pingList[LastPosition(pingList, c)].age
    [] listIndex[c] = "wait" -> waitList[LastPosition(waitList, c)].age
    [] OTHER -> 0

=============================================================================
