----------------------- MODULE KeepAliveClientsProofs -----------------------
(***************************************************************************)
(* For any clients and intervals, and any set of clients that answer       *)
(* unasked: the lists and the index agree about every other client, nobody *)
(* is overdue, Run never panics, and every step of the component is one    *)
(* step of KeepAliveContract, or none.                                     *)
(***************************************************************************)
EXTENDS MCKeepAlive, KeepAliveProofs

\* The index of a client that behaves says whether Run knows it, and a client
\* that is to be pinged owes no answer: so an answer never finds its client in
\* pingList, and the PushBack of tickPlayer adds no second element.
Tame(c) ==
  /\ Exact(c)
  /\ listIndex[c] = "none" <=> c \notin connected
  /\ listIndex[c] = "ping" => unanswered[c] = 0
  /\ listIndex[c] \in {"wait", "orphan"} => unanswered[c] \in {0, 1}

ClientsInv ==
  /\ KeepAliveInv
  /\ connected \subseteq Client
  /\ unanswered \in [Client -> Nat]
  /\ \A c \in connected : listIndex[c] # "none"
  /\ \A c \in Behaved : Tame(c)
  /\ ~crashed

LEMMA ClientsInvInit == Init => ClientsInv
<1> SUFFICES ASSUME Init PROVE ClientsInv
  OBVIOUS
<1>1. KeepAliveInv /\ \A c \in Client : Exact(c)
  BY NewKeepAliveInv DEF Init
<1> QED BY <1>1 DEF Init, NewKeepAlive, ClientsInv, Tame, Behaved

\* A step of one client, which leaves the other clients' index and debt alone.
LEMMA TameOthers ==
  ASSUME ClientsInv, NEW c \in Client, OthersExact(c),
         \A d \in Client \ {c} : /\ listIndex'[d] = listIndex[d]
                                 /\ unanswered'[d] = unanswered[d]
                                 /\ d \in connected' <=> d \in connected
  PROVE  \A d \in Behaved \ {c} : Tame(d)'
BY DEF OthersExact, ClientsInv, Behaved, Tame

LEMMA JoinStep == ASSUME ClientsInv, NEW c \in Client, ClientJoin(c) PROVE ClientsInv'
<1>1. KeepAliveInv /\ pushPlayer(c) /\ listIndex[c] = "none"
  BY DEF ClientsInv, ClientJoin
<1>2. KeepAliveInv' /\ OthersExact(c) /\ (Exact(c) => Exact(c)')
  BY <1>1, PushKeeps
<1>3. /\ listIndex' = [listIndex EXCEPT ![c] = "ping"]
      /\ unanswered' = [unanswered EXCEPT ![c] = 0]
      /\ connected' = connected \cup {c} /\ crashed' = crashed
      /\ listIndex \in [Client -> Where] /\ unanswered \in [Client -> Nat]
  BY <1>1 DEF ClientJoin, pushPlayer, ClientsInv, KeepAliveInv, KeepAliveTypeOK
<1>4. \A d \in Behaved \ {c} : Tame(d)'
  BY <1>2, <1>3, TameOthers
<1>5. c \in Behaved => Tame(c)'
  BY <1>2, <1>3 DEF ClientsInv, Tame
<1> QED BY <1>2, <1>3, <1>4, <1>5 DEF ClientsInv

LEMMA LeaveStep == ASSUME ClientsInv, NEW c \in Client, ClientLeft(c) PROVE ClientsInv'
<1>1. KeepAliveInv /\ removePlayer(c)
  BY DEF ClientsInv, ClientLeft
<1>2. KeepAliveInv' /\ OthersExact(c) /\ (Exact(c) => Exact(c)')
  BY <1>1, RemoveKeeps
<1>3. /\ listIndex' = [listIndex EXCEPT ![c] = "none"]
      /\ unanswered' = unanswered
      /\ connected' = connected \ {c} /\ crashed' = crashed
      /\ listIndex \in [Client -> Where]
  BY <1>1 DEF ClientLeft, removePlayer, ClientsInv, KeepAliveInv, KeepAliveTypeOK
<1>4. \A d \in Behaved \ {c} : Tame(d)'
  BY <1>2, <1>3, TameOthers
<1>5. c \in Behaved => Tame(c)'
  BY <1>2, <1>3 DEF ClientsInv, Tame
<1> QED BY <1>2, <1>3, <1>4, <1>5 DEF ClientsInv

LEMMA AnswerStep == ASSUME ClientsInv, NEW c \in Client, ClientTick(c) PROVE ClientsInv'
<1>1. KeepAliveInv /\ listIndex[c] # "none"
  BY DEF ClientsInv, ClientTick
<1>2. tickKnownPlayer(c)
  BY <1>1 DEF ClientTick, tickPlayer, tickUnknownPlayer
<1>3. /\ KeepAliveInv' /\ OthersExact(c)
      /\ Exact(c) /\ listIndex[c] # "ping" => Exact(c)'
  BY <1>1, <1>2, TickKeeps
<1>4. /\ listIndex' = [listIndex EXCEPT ![c] = "ping"]
      /\ connected' = connected /\ crashed' = crashed
      /\ listIndex \in [Client -> Where] /\ unanswered \in [Client -> Nat]
  BY <1>1, <1>2 DEF ClientTick, tickKnownPlayer, ClientsInv, KeepAliveInv, KeepAliveTypeOK
<1>5. unanswered' \in [Client -> Nat] /\ \A d \in Client \ {c} : unanswered'[d] = unanswered[d]
  <2>1. CASE Answer(c)
    BY <1>4, <2>1 DEF Answer
  <2>2. CASE Babble(c)
    BY <1>4, <2>2 DEF Babble
  <2> QED BY <2>1, <2>2 DEF ClientTick
<1>6. \A d \in Behaved \ {c} : Tame(d)'
  BY <1>3, <1>4, <1>5, TameOthers
<1>7. ASSUME c \in Behaved PROVE Tame(c)'
  <2>1. unanswered[c] > 0 /\ unanswered' = [unanswered EXCEPT ![c] = @ - 1]
    BY <1>7 DEF ClientTick, Answer, Babble, Behaved
  <2>2. listIndex[c] \in {"wait", "orphan"} /\ unanswered[c] = 1 /\ Exact(c) /\ c \in connected
    BY <1>1, <1>4, <1>7, <2>1 DEF ClientsInv, Tame, Where
  <2>3. unanswered'[c] = 0
    BY <1>4, <2>1, <2>2
  <2> QED BY <1>3, <1>4, <2>2, <2>3 DEF Tame
<1> QED BY <1>3, <1>4, <1>5, <1>6, <1>7 DEF ClientsInv

LEMMA PingStep == ASSUME ClientsInv, Ping PROVE ClientsInv'
<1>1. KeepAliveInv /\ pingPlayer
  BY DEF ClientsInv, Ping, ListTimerFires
<1>2. KeepAliveInv' /\ \A d \in Client : Exact(d) => Exact(d)'
  BY <1>1, PingKeeps
<1>3. /\ listIndex \in [Client -> Where] /\ unanswered \in [Client -> Nat]
      /\ connected' = connected /\ crashed' = crashed
  BY <1>1 DEF Ping, pingPlayer, ClientsInv, KeepAliveInv, KeepAliveTypeOK
<1>4. CASE pingList = <<>>
  <2>1. listIndex' = listIndex /\ unanswered' = [c \in Client |-> unanswered[c]]
    BY <1>1, <1>4 DEF Ping, pingPlayer
  <2> QED BY <1>2, <1>3, <2>1 DEF ClientsInv, Tame, Behaved
<1>5. CASE pingList # <<>>
  <2>1. PICK h \in Client : h = Head(pingList).player /\ Positions(pingList, h) # {}
    <3>1. pingList \in Seq(Item)
      BY <1>1 DEF KeepAliveInv, KeepAliveTypeOK
    <3>2. 1 \in 1..Len(pingList) /\ Head(pingList) = pingList[1] /\ pingList[1] \in Item
      BY <1>5, <3>1, TailIsWithout, ElementOfSeq
    <3>3. 1 \in Positions(pingList, Head(pingList).player)
      BY <3>1, <3>2, LenProperties DEF Positions
    <3> QED BY <3>2, <3>3 DEF Item
  <2>2. /\ listIndex' = [listIndex EXCEPT ![h] = "wait"]
        /\ unanswered' = [c \in Client |->
             IF c \notin Babblers /\ h = c THEN unanswered[c] + 1 ELSE unanswered[c]]
    BY <1>1, <1>5, <2>1 DEF Ping, pingPlayer, PingFirst
  <2>3. h \in Behaved => listIndex[h] = "ping"
    BY <2>1 DEF ClientsInv, Tame, Exact
  <2>4. unanswered' \in [Client -> Nat]
    BY <1>3, <2>2
  <2>5. \A d \in Behaved \ {h} : Tame(d)'
    <3>1. OthersExact(h)
      BY <1>2 DEF OthersExact
    <3>2. \A d \in Client \ {h} : /\ listIndex'[d] = listIndex[d]
                                  /\ unanswered'[d] = unanswered[d]
                                  /\ d \in connected' <=> d \in connected
      BY <1>3, <2>1, <2>2
    <3> QED BY <2>1, <3>1, <3>2, TameOthers
  <2>6. ASSUME h \in Behaved PROVE Tame(h)'
    <3>1. Exact(h)' /\ unanswered[h] = 0 /\ h \in connected
      BY <1>2, <2>1, <2>3, <2>6 DEF ClientsInv, Tame
    <3>2. listIndex'[h] = "wait" /\ unanswered'[h] = 1
      BY <1>3, <2>1, <2>2, <2>6, <3>1 DEF Behaved
    <3> QED BY <1>3, <3>1, <3>2 DEF Tame
  <2>7. \A c \in connected' : listIndex'[c] # "none"
    BY <1>3, <2>1, <2>2 DEF ClientsInv
  <2> QED BY <1>2, <1>3, <2>4, <2>5, <2>6, <2>7 DEF ClientsInv
<1> QED BY <1>4, <1>5

LEMMA KickStep == ASSUME ClientsInv, Kick PROVE ClientsInv'
<1>1. KeepAliveInv /\ kickPlayer /\ UNCHANGED <<connected, unanswered, crashed>>
  BY DEF ClientsInv, Kick, WaitTimerFires, kickPlayer
<1>2. /\ KeepAliveInv' /\ \A d \in Client : Exact(d) => Exact(d)'
      /\ \A d \in Client : \/ listIndex'[d] = listIndex[d]
                           \/ listIndex[d] = "wait" /\ listIndex'[d] = "orphan"
  BY <1>1, KickKeeps
<1>3. \A d \in Behaved : Tame(d)'
  BY <1>1, <1>2 DEF ClientsInv, Tame, Behaved
<1>4. \A c \in connected' : listIndex'[c] # "none"
  BY <1>1, <1>2 DEF ClientsInv
<1> QED BY <1>1, <1>2, <1>3, <1>4 DEF ClientsInv

LEMMA TickStep == ASSUME ClientsInv, Tick PROVE ClientsInv'
<1>1. KeepAliveInv /\ Time /\ UNCHANGED <<connected, unanswered, listIndex, crashed>>
  BY DEF ClientsInv, Tick, Time
<1>2. KeepAliveInv' /\ \A d \in Client : Exact(d) => Exact(d)'
  BY <1>1, TimeKeeps
<1> QED BY <1>1, <1>2 DEF ClientsInv, Tame, Behaved

LEMMA ClientsInvStep == ClientsInv /\ [Next]_vars => ClientsInv'
<1> SUFFICES ASSUME ClientsInv, [Next]_vars PROVE ClientsInv'
  OBVIOUS
<1>1. ASSUME NEW c \in Client, ClientJoin(c) PROVE ClientsInv'
  BY <1>1, JoinStep
<1>2. ASSUME NEW c \in Client, ClientLeft(c) PROVE ClientsInv'
  BY <1>2, LeaveStep
<1>3. ASSUME NEW c \in Client, ClientTick(c) PROVE ClientsInv'
  BY <1>3, AnswerStep
<1>4. CASE Ping
  BY <1>4, PingStep
<1>5. CASE Kick
  BY <1>5, KickStep
<1>6. CASE Tick
  BY <1>6, TickStep
<1>7. CASE UNCHANGED vars
  BY <1>7 DEF vars, kaVars, ClientsInv, KeepAliveInv, KeepAliveTypeOK, Indexed, Tame, Exact
<1> QED BY <1>1, <1>2, <1>3, <1>4, <1>5, <1>6, <1>7 DEF Next

LEMMA ClientsInvariant == Spec => []ClientsInv
BY ClientsInvInit, ClientsInvStep, PTL DEF Spec

----------------------------------------------------------------------------
(* The invariants the runs check *)

\* The component's lists, index and timers, and the clients around it, keep
\* their types: in particular no timer ever exceeds its interval.
THEOREM KeepAliveTyped == Spec => []TypeOK
<1>1. ClientsInv => TypeOK
  BY DEF ClientsInv, KeepAliveInv, TypeOK
<1> QED BY <1>1, ClientsInvariant, PTL

\* The removals of removePlayer and tickPlayer hit the client's only element,
\* whatever the clients that answer unasked do to the lists.
THEOREM ListsAndIndexAgree == Spec => []IndexExact
<1>1. ASSUME ClientsInv PROVE IndexExact
  <2>1. pingList \in Seq(Item) /\ waitList \in Seq(Item)
    BY <1>1 DEF ClientsInv, KeepAliveInv, KeepAliveTypeOK
  <2>2. ASSUME NEW c \in Behaved
        PROVE  /\ Count(pingList, c) = IF listIndex[c] = "ping" THEN 1 ELSE 0
               /\ Count(waitList, c) = IF listIndex[c] = "wait" THEN 1 ELSE 0
    <3>1. c \in Client /\ Exact(c)
      BY <1>1, <2>2 DEF ClientsInv, Tame, Behaved
    <3>2. /\ Positions(pingList, c) = {} <=> Count(pingList, c) = 0
          /\ Once(pingList, c) => Count(pingList, c) = 1
          /\ Positions(waitList, c) = {} <=> Count(waitList, c) = 0
          /\ Once(waitList, c) => Count(waitList, c) = 1
      BY <2>1, <3>1, CountOf
    <3> QED BY ONLY <3>1, <3>2 DEF Exact
  <2> QED BY <2>2 DEF IndexExact
<1> QED BY <1>1, ClientsInvariant, PTL

\* One timer per list serves every client of it in time.
THEOREM OneTimerPerList == Spec => []NobodyOverdue
<1>1. ASSUME ClientsInv PROVE NobodyOverdue
  <2>1. /\ InTime(pingList, listTimer, Interval) /\ listTimer \in 0..Interval
        /\ InTime(waitList, waitTimer, WaitInterval) /\ waitTimer \in 0..WaitInterval
        /\ \A i \in DOMAIN pingList : pingList[i].age \in Nat
        /\ \A i \in DOMAIN waitList : waitList[i].age \in Nat
    <3>1. pingList \in Seq(Item) /\ waitList \in Seq(Item)
      BY <1>1 DEF ClientsInv, KeepAliveInv, KeepAliveTypeOK
    <3>2. /\ \A i \in DOMAIN pingList : pingList[i] \in Item
          /\ \A i \in DOMAIN waitList : waitList[i] \in Item
      BY <3>1, LenProperties, ElementOfSeq
    <3> QED BY <1>1, <3>2 DEF ClientsInv, KeepAliveInv, KeepAliveTypeOK, Item
  <2> QED BY <2>1, IntervalAssumption DEF InTime, NobodyOverdue
<1> QED BY <1>1, ClientsInvariant, PTL

\* The lookup of tickPlayer never fails: the panic is unreachable.
THEOREM RunNeverPanics == Spec => []NeverCrashes
<1>1. ClientsInv => NeverCrashes
  BY DEF ClientsInv, NeverCrashes
<1> QED BY <1>1, ClientsInvariant, PTL

----------------------------------------------------------------------------
(* Refinement: the lists with their two timers are one deadline per client *)

\* Of the clients that behave, a step moves at most c.
OnlyMoves(c) == \A d \in Behaved \ {c} : listIndex'[d] = listIndex[d] /\ SameAge(d)

LEMMA OneMoves ==
  ASSUME listIndex \in [Client -> Where], NEW c \in Behaved, OnlyMoves(c), NEW from, NEW to,
         ClientStatus(c) \in from, ClientStatus(c)' = to, ClientAge(c)' = 0
  PROVE  Contract!Move(c, from, to)
<1>1. \A d \in Behaved \ {c} : ClientStatus(d)' = ClientStatus(d) /\ ClientAge(d)' = ClientAge(d)
  BY OthersKept DEF OnlyMoves, Behaved
<1>2. [d \in Behaved |-> ClientStatus(d)]' = [[d \in Behaved |-> ClientStatus(d)] EXCEPT ![c] = to]
  BY <1>1
<1>3. [d \in Behaved |-> ClientAge(d)]' = [[d \in Behaved |-> ClientAge(d)] EXCEPT ![c] = 0]
  BY <1>1
<1> QED BY <1>2, <1>3 DEF Contract!Move

LEMMA NoneMoves ==
  ASSUME listIndex \in [Client -> Where], NEW c, c \notin Behaved, OnlyMoves(c)
  PROVE  UNCHANGED Contract!vars
<1>1. \A d \in Behaved : ClientStatus(d)' = ClientStatus(d) /\ ClientAge(d)' = ClientAge(d)
  BY OthersKept DEF OnlyMoves, Behaved
<1> QED BY <1>1 DEF Contract!vars

LEMMA JoinIsContract ==
  ASSUME ClientsInv, NEW c \in Client, ClientJoin(c)
  PROVE  [Contract!Next]_(Contract!vars)
<1>1. /\ KeepAliveInv /\ pushPlayer(c) /\ listIndex[c] = "none" /\ listIndex \in [Client -> Where]
      /\ listIndex' = [listIndex EXCEPT ![c] = "ping"]
  BY DEF ClientsInv, ClientJoin, pushPlayer, KeepAliveInv, KeepAliveTypeOK
<1>2. OnlyMoves(c)
  BY <1>1, PushAges DEF OnlyMoves, ClientsInv, Tame, Behaved
<1>3. ASSUME c \in Behaved PROVE Contract!Join(c)
  <2>1. AgeIn(pingList', c) = 0
    BY <1>1, <1>3, PushAges DEF ClientsInv, Tame
  <2>2. ClientStatus(c) \in {"out"} /\ ClientStatus(c)' = "idle" /\ ClientAge(c)' = 0
    BY <1>1, <2>1, StatusOf, StatusOfNext
  <2> QED BY <1>1, <1>2, <1>3, <2>2, OneMoves DEF Contract!Join
<1> QED BY <1>1, <1>2, <1>3, NoneMoves DEF Contract!Next

LEMMA LeaveIsContract ==
  ASSUME ClientsInv, NEW c \in Client, ClientLeft(c)
  PROVE  [Contract!Next]_(Contract!vars)
<1>1. /\ KeepAliveInv /\ removePlayer(c) /\ listIndex[c] # "none" /\ listIndex \in [Client -> Where]
      /\ listIndex' = [listIndex EXCEPT ![c] = "none"]
  BY DEF ClientsInv, ClientLeft, removePlayer, KeepAliveInv, KeepAliveTypeOK
<1>2. OnlyMoves(c)
  BY <1>1, RemoveAges DEF OnlyMoves, ClientsInv, Tame, Behaved
<1>3. ASSUME c \in Behaved PROVE Contract!Leave(c)
  <2>1. /\ ClientStatus(c) \in Contract!Status \ {"out"}
        /\ ClientStatus(c)' = "out" /\ ClientAge(c)' = 0
    BY <1>1, StatusOf, StatusOfNext DEF Contract!Status, Where
  <2> QED BY <1>1, <1>2, <1>3, <2>1, OneMoves DEF Contract!Leave
<1> QED BY <1>1, <1>2, <1>3, NoneMoves DEF Contract!Next

LEMMA AnswerIsContract ==
  ASSUME ClientsInv, NEW c \in Client, ClientTick(c)
  PROVE  [Contract!Next]_(Contract!vars)
<1>1. /\ KeepAliveInv /\ tickKnownPlayer(c) /\ listIndex \in [Client -> Where]
      /\ listIndex[c] # "none" /\ listIndex' = [listIndex EXCEPT ![c] = "ping"]
  BY DEF ClientsInv, ClientTick, tickPlayer, tickKnownPlayer, tickUnknownPlayer, KeepAliveInv, KeepAliveTypeOK
<1>2. OnlyMoves(c)
  BY <1>1, TickAges DEF OnlyMoves, ClientsInv, Tame, Behaved
<1>3. ASSUME c \in Behaved PROVE Contract!Answer(c)
  <2>1. unanswered[c] > 0
    BY <1>3 DEF ClientTick, Answer, Babble, Behaved
  <2>2. listIndex[c] \in {"wait", "orphan"} /\ Exact(c)
    BY <1>1, <1>3, <2>1 DEF ClientsInv, Tame, Where
  <2>3. AgeIn(pingList', c) = 0
    BY <1>1, <2>2, TickAges
  <2>4. ClientStatus(c) \in {"waiting", "kicked"} /\ ClientStatus(c)' = "idle" /\ ClientAge(c)' = 0
    BY <1>1, <2>2, <2>3, StatusOf, StatusOfNext
  <2> QED BY <1>1, <1>2, <1>3, <2>4, OneMoves DEF Contract!Answer
<1> QED BY <1>1, <1>2, <1>3, NoneMoves DEF Contract!Next

LEMMA PingIsContract ==
  ASSUME ClientsInv, Ping
  PROVE  [Contract!Next]_(Contract!vars)
<1>1. KeepAliveInv /\ pingPlayer /\ listIndex \in [Client -> Where]
  BY DEF ClientsInv, Ping, ListTimerFires, KeepAliveInv, KeepAliveTypeOK
<1>2. CASE pingList = <<>>
  <2>1. UNCHANGED <<pingList, waitList, listIndex>>
    BY <1>1, <1>2 DEF pingPlayer
  <2> QED BY <2>1 DEF Contract!vars, ClientStatus, ClientAge
<1>3. CASE pingList # <<>>
  <2>1. PICK h \in Client : h = Head(pingList).player
    BY <1>1, <1>3, PingKeeps
  <2>2. PingFirst /\ listIndex' = [listIndex EXCEPT ![h] = "wait"]
    BY <1>1, <1>3, <2>1 DEF pingPlayer, PingFirst
  <2>3. /\ \A d \in Client \ {h} : Exact(d) => SameAge(d)
        /\ Exact(h) => listIndex[h] = "ping" /\ AgeIn(waitList', h) = 0
    BY <1>1, <1>3, <2>1, <2>2, PingAges
  <2>4. OnlyMoves(h)
    BY <2>2, <2>3, <1>1 DEF OnlyMoves, ClientsInv, Tame, Behaved
  <2>5. ASSUME h \in Behaved PROVE Contract!Ping(h)
    <3>1. ClientStatus(h) \in {"idle"} /\ ClientStatus(h)' = "waiting" /\ ClientAge(h)' = 0
      BY <1>1, <2>2, <2>3, <2>5, StatusOf, StatusOfNext DEF ClientsInv, Tame
    <3> QED BY <1>1, <2>4, <2>5, <3>1, OneMoves DEF Contract!Ping
  <2> QED BY <1>1, <2>4, <2>5, NoneMoves DEF Contract!Next
<1> QED BY <1>2, <1>3

LEMMA KickIsContract ==
  ASSUME ClientsInv, Kick
  PROVE  [Contract!Next]_(Contract!vars)
<1>1. KeepAliveInv /\ kickPlayer /\ listIndex \in [Client -> Where] /\ pingList' = pingList
  BY DEF ClientsInv, Kick, WaitTimerFires, kickPlayer, KeepAliveInv, KeepAliveTypeOK
<1>2. CASE waitList = <<>>
  <2>1. UNCHANGED <<pingList, waitList, listIndex>>
    BY <1>1, <1>2 DEF kickPlayer
  <2> QED BY <2>1 DEF Contract!vars, ClientStatus, ClientAge
<1>3. CASE waitList # <<>>
  <2>1. PICK h \in Client : h = Head(waitList).player
    BY <1>1, <1>3, KickKeeps
  <2>2. /\ KickFirst
        /\ listIndex' = [listIndex EXCEPT ![h] =
             IF @ = "wait" /\ LastPosition(waitList, h) = 1 THEN "orphan" ELSE @]
    BY <1>1, <1>3, <2>1 DEF kickPlayer, KickFirst
  <2>3. /\ \A d \in Client \ {h} : Exact(d) => SameAge(d)
        /\ Exact(h) => listIndex[h] = "wait" /\ LastPosition(waitList, h) = 1
    BY <1>1, <1>3, <2>1, <2>2, KickAges
  <2>4. OnlyMoves(h)
    BY <2>2, <2>3, <1>1 DEF OnlyMoves, ClientsInv, Tame, Behaved
  <2>5. ASSUME h \in Behaved PROVE Contract!Kick(h)
    <3>1. ClientStatus(h) \in {"waiting"} /\ ClientStatus(h)' = "kicked" /\ ClientAge(h)' = 0
      BY <1>1, <2>2, <2>3, <2>5, StatusOf, StatusOfNext DEF ClientsInv, Tame
    <3> QED BY <1>1, <2>4, <2>5, <3>1, OneMoves DEF Contract!Kick
  <2> QED BY <1>1, <2>4, <2>5, NoneMoves DEF Contract!Next
<1> QED BY <1>2, <1>3

LEMMA TickIsContract ==
  ASSUME ClientsInv, Tick
  PROVE  Contract!Time
<1> USE IntervalAssumption
<1>1. /\ pingList \in Seq(Item) /\ InTime(pingList, listTimer, Interval) /\ listTimer \in 1..Interval
      /\ waitList \in Seq(Item) /\ InTime(waitList, waitTimer, WaitInterval) /\ waitTimer \in 1..WaitInterval
      /\ Interval \in Nat /\ WaitInterval \in Nat
      /\ pingList' = Aged(pingList) /\ waitList' = Aged(waitList) /\ listIndex' = listIndex
      /\ listIndex \in [Client -> Where]
  BY DEF Tick, Time, ClientsInv, KeepAliveInv, KeepAliveTypeOK
<1>2. ASSUME NEW d \in Behaved
      PROVE  /\ ClientStatus(d)' = ClientStatus(d)
             /\ ClientStatus(d) = "idle" => ClientAge(d) < Interval
             /\ ClientStatus(d) = "waiting" => ClientAge(d) < WaitInterval
             /\ ClientAge(d)' = IF ClientStatus(d) \in {"idle", "waiting"} THEN ClientAge(d) + 1 ELSE 0
  <2>1. d \in Client /\ Exact(d) /\ listIndex[d] \in Where /\ listIndex'[d] = listIndex[d]
    BY <1>1 DEF ClientsInv, Tame, Behaved
  <2>2. CASE listIndex[d] = "ping"
    <3>1. AgeIn(pingList, d) < Interval /\ AgeIn(pingList', d) = AgeIn(pingList, d) + 1
      BY <1>1, <2>1, <2>2, BeforeDeadline, AgedAge DEF Exact
    <3> QED BY <2>1, <2>2, <3>1, StatusOf, StatusOfNext
  <2>3. CASE listIndex[d] = "wait"
    <3>1. AgeIn(waitList, d) < WaitInterval /\ AgeIn(waitList', d) = AgeIn(waitList, d) + 1
      BY <1>1, <2>1, <2>3, BeforeDeadline, AgedAge DEF Exact
    <3> QED BY <2>1, <2>3, <3>1, StatusOf, StatusOfNext
  <2>4. CASE listIndex[d] \in {"none", "orphan"}
    BY <2>1, <2>4, StatusOf, StatusOfNext
  <2> QED BY <2>1, <2>2, <2>3, <2>4 DEF Where
<1>3. \A d \in Behaved : Contract!Deadline(d)
  BY <1>2 DEF Contract!Deadline
<1>4. [d \in Behaved |-> ClientStatus(d)]' = [d \in Behaved |-> ClientStatus(d)]
  BY <1>2
<1>5. [d \in Behaved |-> ClientAge(d)]'
      = [c \in Behaved |-> IF [d \in Behaved |-> ClientStatus(d)][c] \in {"idle", "waiting"}
                           THEN [d \in Behaved |-> ClientAge(d)][c] + 1 ELSE 0]
  BY <1>2
<1> QED BY <1>3, <1>4, <1>5 DEF Contract!Time

\* Two first-in first-out lists with one timer each keep one deadline per
\* client: every step of Run is a contract step of one client that behaves, of
\* all of them (the passing of time), or of none.
THEOREM OneDeadlinePerClient == Spec => ImplementsContract
<1>1. Init => Contract!Init
  <2> SUFFICES ASSUME Init PROVE Contract!Init
    OBVIOUS
  <2>1. \A c \in Behaved : ClientStatus(c) = "out" /\ ClientAge(c) = 0
    BY StatusOf DEF Init, NewKeepAlive, Behaved
  <2> QED BY <2>1 DEF Contract!Init
<1>2. ASSUME ClientsInv, [Next]_vars PROVE [Contract!Next]_(Contract!vars)
  <2>1. ASSUME NEW c \in Client, ClientJoin(c) PROVE [Contract!Next]_(Contract!vars)
    BY <1>2, <2>1, JoinIsContract
  <2>2. ASSUME NEW c \in Client, ClientLeft(c) PROVE [Contract!Next]_(Contract!vars)
    BY <1>2, <2>2, LeaveIsContract
  <2>3. ASSUME NEW c \in Client, ClientTick(c) PROVE [Contract!Next]_(Contract!vars)
    BY <1>2, <2>3, AnswerIsContract
  <2>4. CASE Ping
    BY <1>2, <2>4, PingIsContract
  <2>5. CASE Kick
    BY <1>2, <2>5, KickIsContract
  <2>6. CASE Tick
    BY <1>2, <2>6, TickIsContract DEF Contract!Next
  <2>7. CASE UNCHANGED vars
    BY <2>7 DEF vars, kaVars, Contract!vars, ClientStatus, ClientAge
  <2> QED BY <1>2, <2>1, <2>2, <2>3, <2>4, <2>5, <2>6, <2>7 DEF Next
<1> QED BY <1>1, <1>2, ClientsInvariant, PTL DEF Spec, ImplementsContract, Contract!Spec
============================================================================
