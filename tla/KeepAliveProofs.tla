-------------------------- MODULE KeepAliveProofs --------------------------
(***************************************************************************)
(* What the handlers of the keep-alive component preserve, for any clients *)
(* and intervals, whoever calls them: lists in the order of their ages,    *)
(* timers that fire before anybody is overdue, and an index that finds the *)
(* element it names.                                                       *)
(***************************************************************************)
EXTENDS KeepAlive, WellFoundedInduction, SequenceTheorems, FiniteSetTheorems, TLAPS

\* Oldest first.
Sorted(l) == \A i, j \in DOMAIN l : i <= j => l[i].age >= l[j].age

\* The timer fires before an item has been in the list for the interval.
InTime(l, timer, interval) == \A i \in DOMAIN l : timer + l[i].age <= interval

Once(l, c) == \E i \in DOMAIN l : Positions(l, c) = {i}

\* The index names a list the client is in.
Indexed(c) ==
  /\ listIndex[c] = "ping" => Positions(pingList, c) # {}
  /\ listIndex[c] = "wait" => Positions(waitList, c) # {}

\* The client is in the list its index names, once, and in no other.
Exact(c) ==
  /\ IF listIndex[c] = "ping" THEN Once(pingList, c) ELSE Positions(pingList, c) = {}
  /\ IF listIndex[c] = "wait" THEN Once(waitList, c) ELSE Positions(waitList, c) = {}

KeepAliveInv ==
  /\ KeepAliveTypeOK
  /\ \A c \in Client : Indexed(c)
  /\ Sorted(pingList) /\ InTime(pingList, listTimer, Interval)
  /\ Sorted(waitList) /\ InTime(waitList, waitTimer, WaitInterval)

----------------------------------------------------------------------------
(* Lists *)

\* m is l without its element i.
IsWithout(m, l, i) ==
  /\ m \in Seq(Item)
  /\ Len(m) = Len(l) - 1
  /\ \A k \in 1..Len(m) : m[k] = IF k < i THEN l[k] ELSE l[k + 1]

LEMMA RemoveAtIsWithout ==
  ASSUME NEW l \in Seq(Item), NEW i \in 1..Len(l)
  PROVE  IsWithout(RemoveAt(l, i), l, i)
<1> DEFINE a == SubSeq(l, 1, i - 1)
           b == SubSeq(l, i + 1, Len(l))
<1>1. Len(l) \in Nat /\ \A k \in 1..Len(l) : l[k] \in Item
  BY LenProperties, ElementOfSeq
<1>2. /\ a \in Seq(Item) /\ Len(a) = i - 1
      /\ \A k \in 1..(i - 1) : a[k] = l[k]
  <2>1. \A k \in 1..(i - 1) : l[k] \in Item
    BY <1>1
  <2> QED BY <1>1, <2>1, SubSeqProperties
<1>3. /\ b \in Seq(Item) /\ Len(b) = Len(l) - i
      /\ \A k \in 1..(Len(l) - i) : b[k] = l[i + k]
  <2>1. \A k \in (i + 1)..Len(l) : l[k] \in Item
    BY <1>1
  <2> QED BY <1>1, <2>1, SubSeqProperties
<1> HIDE DEF a, b
<1>4. /\ a \o b \in Seq(Item) /\ Len(a \o b) = Len(l) - 1
      /\ \A k \in 1..(Len(l) - 1) : (a \o b)[k] = IF k <= i - 1 THEN a[k] ELSE b[k - (i - 1)]
  <2>1. Len(a) + Len(b) = Len(l) - 1
    BY <1>1, <1>2, <1>3
  <2>2. /\ a \o b \in Seq(Item) /\ Len(a \o b) = Len(a) + Len(b)
        /\ \A k \in 1..(Len(a) + Len(b)) :
              (a \o b)[k] = IF k <= Len(a) THEN a[k] ELSE b[k - Len(a)]
    BY <1>2, <1>3, ConcatProperties
  <2> QED BY <1>2, <2>1, <2>2
<1>5. \A k \in 1..(Len(l) - 1) : (a \o b)[k] = IF k < i THEN l[k] ELSE l[k + 1]
  <2> SUFFICES ASSUME NEW k \in 1..(Len(l) - 1)
               PROVE  (a \o b)[k] = IF k < i THEN l[k] ELSE l[k + 1]
    OBVIOUS
  <2>1. CASE k < i
    BY <1>1, <1>2, <1>4, <2>1
  <2>2. CASE ~(k < i)
    <3>1. k - (i - 1) \in 1..(Len(l) - i) /\ i + (k - (i - 1)) = k + 1
      BY <1>1, <2>2
    <3>2. (a \o b)[k] = b[k - (i - 1)]
      BY <1>1, <1>4, <2>2
    <3> QED BY <1>3, <2>2, <3>1, <3>2
  <2> QED BY <2>1, <2>2
<1> QED BY <1>4, <1>5 DEF IsWithout, RemoveAt, a, b

LEMMA TailIsWithout ==
  ASSUME NEW l \in Seq(Item), l # <<>>
  PROVE  IsWithout(Tail(l), l, 1) /\ 1 \in 1..Len(l) /\ Head(l) = l[1]
<1>1. Len(l) \in Nat \ {0}
  BY EmptySeq
<1>2. /\ Tail(l) \in Seq(Item) /\ Len(Tail(l)) = Len(l) - 1
      /\ \A k \in 1..Len(Tail(l)) : Tail(l)[k] = l[k + 1]
  BY HeadTailProperties
<1> QED BY <1>1, <1>2 DEF IsWithout

LEMMA WithoutKeeps ==
  ASSUME NEW l \in Seq(Item), NEW i \in 1..Len(l), NEW m, IsWithout(m, l, i)
  PROVE  /\ Sorted(l) => Sorted(m)
         /\ \A t \in Int, n \in Int : InTime(l, t, n) => InTime(m, t, n)
         /\ \A d \in Client : d # l[i].player =>
              /\ Positions(m, d) = {} <=> Positions(l, d) = {}
              /\ Once(l, d) => Once(m, d)
         /\ Once(l, l[i].player) => Positions(m, l[i].player) = {}
<1>1. /\ Len(l) \in Nat /\ DOMAIN l = 1..Len(l) /\ DOMAIN m = 1..Len(m)
      /\ Len(m) = Len(l) - 1
  BY LenProperties DEF IsWithout
<1>2. \A k \in DOMAIN m : m[k] = l[IF k < i THEN k ELSE k + 1]
  BY <1>1 DEF IsWithout
<1>3. \A k \in DOMAIN l : k # i =>
         LET j == IF k < i THEN k ELSE k - 1 IN j \in DOMAIN m /\ m[j] = l[k]
  BY <1>1, <1>2
<1>4. Sorted(l) => Sorted(m)
  <2>1. \A j, k \in DOMAIN m : j <= k =>
           LET p == IF j < i THEN j ELSE j + 1
               q == IF k < i THEN k ELSE k + 1
           IN p \in DOMAIN l /\ q \in DOMAIN l /\ p <= q
    BY <1>1
  <2> QED BY <1>2, <2>1 DEF Sorted
<1>5. \A t \in Int, n \in Int : InTime(l, t, n) => InTime(m, t, n)
  BY <1>1, <1>2 DEF InTime
<1>6. ASSUME NEW d \in Client, d # l[i].player
      PROVE  /\ Positions(m, d) = {} <=> Positions(l, d) = {}
             /\ Once(l, d) => Once(m, d)
  <2>1. ASSUME NEW k \in Positions(m, d)
        PROVE  (IF k < i THEN k ELSE k + 1) \in Positions(l, d)
    BY <1>1, <1>2 DEF Positions
  <2>2. ASSUME NEW k \in Positions(l, d)
        PROVE  (IF k < i THEN k ELSE k - 1) \in Positions(m, d)
    BY <1>1, <1>3, <1>6 DEF Positions
  <2>3. Positions(m, d) = {} <=> Positions(l, d) = {}
    BY <2>1, <2>2
  <2>4. ASSUME NEW k \in DOMAIN l, Positions(l, d) = {k} PROVE Once(m, d)
    <3> DEFINE j == IF k < i THEN k ELSE k - 1
    <3>1. j \in Positions(m, d) /\ j \in DOMAIN m
      BY <2>2, <2>4 DEF Positions
    <3>2. \A h \in Positions(m, d) : (IF h < i THEN h ELSE h + 1) = k /\ h \in 1..Len(m)
      BY <1>1, <2>1, <2>4 DEF Positions
    <3>3. \A h \in Positions(m, d) : h = j
      BY <1>1, <3>2
    <3>4. Positions(m, d) = {j}
      BY <3>1, <3>3
    <3> QED BY <3>1, <3>4 DEF Once
  <2> QED BY <2>3, <2>4 DEF Once
<1>7. ASSUME Once(l, l[i].player) PROVE Positions(m, l[i].player) = {}
  <2>1. i \in Positions(l, l[i].player)
    BY <1>1 DEF Positions
  <2>2. Positions(l, l[i].player) = {i}
    BY <1>7, <2>1 DEF Once
  <2>3. \A k \in DOMAIN m : (IF k < i THEN k ELSE k + 1) \in DOMAIN l \ {i}
    BY <1>1
  <2> QED BY <1>2, <2>2, <2>3 DEF Positions
<1> QED BY <1>4, <1>5, <1>6, <1>7

LEMMA AppendKeeps ==
  ASSUME NEW l \in Seq(Item), NEW c \in Client
  PROVE  LET m == Append(l, NewItem(c)) IN
         /\ m \in Seq(Item)
         /\ Sorted(l) => Sorted(m)
         /\ \A w \in Nat : \A t \in 0..w : InTime(l, t, w) => InTime(m, t, w)
         /\ \A d \in Client \ {c} :
              Positions(m, d) = Positions(l, d) /\ (Once(l, d) => Once(m, d))
         /\ Positions(m, c) # {}
         /\ Positions(l, c) = {} => Once(m, c)
<1> DEFINE m == Append(l, NewItem(c))
           n == Len(l) + 1
<1>1. NewItem(c) \in Item
  BY DEF NewItem, Item
<1>2. /\ m \in Seq(Item) /\ Len(l) \in Nat /\ DOMAIN l = 1..Len(l) /\ DOMAIN m = 1..n
      /\ \A k \in DOMAIN l : m[k] = l[k] /\ l[k] \in Item
      /\ m[n] = NewItem(c)
  BY <1>1, AppendProperties, LenProperties, ElementOfSeq
<1> HIDE DEF m
<1>3. \A k \in DOMAIN l : l[k].age \in Nat
  BY <1>2 DEF Item
<1>4. Sorted(l) => Sorted(m)
  BY <1>2, <1>3 DEF Sorted, NewItem
<1>5. \A w \in Nat : \A t \in 0..w : InTime(l, t, w) => InTime(m, t, w)
  BY <1>2 DEF InTime, NewItem
<1>6. \A d \in Client \ {c} : Positions(m, d) = Positions(l, d)
  BY <1>2 DEF Positions, NewItem
<1>7. \A d \in Client \ {c} : Once(l, d) => Once(m, d)
  BY <1>2, <1>6 DEF Once
<1>8. n \in Positions(m, c) /\ Positions(m, c) = Positions(l, c) \cup {n}
  BY <1>2 DEF Positions, NewItem
<1>9. Positions(l, c) = {} => Once(m, c)
  BY <1>2, <1>8 DEF Once
<1> QED BY <1>2, <1>4, <1>5, <1>6, <1>7, <1>8, <1>9 DEF m

LEMMA LastExists ==
  ASSUME NEW l \in Seq(Item), NEW c \in Client, Positions(l, c) # {}
  PROVE  /\ LastPosition(l, c) \in Positions(l, c)
         /\ LastPosition(l, c) \in 1..Len(l)
         /\ l[LastPosition(l, c)].player = c
         /\ \A j \in Positions(l, c) : j <= LastPosition(l, c)
<1> DEFINE S == {Len(l) - i : i \in Positions(l, c)}
<1>1. Len(l) \in Nat /\ DOMAIN l = 1..Len(l) /\ Positions(l, c) \subseteq 1..Len(l)
  BY LenProperties DEF Positions
<1>2. S \subseteq Nat /\ S # {}
  BY <1>1
<1>3. PICK k \in S : \A j \in S : k <= j
  <2> DEFINE R == OpToRel(<, Nat)
  <2>1. \A j, k \in Nat : j < k => <<j, k>> \in R
    BY DEF OpToRel
  <2>2. IsWellFoundedOn(R, Nat)
    BY NatLessThanWellFounded
  <2> HIDE DEF S, R
  <2>3. \E k \in S : \A j \in S : ~(<<j, k>> \in R)
    BY <1>2, <2>2, WFMin
  <2>4. PICK k \in S : \A j \in S : ~(<<j, k>> \in R)
    BY <2>3
  <2>5. \A j \in S : k <= j
    <3> SUFFICES ASSUME NEW j \in S PROVE k <= j
      OBVIOUS
    <3>1. j \in Nat /\ k \in Nat
      BY <1>2, <2>4
    <3>2. ~(j < k)
      BY <2>1, <2>4, <3>1
    <3> QED BY <3>1, <3>2
  <2> QED BY <2>4, <2>5
<1>4. PICK i \in Positions(l, c) : k = Len(l) - i
  BY <1>3
<1>5. \A j \in Positions(l, c) : j <= i
  <2>1. \A j \in Positions(l, c) : k <= Len(l) - j
    BY <1>3
  <2> QED BY <1>1, <1>4, <2>1
<1>6. /\ LastPosition(l, c) \in Positions(l, c)
      /\ \A j \in Positions(l, c) : j <= LastPosition(l, c)
  BY <1>5 DEF LastPosition
<1> QED BY <1>1, <1>6 DEF Positions

\* What a timer is reset to is in time for the whole list.
LEMMA TimerForInTime ==
  ASSUME NEW l \in Seq(Item), Sorted(l), NEW n \in Nat, NEW t \in Nat, InTime(l, t, n)
  PROVE  TimerFor(l, n) \in 0..n /\ InTime(l, TimerFor(l, n), n)
<1>1. Len(l) \in Nat /\ DOMAIN l = 1..Len(l) /\ \A k \in DOMAIN l : l[k].age \in Nat
  <2>1. Len(l) \in Nat /\ DOMAIN l = 1..Len(l)
    BY LenProperties
  <2>2. \A k \in DOMAIN l : l[k] \in Item
    BY <2>1, ElementOfSeq
  <2> QED BY <2>1, <2>2 DEF Item
<1>2. CASE l = <<>>
  <2>1. DOMAIN l = {}
    BY <1>1, <1>2, EmptySeq
  <2> QED BY <1>2, <2>1 DEF TimerFor, InTime
<1>3. CASE l # <<>>
  <2>1. 1 \in DOMAIN l /\ Head(l) = l[1]
    BY <1>1, <1>3, TailIsWithout
  <2>2. \A k \in DOMAIN l : l[k].age <= l[1].age
    BY <1>1, <2>1 DEF Sorted
  <2>3. l[1].age <= n
    BY <1>1, <2>1 DEF InTime
  <2> QED BY <1>1, <1>3, <2>1, <2>2, <2>3 DEF TimerFor, InTime
<1> QED BY <1>2, <1>3

----------------------------------------------------------------------------
(* The handlers *)

LEMMA NewKeepAliveInv == NewKeepAlive => KeepAliveInv /\ \A c \in Client : Exact(c)
<1> SUFFICES ASSUME NewKeepAlive PROVE KeepAliveInv /\ \A c \in Client : Exact(c)
  OBVIOUS
<1>1. /\ pingList \in Seq(Item) /\ waitList \in Seq(Item)
      /\ DOMAIN pingList = {} /\ DOMAIN waitList = {}
  BY EmptySeq DEF NewKeepAlive
<1>2. KeepAliveTypeOK
  <2>1. listIndex \in [Client -> Where] /\ crashed \in BOOLEAN
    BY DEF NewKeepAlive, Where
  <2>2. listTimer \in 0..Interval /\ waitTimer \in 0..WaitInterval
    BY IntervalAssumption DEF NewKeepAlive
  <2> QED BY <1>1, <2>1, <2>2 DEF KeepAliveTypeOK
<1>3. \A c \in Client : Indexed(c) /\ Exact(c)
  BY <1>1 DEF NewKeepAlive, Indexed, Exact, Positions
<1>4. /\ Sorted(pingList) /\ InTime(pingList, listTimer, Interval)
      /\ Sorted(waitList) /\ InTime(waitList, waitTimer, WaitInterval)
  BY <1>1 DEF Sorted, InTime
<1> QED BY <1>2, <1>3, <1>4 DEF KeepAliveInv

\* A handler leaves the other clients where they are.
OthersExact(c) == \A d \in Client \ {c} : Exact(d) => Exact(d)'

LEMMA PushKeeps ==
  ASSUME KeepAliveInv, NEW c \in Client, pushPlayer(c)
  PROVE  /\ KeepAliveInv' /\ OthersExact(c)
         /\ Exact(c) /\ listIndex[c] = "none" => Exact(c)'
<1> USE IntervalAssumption
<1>1. /\ pingList' \in Seq(Item) /\ Sorted(pingList)' /\ InTime(pingList, listTimer, Interval)'
      /\ \A d \in Client \ {c} :
           Positions(pingList, d)' = Positions(pingList, d) /\ (Once(pingList, d) => Once(pingList, d)')
      /\ Positions(pingList, c)' # {}
      /\ Positions(pingList, c) = {} => Once(pingList, c)'
  BY AppendKeeps DEF pushPlayer, KeepAliveInv, KeepAliveTypeOK
<1>2. /\ UNCHANGED <<waitList, listTimer, waitTimer, crashed>>
      /\ listIndex' \in [Client -> Where] /\ listIndex'[c] = "ping"
      /\ \A d \in Client \ {c} : listIndex'[d] = listIndex[d]
  BY DEF pushPlayer, KeepAliveInv, KeepAliveTypeOK, Where
<1>3. KeepAliveTypeOK'
  BY <1>1, <1>2 DEF KeepAliveInv, KeepAliveTypeOK
<1>4. \A d \in Client : Indexed(d)'
  BY <1>1, <1>2 DEF KeepAliveInv, Indexed
<1>5. OthersExact(c)
  BY <1>1, <1>2 DEF OthersExact, Exact
<1>6. Exact(c) /\ listIndex[c] = "none" => Exact(c)'
  BY <1>1, <1>2 DEF Exact
<1> QED BY <1>1, <1>2, <1>3, <1>4, <1>5, <1>6 DEF KeepAliveInv

\* Taking a client's last element out of list l, if its index (at) names the
\* list (here): what removePlayer and tickPlayer do to either list.
Shortened(m, l, t, n, c, at, here) ==
  /\ m \in Seq(Item) /\ Sorted(m) /\ InTime(m, t, n)
  /\ TimerFor(m, n) \in 0..n /\ InTime(m, TimerFor(m, n), n)
  /\ \A d \in Client \ {c} :
       /\ Positions(m, d) = {} <=> Positions(l, d) = {}
       /\ Once(l, d) => Once(m, d)
  /\ (IF at = here THEN Once(l, c) ELSE Positions(l, c) = {}) => Positions(m, c) = {}

LEMMA TakenOut ==
  ASSUME NEW l \in Seq(Item), Sorted(l), NEW n \in Nat, NEW t \in 0..n, InTime(l, t, n),
         NEW c \in Client, NEW at, NEW here, at = here => Positions(l, c) # {},
         NEW m, m = IF at = here THEN RemoveAt(l, LastPosition(l, c)) ELSE l
  PROVE  Shortened(m, l, t, n, c, at, here)
<1>1. /\ m \in Seq(Item) /\ Sorted(m) /\ InTime(m, t, n)
      /\ \A d \in Client \ {c} :
            /\ Positions(m, d) = {} <=> Positions(l, d) = {}
            /\ Once(l, d) => Once(m, d)
      /\ (IF at = here THEN Once(l, c) ELSE Positions(l, c) = {}) => Positions(m, c) = {}
  <2>1. CASE at # here
    BY <2>1
  <2>2. CASE at = here
    <3> DEFINE i == LastPosition(l, c)
    <3>1. i \in 1..Len(l) /\ l[i].player = c
      BY <2>2, LastExists
    <3>2. IsWithout(m, l, i)
      BY <2>2, <3>1, RemoveAtIsWithout
    <3>3. m \in Seq(Item)
      BY <3>2 DEF IsWithout
    <3> HIDE DEF i
    <3>4. /\ Sorted(l) => Sorted(m)
          /\ \A x \in Int, y \in Int : InTime(l, x, y) => InTime(m, x, y)
          /\ \A d \in Client : d # c =>
               /\ Positions(m, d) = {} <=> Positions(l, d) = {}
               /\ Once(l, d) => Once(m, d)
          /\ Once(l, c) => Positions(m, c) = {}
      BY <3>1, <3>2, WithoutKeeps
    <3>5. t \in Int /\ n \in Int
      OBVIOUS
    <3> QED BY <2>2, <3>3, <3>4, <3>5
  <2> QED BY <2>1, <2>2
<1>2. TimerFor(m, n) \in 0..n /\ InTime(m, TimerFor(m, n), n)
  BY <1>1, TimerForInTime
<1> QED BY <1>1, <1>2 DEF Shortened

LEMMA RemoveKeeps ==
  ASSUME KeepAliveInv, NEW c \in Client, removePlayer(c)
  PROVE  /\ KeepAliveInv' /\ OthersExact(c) /\ listIndex'[c] = "none"
         /\ Exact(c) => Exact(c)'
<1> USE IntervalAssumption
<1>0. KeepAliveTypeOK /\ Indexed(c)
  BY DEF KeepAliveInv
<1>1. Shortened(pingList', pingList, listTimer, Interval, c, listIndex[c], "ping")
  <2>1. pingList' = IF listIndex[c] = "ping"
                    THEN RemoveAt(pingList, LastPosition(pingList, c)) ELSE pingList
    BY DEF removePlayer, PingListWithout
  <2>2. listIndex[c] = "ping" => Positions(pingList, c) # {}
    BY <1>0 DEF Indexed
  <2>3. /\ pingList \in Seq(Item) /\ Sorted(pingList) /\ InTime(pingList, listTimer, Interval)
        /\ Interval \in Nat /\ listTimer \in 0..Interval
    BY DEF KeepAliveInv, KeepAliveTypeOK
  <2> QED BY <2>1, <2>2, <2>3, TakenOut
<1>2. Shortened(waitList', waitList, waitTimer, WaitInterval, c, listIndex[c], "wait")
  <2>1. waitList' = IF listIndex[c] = "wait"
                    THEN RemoveAt(waitList, LastPosition(waitList, c)) ELSE waitList
    BY DEF removePlayer, WaitListWithout
  <2>2. listIndex[c] = "wait" => Positions(waitList, c) # {}
    BY <1>0 DEF Indexed
  <2>3. /\ waitList \in Seq(Item) /\ Sorted(waitList) /\ InTime(waitList, waitTimer, WaitInterval)
        /\ WaitInterval \in Nat /\ waitTimer \in 0..WaitInterval
    BY DEF KeepAliveInv, KeepAliveTypeOK
  <2> QED BY <2>1, <2>2, <2>3, TakenOut
<1>3. /\ listIndex' \in [Client -> Where] /\ listIndex'[c] = "none"
      /\ \A d \in Client \ {c} : listIndex'[d] = listIndex[d]
      /\ listTimer' = listTimer \/ listTimer' = TimerFor(pingList', Interval)
      /\ waitTimer' = waitTimer \/ waitTimer' = TimerFor(waitList', WaitInterval)
      /\ crashed' = crashed
  BY <1>0 DEF removePlayer, KeepAliveTypeOK, Where
<1>4. KeepAliveTypeOK'
  BY <1>0, <1>1, <1>2, <1>3 DEF KeepAliveTypeOK, Shortened
<1>5. \A d \in Client : Indexed(d)'
  BY <1>1, <1>2, <1>3 DEF KeepAliveInv, Indexed, Shortened
<1>6. OthersExact(c)
  BY <1>1, <1>2, <1>3 DEF OthersExact, Exact, Shortened
<1>7. Exact(c) => Exact(c)'
  BY <1>1, <1>2, <1>3 DEF Exact, Shortened
<1>8. InTime(pingList', listTimer', Interval) /\ InTime(waitList', waitTimer', WaitInterval)
  BY <1>1, <1>2, <1>3 DEF Shortened
<1> QED BY <1>1, <1>2, <1>3, <1>4, <1>5, <1>6, <1>7, <1>8 DEF KeepAliveInv, Shortened

LEMMA TickKeeps ==
  ASSUME KeepAliveInv, NEW c \in Client, tickKnownPlayer(c)
  PROVE  /\ KeepAliveInv' /\ OthersExact(c) /\ listIndex'[c] = "ping"
         /\ Exact(c) /\ listIndex[c] # "ping" => Exact(c)'
<1> USE IntervalAssumption
<1>0. KeepAliveTypeOK /\ Indexed(c)
  BY DEF KeepAliveInv
<1>1. /\ pingList' \in Seq(Item) /\ Sorted(pingList') /\ InTime(pingList', listTimer, Interval)
      /\ \A d \in Client \ {c} :
           Positions(pingList', d) = Positions(pingList, d) /\ (Once(pingList, d) => Once(pingList', d))
      /\ Positions(pingList', c) # {}
      /\ Positions(pingList, c) = {} => Once(pingList', c)
  BY AppendKeeps DEF tickKnownPlayer, KeepAliveInv, KeepAliveTypeOK
<1>2. Shortened(waitList', waitList, waitTimer, WaitInterval, c, listIndex[c], "wait")
  <2>1. waitList' = IF listIndex[c] = "wait"
                    THEN RemoveAt(waitList, LastPosition(waitList, c)) ELSE waitList
    BY DEF tickKnownPlayer, WaitListWithout
  <2>2. listIndex[c] = "wait" => Positions(waitList, c) # {}
    BY <1>0 DEF Indexed
  <2>3. /\ waitList \in Seq(Item) /\ Sorted(waitList) /\ InTime(waitList, waitTimer, WaitInterval)
        /\ WaitInterval \in Nat /\ waitTimer \in 0..WaitInterval
    BY DEF KeepAliveInv, KeepAliveTypeOK
  <2> QED BY <2>1, <2>2, <2>3, TakenOut
<1>3. /\ listIndex' \in [Client -> Where] /\ listIndex'[c] = "ping"
      /\ \A d \in Client \ {c} : listIndex'[d] = listIndex[d]
      /\ waitTimer' = waitTimer \/ waitTimer' = TimerFor(waitList', WaitInterval)
      /\ listTimer' = listTimer /\ crashed' = crashed
  BY <1>0 DEF tickKnownPlayer, KeepAliveTypeOK, Where
<1>4. KeepAliveTypeOK'
  BY <1>0, <1>1, <1>2, <1>3 DEF KeepAliveTypeOK, Shortened
<1>5. \A d \in Client : Indexed(d)'
  BY <1>1, <1>2, <1>3 DEF KeepAliveInv, Indexed, Shortened
<1>6. OthersExact(c)
  BY <1>1, <1>2, <1>3 DEF OthersExact, Exact, Shortened
<1>7. Exact(c) /\ listIndex[c] # "ping" => Exact(c)'
  BY <1>1, <1>2, <1>3 DEF Exact, Shortened
<1> QED BY <1>1, <1>2, <1>3, <1>4, <1>5, <1>6, <1>7 DEF KeepAliveInv, Shortened

\* The head of l, c's element, is gone and the list's timer reset, which is what
\* pingPlayer and kickPlayer do.
HeadGone(m, l, n, c) ==
  /\ m \in Seq(Item) /\ Sorted(m)
  /\ TimerFor(m, n) \in 0..n /\ InTime(m, TimerFor(m, n), n)
  /\ c \in Client /\ 1 \in Positions(l, c)
  /\ \A d \in Client \ {c} :
       /\ Positions(m, d) = {} <=> Positions(l, d) = {}
       /\ Once(l, d) => Once(m, d)
  /\ Once(l, c) => Positions(m, c) = {}

LEMMA TailHeadGone ==
  ASSUME NEW l \in Seq(Item), l # <<>>, Sorted(l), NEW n \in Nat, NEW t \in 0..n, InTime(l, t, n)
  PROVE  HeadGone(Tail(l), l, n, Head(l).player)
<1>1. IsWithout(Tail(l), l, 1) /\ 1 \in 1..Len(l) /\ Head(l) = l[1]
  BY TailIsWithout
<1>2. l[1] \in Item /\ DOMAIN l = 1..Len(l)
  BY <1>1, ElementOfSeq, LenProperties
<1>3. Tail(l) \in Seq(Item)
  BY <1>1 DEF IsWithout
<1>4. l[1].player \in Client /\ 1 \in Positions(l, l[1].player)
  BY <1>1, <1>2 DEF Item, Positions
<1>5. /\ Sorted(l) => Sorted(Tail(l))
      /\ \A x \in Int, y \in Int : InTime(l, x, y) => InTime(Tail(l), x, y)
      /\ \A d \in Client : d # l[1].player =>
           /\ Positions(Tail(l), d) = {} <=> Positions(l, d) = {}
           /\ Once(l, d) => Once(Tail(l), d)
      /\ Once(l, l[1].player) => Positions(Tail(l), l[1].player) = {}
  BY <1>1, WithoutKeeps
<1>6. Sorted(Tail(l)) /\ InTime(Tail(l), t, n)
  <2>1. t \in Int /\ n \in Int
    OBVIOUS
  <2> QED BY <1>5, <2>1
<1>7. TimerFor(Tail(l), n) \in 0..n /\ InTime(Tail(l), TimerFor(Tail(l), n), n)
  <2>1. t \in Nat
    OBVIOUS
  <2> QED BY <1>3, <1>6, <2>1, TimerForInTime
<1> QED BY <1>1, <1>3, <1>4, <1>5, <1>6, <1>7 DEF HeadGone

LEMMA PingKeeps ==
  ASSUME KeepAliveInv, pingPlayer
  PROVE  /\ KeepAliveInv' /\ \A d \in Client : Exact(d) => Exact(d)'
         /\ pingList # <<>> => Head(pingList).player \in Client
<1> USE IntervalAssumption
<1>0. KeepAliveTypeOK
  BY DEF KeepAliveInv
<1>1. CASE pingList = <<>>
  <2>1. /\ UNCHANGED <<pingList, waitList, listIndex, waitTimer, crashed>>
        /\ listTimer' = TimerFor(pingList, Interval)
    BY <1>1 DEF pingPlayer
  <2>2. TimerFor(pingList, Interval) \in 0..Interval /\ InTime(pingList, TimerFor(pingList, Interval), Interval)
    <3>1. /\ pingList \in Seq(Item) /\ Sorted(pingList) /\ InTime(pingList, listTimer, Interval)
          /\ Interval \in Nat /\ listTimer \in Nat
      BY DEF KeepAliveInv, KeepAliveTypeOK
    <3> QED BY <3>1, TimerForInTime
  <2>3. KeepAliveTypeOK' /\ InTime(pingList, listTimer, Interval)'
    BY <1>0, <2>1, <2>2 DEF KeepAliveTypeOK
  <2>4. \A d \in Client : Indexed(d)' = Indexed(d) /\ Exact(d)' = Exact(d)
    BY <2>1 DEF Indexed, Exact
  <2> QED BY <1>1, <2>1, <2>3, <2>4 DEF KeepAliveInv
<1>2. CASE pingList # <<>>
  <2> DEFINE c == Head(pingList).player
  <2>1. /\ pingList' = Tail(pingList) /\ waitList' = Append(waitList, NewItem(c))
        /\ listIndex' = [listIndex EXCEPT ![c] = "wait"]
        /\ listTimer' = TimerFor(pingList', Interval) /\ UNCHANGED <<waitTimer, crashed>>
    BY <1>2 DEF pingPlayer, PingFirst
  <2>2. HeadGone(pingList', pingList, Interval, c)
    <3>1. /\ pingList \in Seq(Item) /\ Sorted(pingList) /\ InTime(pingList, listTimer, Interval)
          /\ Interval \in Nat /\ listTimer \in 0..Interval
      BY DEF KeepAliveInv, KeepAliveTypeOK
    <3>2. HeadGone(Tail(pingList), pingList, Interval, Head(pingList).player)
      BY <1>2, <3>1, TailHeadGone
    <3> QED BY <2>1, <3>2
  <2> HIDE DEF c
  <2>3. /\ waitList' \in Seq(Item) /\ Sorted(waitList') /\ InTime(waitList', waitTimer, WaitInterval)
        /\ \A d \in Client \ {c} :
             Positions(waitList', d) = Positions(waitList, d) /\ (Once(waitList, d) => Once(waitList', d))
        /\ Positions(waitList', c) # {}
        /\ Positions(waitList, c) = {} => Once(waitList', c)
    <3>1. /\ waitList \in Seq(Item) /\ Sorted(waitList) /\ InTime(waitList, waitTimer, WaitInterval)
          /\ WaitInterval \in Nat /\ waitTimer \in 0..WaitInterval
      BY DEF KeepAliveInv, KeepAliveTypeOK
    <3> QED BY <2>1, <2>2, <3>1, AppendKeeps DEF HeadGone
  <2>4. /\ listIndex' \in [Client -> Where] /\ listIndex'[c] = "wait"
        /\ \A d \in Client \ {c} : listIndex'[d] = listIndex[d]
    BY <1>0, <2>1, <2>2 DEF KeepAliveTypeOK, Where, HeadGone
  <2>5. KeepAliveTypeOK'
    BY <1>0, <2>1, <2>2, <2>3, <2>4 DEF KeepAliveTypeOK, HeadGone
  <2>6. \A d \in Client : Indexed(d)'
    BY <2>2, <2>3, <2>4 DEF KeepAliveInv, Indexed, HeadGone
  <2>7. \A d \in Client : Exact(d) => Exact(d)'
    BY <2>2, <2>3, <2>4 DEF Exact, HeadGone
  <2>8. Head(pingList).player \in Client
    BY <2>2 DEF HeadGone, c
  <2> QED BY <2>1, <2>2, <2>3, <2>5, <2>6, <2>7, <2>8 DEF KeepAliveInv, HeadGone
<1> QED BY <1>1, <1>2

LEMMA KickKeeps ==
  ASSUME KeepAliveInv, kickPlayer
  PROVE  /\ KeepAliveInv' /\ \A d \in Client : Exact(d) => Exact(d)'
         /\ waitList # <<>> => Head(waitList).player \in Client
         /\ \A d \in Client : \/ listIndex'[d] = listIndex[d]
                              \/ listIndex[d] = "wait" /\ listIndex'[d] = "orphan"
<1> USE IntervalAssumption
<1>0. KeepAliveTypeOK
  BY DEF KeepAliveInv
<1>9. /\ waitList \in Seq(Item) /\ Sorted(waitList) /\ InTime(waitList, waitTimer, WaitInterval)
      /\ WaitInterval \in Nat /\ waitTimer \in Nat /\ waitTimer \in 0..WaitInterval
  BY DEF KeepAliveInv, KeepAliveTypeOK
<1>1. CASE waitList = <<>>
  <2>1. /\ UNCHANGED <<pingList, waitList, listIndex, listTimer, crashed>>
        /\ waitTimer' = TimerFor(waitList, WaitInterval)
    BY <1>1 DEF kickPlayer
  <2>2. /\ TimerFor(waitList, WaitInterval) \in 0..WaitInterval
        /\ InTime(waitList, TimerFor(waitList, WaitInterval), WaitInterval)
    BY <1>9, TimerForInTime
  <2>3. KeepAliveTypeOK' /\ InTime(waitList, waitTimer, WaitInterval)'
    BY <1>0, <2>1, <2>2 DEF KeepAliveTypeOK
  <2>4. \A d \in Client : Indexed(d)' = Indexed(d) /\ Exact(d)' = Exact(d)
    BY <2>1 DEF Indexed, Exact
  <2>5. KeepAliveInv'
    BY <2>1, <2>3, <2>4 DEF KeepAliveInv
  <2>6. listIndex' = listIndex
    BY <2>1
  <2>7. \A d \in Client : listIndex'[d] = listIndex[d] /\ (Exact(d) => Exact(d)')
    BY ONLY <2>4, <2>6, Zenon
  <2> QED BY ONLY <1>1, <2>5, <2>7, Zenon
<1>2. CASE waitList # <<>>
  <2> DEFINE c == Head(waitList).player
  <2>1. /\ waitList' = Tail(waitList)
        /\ listIndex' = [listIndex EXCEPT ![c] =
             IF @ = "wait" /\ LastPosition(waitList, c) = 1 THEN "orphan" ELSE @]
        /\ waitTimer' = TimerFor(waitList', WaitInterval) /\ UNCHANGED <<pingList, listTimer, crashed>>
    BY <1>2 DEF kickPlayer, KickFirst
  <2>2. HeadGone(waitList', waitList, WaitInterval, c)
    <3>1. HeadGone(Tail(waitList), waitList, WaitInterval, Head(waitList).player)
      BY <1>2, <1>9, TailHeadGone
    <3> QED BY <2>1, <3>1
  <2> HIDE DEF c
  <2>3. LastPosition(waitList, c) \in Positions(waitList, c) /\ LastPosition(waitList, c) \in 1..Len(waitList)
    BY <1>9, <2>2, LastExists DEF HeadGone
  <2>4. LastPosition(waitList, c) # 1 => Positions(waitList', c) # {}
    <3> SUFFICES ASSUME LastPosition(waitList, c) # 1 PROVE Positions(waitList', c) # {}
      OBVIOUS
    <3>1. IsWithout(waitList', waitList, 1) /\ Len(waitList) \in Nat
      BY <1>2, <1>9, <2>1, TailIsWithout, LenProperties
    <3>2. DOMAIN waitList' = 1..(Len(waitList) - 1)
      BY <2>2, <3>1, LenProperties DEF IsWithout, HeadGone
    <3>3. LastPosition(waitList, c) - 1 \in Positions(waitList', c)
      BY <2>3, <3>1, <3>2 DEF IsWithout, Positions
    <3> QED BY <3>3
  <2>5. Once(waitList, c) => LastPosition(waitList, c) = 1
    BY <2>2, <2>3 DEF Once, HeadGone
  <2>6. /\ listIndex' \in [Client -> Where]
        /\ listIndex'[c] = IF listIndex[c] = "wait" /\ LastPosition(waitList, c) = 1
                           THEN "orphan" ELSE listIndex[c]
        /\ \A d \in Client \ {c} : listIndex'[d] = listIndex[d]
    BY <1>0, <2>1, <2>2 DEF KeepAliveTypeOK, Where, HeadGone
  <2>7. KeepAliveTypeOK'
    BY <1>0, <2>1, <2>2, <2>6 DEF KeepAliveTypeOK, HeadGone
  <2>8. \A d \in Client : Indexed(d)'
    BY <2>1, <2>2, <2>4, <2>6 DEF KeepAliveInv, Indexed, HeadGone
  <2>9. \A d \in Client : Exact(d) => Exact(d)'
    BY <2>1, <2>2, <2>5, <2>6 DEF Exact, HeadGone
  <2>10. Head(waitList).player \in Client
    BY <2>2 DEF HeadGone, c
  <2>11. \A d \in Client : \/ listIndex'[d] = listIndex[d]
                           \/ listIndex[d] = "wait" /\ listIndex'[d] = "orphan"
    <3> SUFFICES ASSUME NEW d \in Client
                 PROVE  \/ listIndex'[d] = listIndex[d]
                        \/ listIndex[d] = "wait" /\ listIndex'[d] = "orphan"
      OBVIOUS
    <3>1. CASE d = c
      BY ONLY <2>6, <3>1
    <3>2. CASE d # c
      BY ONLY <2>6, <3>2, d \in Client
    <3> QED BY <3>1, <3>2
  <2>12. KeepAliveInv'
    BY <2>1, <2>2, <2>7, <2>8 DEF KeepAliveInv, HeadGone
  <2> QED BY <2>9, <2>10, <2>11, <2>12
<1> QED BY <1>1, <1>2

LEMMA TimeKeeps ==
  ASSUME KeepAliveInv, Time
  PROVE  KeepAliveInv' /\ \A d \in Client : Exact(d) => Exact(d)'
<1> USE IntervalAssumption
<1>1. ASSUME NEW l \in Seq(Item), Sorted(l), NEW n \in Nat, NEW t \in 1..n, InTime(l, t, n)
      PROVE  /\ Aged(l) \in Seq(Item) /\ Sorted(Aged(l)) /\ InTime(Aged(l), t - 1, n)
             /\ \A d \in Client : Positions(Aged(l), d) = Positions(l, d) /\ (Once(l, d) => Once(Aged(l), d))
  <2>1. Len(l) \in Nat /\ DOMAIN l = 1..Len(l) /\ \A i \in 1..Len(l) : l[i] \in Item
    BY <1>1, LenProperties, ElementOfSeq
  <2>2. /\ DOMAIN Aged(l) = 1..Len(l)
        /\ \A i \in 1..Len(l) :
             /\ Aged(l)[i] \in Item /\ l[i].age \in Nat
             /\ Aged(l)[i].age = l[i].age + 1 /\ Aged(l)[i].player = l[i].player
    BY <2>1 DEF Aged, Item
  <2>3. Aged(l) \in Seq(Item)
    <3>1. Aged(l) = [i \in 1..Len(l) |-> Aged(l)[i]]
      BY <2>1 DEF Aged
    <3>2. [i \in 1..Len(l) |-> Aged(l)[i]] \in [1..Len(l) -> Item]
      BY <2>2
    <3>3. Aged(l) \in [1..Len(l) -> Item]
      BY <3>1, <3>2
    <3>4. Len(l) \in Nat
      BY <2>1
    <3> QED BY ONLY <3>3, <3>4, SeqDef, Zenon
  <2>4. Sorted(Aged(l)) /\ InTime(Aged(l), t - 1, n)
    <3>1. \A i, j \in 1..Len(l) : i <= j => l[i].age >= l[j].age
      BY <1>1, <2>1 DEF Sorted
    <3>2. \A i \in 1..Len(l) : t + l[i].age <= n
      BY <1>1, <2>1 DEF InTime
    <3>3. Sorted(Aged(l))
      BY ONLY <2>1, <2>2, <3>1 DEF Sorted
    <3>4. t \in Int /\ n \in Int
      OBVIOUS
    <3> HIDE DEF Aged
    <3> QED BY ONLY <2>2, <3>2, <3>3, <3>4 DEF InTime
  <2>5. \A d \in Client : Positions(Aged(l), d) = Positions(l, d)
    BY <2>1, <2>2 DEF Positions
  <2>6. \A d \in Client : Once(l, d) => Once(Aged(l), d)
    BY <2>1, <2>2, <2>5 DEF Once
  <2> QED BY <2>3, <2>4, <2>5, <2>6
<1>2. /\ pingList \in Seq(Item) /\ Sorted(pingList) /\ InTime(pingList, listTimer, Interval)
      /\ Interval \in Nat /\ listTimer \in 1..Interval
      /\ waitList \in Seq(Item) /\ Sorted(waitList) /\ InTime(waitList, waitTimer, WaitInterval)
      /\ WaitInterval \in Nat /\ waitTimer \in 1..WaitInterval
  BY DEF KeepAliveInv, KeepAliveTypeOK, Time
<1>3. /\ pingList' = Aged(pingList) /\ waitList' = Aged(waitList)
      /\ listTimer' = listTimer - 1 /\ waitTimer' = waitTimer - 1 /\ UNCHANGED <<listIndex, crashed>>
  BY DEF Time
<1>4. /\ pingList' \in Seq(Item) /\ Sorted(pingList') /\ InTime(pingList', listTimer', Interval)
      /\ \A d \in Client : Positions(pingList', d) = Positions(pingList, d) /\ (Once(pingList, d) => Once(pingList', d))
  BY <1>1, <1>2, <1>3
<1>5. /\ waitList' \in Seq(Item) /\ Sorted(waitList') /\ InTime(waitList', waitTimer', WaitInterval)
      /\ \A d \in Client : Positions(waitList', d) = Positions(waitList, d) /\ (Once(waitList, d) => Once(waitList', d))
  BY <1>1, <1>2, <1>3
<1>6. KeepAliveTypeOK'
  BY <1>2, <1>3, <1>4, <1>5 DEF KeepAliveInv, KeepAliveTypeOK
<1>7. \A d \in Client : Indexed(d)' /\ (Exact(d) => Exact(d)')
  BY <1>3, <1>4, <1>5 DEF KeepAliveInv, Indexed, Exact
<1> QED BY <1>4, <1>5, <1>6, <1>7 DEF KeepAliveInv

\* Being in a list once, or not at all, as a number.
LEMMA CountOf ==
  ASSUME NEW l \in Seq(Item), NEW c \in Client
  PROVE  /\ Positions(l, c) = {} <=> Count(l, c) = 0
         /\ Once(l, c) => Count(l, c) = 1
<1>1. IsFiniteSet(Positions(l, c))
  <2>1. Len(l) \in Nat /\ Positions(l, c) \subseteq 1..Len(l)
    BY LenProperties DEF Positions
  <2>2. IsFiniteSet(1..Len(l))
    <3>1. 1 \in Int /\ Len(l) \in Int
      BY <2>1
    <3> QED BY <3>1, FS_Interval
  <2> QED BY <2>1, <2>2, FS_Subset
<1> QED BY <1>1, FS_EmptySet, FS_Singleton DEF Count, Once

----------------------------------------------------------------------------
(* Ages: no handler touches the age of another client. *)

AgeIn(l, c) == l[LastPosition(l, c)].age

LEMMA OnlyPosition ==
  ASSUME NEW l, NEW c, NEW i \in Int, Positions(l, c) = {i}
  PROVE  LastPosition(l, c) = i
BY DEF LastPosition

LEMMA WithoutAge ==
  ASSUME NEW l \in Seq(Item), NEW i \in 1..Len(l), NEW m, IsWithout(m, l, i),
         NEW d \in Client, d # l[i].player, Once(l, d)
  PROVE  AgeIn(m, d) = AgeIn(l, d)
<1>1. PICK k \in DOMAIN l : Positions(l, d) = {k}
  BY DEF Once
<1>2. Len(l) \in Nat /\ DOMAIN l = 1..Len(l) /\ DOMAIN m = 1..Len(m) /\ Len(m) = Len(l) - 1
  BY LenProperties DEF IsWithout
<1>3. k # i /\ k \in 1..Len(l)
  BY <1>1, <1>2 DEF Positions
<1> DEFINE j == IF k < i THEN k ELSE k - 1
<1>4. j \in 1..Len(m) /\ m[j] = l[k]
  BY <1>2, <1>3 DEF IsWithout
<1>5. \A h \in Positions(m, d) : h \in 1..Len(m) /\ (IF h < i THEN h ELSE h + 1) = k
  <2>1. \A h \in DOMAIN m : m[h] = l[IF h < i THEN h ELSE h + 1]
    BY <1>2 DEF IsWithout
  <2> SUFFICES ASSUME NEW h \in Positions(m, d)
               PROVE  h \in 1..Len(m) /\ (IF h < i THEN h ELSE h + 1) = k
    OBVIOUS
  <2>2. h \in 1..Len(m) /\ m[h].player = d
    BY <1>2 DEF Positions
  <2>3. (IF h < i THEN h ELSE h + 1) \in Positions(l, d)
    BY <1>2, <2>1, <2>2 DEF Positions
  <2> QED BY <1>1, <2>2, <2>3
<1>6. j \in Positions(m, d)
  BY <1>1, <1>2, <1>4 DEF Positions
<1>7. \A h \in Positions(m, d) : h = j
  BY <1>2, <1>3, <1>5
<1>8. Positions(m, d) = {j} /\ j \in Int
  BY <1>2, <1>4, <1>6, <1>7
<1> QED BY <1>1, <1>2, <1>3, <1>4, <1>8, OnlyPosition DEF AgeIn

LEMMA AppendAge ==
  ASSUME NEW l \in Seq(Item), NEW c \in Client, NEW m, m = Append(l, NewItem(c))
  PROVE  /\ \A d \in Client \ {c} : Once(l, d) => AgeIn(m, d) = AgeIn(l, d)
         /\ Positions(l, c) = {} => AgeIn(m, c) = 0
<1> DEFINE n == Len(l) + 1
<1>1. /\ Len(l) \in Nat /\ DOMAIN l = 1..Len(l) /\ DOMAIN m = 1..n
      /\ \A k \in DOMAIN l : m[k] = l[k]
      /\ m[n] = NewItem(c)
  <2>1. NewItem(c) \in Item
    BY DEF NewItem, Item
  <2> QED BY <2>1, AppendProperties, LenProperties
<1>2. ASSUME NEW d \in Client \ {c}, Once(l, d) PROVE AgeIn(m, d) = AgeIn(l, d)
  <2>1. PICK k \in DOMAIN l : Positions(l, d) = {k}
    BY <1>2 DEF Once
  <2>2. Positions(m, d) = Positions(l, d)
    BY <1>1 DEF Positions, NewItem
  <2> QED BY <1>1, <2>1, <2>2, OnlyPosition DEF AgeIn
<1>3. ASSUME Positions(l, c) = {} PROVE AgeIn(m, c) = 0
  <2>1. Positions(m, c) = {n}
    BY <1>1, <1>3 DEF Positions, NewItem
  <2> QED BY <1>1, <2>1, OnlyPosition DEF AgeIn, NewItem
<1> QED BY <1>2, <1>3

LEMMA AgedAge ==
  ASSUME NEW l \in Seq(Item), NEW d \in Client, Once(l, d)
  PROVE  AgeIn(Aged(l), d) = AgeIn(l, d) + 1
<1>1. PICK k \in DOMAIN l : Positions(l, d) = {k}
  BY DEF Once
<1>2. Len(l) \in Nat /\ DOMAIN l = 1..Len(l) /\ \A i \in DOMAIN l : l[i] \in Item
  BY LenProperties, ElementOfSeq
<1>3. /\ DOMAIN Aged(l) = DOMAIN l
      /\ \A i \in DOMAIN l : Aged(l)[i].age = l[i].age + 1 /\ Aged(l)[i].player = l[i].player
  BY <1>2 DEF Aged, Item
<1>4. Positions(Aged(l), d) = {k}
  BY <1>1, <1>3 DEF Positions
<1> QED BY <1>1, <1>2, <1>3, <1>4, OnlyPosition DEF AgeIn

\* The client's element keeps its age.
SameAge(d) ==
  /\ listIndex[d] = "ping" => AgeIn(pingList', d) = AgeIn(pingList, d)
  /\ listIndex[d] = "wait" => AgeIn(waitList', d) = AgeIn(waitList, d)

LEMMA ElementGone ==
  ASSUME NEW l \in Seq(Item), NEW c \in Client, NEW at, NEW here,
         at = here => Positions(l, c) # {},
         NEW m, m = IF at = here THEN RemoveAt(l, LastPosition(l, c)) ELSE l
  PROVE  \A d \in Client \ {c} : Once(l, d) => AgeIn(m, d) = AgeIn(l, d)
<1>1. CASE at # here
  BY <1>1
<1>2. CASE at = here
  <2> DEFINE i == LastPosition(l, c)
  <2>1. i \in 1..Len(l) /\ l[i].player = c
    BY <1>2, LastExists
  <2>2. IsWithout(m, l, i)
    BY <1>2, <2>1, RemoveAtIsWithout
  <2> HIDE DEF i
  <2> QED BY <2>1, <2>2, WithoutAge
<1> QED BY <1>1, <1>2

LEMMA RemoveAges ==
  ASSUME KeepAliveInv, NEW c \in Client, removePlayer(c)
  PROVE  \A d \in Client \ {c} : Exact(d) => SameAge(d)
<1>1. /\ pingList \in Seq(Item) /\ waitList \in Seq(Item)
      /\ listIndex[c] = "ping" => Positions(pingList, c) # {}
      /\ listIndex[c] = "wait" => Positions(waitList, c) # {}
      /\ pingList' = IF listIndex[c] = "ping"
                     THEN RemoveAt(pingList, LastPosition(pingList, c)) ELSE pingList
      /\ waitList' = IF listIndex[c] = "wait"
                     THEN RemoveAt(waitList, LastPosition(waitList, c)) ELSE waitList
  BY DEF removePlayer, PingListWithout, WaitListWithout, KeepAliveInv, KeepAliveTypeOK, Indexed
<1>2. \A d \in Client \ {c} : Once(pingList, d) => AgeIn(pingList', d) = AgeIn(pingList, d)
  BY <1>1, ElementGone
<1>3. \A d \in Client \ {c} : Once(waitList, d) => AgeIn(waitList', d) = AgeIn(waitList, d)
  BY <1>1, ElementGone
<1> QED BY <1>2, <1>3 DEF SameAge, Exact

LEMMA PushAges ==
  ASSUME KeepAliveInv, NEW c \in Client, pushPlayer(c)
  PROVE  /\ \A d \in Client \ {c} : Exact(d) => SameAge(d)
         /\ Exact(c) /\ listIndex[c] = "none" => AgeIn(pingList', c) = 0
<1>1. pingList \in Seq(Item) /\ pingList' = Append(pingList, NewItem(c)) /\ waitList' = waitList
  BY DEF pushPlayer, KeepAliveInv, KeepAliveTypeOK
<1>2. /\ \A d \in Client \ {c} : Once(pingList, d) => AgeIn(pingList', d) = AgeIn(pingList, d)
      /\ Positions(pingList, c) = {} => AgeIn(pingList', c) = 0
  BY <1>1, AppendAge
<1> QED BY <1>1, <1>2 DEF SameAge, Exact

LEMMA TickAges ==
  ASSUME KeepAliveInv, NEW c \in Client, tickKnownPlayer(c)
  PROVE  /\ \A d \in Client \ {c} : Exact(d) => SameAge(d)
         /\ Exact(c) /\ listIndex[c] # "ping" => AgeIn(pingList', c) = 0
<1>1. /\ pingList \in Seq(Item) /\ waitList \in Seq(Item)
      /\ listIndex[c] = "wait" => Positions(waitList, c) # {}
      /\ pingList' = Append(pingList, NewItem(c))
      /\ waitList' = IF listIndex[c] = "wait"
                     THEN RemoveAt(waitList, LastPosition(waitList, c)) ELSE waitList
  BY DEF tickKnownPlayer, WaitListWithout, KeepAliveInv, KeepAliveTypeOK, Indexed
<1>2. /\ \A d \in Client \ {c} : Once(pingList, d) => AgeIn(pingList', d) = AgeIn(pingList, d)
      /\ Positions(pingList, c) = {} => AgeIn(pingList', c) = 0
  <2>1. pingList \in Seq(Item) /\ pingList' = Append(pingList, NewItem(c)) /\ c \in Client
    BY <1>1
  <2> QED BY ONLY <2>1, AppendAge
<1>3. \A d \in Client \ {c} : Once(waitList, d) => AgeIn(waitList', d) = AgeIn(waitList, d)
  BY <1>1, ElementGone
<1> QED BY <1>2, <1>3 DEF SameAge, Exact

LEMMA PingAges ==
  ASSUME KeepAliveInv, NEW h \in Client, pingList # <<>>, h = Head(pingList).player, PingFirst
  PROVE  /\ \A d \in Client \ {h} : Exact(d) => SameAge(d)
         /\ Exact(h) => listIndex[h] = "ping" /\ AgeIn(waitList', h) = 0
<1>1. pingList \in Seq(Item) /\ waitList \in Seq(Item)
  BY DEF KeepAliveInv, KeepAliveTypeOK
<1>2. /\ IsWithout(pingList', pingList, 1) /\ 1 \in 1..Len(pingList) /\ pingList[1].player = h
      /\ waitList' = Append(waitList, NewItem(h))
  BY <1>1, TailIsWithout DEF PingFirst
<1>3. 1 \in Positions(pingList, h)
  BY <1>1, <1>2, LenProperties DEF Positions
<1>4. /\ \A d \in Client \ {h} : Once(waitList, d) => AgeIn(waitList', d) = AgeIn(waitList, d)
      /\ Positions(waitList, h) = {} => AgeIn(waitList', h) = 0
  <2>1. waitList \in Seq(Item) /\ waitList' = Append(waitList, NewItem(h)) /\ h \in Client
    BY <1>1, <1>2
  <2> QED BY ONLY <2>1, AppendAge
<1>5. \A d \in Client \ {h} : Once(pingList, d) => AgeIn(pingList', d) = AgeIn(pingList, d)
  BY <1>1, <1>2, WithoutAge
<1> QED BY <1>3, <1>4, <1>5 DEF SameAge, Exact

LEMMA KickAges ==
  ASSUME KeepAliveInv, NEW h \in Client, waitList # <<>>, h = Head(waitList).player,
         KickFirst, pingList' = pingList
  PROVE  /\ \A d \in Client \ {h} : Exact(d) => SameAge(d)
         /\ Exact(h) => listIndex[h] = "wait" /\ LastPosition(waitList, h) = 1
<1>1. waitList \in Seq(Item)
  BY DEF KeepAliveInv, KeepAliveTypeOK
<1>2. IsWithout(waitList', waitList, 1) /\ 1 \in 1..Len(waitList) /\ waitList[1].player = h
  BY <1>1, TailIsWithout DEF KickFirst
<1>3. 1 \in Positions(waitList, h)
  BY <1>1, <1>2, LenProperties DEF Positions
<1>4. \A d \in Client \ {h} : Once(waitList, d) => AgeIn(waitList', d) = AgeIn(waitList, d)
  BY <1>1, <1>2, WithoutAge
<1>5. Once(waitList, h) => LastPosition(waitList, h) = 1
  <2>1. ASSUME Once(waitList, h) PROVE Positions(waitList, h) = {1}
    BY <1>3, <2>1 DEF Once
  <2> QED BY <2>1, OnlyPosition
<1> QED BY <1>3, <1>4, <1>5 DEF SameAge, Exact

\* Status and age case by case.
LEMMA StatusOf ==
  ASSUME NEW c
  PROVE  /\ listIndex[c] = "none" => ClientStatus(c) = "out" /\ ClientAge(c) = 0
         /\ listIndex[c] = "ping" => ClientStatus(c) = "idle" /\ ClientAge(c) = AgeIn(pingList, c)
         /\ listIndex[c] = "wait" => ClientStatus(c) = "waiting" /\ ClientAge(c) = AgeIn(waitList, c)
         /\ listIndex[c] = "orphan" => ClientStatus(c) = "kicked" /\ ClientAge(c) = 0
BY DEF ClientStatus, ClientAge, AgeIn

LEMMA StatusOfNext ==
  ASSUME NEW c
  PROVE  /\ listIndex'[c] = "none" => ClientStatus(c)' = "out" /\ ClientAge(c)' = 0
         /\ listIndex'[c] = "ping" => ClientStatus(c)' = "idle" /\ ClientAge(c)' = AgeIn(pingList', c)
         /\ listIndex'[c] = "wait" => ClientStatus(c)' = "waiting" /\ ClientAge(c)' = AgeIn(waitList', c)
         /\ listIndex'[c] = "orphan" => ClientStatus(c)' = "kicked" /\ ClientAge(c)' = 0
BY DEF ClientStatus, ClientAge, AgeIn

\* A client of the same index and age is to the contract what it was.
LEMMA OthersKept ==
  ASSUME listIndex \in [Client -> Where], NEW d \in Client, listIndex'[d] = listIndex[d], SameAge(d)
  PROVE  ClientStatus(d)' = ClientStatus(d) /\ ClientAge(d)' = ClientAge(d)
BY StatusOf, StatusOfNext DEF Where, SameAge

\* While a timer still runs, nobody of its list is at the end of the interval.
LEMMA BeforeDeadline ==
  ASSUME NEW l \in Seq(Item), NEW n \in Nat, NEW t \in 1..n, InTime(l, t, n),
         NEW d \in Client, Once(l, d)
  PROVE  AgeIn(l, d) < n
<1>1. PICK k \in DOMAIN l : Positions(l, d) = {k}
  BY DEF Once
<1>2. DOMAIN l = 1..Len(l) /\ l[k] \in Item /\ Len(l) \in Nat
  BY LenProperties, ElementOfSeq
<1>3. LastPosition(l, d) = k
  BY <1>1, <1>2, OnlyPosition
<1>4. t + l[k].age <= n /\ l[k].age \in Nat
  BY <1>2 DEF InTime, Item
<1> QED BY <1>3, <1>4 DEF AgeIn
============================================================================
