------------------------ MODULE EntityTrackingProofs ------------------------
(***************************************************************************)
(* The invariants of EntityTracking and what a tick does to the copies on  *)
(* the screens, for any players, entities, positions, reports, /tp targets *)
(* and clients whose queue drops packets.                                  *)
(***************************************************************************)
EXTENDS EntityTracking, SequenceTheorems, TLAPS

PacketType == [pos : Int, request : BOOLEAN]

PlacesTyped ==
    /\ position \in [Player -> Int] /\ pos0 \in [Player -> Int]
    /\ teleport \in [Player -> Int \cup {None}]
NetTyped ==
    /\ input \in [Player -> Int \cup {Invalid}]
    /\ \A p \in Player : input[p] \in {0, Invalid} \cup Reported[p]
    /\ answered \in [Player -> Int \cup {None}]
    /\ told \in [Player -> Seq(PacketType)]
    /\ unheard \subseteq Slow
ShownTyped ==
    /\ inView \in [Player -> SUBSET Entity]
    /\ screen \in [Player -> [Entity -> Int \cup {None}]]
    /\ astray \subseteq Slow \X Entity /\ lost \in [Player -> Nat]
RestTyped ==
    /\ status \in [Player -> {"out", "in", "gone", "late"}]
    /\ todo \subseteq World /\ (todo # {} => ticking)
    /\ tps \subseteq Player /\ falls \in 0..MaxFalls

Matches(v, e) == <<v, e>> \notin astray => (e \in inView[v] <=> screen[v][e] # None)

(* At most one request is under way, it is the pending one, and it carries   *)
(* the pending position as long as the answer has not come; so does the      *)
(* answer.                                                                   *)
Meets(answer, pending, packets) ==
    /\ answer # None => answer = pending
    /\ \A i \in DOMAIN packets :
         packets[i].request => answer = None /\ packets[i].pos = pending
    /\ \A i, j \in DOMAIN packets :
         packets[i].request /\ packets[j].request => i = j
AnswersMeet(p) == Meets(answered[p], teleport[p], told[p])

(* Who is not in the world sees nothing, and nobody sees oneself. *)
OnlyTheWorldSees ==
    \A v \in Player : v \notin inView[v] /\ (status[v] # "in" => inView[v] = {})

(* Where the next tick puts a player, and where its request waits, are out   *)
(* of the void too.                                                          *)
AboveVoid ==
    \A p \in Player \ tps : Saved[p] >= Void =>
        /\ position[p] >= Void /\ pos0[p] >= Void
        /\ teleport[p] # None => teleport[p] >= Void

Inv ==
    /\ PlacesTyped /\ NetTyped /\ ShownTyped /\ RestTyped
    /\ \A p \in Player : AnswersMeet(p)
    /\ \A v \in Player, e \in Entity : Matches(v, e)
    /\ OnlyTheWorldSees
    /\ AboveVoid
    /\ GhostsOutside

-----------------------------------------------------------------------------
LEMMA EntityParts ==
    /\ Player \subseteq Entity /\ Static \subseteq Entity
    /\ \A e \in Entity : e \in Player <=> e \notin Static
BY TrackingAssumption DEF Entity

(* What is told a client stays a sequence of packets. *)
LEMMA Sent ==
    ASSUME NEW s \in Seq(PacketType), NEW k \in PacketType
    PROVE  /\ Append(s, k) \in Seq(PacketType)
           /\ DOMAIN s = 1..Len(s) /\ DOMAIN Append(s, k) = 1..(Len(s) + 1)
           /\ Len(s) \in Nat
           /\ \A i \in DOMAIN s : Append(s, k)[i] = s[i]
           /\ Append(s, k)[Len(s) + 1] = k
BY AppendProperties, LenProperties

LEMMA PacketsTyped ==
    ASSUME NEW s \in Seq(PacketType), NEW i \in DOMAIN s
    PROVE  s[i] \in PacketType
<1>1. i \in 1..Len(s)
  BY LenProperties
<1> QED BY <1>1, ElementOfSeq

LEMMA SentFirst ==
    ASSUME NEW k \in PacketType
    PROVE  /\ <<k>> \in Seq(PacketType) /\ DOMAIN <<k>> = {1} /\ <<k>>[1] = k
OBVIOUS

(* A packet that is no request changes nothing of what is asked. *)
LEMMA StillMeets ==
    ASSUME NEW s \in Seq(PacketType), NEW k \in PacketType, ~k.request,
           NEW answer, NEW pending, Meets(answer, pending, s)
    PROVE  Meets(answer, pending, Append(s, k))
<1> DEFINE t == Append(s, k)
<1>1. /\ DOMAIN s = 1..Len(s) /\ DOMAIN t = 1..(Len(s) + 1) /\ Len(s) \in Nat
      /\ \A i \in DOMAIN s : t[i] = s[i]
      /\ t[Len(s) + 1] = k
  BY Sent
<1> HIDE DEF t
<1>2. \A i \in DOMAIN t : t[i].request => i \in DOMAIN s /\ t[i] = s[i]
  BY <1>1
<1> QED BY <1>2 DEF Meets, t

(* A request is told while none is under way. *)
LEMMA MeetsRequest ==
    ASSUME NEW s \in Seq(PacketType), NEW y \in Int, NEW answer, Meets(answer, None, s)
    PROVE  Meets(None, y, s) /\ Meets(None, y, Append(s, Packet(y, TRUE)))
<1> DEFINE k == Packet(y, TRUE)
           t == Append(s, k)
<1>0. k \in PacketType /\ k.request /\ k.pos = y
  BY DEF Packet, PacketType
<1>1. /\ DOMAIN s = 1..Len(s) /\ DOMAIN t = 1..(Len(s) + 1) /\ Len(s) \in Nat
      /\ \A i \in DOMAIN s : t[i] = s[i]
      /\ t[Len(s) + 1] = k
  BY <1>0, Sent
<1>2. \A i \in DOMAIN s : ~s[i].request
  <2>1. \A i \in DOMAIN s : s[i].pos \in Int
    BY PacketsTyped DEF PacketType
  <2>2. \A i \in DOMAIN s : ~(s[i].request /\ s[i].pos = None)
    BY <2>1, TrackingAssumption
  <2> QED BY <2>2 DEF Meets
<1> HIDE DEF k, t
<1>3. \A i \in DOMAIN t : t[i].request => i = Len(s) + 1
  BY <1>1, <1>2
<1> QED BY <1>0, <1>1, <1>2, <1>3 DEF Meets, t, k

(* The answer to the first packet is the pending request's if that asked. *)
LEMMA MeetsAnswer ==
    ASSUME NEW s \in Seq(PacketType), s # <<>>, NEW answer, NEW pending,
           Meets(answer, pending, s)
    PROVE  Meets(IF Head(s).request THEN Head(s).pos ELSE None, pending, Tail(s))
<1>1. /\ DOMAIN s = 1..Len(s) /\ Len(s) \in Nat /\ Len(s) # 0 /\ Head(s) = s[1]
      /\ DOMAIN Tail(s) = 1..(Len(s) - 1)
      /\ \A i \in 1..(Len(s) - 1) : Tail(s)[i] = s[i + 1]
  BY HeadTailProperties, LenProperties, EmptySeq
<1>2. \A i \in DOMAIN Tail(s) :
         i + 1 \in DOMAIN s /\ i + 1 # 1 /\ Tail(s)[i] = s[i + 1]
  BY <1>1
<1>3. 1 \in DOMAIN s
  BY <1>1
<1> QED BY <1>1, <1>2, <1>3 DEF Meets

(* What the queues drop is of slow clients, and only counted. *)
LEMMA Dropped ==
    ASSUME NEW sent, NEW dropped \in SUBSET Droppable(sent), LastWord(sent, dropped),
           Drop(dropped), sent \subseteq Player \X Entity, ShownTyped
    PROVE  /\ dropped \subseteq sent
           /\ astray' \subseteq Slow \X Entity /\ lost' \in [Player -> Nat]
           /\ \A m : m \in astray' <=> (m \in astray /\ m \notin sent) \/ m \in dropped
<1>1. dropped \subseteq sent /\ \A m \in dropped : m[1] \in Slow
  BY DEF Droppable
<1>2. dropped \subseteq Slow \X Entity
  BY <1>1
<1> QED BY <1>1, <1>2 DEF LastWord, Drop, ShownTyped

LEMMA InitInv == Init => Inv
<1> SUFFICES ASSUME Init PROVE Inv
  OBVIOUS
<1> USE TrackingAssumption DEF Init
<1>1. PlacesTyped /\ ShownTyped
  BY DEF PlacesTyped, ShownTyped
<1>2. NetTyped /\ \A p \in Player : AnswersMeet(p)
  <2>1. \A p \in Player : told[p] = <<>> /\ DOMAIN told[p] = {} /\ told[p] \in Seq(PacketType)
    BY EmptySeq
  <2> QED BY <2>1 DEF NetTyped, AnswersMeet, Meets
<1>3. RestTyped
  BY DEF RestTyped, World
<1>4. \A v \in Player, e \in Entity : Matches(v, e)
  BY DEF Matches
<1>5. OnlyTheWorldSees /\ AboveVoid /\ GhostsOutside
  BY DEF OnlyTheWorldSees, AboveVoid, GhostsOutside, World, Void
<1> QED BY <1>1, <1>2, <1>3, <1>4, <1>5 DEF Inv

-----------------------------------------------------------------------------
(* Players come and go between ticks.                                      *)

LEMMA AddPlayerStep == ASSUME Inv, NEW p \in Player, AddPlayer(p) PROVE Inv'
<1> USE TrackingAssumption DEF Inv, AddPlayer, place, shown, bounds
<1>1. PlacesTyped' /\ ShownTyped'
  BY DEF PlacesTyped, ShownTyped
<1>2. RestTyped'
  BY DEF RestTyped, World
<1>3. NetTyped' /\ \A q \in Player : AnswersMeet(q)'
  <2>1. Packet(Saved[p], FALSE) \in PacketType /\ ~Packet(Saved[p], FALSE).request
    BY DEF Packet, PacketType
  <2>2. CASE told' = told
    BY <2>2 DEF NetTyped, AnswersMeet
  <2>3. CASE told' = [told EXCEPT ![p] = <<Packet(Saved[p], FALSE)>>]
    <3> DEFINE s == <<Packet(Saved[p], FALSE)>>
    <3>1. s \in Seq(PacketType) /\ DOMAIN s = {1} /\ s[1] = Packet(Saved[p], FALSE)
      BY ONLY <2>1, SentFirst
    <3> HIDE DEF s
    <3>2. Meets(answered[p], teleport[p], s)
      BY <2>1, <3>1 DEF AnswersMeet, Meets
    <3>3. told'[p] = s /\ \A q \in Player \ {p} : told'[q] = told[q]
      BY <2>3 DEF NetTyped, s
    <3> QED BY <2>3, <3>1, <3>2, <3>3 DEF NetTyped, AnswersMeet, s
  <2> QED BY <2>2, <2>3
<1>4. \A v \in Player, e \in Entity : Matches(v, e)'
  BY DEF Matches
<1>5. OnlyTheWorldSees' /\ AboveVoid'
  BY DEF OnlyTheWorldSees, AboveVoid, RestTyped
<1>6. GhostsOutside'
  BY DEF OnlyTheWorldSees, GhostsOutside, InBox, World, RestTyped
<1> QED BY <1>1, <1>2, <1>3, <1>4, <1>5, <1>6

LEMMA RemovePlayerStep == ASSUME Inv, NEW p \in Player, RemovePlayer(p) PROVE Inv'
<1> USE TrackingAssumption, EntityParts DEF Inv, RemovePlayer, place, net, bounds
<1> DEFINE near == {v \in World \ {p} : InBox(v, position[p])}
           sent == {p} \X Entity \cup near \X {p}
<1>0. PICK dropped \in SUBSET Droppable(near \X {p}) :
         /\ screen' = [v \in Player |-> [e \in Entity |->
              IF <<v, e>> \in sent \ dropped THEN None ELSE screen[v][e]]]
         /\ LastWord(sent, dropped) /\ Drop(dropped)
  OBVIOUS
<1>1. /\ p \in World /\ p \notin near /\ near \subseteq World
      /\ \A v \in Player :
           inView'[v] = IF v = p THEN {} ELSE IF v \in near THEN inView[v] \ {p} ELSE inView[v]
  BY DEF World
<1>11. /\ dropped \subseteq near \X {p} /\ astray' \subseteq Slow \X Entity
       /\ lost' \in [Player -> Nat]
       /\ \A m : m \in astray' <=> (m \in astray /\ m \notin sent) \/ m \in dropped
  <2>1. dropped \in SUBSET Droppable(sent) /\ dropped \subseteq near \X {p}
    BY DEF Droppable
  <2>2. sent \subseteq Player \X Entity
    BY <1>1 DEF World
  <2> QED BY ONLY <1>0, <2>1, <2>2, Dropped, ShownTyped
<1>2. \A v \in Player, e \in Entity :
         /\ <<v, e>> \in sent <=> v = p \/ (v \in near /\ e = p)
         /\ screen'[v][e] = IF <<v, e>> \in sent \ dropped THEN None ELSE screen[v][e]
  BY <1>0 DEF ShownTyped
<1>3. PlacesTyped'
  BY DEF PlacesTyped
<1>4. ShownTyped'
  <2>1. inView' \in [Player -> SUBSET Entity]
    BY <1>1 DEF ShownTyped
  <2>2. screen' \in [Player -> [Entity -> Int \cup {None}]]
    BY <1>0 DEF ShownTyped
  <2> QED BY <2>1, <2>2, <1>11 DEF ShownTyped
<1>5. RestTyped'
  BY DEF RestTyped, World
<1>6. NetTyped' /\ \A q \in Player : AnswersMeet(q)'
  BY DEF NetTyped, AnswersMeet
<1>7. \A v \in Player, e \in Entity : Matches(v, e)'
  <2> SUFFICES ASSUME NEW v \in Player, NEW e \in Entity PROVE Matches(v, e)'
    OBVIOUS
  <2>1. CASE <<v, e>> \in sent
    BY <1>1, <1>2, <1>11, <2>1 DEF Matches
  <2>2. CASE <<v, e>> \notin sent
    <3>1. /\ screen'[v][e] = screen[v][e] /\ (<<v, e>> \in astray' <=> <<v, e>> \in astray)
          /\ v # p /\ (v \in near => e # p)
      BY <1>2, <1>11, <2>2
    <3> HIDE DEF near, sent
    <3> QED BY <1>1, <3>1 DEF Matches
  <2> QED BY <2>1, <2>2
<1>8. OnlyTheWorldSees' /\ AboveVoid'
  BY <1>1 DEF OnlyTheWorldSees, AboveVoid, RestTyped
<1>9. GhostsOutside'
  <2> SUFFICES ASSUME NEW v \in World', NEW e \in Player, status'[e] = "gone", e \in inView'[v]
               PROVE  ~InBox(v, position[e])
    BY DEF GhostsOutside, InBox
  <2>1. v \in World /\ v # p
    BY DEF World, RestTyped
  <2>2. CASE e = p
    BY <1>1, <2>1, <2>2 DEF World
  <2>3. CASE e # p
    BY <1>1, <2>1, <2>3 DEF GhostsOutside, RestTyped, World
  <2> QED BY <2>2, <2>3
<1> QED BY <1>3, <1>4, <1>5, <1>6, <1>7, <1>8, <1>9

-----------------------------------------------------------------------------
(* The handlers.                                                           *)

LEMMA AcceptStep == ASSUME Inv, NEW p \in Player, AcceptTeleportation(p) PROVE Inv'
<1> USE TrackingAssumption DEF Inv, AcceptTeleportation, place, shown, bounds
<1>1. PlacesTyped' /\ ShownTyped' /\ RestTyped'
  BY DEF PlacesTyped, ShownTyped, RestTyped, World
<1>2. NetTyped' /\ \A q \in Player : AnswersMeet(q)'
  <2>1. told[p] \in Seq(PacketType) /\ told[p] # <<>>
    BY DEF NetTyped
  <2>2. Head(told[p]) \in PacketType /\ Tail(told[p]) \in Seq(PacketType)
    BY <2>1, HeadTailProperties
  <2>3. Head(told[p]).request \in BOOLEAN /\ Head(told[p]).pos \in Int
    BY <2>2 DEF PacketType
  <2>4. NetTyped'
    BY <2>2, <2>3 DEF NetTyped
  <2>5. AnswersMeet(p)'
    <3>1. Meets(IF Head(told[p]).request THEN Head(told[p]).pos ELSE None,
                teleport[p], Tail(told[p]))
      BY <2>1, MeetsAnswer DEF AnswersMeet
    <3> QED BY <3>1 DEF AnswersMeet, NetTyped
  <2>6. \A q \in Player \ {p} : AnswersMeet(q)'
    BY DEF AnswersMeet, NetTyped
  <2> QED BY <2>4, <2>5, <2>6
<1>3. /\ \A v \in Player, e \in Entity : Matches(v, e)'
      /\ OnlyTheWorldSees' /\ AboveVoid' /\ GhostsOutside'
  BY DEF Matches, OnlyTheWorldSees, AboveVoid, GhostsOutside, World, InBox
<1> QED BY <1>1, <1>2, <1>3

LEMMA MoveStep ==
    ASSUME Inv, NEW p \in Player, NEW y \in Reported[p], MovePlayerPos(p, y) PROVE Inv'
<1> USE TrackingAssumption DEF Inv, MovePlayerPos, place, shown
<1>1. PlacesTyped' /\ ShownTyped'
  BY DEF PlacesTyped, ShownTyped
<1>2. RestTyped'
  BY DEF RestTyped, World
<1>3. NetTyped' /\ \A q \in Player : AnswersMeet(q)'
  BY DEF NetTyped, AnswersMeet
<1>4. /\ \A v \in Player, e \in Entity : Matches(v, e)'
      /\ OnlyTheWorldSees' /\ AboveVoid' /\ GhostsOutside'
  BY DEF Matches, OnlyTheWorldSees, AboveVoid, GhostsOutside, World, InBox
<1> QED BY <1>1, <1>2, <1>3, <1>4

LEMMA TpStep ==
    ASSUME Inv, NEW p \in Player, NEW y \in TpTargets[p], Tp(p, y) PROVE Inv'
<1> USE TrackingAssumption DEF Inv, Tp, shown
<1>1. y \in Int /\ \A q \in Player \ {p} : position'[q] = position[q] /\ status'[q] = status[q]
  BY DEF PlacesTyped, RestTyped
<1>2. World' = World /\ status'[p] # "gone" /\ status[p] # "out"
  BY <1>1 DEF World, RestTyped
<1>3. PlacesTyped' /\ ShownTyped'
  BY <1>1 DEF PlacesTyped, ShownTyped
<1>4. RestTyped'
  BY <1>2 DEF RestTyped
<1>5. NetTyped' /\ \A q \in Player : AnswersMeet(q)'
  <2>1. Packet(y, FALSE) \in PacketType /\ ~Packet(y, FALSE).request
    BY <1>1 DEF Packet, PacketType
  <2>2. CASE told' = told
    BY <2>2 DEF NetTyped, AnswersMeet
  <2>3. CASE told' = [told EXCEPT ![p] = Append(@, Packet(y, FALSE))]
    <3>1. told'[p] = Append(told[p], Packet(y, FALSE)) /\ told[p] \in Seq(PacketType)
      BY <2>3 DEF NetTyped
    <3>2. Append(told[p], Packet(y, FALSE)) \in Seq(PacketType)
      BY ONLY <2>1, <3>1, Sent
    <3>3. Meets(answered[p], teleport[p], Append(told[p], Packet(y, FALSE)))
      BY <2>1, <3>1, StillMeets DEF AnswersMeet
    <3>4. NetTyped'
      BY <2>3, <3>2 DEF NetTyped
    <3>5. \A q \in Player \ {p} : AnswersMeet(q)'
      BY <2>3 DEF NetTyped, AnswersMeet
    <3> QED BY <3>1, <3>3, <3>4, <3>5 DEF AnswersMeet
  <2> QED BY <2>2, <2>3
<1>6. \A v \in Player, e \in Entity : Matches(v, e)'
  BY DEF Matches
<1>7. OnlyTheWorldSees'
  BY <1>2 DEF OnlyTheWorldSees, World
<1>8. AboveVoid'
  BY <1>1 DEF AboveVoid
<1>9. GhostsOutside'
  BY <1>1, <1>2 DEF GhostsOutside, InBox
<1> QED BY <1>3, <1>4, <1>5, <1>6, <1>7, <1>8, <1>9

-----------------------------------------------------------------------------
(* The tick.                                                               *)

LEMMA BeginStep == ASSUME Inv, BeginTick PROVE Inv'
<1> USE DEF Inv, BeginTick, place, net, shown, bounds
<1>1. PlacesTyped' /\ ShownTyped' /\ RestTyped'
  BY DEF PlacesTyped, ShownTyped, RestTyped, World
<1>2. NetTyped' /\ \A q \in Player : AnswersMeet(q)'
  BY DEF NetTyped, AnswersMeet
<1>3. /\ \A v \in Player, e \in Entity : Matches(v, e)'
      /\ OnlyTheWorldSees' /\ AboveVoid' /\ GhostsOutside'
  BY DEF Matches, OnlyTheWorldSees, AboveVoid, GhostsOutside, World, InBox
<1> QED BY <1>1, <1>2, <1>3

LEMMA SkipStep == ASSUME Inv, NEW p \in Player, SkipPlayer(p) PROVE Inv'
<1> USE DEF Inv, SkipPlayer, place, net, shown, bounds
<1>1. PlacesTyped' /\ ShownTyped' /\ RestTyped'
  BY DEF PlacesTyped, ShownTyped, RestTyped, World
<1>2. NetTyped' /\ \A q \in Player : AnswersMeet(q)'
  BY DEF NetTyped, AnswersMeet
<1>3. /\ \A v \in Player, e \in Entity : Matches(v, e)'
      /\ OnlyTheWorldSees' /\ AboveVoid' /\ GhostsOutside'
  BY DEF Matches, OnlyTheWorldSees, AboveVoid, GhostsOutside, World, InBox
<1> QED BY <1>1, <1>2, <1>3

(* A request that is told while none is pending is the only one under way. *)
LEMMA RequestStep ==
    ASSUME PlacesTyped, NetTyped, \A q \in Player : AnswersMeet(q), input' = input,
           NEW p \in Player, NEW y \in Int, ~Pending(p), Request(p, y)
    PROVE  /\ NetTyped' /\ teleport' \in [Player -> Int \cup {None}]
           /\ \A q \in Player : AnswersMeet(q)'
<1> USE TrackingAssumption DEF Request
<1>1. Packet(y, TRUE) \in PacketType
  BY DEF Packet, PacketType
<1>2. told[p] \in Seq(PacketType) /\ Meets(answered[p], None, told[p])
  BY DEF NetTyped, AnswersMeet, Pending
<1>3. /\ Append(told[p], Packet(y, TRUE)) \in Seq(PacketType)
      /\ Meets(None, y, told[p]) /\ Meets(None, y, Append(told[p], Packet(y, TRUE)))
  BY ONLY <1>1, <1>2, Sent, MeetsRequest, y \in Int
<1>4. told'[p] = told[p] \/ told'[p] = Append(told[p], Packet(y, TRUE))
  BY DEF NetTyped
<1>5. \A q \in Player \ {p} : AnswersMeet(q)'
  BY DEF AnswersMeet, NetTyped, PlacesTyped
<1>6. AnswersMeet(p)'
  BY <1>3, <1>4 DEF AnswersMeet, NetTyped, PlacesTyped
<1>7. NetTyped'
  <2>1. told' \in [Player -> Seq(PacketType)]
    <3>1. CASE told' = told
      BY <3>1 DEF NetTyped
    <3>2. CASE told' = [told EXCEPT ![p] = Append(@, Packet(y, TRUE))]
      BY <1>3, <3>2 DEF NetTyped
    <3> QED BY <3>1, <3>2
  <2>2. unheard' \subseteq Slow
    BY DEF NetTyped
  <2> QED BY <2>1, <2>2 DEF NetTyped
<1> QED BY <1>5, <1>6, <1>7 DEF PlacesTyped

(* Whatever happens to a player's place, DropFar takes what it lists from    *)
(* its screen, or the packet that says so is lost, and nothing else of what  *)
(* anybody sees changes.                                                     *)
LEMMA DropStep ==
    ASSUME Inv, NEW p \in Player, p \in World, DropFar(p), UNCHANGED status
    PROVE  /\ ShownTyped' /\ OnlyTheWorldSees'
           /\ \A v \in Player, e \in Entity : Matches(v, e)'
           /\ \A v \in Player : inView'[v] \subseteq inView[v]
<1> USE EntityParts DEF Inv, DropFar
<1> DEFINE far == {e \in inView[p] \cap Player : ~InBox(p, position[e])}
           sent == {p} \X far
<1>0. PICK dropped \in SUBSET Droppable(sent) :
         /\ screen' = [v \in Player |-> [e \in Entity |->
              IF <<v, e>> \in sent \ dropped THEN None ELSE screen[v][e]]]
         /\ LastWord(sent, dropped) /\ Drop(dropped)
  OBVIOUS
<1>1. \A v \in Player : inView'[v] = IF v = p THEN inView[v] \ far ELSE inView[v]
  BY DEF ShownTyped
<1>2. \A v \in Player, e \in Entity :
         /\ <<v, e>> \in sent <=> v = p /\ e \in far
         /\ screen'[v][e] = IF <<v, e>> \in sent \ dropped THEN None ELSE screen[v][e]
  BY <1>0
<1>21. /\ astray' \subseteq Slow \X Entity /\ lost' \in [Player -> Nat]
       /\ \A m : m \in astray' <=> (m \in astray /\ m \notin sent) \/ m \in dropped
  <2>1. sent \subseteq Player \X Entity
    OBVIOUS
  <2> QED BY ONLY <1>0, <2>1, Dropped, ShownTyped
<1>3. ShownTyped'
  <2>1. inView' \in [Player -> SUBSET Entity]
    BY <1>1 DEF ShownTyped
  <2>2. screen' \in [Player -> [Entity -> Int \cup {None}]]
    BY <1>0 DEF ShownTyped
  <2> QED BY <2>1, <2>2, <1>21 DEF ShownTyped
<1>4. OnlyTheWorldSees'
  BY <1>1 DEF OnlyTheWorldSees, World
<1>5. \A v \in Player, e \in Entity : Matches(v, e)'
  <2> SUFFICES ASSUME NEW v \in Player, NEW e \in Entity PROVE Matches(v, e)'
    OBVIOUS
  <2>1. Matches(v, e) /\ (<<v, e>> \in sent <=> v = p /\ e \in far)
    BY <1>2
  <2>2. CASE <<v, e>> \in sent
    <3>1. e \notin inView'[v] /\ (<<v, e>> \notin astray' => screen'[v][e] = None)
      <4>1. v = p /\ e \in far /\ (<<v, e>> \in dropped => <<v, e>> \in astray')
        BY <1>21, <2>1, <2>2
      <4> HIDE DEF far, sent
      <4>2. e \notin inView'[v]
        BY ONLY <1>1, <4>1
      <4> QED BY <1>2, <2>2, <4>1, <4>2
    <3> QED BY <3>1 DEF Matches
  <2>3. CASE <<v, e>> \notin sent
    <3>1. <<v, e>> \notin dropped
      BY <2>3 DEF Droppable
    <3> HIDE DEF sent, far
    <3>2. /\ screen'[v][e] = screen[v][e] /\ (<<v, e>> \in astray <=> <<v, e>> \in astray')
          /\ v = p => e \notin far
      BY <1>2, <1>21, <2>1, <2>3, <3>1
    <3>3. e \in inView'[v] <=> e \in inView[v]
      BY <1>1, <3>2
    <3> QED BY ONLY <2>1, <3>2, <3>3 DEF Matches
  <2> QED BY <2>2, <2>3
<1> QED BY <1>1, <1>3, <1>4, <1>5

LEMMA UpdatePlayerStep == ASSUME Inv, NEW p \in Player, UpdatePlayer(p) PROVE Inv'
<1> USE TrackingAssumption
<1>1. p \in World /\ UNCHANGED <<status, input, ticking, bounds>> /\ DropFar(p)
  BY DEF Inv, RestTyped, UpdatePlayer
<1>2. /\ ShownTyped' /\ OnlyTheWorldSees'
      /\ \A v \in Player, e \in Entity : Matches(v, e)'
      /\ \A v \in Player : inView'[v] \subseteq inView[v]
  BY <1>1, DropStep
<1>3. RestTyped'
  BY <1>1 DEF Inv, RestTyped, UpdatePlayer, World, bounds
<1>4. /\ PlacesTyped' /\ NetTyped' /\ AboveVoid'
      /\ \A q \in Player : AnswersMeet(q)'
      /\ \A q \in Player \ {p} : position'[q] = position[q]
  <2> USE DEF Inv
  <2>1. CASE Settle(p)
    <3>1. answered[p] = teleport[p] /\ teleport[p] \in Int
      BY <2>1 DEF Settle, AnswersMeet, Meets, Pending, PlacesTyped
    <3>2. \A i \in DOMAIN told[p] : ~told[p][i].request
      BY <2>1 DEF Settle, AnswersMeet, Meets
    <3>3. \A q \in Player : AnswersMeet(q)'
      BY <2>1, <3>2 DEF Settle, AnswersMeet, Meets, PlacesTyped, NetTyped
    <3>4. NetTyped'
      BY <2>1, <1>1 DEF Settle, NetTyped
    <3> QED BY <2>1, <3>1, <3>3, <3>4, <1>1 DEF Settle, Pending, PlacesTyped, AboveVoid, bounds
  <2>2. CASE PullBack(p)
    <3>1. position[p] \in Int /\ ~Pending(p) /\ Request(p, position[p])
      BY <2>2 DEF PullBack, PlacesTyped
    <3>2. /\ NetTyped' /\ teleport' \in [Player -> Int \cup {None}]
          /\ \A q \in Player : AnswersMeet(q)'
      BY <3>1, <1>1, RequestStep
    <3> QED BY <2>2, <3>1, <3>2, <1>1 DEF PullBack, Request, PlacesTyped, AboveVoid, bounds
  <2>3. CASE Rescue(p)
    <3>1. RescueHeight \in Int /\ RescueHeight >= Void /\ ~Pending(p) /\ Request(p, RescueHeight)
      BY <2>3 DEF Rescue, RescueHeight, Void
    <3>2. /\ NetTyped' /\ teleport' \in [Player -> Int \cup {None}]
          /\ \A q \in Player : AnswersMeet(q)'
      BY <3>1, <1>1, RequestStep
    <3> QED BY <2>3, <3>1, <3>2, <1>1 DEF Rescue, Request, PlacesTyped, AboveVoid, bounds
  <2>4. CASE Follow(p)
    <3>1. input[p] \in Int /\ input[p] >= Void
      BY <2>4 DEF Follow, Fallen, NetTyped, Void
    <3>2. NetTyped' /\ \A q \in Player : AnswersMeet(q)'
      BY <2>4, <1>1 DEF Follow, NetTyped, AnswersMeet
    <3> QED BY <2>4, <3>1, <3>2, <1>1 DEF Follow, PlacesTyped, AboveVoid, bounds
  <2>5. CASE Ignore(p)
    <3>1. NetTyped' /\ \A q \in Player : AnswersMeet(q)'
      BY <2>5, <1>1 DEF Ignore, place, NetTyped, AnswersMeet
    <3> QED BY <2>5, <3>1, <1>1 DEF Ignore, place, PlacesTyped, AboveVoid, bounds
  <2> QED BY <2>1, <2>2, <2>3, <2>4, <2>5 DEF UpdatePlayer
<1>5. GhostsOutside'
  <2> SUFFICES ASSUME NEW v \in World', NEW e \in Player, status'[e] = "gone", e \in inView'[v]
               PROVE  ~InBox(v, position'[e])
    BY DEF GhostsOutside, InBox
  <2>1. v \in World /\ v \in Player /\ e \in inView[v] /\ status[e] = "gone"
    BY <1>1, <1>2 DEF World
  <2>2. position'[e] = position[e]
    BY <1>1, <1>4, <2>1 DEF World
  <2> QED BY <2>1, <2>2 DEF Inv, GhostsOutside
<1> QED BY <1>2, <1>3, <1>4, <1>5 DEF Inv

LEMMA NearIs ==
    ASSUME NEW v \in Player, NEW e \in Entity
    PROVE  /\ Near(v, e) \in BOOLEAN
           /\ e \in Player => (Near(v, e) <=> v # e /\ e \in World /\ InBox(v, position[e]))
           /\ e = v => ~Near(v, e)
BY EntityParts DEF Near, InBox

(* What a tick's second pass sends, and what becomes of it. *)
Adds == {m \in World \X Entity : Near(m[1], m[2]) /\ m[2] \notin inView[m[1]]}
Moves == {m \in World \X World : Near(m[1], m[2]) /\ position[m[2]] # pos0[m[2]]}
Placed(unadded, v, e) ==
    IF <<v, e>> \in Adds \ unadded THEN Spawned(e) ELSE screen[v][e]

LEMMA Updated ==
    ASSUME Inv, UpdateEntities
    PROVE  \E unadded \in SUBSET Droppable(Adds), unmoved \in SUBSET Droppable(Moves) :
             /\ screen' \in [Player -> [Entity -> Int \cup {None}]]
             /\ \A v \in Player, e \in Entity :
                  /\ screen'[v][e] = IF <<v, e>> \in Moves \ unmoved
                                     THEN Moved(Placed(unadded, v, e), e)
                                     ELSE Placed(unadded, v, e)
                  /\ screen'[v][e] = None <=> Placed(unadded, v, e) = None
             /\ LastWord(Adds, unadded) /\ Drop(unadded \cup unmoved)
<1> USE TrackingAssumption, EntityParts
<1>1. PICK unadded \in SUBSET Droppable(Adds), unmoved \in SUBSET Droppable(Moves) :
         /\ screen' = [v \in Player |-> [e \in Entity |->
              IF <<v, e>> \in Moves \ unmoved THEN Moved(Placed(unadded, v, e), e)
                                              ELSE Placed(unadded, v, e)]]
         /\ LastWord(Adds, unadded) /\ Drop(unadded \cup unmoved)
  BY DEF UpdateEntities, Adds, Moves, Placed
<1>2. \A v \in Player, e \in Entity : Placed(unadded, v, e) \in Int \cup {None}
  BY DEF Placed, Spawned, Inv, PlacesTyped, ShownTyped
<1>3. \A v \in Player, e \in Entity : <<v, e>> \in Moves =>
         /\ Moved(Placed(unadded, v, e), e) \in Int \cup {None}
         /\ Moved(Placed(unadded, v, e), e) = None <=> Placed(unadded, v, e) = None
  <2> SUFFICES ASSUME NEW v \in Player, NEW e \in Entity, <<v, e>> \in Moves
               PROVE  /\ Moved(Placed(unadded, v, e), e) \in Int \cup {None}
                      /\ Moved(Placed(unadded, v, e), e) = None <=> Placed(unadded, v, e) = None
    OBVIOUS
  <2>1. e \in Player /\ position[e] \in Int /\ pos0[e] \in Int
    BY DEF Moves, World, Inv, PlacesTyped
  <2>2. Delta(position[e], pos0[e]) \in Int
    BY <2>1 DEF Delta
  <2> QED BY <1>2, <2>2 DEF Moved
<1>4. \A v \in Player, e \in Entity :
         /\ screen'[v][e] = IF <<v, e>> \in Moves \ unmoved
                            THEN Moved(Placed(unadded, v, e), e)
                            ELSE Placed(unadded, v, e)
         /\ screen'[v][e] = None <=> Placed(unadded, v, e) = None
         /\ screen'[v][e] \in Int \cup {None}
  BY <1>1, <1>2, <1>3
<1>5. screen' \in [Player -> [Entity -> Int \cup {None}]]
  <2>1. \A v \in Player : screen'[v] \in [Entity -> Int \cup {None}]
    BY <1>1, <1>4
  <2> QED BY <1>1, <2>1
<1> QED BY <1>1, <1>4, <1>5

LEMMA UpdateEntitiesStep == ASSUME Inv, UpdateEntities PROVE Inv'
<1> USE TrackingAssumption, EntityParts DEF Inv, UpdateEntities, net, bounds
<1>1. PlacesTyped'
  BY DEF PlacesTyped
<1>2. RestTyped'
  BY DEF RestTyped, World
<1>3. NetTyped' /\ \A q \in Player : AnswersMeet(q)'
  BY DEF NetTyped, AnswersMeet
<1>4. \A v \in Player, e \in Entity :
         e \in inView'[v] <=> e \in inView[v] \/ (v \in World /\ Near(v, e))
  BY DEF ShownTyped
<1>5. PICK unadded \in SUBSET Droppable(Adds), unmoved \in SUBSET Droppable(Moves) :
         /\ screen' \in [Player -> [Entity -> Int \cup {None}]]
         /\ \A v \in Player, e \in Entity :
              screen'[v][e] = None <=> Placed(unadded, v, e) = None
         /\ LastWord(Adds, unadded) /\ Drop(unadded \cup unmoved)
  BY ONLY Inv, UpdateEntities, Updated
<1>51. /\ astray' \subseteq Slow \X Entity /\ lost' \in [Player -> Nat]
       /\ \A m : m \in astray' <=> (m \in astray /\ m \notin Adds) \/ m \in unadded
  <2>1. unadded \subseteq Slow \X Entity
    BY DEF Droppable, Adds
  <2> QED BY <1>5, <2>1 DEF LastWord, Drop, ShownTyped
<1>6. ShownTyped'
  <2>1. inView' \in [Player -> SUBSET Entity]
    BY DEF ShownTyped
  <2> QED BY <2>1, <1>5, <1>51 DEF ShownTyped
<1>7. \A v \in Player, e \in Entity : Matches(v, e)'
  <2> SUFFICES ASSUME NEW v \in Player, NEW e \in Entity, <<v, e>> \notin astray'
               PROVE  e \in inView'[v] <=> screen'[v][e] # None
    BY DEF Matches
  <2>1. <<v, e>> \in Adds <=> v \in World /\ Near(v, e) /\ e \notin inView[v]
    BY DEF Adds, World
  <2>2. CASE <<v, e>> \in Adds
    <3>1. Spawned(e) # None
      BY DEF Spawned, PlacesTyped
    <3> QED BY <1>4, <1>5, <1>51, <2>1, <2>2, <3>1 DEF Placed
  <2>3. CASE <<v, e>> \notin Adds
    <3>1. <<v, e>> \notin astray /\ Matches(v, e) /\ (e \in inView'[v] <=> e \in inView[v])
      BY <1>4, <1>51, <2>1, <2>3
    <3>2. screen'[v][e] = None <=> screen[v][e] = None
      BY <1>5, <2>3 DEF Placed
    <3> QED BY <3>1, <3>2 DEF Matches
  <2> QED BY <2>2, <2>3
<1>8. OnlyTheWorldSees'
  <2>1. \A v \in Player : v \notin inView'[v]
    BY <1>4, NearIs DEF OnlyTheWorldSees
  <2>2. \A v \in Player : status'[v] # "in" => inView'[v] = {}
    BY DEF OnlyTheWorldSees, World
  <2> QED BY <2>1, <2>2 DEF OnlyTheWorldSees
<1>9. AboveVoid'
  BY DEF AboveVoid
<1>10. GhostsOutside'
  <2> SUFFICES ASSUME NEW v \in World', NEW e \in Player, status'[e] = "gone", e \in inView'[v]
               PROVE  ~InBox(v, position'[e])
    BY DEF GhostsOutside, InBox
  <2>1. v \in World /\ v \in Player /\ e \notin World /\ position'[e] = position[e]
    BY DEF World, PlacesTyped
  <2>2. e \in inView[v]
    BY <2>1, <1>4, NearIs
  <2> QED BY <2>1, <2>2 DEF GhostsOutside
<1> QED BY <1>1, <1>2, <1>3, <1>6, <1>7, <1>8, <1>9, <1>10

LEMMA NextInv == Inv /\ [Next]_vars => Inv'
<1> SUFFICES ASSUME Inv, [Next]_vars PROVE Inv'
  OBVIOUS
<1>1. CASE \E p \in Player : AddPlayer(p)
  BY <1>1, AddPlayerStep
<1>2. CASE \E p \in Player : RemovePlayer(p)
  BY <1>2, RemovePlayerStep
<1>3. CASE \E p \in Player : AcceptTeleportation(p)
  BY <1>3, AcceptStep
<1>4. CASE \E p \in Player : \E y \in Reported[p] : MovePlayerPos(p, y)
  BY <1>4, MoveStep
<1>5. CASE \E p \in Player : \E y \in TpTargets[p] : Tp(p, y)
  BY <1>5, TpStep
<1>6. CASE BeginTick
  BY <1>6, BeginStep
<1>7. CASE \E p \in Player : UpdatePlayer(p)
  BY <1>7, UpdatePlayerStep
<1>8. CASE \E p \in Player : SkipPlayer(p)
  BY <1>8, SkipStep
<1>9. CASE UpdateEntities
  BY <1>9, UpdateEntitiesStep
<1>10. CASE UNCHANGED vars
  <2> USE <1>10 DEF vars, Inv
  <2>1. PlacesTyped' /\ ShownTyped' /\ RestTyped'
    BY DEF PlacesTyped, ShownTyped, RestTyped, World
  <2>2. NetTyped' /\ \A q \in Player : AnswersMeet(q)'
    BY DEF NetTyped, AnswersMeet
  <2>3. /\ \A v \in Player, e \in Entity : Matches(v, e)'
        /\ OnlyTheWorldSees' /\ AboveVoid' /\ GhostsOutside'
    BY DEF Matches, OnlyTheWorldSees, AboveVoid, GhostsOutside, World, InBox
  <2> QED BY <2>1, <2>2, <2>3
<1> QED
  BY <1>1, <1>2, <1>3, <1>4, <1>5, <1>6, <1>7, <1>8, <1>9, <1>10 DEF Next, Tick

LEMMA Invariant == Spec => []Inv
BY InitInv, NextInv, PTL DEF Spec

(* Every variable keeps its type. *)
THEOREM TrackingTypeOK == Spec => []TypeOK
<1>1. Inv => TypeOK
  <2> SUFFICES ASSUME Inv PROVE TypeOK
    OBVIOUS
  <2>1. \A p \in Player : \A i \in DOMAIN told[p] : told[p][i] \in [pos : Int, request : BOOLEAN]
    BY PacketsTyped DEF Inv, NetTyped, PacketType
  <2> QED
    BY <2>1 DEF Inv, PlacesTyped, NetTyped, ShownTyped, RestTyped, TypeOK
<1> QED BY <1>1, Invariant, PTL

(* EntitiesInView lists exactly what the client draws, but for entities      *)
(* whose last ViewAdd or ViewRemove the client's full queue dropped          *)
(* (tick.go:169-174, 250-262, 338-394, world.go:137-144, queue.go:67-73).    *)
THEOREM ScreensMatch == Spec => []ScreenMatchesView
<1>1. Inv => ScreenMatchesView
  BY DEF Inv, Matches, ScreenMatchesView
<1> QED BY <1>1, Invariant, PTL

(* Nobody who never used /tp stands in the void (tick.go:175-209).           *)
THEOREM NobodyInVoid == Spec => []NeverInVoid
<1>1. Inv => NeverInVoid
  BY DEF Inv, AboveVoid, NeverInVoid
<1> QED BY <1>1, Invariant, PTL

(* Who left is listed only by viewers whose next tick drops it               *)
(* (world.go:134-144).                                                       *)
THEOREM NoGhosts == Spec => []GhostsOutside
<1>1. Inv => GhostsOutside
  BY DEF Inv
<1> QED BY <1>1, Invariant, PTL

(* The 16-bit delta is the move modulo the 16 blocks it wraps at. *)
LEMMA DeltaWraps ==
    ASSUME NEW x \in Int, NEW y \in Int
    PROVE  /\ Delta(x, y) \in Int
           /\ (Delta(x, y) - (y - x)) % 16 = 0
           /\ Distance(y, x) < 8 => Delta(x, y) = y - x
<1>1. (y - x + 8) % 16 \in 0..15
  OBVIOUS
<1>3. (((y - x + 8) % 16) - (y - x + 8)) % 16 = 0
  OBVIOUS
<1>4. Distance(y, x) < 8 => y - x + 8 \in 1..15
  BY DEF Distance
<1> QED BY <1>1, <1>3, <1>4 DEF Delta

(* A tick that loses no packet to a viewer moves every copy it has as it     *)
(* moves the player, up to the wrap of the delta (tick.go:320-394).          *)
THEOREM CopiesKeepTheirError == Spec => CopiesFollow
<1> DEFINE Kept(v, e) ==
             /\ lost'[v] = lost[v]
             /\ e \in inView[v] /\ screen[v][e] # None /\ InBox(v, position[e])
             => /\ (Error(v, e)' - Error(v, e)) % 16 = 0
                /\ Distance(pos0[e], position[e]) < 8 => Error(v, e)' = Error(v, e)
<1>1. ASSUME Inv, NEW v \in Player, NEW e \in Player, UpdateEntities, lost'[v] = lost[v],
             e \in inView[v], screen[v][e] # None, InBox(v, position[e])
      PROVE  /\ (Error(v, e)' - Error(v, e)) % 16 = 0
             /\ Distance(pos0[e], position[e]) < 8 => Error(v, e)' = Error(v, e)
  <2>1. v \in World /\ v # e /\ e \in Entity /\ e \notin Static
    BY <1>1, EntityParts DEF Inv, OnlyTheWorldSees, World
  <2>2. PICK unadded \in SUBSET Droppable(Adds), unmoved \in SUBSET Droppable(Moves) :
          /\ screen'[v][e] = IF <<v, e>> \in Moves \ unmoved
                             THEN Moved(Placed(unadded, v, e), e)
                             ELSE Placed(unadded, v, e)
          /\ Drop(unadded \cup unmoved)
    BY <1>1, <2>1, Updated
  <2>3. /\ position[e] \in Int /\ pos0[e] \in Int /\ screen[v][e] \in Int
        /\ lost[v] \in Nat
    BY <1>1, <2>1 DEF Inv, PlacesTyped, ShownTyped
  <2>4. <<v, e>> \notin unmoved
    <3>1. lost'[v] = IF \E m \in unadded \cup unmoved : m[1] = v THEN lost[v] + 1 ELSE lost[v]
      BY <2>2 DEF Drop
    <3>2. ASSUME <<v, e>> \in unmoved PROVE \E m \in unadded \cup unmoved : m[1] = v
      BY <3>2
    <3> QED BY <1>1, <2>3, <3>1, <3>2
  <2>5. Placed(unadded, v, e) = screen[v][e]
    BY <1>1 DEF Placed, Adds
  <2>6. CASE e \in World
    <3> DEFINE d == Delta(position[e], pos0[e])
    <3>1. position'[e] = pos0[e] /\ Near(v, e)
      BY <1>1, <2>1, <2>6 DEF UpdateEntities, Near
    <3>2. /\ d \in Int /\ (d - (pos0[e] - position[e])) % 16 = 0
          /\ Distance(pos0[e], position[e]) < 8 => d = pos0[e] - position[e]
      BY <2>3, DeltaWraps
    <3>3. screen'[v][e] = screen[v][e] + d
      <4>1. CASE position[e] # pos0[e]
        <5>1. <<v, e>> \in Moves
          BY <2>1, <2>6, <3>1, <4>1 DEF Moves
        <5> QED BY <1>1, <2>2, <2>4, <2>5, <5>1 DEF Moved
      <4>2. CASE position[e] = pos0[e]
        <5>1. <<v, e>> \notin Moves
          BY <4>2 DEF Moves
        <5>2. d = 0
          BY <2>3, <3>2, <4>2 DEF Distance
        <5> QED BY <2>2, <2>3, <2>5, <5>1, <5>2
      <4> QED BY <4>1, <4>2
    <3> HIDE DEF d
    <3>4. Error(v, e)' - Error(v, e) = d - (pos0[e] - position[e])
      BY <2>3, <3>1, <3>2, <3>3 DEF Error
    <3>5. Distance(pos0[e], position[e]) < 8 => Error(v, e)' = Error(v, e)
      BY <2>3, <3>1, <3>2, <3>3 DEF Error
    <3> QED BY <3>2, <3>4, <3>5
  <2>7. CASE e \notin World
    <3>1. position'[e] = position[e] /\ <<v, e>> \notin Moves
      BY <1>1, <2>7 DEF UpdateEntities, Moves
    <3>2. Error(v, e)' = Error(v, e) /\ Error(v, e) \in Int
      BY <2>2, <2>3, <2>5, <3>1 DEF Error
    <3> QED BY <3>2
  <2> QED BY <2>6, <2>7
<1>2. Inv => [UpdateEntities => \A v \in Player, e \in Player : Kept(v, e)]_vars
  BY <1>1
<1>3. Spec => [][UpdateEntities => \A v \in Player, e \in Player : Kept(v, e)]_vars
  BY <1>2, Invariant, PTL
<1> QED BY <1>3 DEF CopiesFollow

(* While a teleport waits no report moves the player, and the wait ends      *)
(* where the client was told it is by the very packet it answered            *)
(* (tick.go:175-180, 188-205, move.go:26-39).                                *)
THEOREM NoReportOvertakes == Spec => ReportsWait
<1> DEFINE Waits(p) == Pending(p) =>
             \/ pos0'[p] = pos0[p] /\ teleport'[p] = teleport[p]
             \/ ~Pending(p)' /\ answered[p] # None /\ pos0'[p] = answered[p]
<1>1. ASSUME Inv, Next, NEW p \in Player, Pending(p) PROVE Waits(p)
  <2>1. CASE \E q \in Player : UpdatePlayer(q)
    <3>1. PICK q \in Player : UpdatePlayer(q)
      BY <2>1
    <3>2. CASE q # p
      <4>1. pos0'[p] = pos0[p] /\ teleport'[p] = teleport[p]
        <5> USE DEF Inv, PlacesTyped
        <5>1. CASE Settle(q)
          BY <3>2, <5>1 DEF Settle
        <5>2. CASE PullBack(q)
          BY <3>2, <5>2 DEF PullBack, Request
        <5>3. CASE Rescue(q)
          BY <3>2, <5>3 DEF Rescue, Request
        <5>4. CASE Follow(q)
          BY <3>2, <5>4 DEF Follow
        <5>5. CASE Ignore(q)
          BY <5>5 DEF Ignore, place
        <5> QED BY <3>1, <5>1, <5>2, <5>3, <5>4, <5>5 DEF UpdatePlayer
      <4> QED BY <4>1
    <3>3. CASE q = p
      <4>1. Settle(p) \/ Ignore(p)
        BY <1>1, <3>1, <3>3 DEF UpdatePlayer, PullBack, Rescue, Follow
      <4>2. CASE Settle(p)
        <5>1. answered[p] # None /\ answered[p] = teleport[p]
          BY <1>1, <4>2 DEF Settle, Inv, AnswersMeet, Meets
        <5> QED BY <1>1, <4>2, <5>1 DEF Settle, Pending, Inv, PlacesTyped
      <4>3. CASE Ignore(p)
        BY <4>3 DEF Ignore, place
      <4> QED BY <4>1, <4>2, <4>3
    <3> QED BY <3>2, <3>3
  <2>2. CASE ~ \E q \in Player : UpdatePlayer(q)
    BY <1>1, <2>2 DEF Next, Tick, AddPlayer, RemovePlayer, AcceptTeleportation, MovePlayerPos, Tp,
                      BeginTick, SkipPlayer, UpdateEntities, place
  <2> QED BY <2>1, <2>2
<1>2. Inv /\ [Next]_vars => [\A p \in Player : Waits(p)]_vars
  BY <1>1
<1>3. Spec => [][\A p \in Player : Waits(p)]_vars
  BY <1>2, Invariant, PTL DEF Spec
<1> QED BY <1>3 DEF ReportsWait
=============================================================================
