--------------------------- MODULE EntityTracking ---------------------------
(***************************************************************************)
(* Where the players of a world stand, which entities each of them is      *)
(* shown, and how a player and the server agree on a position: the inputs  *)
(* a client's receive goroutine stores, the teleports the server sends and *)
(* the client answers, the /tp command, and the two passes of the world's  *)
(* tick over its players (world/tick.go), with players joining and leaving *)
(* between ticks (world/world.go).                                         *)
(*                                                                         *)
(* Positions are heights: the speed limit and the 16-bit deltas treat the  *)
(* three axes alike, the void is about the height, and the view boxes look *)
(* at x and the height (Vec3.Less leaves z out).  A client draws           *)
(* what it is sent in order, so its screen is changed by the step that     *)
(* sends - unless the packet is dropped: the queue of a client in Slow may *)
(* be full at any time, Push then returns false, and SendPacket ignores it *)
(* (packets.go:50, queue.go:67-73).  The server's own state changes all    *)
(* the same.  Teleport ids are fresh and only ever compared with the       *)
(* pending one, so a packet says whether it belongs to a request.          *)
(***************************************************************************)
EXTENDS Integers, Sequences, FiniteSets

CONSTANTS
    Player,     \* the joins of a behaviour; one who comes back is a new one
    Static,     \* the entities that are not players
    Stands,     \* [Static -> Int], where they stand
    Saved,      \* [Player -> Int], the position a player joins at
    Reported,   \* [Player -> set of heights or Invalid], what a client reports
    TpTargets,  \* [Player -> set of heights], where a client asks /tp to go
    Slow,       \* the clients whose queue may be full
    Invalid,    \* a report that is NaN
    None,       \* no pending teleport; not answered; not on the screen
    MaxFalls,   \* bound: reports from the void in a behaviour
    MaxTold,    \* bound: no /tp while that many packets wait for an answer
    MaxLost     \* [Player -> Nat], bound: steps in which its queue drops entity packets

ASSUME TrackingAssumption ==
    /\ Player \cap Static = {}
    /\ Stands \in [Static -> Int]
    /\ Saved \in [Player -> Int]
    /\ Invalid \notin Int /\ None \notin Int
    /\ \A p \in Player : Reported[p] \subseteq Int \cup {Invalid}
    /\ \A p \in Player : TpTargets[p] \subseteq Int
    /\ Slow \subseteq Player
    /\ MaxFalls \in Nat /\ MaxTold \in Nat /\ MaxLost \in [Player -> Nat]

VARIABLES
    status,    \* "out", "in" the world, "gone", or "late": moved by /tp once gone
    position,  \* Entity.Position
    pos0,      \* Entity.pos0, where the next tick puts the player
    input,     \* Inputs.Position
    answered,  \* where the packet put the client whose id is Inputs.TeleportID
               \* and the pending request's, or None
    teleport,  \* Player.teleport: the position of the pending request, or None
    told,      \* the PlayerPosition packets the client has not answered
    inView,    \* the keys of Player.EntitiesInView
    screen,    \* where the client draws each entity, or None
    todo,      \* players the running tick has not updated
    ticking,   \* the tick holds tickLock
    falls,     \* reports from the void so far
    tps,       \* history: players that used /tp
    astray,    \* history: <<v, e>> when the last packet to v that shows or
               \* removes e was dropped
    lost,      \* history: in how many steps v's queue dropped entity packets
    unheard    \* history: players to whom a request's packet was dropped

vars == <<status, position, pos0, input, answered, teleport, told, inView,
          screen, todo, ticking, falls, tps, astray, lost, unheard>>
net == <<input, answered, told, unheard>>
place == <<position, pos0, teleport>>
shown == <<inView, screen, astray, lost>>
bounds == <<tps, falls>>

Entity == Player \cup Static
World == {p \in Player : status[p] = "in"}

ViewRange == 160    \* ViewDistance 10, in blocks
MaxMove == 100      \* "You moved too quickly"
Void == -100
RescueHeight == 100

Distance(a, b) == IF a > b THEN a - b ELSE b - a

(* The view box of v, fixed when v joined; WithIn and TouchPoint are strict. *)
InBox(v, y) == Saved[v] - ViewRange < y /\ y < Saved[v] + ViewRange

(* A movement packet carries int16((new - old) * 4096): it wraps at 8 blocks. *)
Delta(from, to) == ((to - from + 8) % 16) - 8

Packet(y, isRequest) == [pos |-> y, request |-> isRequest]

(* What the queues may drop of the entity packets <<viewer, entity>> sent.  *)
Droppable(sent) == {m \in sent : m[1] \in Slow /\ lost[m[1]] < MaxLost[m[1]]}

Drop(dropped) ==
    lost' = [v \in Player |->
      IF \E m \in dropped : m[1] = v THEN lost[v] + 1 ELSE lost[v]]

(* Of the packets that show or remove an entity the last one counts. *)
LastWord(sent, dropped) == astray' = (astray \ sent) \cup dropped

-----------------------------------------------------------------------------
Init ==
    /\ status = [p \in Player |-> "out"]
    /\ position = Saved
    /\ pos0 = [p \in Player |-> 0]
    /\ input = [p \in Player |-> 0]
    /\ answered = [p \in Player |-> None]
    /\ teleport = [p \in Player |-> None]
    /\ told = [p \in Player |-> <<>>]
    /\ inView = [p \in Player |-> {}]
    /\ screen = [p \in Player |-> [e \in Entity |-> None]]
    /\ todo = {} /\ ticking = FALSE
    /\ falls = 0 /\ tps = {} /\ astray = {} /\ unheard = {}
    /\ lost = [p \in Player |-> 0]

(* AcceptPlayer sends the position and adds the player between two ticks. *)
AddPlayer(p) ==
    /\ ~ticking /\ status[p] = "out"
    /\ status' = [status EXCEPT ![p] = "in"]
    /\ \/ told' = [told EXCEPT ![p] = <<Packet(Saved[p], FALSE)>>]
       \/ p \in Slow /\ told' = told
    /\ UNCHANGED <<place, input, answered, unheard, shown, todo, ticking, bounds>>

(* Mutants: RemovePlayer does not wait for the tick; it deletes the player's *)
(* own view and forgets its viewers.                                         *)
MutantLeaveInTick(p) ==
    /\ p \in World
    /\ status' = [status EXCEPT ![p] = "gone"]
    /\ UNCHANGED <<place, net, shown, todo, ticking, bounds>>
MutantRemovePlayer(p) ==
    /\ ~ticking /\ p \in World
    /\ status' = [status EXCEPT ![p] = "gone"]
    /\ inView' = [inView EXCEPT ![p] = {}]
    /\ screen' = [screen EXCEPT ![p] = [e \in Entity |-> None]]
    /\ UNCHANGED <<place, net, astray, lost, todo, ticking, bounds>>

(* The viewers of the leaving player are looked up by where it stands now;  *)
(* what it saw itself goes with it.                                         *)
RemovePlayer(p) ==
    /\ ~ticking /\ p \in World
    /\ status' = [status EXCEPT ![p] = "gone"]
    /\ LET near == {v \in World \ {p} : InBox(v, position[p])}
           own == {p} \X Entity IN
       \E dropped \in SUBSET Droppable(near \X {p}) :
         /\ inView' = [v \in Player |->
              CASE v = p -> {} [] v \in near -> inView[v] \ {p} [] OTHER -> inView[v]]
         /\ screen' = [v \in Player |-> [e \in Entity |->
              IF <<v, e>> \in (own \cup near \X {p}) \ dropped THEN None ELSE screen[v][e]]]
         /\ LastWord(own \cup near \X {p}, dropped) /\ Drop(dropped)
    /\ UNCHANGED <<place, net, todo, ticking, bounds>>

-----------------------------------------------------------------------------
(* Handlers of the receive goroutine.                                      *)

(* Mutant: an answer is the pending request's whatever packet it is for.   *)
MutantAcceptTeleportation(p) ==
    /\ p \in World /\ told[p] # <<>>
    /\ answered' = [answered EXCEPT ![p] = Head(told[p]).pos]
    /\ told' = [told EXCEPT ![p] = Tail(@)]
    /\ UNCHANGED <<status, place, input, unheard, shown, todo, ticking, bounds>>

(* The client answers the packets in order; only the last answer is kept.  *)
AcceptTeleportation(p) ==
    /\ p \in World /\ told[p] # <<>>
    /\ answered' = [answered EXCEPT ![p] =
         IF Head(told[p]).request THEN Head(told[p]).pos ELSE None]
    /\ told' = [told EXCEPT ![p] = Tail(@)]
    /\ UNCHANGED <<status, place, input, unheard, shown, todo, ticking, bounds>>

MovePlayerPos(p, y) ==
    /\ p \in World /\ input[p] # y
    /\ IF y # Invalid /\ y < Void
       THEN falls < MaxFalls /\ falls' = falls + 1
       ELSE falls' = falls
    /\ input' = [input EXCEPT ![p] = y]
    /\ UNCHANGED <<status, place, answered, told, unheard, shown, todo, ticking, tps>>

(* /tp writes Position under no lock and tells the client, but leaves no     *)
(* request.  During a tick the write may fall between the entity pass        *)
(* reading Position and overwriting it, and is lost.  The handler may still  *)
(* be running when its player has been removed.                              *)
Tp(p, y) ==
    /\ status[p] # "out" /\ Len(told[p]) < MaxTold
    /\ tps' = tps \cup {p}
    /\ \/ told' = [told EXCEPT ![p] = Append(@, Packet(y, FALSE))]
       \/ p \in Slow /\ told' = told
    /\ \/ position' = [position EXCEPT ![p] = y]
       \/ /\ ticking /\ todo = {} /\ p \in World /\ position[p] # pos0[p]
          /\ position' = position
    /\ status' = [status EXCEPT ![p] = IF @ = "gone" THEN "late" ELSE @]
    /\ UNCHANGED <<pos0, teleport, input, answered, unheard, shown, todo, ticking, falls>>

-----------------------------------------------------------------------------
(* The tick.  subtickUpdatePlayers goes over the players in any order.      *)

BeginTick ==
    /\ ~ticking /\ World # {}
    /\ ticking' = TRUE /\ todo' = World
    /\ UNCHANGED <<status, place, net, shown, bounds>>

(* Mutants: an entity is dropped without a ViewRemoveEntities; only entities *)
(* above the box are dropped.                                                *)
MutantDropFar(p) ==
    /\ inView' = [inView EXCEPT ![p] = {e \in @ : e \in Static \/ InBox(p, position[e])}]
    /\ UNCHANGED <<screen, astray, lost>>
MutantDropAbove(p) ==
    LET far == {e \in inView[p] \cap Player : position[e] >= Saved[p] + ViewRange} IN
    /\ inView' = [inView EXCEPT ![p] = @ \ far]
    /\ screen' = [screen EXCEPT ![p] = [e \in Entity |-> IF e \in far THEN None ELSE @[e]]]
    /\ UNCHANGED <<astray, lost>>

DropFar(p) ==
    LET far == {e \in inView[p] \cap Player : ~InBox(p, position[e])} IN
    \E dropped \in SUBSET Droppable({p} \X far) :
      /\ inView' = [inView EXCEPT ![p] = @ \ far]
      /\ screen' = [v \in Player |-> [e \in Entity |->
           IF <<v, e>> \in ({p} \X far) \ dropped THEN None ELSE screen[v][e]]]
      /\ LastWord({p} \X far, dropped) /\ Drop(dropped)

(* SendPlayerPosition and the request that waits for its id. *)
Request(p, y) ==
    /\ teleport' = [teleport EXCEPT ![p] = y]
    /\ answered' = [answered EXCEPT ![p] = None]
    /\ \/ told' = [told EXCEPT ![p] = Append(@, Packet(y, TRUE))] /\ unheard' = unheard
       \/ p \in Slow /\ told' = told /\ unheard' = unheard \cup {p}

Pending(p) == teleport[p] # None
TooFast(p) == input[p] # Invalid /\ Distance(input[p], position[p]) > MaxMove

(* Mutant: the void is looked for under the player, not under its report. *)
MutantFallen(p) == input[p] # Invalid /\ ~TooFast(p) /\ position[p] < Void

Fallen(p) == input[p] # Invalid /\ ~TooFast(p) /\ input[p] < Void

(* Mutant: the acknowledged request stays pending. *)
MutantSettle(p) ==
    /\ Pending(p) /\ answered[p] # None
    /\ pos0' = [pos0 EXCEPT ![p] = teleport[p]]
    /\ answered' = [answered EXCEPT ![p] = None]
    /\ UNCHANGED <<position, teleport, told, unheard>>

Settle(p) ==
    /\ Pending(p) /\ answered[p] # None
    /\ pos0' = [pos0 EXCEPT ![p] = teleport[p]]
    /\ teleport' = [teleport EXCEPT ![p] = None]
    /\ answered' = [answered EXCEPT ![p] = None]
    /\ UNCHANGED <<position, told, unheard>>

PullBack(p) ==
    /\ ~Pending(p) /\ TooFast(p)
    /\ Request(p, position[p])
    /\ UNCHANGED <<position, pos0>>

Rescue(p) ==
    /\ ~Pending(p) /\ Fallen(p)
    /\ position' = [position EXCEPT ![p] = RescueHeight]
    /\ Request(p, RescueHeight)
    /\ UNCHANGED pos0

Follow(p) ==
    /\ ~Pending(p) /\ input[p] # Invalid /\ ~TooFast(p) /\ ~Fallen(p)
    /\ pos0' = [pos0 EXCEPT ![p] = input[p]]
    /\ UNCHANGED <<position, teleport, answered, told, unheard>>

(* The request is not answered yet, or the report is invalid and the player *)
(* is sent a Disconnect.                                                    *)
Ignore(p) ==
    /\ IF Pending(p) THEN answered[p] = None ELSE input[p] = Invalid
    /\ UNCHANGED <<place, answered, told, unheard>>

UpdatePlayer(p) ==
    /\ p \in todo
    /\ todo' = todo \ {p}
    /\ DropFar(p)
    /\ Settle(p) \/ PullBack(p) \/ Rescue(p) \/ Follow(p) \/ Ignore(p)
    /\ UNCHANGED <<status, input, ticking, bounds>>

(* TryLock failed: a handler holds the player's inputs. *)
SkipPlayer(p) ==
    /\ p \in todo
    /\ todo' = todo \ {p}
    /\ UNCHANGED <<status, place, net, shown, ticking, bounds>>

(* subtickUpdateEntities.  Viewers are found by the position before the      *)
(* move: they are shown the player there if they were not, then the move.    *)
Near(v, e) == v # e /\ IF e \in Static THEN InBox(v, Stands[e])
                                       ELSE e \in World /\ InBox(v, position[e])

Spawned(e) == IF e \in Static THEN Stands[e] ELSE position[e]

(* Mutant: movements are counted in units of 1/2048 of a block. *)
MutantMoved(y, e) == IF y = None THEN None ELSE y + 2 * Delta(position[e], pos0[e])

(* A client ignores the movement of an entity it does not draw. *)
Moved(y, e) == IF y = None THEN None ELSE y + Delta(position[e], pos0[e])

UpdateEntities ==
    /\ ticking /\ todo = {}
    /\ ticking' = FALSE
    /\ LET adds == {m \in World \X Entity : Near(m[1], m[2]) /\ m[2] \notin inView[m[1]]}
           moves == {m \in World \X World : Near(m[1], m[2]) /\ position[m[2]] # pos0[m[2]]} IN
       \E unadded \in SUBSET Droppable(adds), unmoved \in SUBSET Droppable(moves) :
         LET Placed(v, e) ==
               IF <<v, e>> \in adds \ unadded THEN Spawned(e) ELSE screen[v][e] IN
         /\ screen' = [v \in Player |-> [e \in Entity |->
              IF <<v, e>> \in moves \ unmoved THEN Moved(Placed(v, e), e) ELSE Placed(v, e)]]
         /\ LastWord(adds, unadded) /\ Drop(unadded \cup unmoved)
    /\ inView' = [v \in Player |->
         IF v \in World THEN inView[v] \cup {e \in Entity : Near(v, e)} ELSE inView[v]]
    /\ position' = [p \in Player |-> IF p \in World THEN pos0[p] ELSE position[p]]
    /\ UNCHANGED <<status, pos0, teleport, net, todo, bounds>>

-----------------------------------------------------------------------------
Tick ==
    \/ BeginTick
    \/ \E p \in Player : UpdatePlayer(p) \/ SkipPlayer(p)
    \/ UpdateEntities

Next ==
    \/ \E p \in Player :
         \/ AddPlayer(p) \/ RemovePlayer(p)
         \/ AcceptTeleportation(p)
         \/ \E y \in Reported[p] : MovePlayerPos(p, y)
         \/ \E y \in TpTargets[p] : Tp(p, y)
    \/ Tick

(* The tick loop never stops, a client answers what it is told, and TryLock  *)
(* does not fail for ever: a handler holds the inputs for two assignments.   *)
Fairness ==
    /\ WF_vars(Tick)
    /\ \A p \in Player : SF_vars(UpdatePlayer(p)) /\ WF_vars(AcceptTeleportation(p))

Spec == Init /\ [][Next]_vars /\ Fairness

-----------------------------------------------------------------------------
(* Every variable keeps its type. *)
TypeOK ==
    /\ status \in [Player -> {"out", "in", "gone", "late"}]
    /\ position \in [Player -> Int] /\ pos0 \in [Player -> Int]
    /\ \A p \in Player :
         /\ input[p] \in {0, Invalid} \cup Reported[p]
         /\ teleport[p] = None \/ teleport[p] \in Int
         /\ answered[p] = None \/ answered[p] \in Int
         /\ \A e \in Entity : screen[p][e] = None \/ screen[p][e] \in Int
         /\ \A i \in DOMAIN told[p] : told[p][i] \in [pos : Int, request : BOOLEAN]
    /\ inView \in [Player -> SUBSET Entity]
    /\ todo \subseteq World /\ (todo # {} => ticking)
    /\ falls \in 0..MaxFalls /\ lost \in [Player -> Nat]
    /\ tps \subseteq Player /\ unheard \subseteq Slow /\ astray \subseteq Slow \X Entity

(* The server's list of what a client is shown is what the client draws:    *)
(* each of the five places that change the list sends the matching packet   *)
(* (ViewAddPlayer, ViewAddEntity, ViewRemoveEntities).  A packet that the   *)
(* queue dropped parts the two, for that entity and that viewer only, and   *)
(* only until the next such packet arrives.                                 *)
ScreenMatchesView ==
    \A v \in Player, e \in Entity :
        <<v, e>> \notin astray => (e \in inView[v] <=> screen[v][e] # None)

(* However falls, pull-backs and skipped ticks fall together, nobody who     *)
(* never used /tp stands in the void: no report from there is followed, and  *)
(* neither pos0 nor a pending teleport carries one over.                     *)
NeverInVoid ==
    \A p \in Player \ tps : Saved[p] >= Void => position[p] >= Void

(* A player who left is still in somebody's list only if it stands outside  *)
(* that viewer's box, where the viewer's next tick drops it; RemovePlayer   *)
(* finds everyone else.  Only a /tp handled after the removal breaks this.  *)
GhostsOutside ==
    \A v \in World, e \in Player :
        status[e] = "gone" /\ e \in inView[v] => ~InBox(v, position[e])

(* A copy on a viewer's screen is moved exactly as the player is: a tick    *)
(* that loses no packet to this viewer keeps the error of every copy it has *)
(* listed, the errors left by packets lost before included, unless          *)
(* the player moved 8 blocks or more                                        *)
(* (then it keeps it up to the 16 blocks the 16-bit delta wraps at), stood  *)
(* outside the viewer's box before (then the move is not sent), or its      *)
(* Position was changed behind pos0's back (/tp, or a rescue that the same  *)
(* tick undoes), which shows as an error before the tick's second pass.     *)
Error(v, e) == screen[v][e] - position[e]
CopiesFollow ==
    [][UpdateEntities => \A v \in Player, e \in Player :
         /\ lost'[v] = lost[v]
         /\ e \in inView[v] /\ screen[v][e] # None /\ InBox(v, position[e])
         => /\ (Error(v, e)' - Error(v, e)) % 16 = 0
            /\ Distance(pos0[e], position[e]) < 8 => Error(v, e)' = Error(v, e)]_vars

(* While a teleport waits, nothing the client reports moves the player, and *)
(* the wait ends only with the player exactly where the packet put the      *)
(* client that the client has answered: no answer to a join, a /tp or an    *)
(* earlier request is taken for it.                                         *)
ReportsWait ==
    [][\A p \in Player : Pending(p) =>
         \/ pos0'[p] = pos0[p] /\ teleport'[p] = teleport[p]
         \/ ~Pending(p)' /\ answered[p] # None /\ pos0'[p] = answered[p]]_vars

(* No teleport the tick asked for waits for ever: it is settled once the    *)
(* client has answered, whatever it reported meanwhile and however often    *)
(* its tick was skipped.  Two things undo this: a queue that dropped the    *)
(* packet of the request, which is never sent again; and a /tp, whose       *)
(* answer replaces the one the tick waits for.  The player's reports are    *)
(* then ignored until it leaves.                                            *)
TeleportsSettle ==
    \A p \in Player :
        []<>(~Pending(p) \/ p \notin World \/ p \in tps \cup unheard)

(* Who stays in a viewer's box ends up shown, who stays out of it ends up   *)
(* not shown, the players who left included.                                *)
ViewsSettle ==
    \A v \in Player : \A e \in Player \ {v} :
        /\ <>[](v \in World /\ Near(v, e)) => <>[](e \in inView[v])
        /\ <>[](v \in World /\ ~InBox(v, position[e])) => <>[](e \notin inView[v])
=============================================================================
