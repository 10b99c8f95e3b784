--------------------------- MODULE PlayerSession ---------------------------
(***************************************************************************)
(* One player session from Game.AcceptPlayer to the closed connection, as  *)
(* the four goroutines that share it: the one that runs AcceptPlayer, the  *)
(* sender and the receiver client.Start spawns, and the keep-alive         *)
(* goroutine of module KeepAlive.  They meet in the player list (a map     *)
(* under a mutex), the client's packet queue (a channel of fixed capacity  *)
(* whose Push drops when full), the unbuffered keep-alive channels, and    *)
(* the connection.  A client of the model is one connection, used once.    *)
(* Nothing checks that an answer was asked for: the clients of Babblers    *)
(* send keep-alives whenever they like.                                    *)
(***************************************************************************)
EXTENDS KeepAlive

CONSTANTS
  MaxPlayer,   \* PlayerList.maxPlayer
  QueueCap,    \* capacity of a client's ChannelQueue (256 in client.New)
  Babblers,    \* the clients that send keep-alives nobody asked for
  MaxListed    \* bound: no unasked answer while the two lists hold that many

ASSUME MaxPlayerAssumption == MaxPlayer \in Nat
ASSUME QueueCapAssumption == QueueCap \in Nat /\ QueueCap >= 2
ASSUME BabblersAssumption == Babblers \subseteq Client /\ MaxListed \in Nat

VARIABLES
  main,      \* where AcceptPlayer of the client is
  sender,    \* the startSend goroutine
  receiver,  \* the startReceive goroutine; "ticking" inside ClientTick
  players,   \* PlayerList.players
  inWorld,   \* the clients of World.players
  queue,     \* the client's queue of clientbound packets
  open,      \* the clients whose connection is up
  toAnswer   \* keep-alives that have arrived at the peer, not yet answered
             \* (not counted for a babbler, which needs none to answer)

sessionVars == <<main, sender, receiver, players, inWorld, queue, open, toAnswer>>
vars == <<kaVars, sessionVars>>

MainAt == {"new", "listed", "kept", "started", "unworld", "unlisted", "unkept", "gone"}
Packet == {"keepalive", "disconnect", "other"}

Init ==
  /\ NewKeepAlive
  /\ main = [c \in Client |-> "new"]
  /\ sender = [c \in Client |-> "none"]
  /\ receiver = [c \in Client |-> "none"]
  /\ players = {}
  /\ inWorld = {}
  /\ queue = [c \in Client |-> <<>>]
  /\ open = Client
  /\ toAnswer = [c \in Client |-> 0]

----------------------------------------------------------------------------
\* Mutant: one packet too many.
MutantCanPush(c) == sender[c] # "done" /\ Len(queue[c]) <= QueueCap

(* ChannelQueue.Push: never blocks, drops the packet when the queue is full. *)
(* What is pushed once the sender has ended is not kept: nobody pulls it.    *)

CanPush(c) == sender[c] # "done" /\ Len(queue[c]) < QueueCap
Broadcast(cs, p) ==
  [c \in Client |-> IF c \in cs /\ CanPush(c) THEN Append(queue[c], p) ELSE queue[c]]
Push(c, p) == Broadcast({c}, p)

\* Each action names what it changes with the frames of the parties it leaves.
Goto(c, from, to) == main[c] = from /\ main' = [main EXCEPT ![c] = to]

----------------------------------------------------------------------------
(* AcceptPlayer: addPlayer, AddPlayer, Start, and the deferred calls *)

\* The first packets and the join message, then PlayerList.ClientJoin: a full
\* list only sends a Disconnect, the session goes on.  (Packets one action
\* pushes to one client stand for one; only their order with a Disconnect and
\* the room they take matter.)
JoinList(c) ==
  /\ Goto(c, "new", "listed")
  /\ \/ /\ Cardinality(players) < MaxPlayer
        /\ players' = players \cup {c}
        /\ queue' = Broadcast(players \cup {c}, "other")
     \/ /\ Cardinality(players) >= MaxPlayer
        /\ queue' = [Broadcast(players, "other") EXCEPT ![c] = <<"other", "disconnect">>]
        /\ UNCHANGED players
  /\ UNCHANGED <<kaVars, sender, receiver, inWorld, open, toAnswer>>

JoinKeepAlive(c) ==
  /\ Goto(c, "listed", "kept")
  /\ pushPlayer(c)
  /\ UNCHANGED <<sender, receiver, players, inWorld, queue, open, toAnswer>>

\* The rest of addPlayer, World.AddPlayer, and client.Start.
JoinWorld(c) ==
  /\ Goto(c, "kept", "started")
  /\ queue' = Broadcast(players \cup {c}, "other")
  /\ inWorld' = inWorld \cup {c}
  /\ sender' = [sender EXCEPT ![c] = "running"]
  /\ receiver' = [receiver EXCEPT ![c] = "running"]
  /\ UNCHANGED <<kaVars, players, open, toAnswer>>

\* Mutant: Start waits for both goroutines.
MutantLeaveWorld(c) ==
  /\ sender[c] = "done" /\ receiver[c] = "done"
  /\ Goto(c, "started", "unworld")
  /\ inWorld' = inWorld \ {c}
  /\ UNCHANGED <<kaVars, sender, receiver, players, queue, open, toAnswer>>

\* Start returns when the first of the two has ended; World.RemovePlayer.
LeaveWorld(c) ==
  /\ sender[c] = "done" \/ receiver[c] = "done"
  /\ Goto(c, "started", "unworld")
  /\ inWorld' = inWorld \ {c}
  /\ UNCHANGED <<kaVars, sender, receiver, players, queue, open, toAnswer>>

LeaveList(c) ==
  /\ Goto(c, "unworld", "unlisted")
  /\ players' = players \ {c}
  /\ UNCHANGED <<kaVars, sender, receiver, inWorld, queue, open, toAnswer>>

LeaveKeepAlive(c) ==
  /\ Goto(c, "unlisted", "unkept")
  /\ removePlayer(c)
  /\ UNCHANGED <<sender, receiver, players, inWorld, queue, open, toAnswer>>

\* The messages to the others, and AcceptConn's deferred conn.Close.
CloseConn(c) ==
  /\ Goto(c, "unkept", "gone")
  /\ queue' = Broadcast(players, "other")
  /\ open' = open \ {c}
  /\ UNCHANGED <<kaVars, sender, receiver, players, inWorld, toAnswer>>

AcceptPlayer(c) ==
  \/ JoinList(c) \/ JoinKeepAlive(c) \/ JoinWorld(c)
  \/ LeaveWorld(c) \/ LeaveList(c) \/ LeaveKeepAlive(c) \/ CloseConn(c)

----------------------------------------------------------------------------
(* startSend and startReceive *)

\* Pull blocks on an empty queue (nobody closes it); a write to a dead
\* connection ends the sender, and so does the Disconnect it has written.
Send(c) ==
  /\ sender[c] = "running" /\ queue[c] # <<>>
  /\ \/ /\ c \notin open \/ Head(queue[c]) = "disconnect"
        /\ sender' = [sender EXCEPT ![c] = "done"]
        /\ queue' = [queue EXCEPT ![c] = <<>>]
     \/ /\ c \in open /\ Head(queue[c]) # "disconnect"
        /\ queue' = [queue EXCEPT ![c] = Tail(@)]
        /\ UNCHANGED sender
  /\ toAnswer' = [toAnswer EXCEPT ![c] =
       IF c \in open \ Babblers /\ Head(queue[c]) = "keepalive" THEN @ + 1 ELSE @]
  /\ UNCHANGED <<kaVars, main, receiver, players, inWorld, open>>

Answer(c) == toAnswer[c] > 0 /\ toAnswer' = [toAnswer EXCEPT ![c] = @ - 1]
Babble(c) ==
  /\ c \in Babblers /\ Len(pingList) + Len(waitList) < MaxListed
  /\ UNCHANGED toAnswer

\* Mutant: the packet is handled twice.
MutantReceiveAnswer(c) ==
  /\ receiver[c] = "running" /\ c \in open
  /\ Answer(c) \/ Babble(c) \/ (toAnswer[c] > 0 /\ UNCHANGED toAnswer)
  /\ receiver' = [receiver EXCEPT ![c] = "ticking"]
  /\ UNCHANGED <<kaVars, main, sender, players, inWorld, queue, open>>

\* ReadPacket yields a keep-alive; its handler calls ClientTick, asked or not.
ReceiveAnswer(c) ==
  /\ receiver[c] = "running" /\ c \in open
  /\ Answer(c) \/ Babble(c)
  /\ receiver' = [receiver EXCEPT ![c] = "ticking"]
  /\ UNCHANGED <<kaVars, main, sender, players, inWorld, queue, open>>

\* The unbuffered tick channel: Run takes the client.
ClientTick(c) ==
  /\ receiver[c] = "ticking"
  /\ tickPlayer(c)
  /\ receiver' = [receiver EXCEPT ![c] = "running"]
  /\ queue' = IF listIndex[c] = "none" THEN queue ELSE Broadcast(players, "other")
  /\ UNCHANGED <<main, sender, players, inWorld, open, toAnswer>>

\* ReadPacket on a dead connection fails, or a handler returns an error.
ReceiveFails(c) ==
  /\ receiver[c] = "running"
  /\ receiver' = [receiver EXCEPT ![c] = "done"]
  /\ toAnswer' = [toAnswer EXCEPT ![c] = 0]
  /\ UNCHANGED <<kaVars, main, sender, players, inWorld, queue, open>>

\* The peer, or the network, drops the connection.
PeerGone(c) ==
  /\ c \in open
  /\ open' = open \ {c}
  /\ UNCHANGED <<kaVars, main, sender, receiver, players, inWorld, queue, toAnswer>>

\* A world tick or another player's action has something to tell the client.
Traffic(c) ==
  /\ c \in inWorld \cup players /\ CanPush(c)
  /\ queue' = Push(c, "other")
  /\ UNCHANGED <<kaVars, main, sender, receiver, players, inWorld, open, toAnswer>>

----------------------------------------------------------------------------
(* The keep-alive goroutine: SendKeepAlive and SendDisconnect are pushes *)

Ping ==
  /\ ListTimerFires
  /\ queue' = IF pingList = <<>> THEN queue ELSE Push(Head(pingList).player, "keepalive")
  /\ UNCHANGED <<main, sender, receiver, players, inWorld, open, toAnswer>>

Kick ==
  /\ WaitTimerFires
  /\ queue' = IF waitList = <<>> THEN queue ELSE Push(Head(waitList).player, "disconnect")
  /\ UNCHANGED <<main, sender, receiver, players, inWorld, open, toAnswer>>

Tick == Time /\ UNCHANGED sessionVars

\* A panic takes the whole process down: nothing happens after it.
Next ==
  /\ ~crashed
  /\ \/ \E c \in Client :
          \/ AcceptPlayer(c)
          \/ Send(c) \/ ReceiveAnswer(c) \/ ClientTick(c) \/ ReceiveFails(c)
          \/ PeerGone(c) \/ Traffic(c)
     \/ Ping \/ Kick \/ Tick

Spec == Init /\ [][Next]_vars

\* Every goroutine that can take a step is scheduled: Run and its clock, and
\* per client AcceptPlayer, the sender (writes return) and the receiver (a read
\* on a dead connection fails).  Peers, other players and world ticks are free
\* to do nothing.
Run == Ping \/ Kick \/ Tick
Receive(c) == ClientTick(c) \/ (c \notin open /\ ReceiveFails(c))

FairSpec ==
  /\ Spec
  /\ WF_vars(~crashed /\ Run)
  /\ \A c \in Client :
       /\ WF_vars(~crashed /\ AcceptPlayer(c))
       /\ WF_vars(~crashed /\ Send(c))
       /\ WF_vars(~crashed /\ Receive(c))

----------------------------------------------------------------------------
(* Properties *)

\* Types.
TypeOK ==
  /\ KeepAliveTypeOK
  /\ main \in [Client -> MainAt]
  /\ sender \in [Client -> {"none", "running", "done"}]
  /\ receiver \in [Client -> {"none", "running", "ticking", "done"}]
  /\ players \subseteq Client /\ inWorld \subseteq Client /\ open \subseteq Client
  /\ queue \in [Client -> Seq(Packet)]
  /\ \A c \in Client : Len(queue[c]) <= QueueCap
  /\ toAnswer \in [Client -> Nat]

Behaved == Client \ Babblers

\* Nothing holds a client whose connection AcceptConn has closed: it is out of
\* the world and the player list, and one that never answered unasked is out of
\* the keep-alive index and both keep-alive lists too, however its kick, its
\* late answers and its departure interleaved and whatever elements the
\* others' unasked answers left in the lists.  (What a babbler leaves there is
\* pinged, kicked and then indexed for ever: removePlayer took out one element.)
NothingLeftBehind ==
  \A c \in Client : main[c] \in {"new", "unkept", "gone"} =>
    /\ c \notin inWorld \cup players
    /\ c \in Behaved => /\ listIndex[c] = "none"
                        /\ Count(pingList, c) = 0 /\ Count(waitList, c) = 0

\* Every player of the world is under keep-alive supervision: it will be
\* pinged, is being waited for, or has been sent a Disconnect.
WorldIsSupervised == \A c \in inWorld : listIndex[c] # "none"

\* The panic of tickPlayer ("keepalive: fail to tick player: client not
\* found", keepalive.go:120) is unreachable.
NeverCrashes == ~crashed

\* A session does not outlive its connection, nor a Disconnect that entered
\* the queue ("Once the packet is sent, the connection will be closed",
\* packets.go:61): all of AcceptPlayer's deferred calls run, whichever of the
\* goroutines notices first.
SessionEnds ==
  \A c \in Client :
    (c \notin open \/ \E i \in DOMAIN queue[c] : queue[c][i] = "disconnect")
      ~> (main[c] = "gone" \/ crashed)

=============================================================================
