------------------------ MODULE PlayerSessionProofs ------------------------
(***************************************************************************)
(* For any number of connections, any intervals, list size and queue       *)
(* capacity, and any set of clients that answer unasked: whoever is in the *)
(* world is under keep-alive supervision, nothing holds a client that      *)
(* answered only what it was asked once its session has ended, and all     *)
(* goroutines together keep the deadlines of KeepAliveContract for it.     *)
(***************************************************************************)
EXTENDS MCPlayerSession, KeepAliveProofs

USE DEF Behaved

\* The keep-alives among the packets of a queue.
Asked(q) == {i \in DOMAIN q : q[i] = "keepalive"}

\* A keep-alive of the client's is on its way: queued, at the peer, or answered
\* and held by the receiver.
Owes(c) == Asked(queue[c]) # {} \/ toAnswer[c] > 0 \/ receiver[c] = "ticking"

\* At most one of them is.
OneDebt(c) ==
  /\ \A i, j \in Asked(queue[c]) : i = j
  /\ Asked(queue[c]) # {} => toAnswer[c] = 0 /\ receiver[c] # "ticking"
  /\ toAnswer[c] # 0 => toAnswer[c] = 1 /\ receiver[c] # "ticking"

\* What the index, the player list and the world say follows where AcceptPlayer
\* is.
Tracked(c) ==
  /\ main[c] \in {"kept", "started", "unworld", "unlisted"} => listIndex[c] # "none"
  /\ c \in players => main[c] \in {"listed", "kept", "started", "unworld"}
  /\ c \in inWorld => main[c] = "started"

\* Start makes the receiver.
Begun(c) == main[c] \in {"new", "listed", "kept"} => receiver[c] = "none"

\* A client that behaves is known to Run only between its ClientJoin and its
\* ClientLeft, and owes no answer when it is to be pinged, or was never: so its
\* answer never finds it in pingList.
Tame(c) ==
  /\ Exact(c) /\ OneDebt(c)
  /\ main[c] \in {"new", "listed", "unkept", "gone"} => listIndex[c] = "none"
  /\ main[c] \in {"new", "listed"} => ~Owes(c)
  /\ listIndex[c] = "ping" => ~Owes(c)

SessionInv ==
  /\ TypeOK
  /\ KeepAliveInv
  /\ \A c \in Client : Tracked(c) /\ Begun(c)
  /\ \A c \in Behaved : Tame(c)

LEMMA SessionInvInit == Init => SessionInv
<1> SUFFICES ASSUME Init PROVE SessionInv
  OBVIOUS
<1>1. KeepAliveInv /\ \A c \in Client : Exact(c)
  BY NewKeepAliveInv DEF Init
<1>2. <<>> \in Seq(Packet) /\ Len(<<>>) = 0 /\ DOMAIN <<>> = {}
  BY EmptySeq
<1>3. queue \in [Client -> Seq(Packet)] /\ \A c \in Client : Asked(queue[c]) = {} /\ Len(queue[c]) = 0
  BY <1>2 DEF Init, Asked
<1>4. TypeOK
  BY <1>1, <1>3, QueueCapAssumption DEF Init, TypeOK, KeepAliveInv, MainAt
<1>5. \A c \in Client : Tracked(c) /\ Begun(c) /\ Tame(c)
  BY <1>1, <1>3 DEF Init, NewKeepAlive, OneDebt, Tracked, Owes, Begun, Tame
<1> QED BY <1>1, <1>4, <1>5 DEF SessionInv

----------------------------------------------------------------------------
(* Queues *)

QueuesOK(q) == q \in [Client -> Seq(Packet)] /\ \A c \in Client : Len(q[c]) <= QueueCap

LEMMA AskedAppend ==
  ASSUME NEW q \in Seq(Packet), NEW p \in Packet
  PROVE  /\ Append(q, p) \in Seq(Packet) /\ Len(Append(q, p)) = Len(q) + 1
         /\ p # "keepalive" => Asked(Append(q, p)) = Asked(q)
         /\ Asked(q) = {} => \A i, j \in Asked(Append(q, p)) : i = j
<1>1. /\ Append(q, p) \in Seq(Packet) /\ Len(Append(q, p)) = Len(q) + 1 /\ Len(q) \in Nat
      /\ DOMAIN q = 1..Len(q) /\ DOMAIN Append(q, p) = 1..(Len(q) + 1)
      /\ \A k \in 1..Len(q) : Append(q, p)[k] = q[k]
      /\ Append(q, p)[Len(q) + 1] = p
  BY AppendProperties, LenProperties
<1> QED BY <1>1 DEF Asked

LEMMA AskedTail ==
  ASSUME NEW q \in Seq(Packet), q # <<>>
  PROVE  /\ Tail(q) \in Seq(Packet) /\ Len(Tail(q)) = Len(q) - 1 /\ Len(q) \in Nat
         /\ Head(q) # "keepalive" => (Asked(Tail(q)) # {} => Asked(q) # {})
         /\ (\A i, j \in Asked(q) : i = j) => \A i, j \in Asked(Tail(q)) : i = j
         /\ (\A i, j \in Asked(q) : i = j) /\ Head(q) = "keepalive" => Asked(Tail(q)) = {}
         /\ Head(q) = "keepalive" => Asked(q) # {}
<1>1. /\ Tail(q) \in Seq(Packet) /\ Len(Tail(q)) = Len(q) - 1 /\ Len(q) \in Nat /\ Len(q) # 0
      /\ DOMAIN q = 1..Len(q) /\ DOMAIN Tail(q) = 1..(Len(q) - 1)
      /\ \A k \in 1..(Len(q) - 1) : Tail(q)[k] = q[k + 1]
      /\ Head(q) = q[1]
  BY EmptySeq, HeadTailProperties, LenProperties
<1>2. \A k \in Asked(Tail(q)) : k \in Nat \ {0} /\ k + 1 \in Asked(q)
  BY <1>1 DEF Asked
<1>3. Head(q) = "keepalive" => 1 \in Asked(q)
  BY <1>1 DEF Asked
<1> QED BY <1>1, <1>2, <1>3

\* ChannelQueue.Push drops or appends.
LEMMA Pushed ==
  ASSUME QueuesOK(queue), NEW cs, NEW p \in Packet
  PROVE  /\ QueuesOK(Broadcast(cs, p))
         /\ \A c \in Client :
              /\ c \notin cs => Broadcast(cs, p)[c] = queue[c]
              /\ p # "keepalive" => Asked(Broadcast(cs, p)[c]) = Asked(queue[c])
              /\ Asked(queue[c]) = {} => \A i, j \in Asked(Broadcast(cs, p)[c]) : i = j
<1>1. \A c \in Client : queue[c] \in Seq(Packet) /\ Len(queue[c]) \in Nat /\ Len(queue[c]) <= QueueCap
  BY LenProperties DEF QueuesOK
<1>2. ASSUME NEW c \in Client
      PROVE  /\ Append(queue[c], p) \in Seq(Packet) /\ Len(Append(queue[c], p)) = Len(queue[c]) + 1
             /\ p # "keepalive" => Asked(Append(queue[c], p)) = Asked(queue[c])
             /\ Asked(queue[c]) = {} => \A i, j \in Asked(Append(queue[c], p)) : i = j
  BY <1>1, AskedAppend
<1>3. ASSUME NEW c \in Client
      PROVE  \/ Broadcast(cs, p)[c] = queue[c]
             \/ c \in cs /\ Len(queue[c]) < QueueCap /\ Broadcast(cs, p)[c] = Append(queue[c], p)
  BY DEF Broadcast, CanPush
<1>4. QueuesOK(Broadcast(cs, p))
  <2>1. \A c \in Client : Broadcast(cs, p)[c] \in Seq(Packet) /\ Len(Broadcast(cs, p)[c]) <= QueueCap
    <3> SUFFICES ASSUME NEW c \in Client
                 PROVE  Broadcast(cs, p)[c] \in Seq(Packet) /\ Len(Broadcast(cs, p)[c]) <= QueueCap
      OBVIOUS
    <3>1. CASE Broadcast(cs, p)[c] = queue[c]
      BY <1>1, <3>1
    <3>2. CASE Len(queue[c]) < QueueCap /\ Broadcast(cs, p)[c] = Append(queue[c], p)
      BY <1>1, <1>2, <3>2, QueueCapAssumption
    <3> QED BY <1>3, <3>1, <3>2
  <2>2. Broadcast(cs, p) = [c \in Client |-> Broadcast(cs, p)[c]]
    BY DEF Broadcast
  <2> QED BY <2>1, <2>2 DEF QueuesOK
<1>5. ASSUME NEW c \in Client
      PROVE  /\ c \notin cs => Broadcast(cs, p)[c] = queue[c]
             /\ p # "keepalive" => Asked(Broadcast(cs, p)[c]) = Asked(queue[c])
             /\ Asked(queue[c]) = {} => \A i, j \in Asked(Broadcast(cs, p)[c]) : i = j
  <2>1. CASE Broadcast(cs, p)[c] = queue[c]
    BY <2>1
  <2>2. CASE c \in cs /\ Broadcast(cs, p)[c] = Append(queue[c], p)
    BY <1>2, <2>2
  <2> QED BY <1>3, <2>1, <2>2
<1> QED BY <1>4, <1>5

\* A client whose keep-alives do not move.
DebtSame(c) ==
  /\ Asked(queue'[c]) = Asked(queue[c])
  /\ toAnswer'[c] = toAnswer[c]
  /\ receiver'[c] = "ticking" <=> receiver[c] = "ticking"

LEMMA DebtKept ==
  ASSUME NEW c, DebtSame(c)
  PROVE  (OneDebt(c) => OneDebt(c)') /\ (Owes(c)' <=> Owes(c))
BY DEF DebtSame, OneDebt, Owes

----------------------------------------------------------------------------
(* Steps that leave the keep-alive component alone *)

LEMMA KeepAliveSame ==
  ASSUME KeepAliveInv, UNCHANGED kaVars
  PROVE  KeepAliveInv' /\ \A c \in Client : Exact(c)' = Exact(c)
BY DEF kaVars, KeepAliveInv, KeepAliveTypeOK, Indexed, Exact

\* One client goes on, the others stay where they are, whatever packets that
\* are no keep-alives anybody is sent.
LEMMA OneGoesOn ==
  ASSUME SessionInv, NEW c \in Client, UNCHANGED kaVars, TypeOK',
         \A d \in Behaved : DebtSame(d), Tracked(c)', Begun(c)', c \in Behaved => Tame(c)',
         \A d \in Client \ {c} : /\ main'[d] = main[d]
                                 /\ receiver'[d] = receiver[d]
                                 /\ d \in players' <=> d \in players
                                 /\ d \in inWorld' <=> d \in inWorld
  PROVE  SessionInv'
<1>1. KeepAliveInv' /\ (\A d \in Client : Exact(d)' = Exact(d)) /\ listIndex' = listIndex
  BY KeepAliveSame DEF SessionInv, kaVars
<1>2. \A d \in Behaved : OneDebt(d)' /\ (Owes(d)' <=> Owes(d))
  BY DebtKept DEF SessionInv, Tame
<1>3. \A d \in Client \ {c} : Tracked(d)' /\ Begun(d)'
  BY <1>1 DEF SessionInv, Tracked, Begun
<1>4. \A d \in Behaved \ {c} : Tame(d)'
  BY <1>1, <1>2 DEF SessionInv, Tame
<1> QED BY <1>1, <1>3, <1>4 DEF SessionInv

\* A client that behaves goes on, past its ClientJoin and not past its ClientLeft
\* (or before the one, or after the other).
LEMMA TameKept ==
  ASSUME SessionInv, NEW c \in Behaved, UNCHANGED kaVars, DebtSame(c),
         main'[c] \in {"new", "listed"} => main[c] \in {"new", "listed"},
         main'[c] \in {"unkept", "gone"} => main[c] \in {"unkept", "gone"}
  PROVE  Tame(c)'
<1>1. Exact(c)' = Exact(c) /\ listIndex' = listIndex
  BY KeepAliveSame DEF SessionInv, kaVars
<1>2. OneDebt(c)' /\ (Owes(c)' <=> Owes(c))
  BY DebtKept DEF SessionInv, Tame
<1> QED BY <1>1, <1>2 DEF SessionInv, Tame

LEMMA JoinListStep == ASSUME SessionInv, NEW c \in Client, JoinList(c) PROVE SessionInv'
<1>1. /\ QueuesOK(queue) /\ main \in [Client -> MainAt] /\ players \subseteq Client
      /\ main[c] = "new" /\ main' = [main EXCEPT ![c] = "listed"]
      /\ UNCHANGED <<kaVars, sender, receiver, inWorld, open, toAnswer>>
      /\ players' \in {players, players \cup {c}}
  BY DEF SessionInv, TypeOK, QueuesOK, JoinList, Goto
<1>2. c \in Behaved => /\ Asked(queue[c]) = {} /\ ~Owes(c) /\ listIndex[c] = "none"
                      /\ Exact(c) /\ OneDebt(c)
  BY <1>1 DEF SessionInv, Tame, Owes
<1>3. QueuesOK(queue') /\ \A d \in Behaved : Asked(queue'[d]) = Asked(queue[d])
  <2>1. CASE queue' = Broadcast(players \cup {c}, "other")
    BY <1>1, <2>1, Pushed DEF Packet
  <2>2. CASE queue' = [Broadcast(players, "other") EXCEPT ![c] = <<"other", "disconnect">>]
    <3> DEFINE q == <<"other", "disconnect">>
    <3>1. q \in Seq(Packet) /\ Len(q) = 2 /\ Asked(q) = {}
      <4>1. q \in Seq(Packet) /\ Len(q) = 2 /\ q[1] = "other" /\ q[2] = "disconnect"
        BY DEF Packet
      <4>2. DOMAIN q = 1..2
        BY <4>1, LenProperties
      <4>3. \A k \in DOMAIN q : k = 1 \/ k = 2
        BY <4>2
      <4> QED BY <4>1, <4>3 DEF Asked
    <3> HIDE DEF q
    <3>2. /\ QueuesOK(Broadcast(players, "other"))
          /\ \A d \in Client : Asked(Broadcast(players, "other")[d]) = Asked(queue[d])
      BY <1>1, Pushed DEF Packet
    <3>3. queue' = [Broadcast(players, "other") EXCEPT ![c] = q]
      BY <2>2 DEF q
    <3> QED BY <1>2, <3>1, <3>2, <3>3, QueueCapAssumption DEF QueuesOK
  <2> QED BY <2>1, <2>2 DEF JoinList
<1>4. TypeOK'
  BY <1>1, <1>3 DEF SessionInv, TypeOK, QueuesOK, kaVars, KeepAliveTypeOK, MainAt
<1>5. \A d \in Behaved : DebtSame(d)
  BY <1>1, <1>3 DEF DebtSame
<1>6. Tracked(c)' /\ Begun(c)'
  BY <1>1 DEF SessionInv, Tracked, kaVars, TypeOK, Begun
<1>7. ASSUME c \in Behaved PROVE Tame(c)'
  <2>1. ~Owes(c)' /\ OneDebt(c)'
    BY <1>2, <1>5, <1>7, DebtKept
  <2>2. Exact(c)'
    BY <1>1, <1>2, <1>7, KeepAliveSame DEF SessionInv
  <2> QED BY <1>1, <1>2, <1>7, <2>1, <2>2 DEF Tame, kaVars
<1> QED BY <1>1, <1>4, <1>5, <1>6, <1>7, OneGoesOn

LEMMA JoinWorldStep == ASSUME SessionInv, NEW c \in Client, JoinWorld(c) PROVE SessionInv'
<1>1. /\ QueuesOK(queue) /\ main \in [Client -> MainAt] /\ inWorld \subseteq Client
      /\ main[c] = "kept" /\ main' = [main EXCEPT ![c] = "started"]
      /\ queue' = Broadcast(players \cup {c}, "other") /\ inWorld' = inWorld \cup {c}
      /\ receiver' = [receiver EXCEPT ![c] = "running"] /\ sender' = [sender EXCEPT ![c] = "running"]
      /\ UNCHANGED <<kaVars, players, open, toAnswer>>
  BY DEF SessionInv, TypeOK, QueuesOK, JoinWorld, Goto
<1>2. QueuesOK(queue') /\ \A d \in Client : Asked(queue'[d]) = Asked(queue[d])
  BY <1>1, Pushed DEF Packet
<1>3. TypeOK'
  BY <1>1, <1>2 DEF SessionInv, TypeOK, QueuesOK, kaVars, KeepAliveTypeOK, MainAt
<1>4. receiver[c] # "ticking"
  BY <1>1 DEF SessionInv, Begun
<1>5. \A d \in Behaved : DebtSame(d)
  BY <1>1, <1>2, <1>4 DEF DebtSame, SessionInv, TypeOK
<1>6. Tracked(c)' /\ Begun(c)'
  BY <1>1 DEF SessionInv, Tracked, kaVars, TypeOK, Begun
<1>7. c \in Behaved => Tame(c)'
  BY <1>1, <1>5, TameKept
<1> QED BY <1>1, <1>3, <1>5, <1>6, <1>7, OneGoesOn

LEMMA LeaveWorldStep == ASSUME SessionInv, NEW c \in Client, LeaveWorld(c) PROVE SessionInv'
<1>1. /\ main \in [Client -> MainAt] /\ main[c] = "started" /\ main' = [main EXCEPT ![c] = "unworld"]
      /\ inWorld' = inWorld \ {c}
      /\ UNCHANGED <<kaVars, sender, receiver, players, queue, open, toAnswer>>
  BY DEF SessionInv, TypeOK, LeaveWorld, Goto
<1>2. TypeOK'
  BY <1>1 DEF SessionInv, TypeOK, kaVars, KeepAliveTypeOK, MainAt
<1>3. \A d \in Behaved : DebtSame(d)
  BY <1>1 DEF DebtSame
<1>4. Tracked(c)' /\ Begun(c)'
  BY <1>1 DEF SessionInv, Tracked, kaVars, TypeOK, Begun
<1>5. c \in Behaved => Tame(c)'
  BY <1>1, <1>3, TameKept
<1> QED BY <1>1, <1>2, <1>3, <1>4, <1>5, OneGoesOn

LEMMA LeaveListStep == ASSUME SessionInv, NEW c \in Client, LeaveList(c) PROVE SessionInv'
<1>1. /\ main \in [Client -> MainAt] /\ main[c] = "unworld" /\ main' = [main EXCEPT ![c] = "unlisted"]
      /\ players' = players \ {c}
      /\ UNCHANGED <<kaVars, sender, receiver, inWorld, queue, open, toAnswer>>
  BY DEF SessionInv, TypeOK, LeaveList, Goto
<1>2. TypeOK'
  BY <1>1 DEF SessionInv, TypeOK, kaVars, KeepAliveTypeOK, MainAt
<1>3. \A d \in Behaved : DebtSame(d)
  BY <1>1 DEF DebtSame
<1>4. Tracked(c)' /\ Begun(c)'
  BY <1>1 DEF SessionInv, Tracked, kaVars, TypeOK, Begun
<1>5. c \in Behaved => Tame(c)'
  BY <1>1, <1>3, TameKept
<1> QED BY <1>1, <1>2, <1>3, <1>4, <1>5, OneGoesOn

LEMMA CloseConnStep == ASSUME SessionInv, NEW c \in Client, CloseConn(c) PROVE SessionInv'
<1>1. /\ QueuesOK(queue) /\ main \in [Client -> MainAt]
      /\ main[c] = "unkept" /\ main' = [main EXCEPT ![c] = "gone"]
      /\ queue' = Broadcast(players, "other") /\ open' = open \ {c}
      /\ UNCHANGED <<kaVars, sender, receiver, players, inWorld, toAnswer>>
  BY DEF SessionInv, TypeOK, QueuesOK, CloseConn, Goto
<1>2. QueuesOK(queue') /\ \A d \in Client : Asked(queue'[d]) = Asked(queue[d])
  BY <1>1, Pushed DEF Packet
<1>3. TypeOK'
  BY <1>1, <1>2 DEF SessionInv, TypeOK, QueuesOK, kaVars, KeepAliveTypeOK, MainAt
<1>4. \A d \in Behaved : DebtSame(d)
  BY <1>1, <1>2 DEF DebtSame
<1>5. Tracked(c)' /\ Begun(c)'
  BY <1>1 DEF SessionInv, Tracked, kaVars, TypeOK, Begun
<1>6. c \in Behaved => Tame(c)'
  BY <1>1, <1>4, TameKept
<1> QED BY <1>1, <1>3, <1>4, <1>5, <1>6, OneGoesOn

\* Packets and answers move; AcceptPlayer and the keep-alive component do not.
LEMMA DebtsMove ==
  ASSUME SessionInv, UNCHANGED <<kaVars, main, players, inWorld>>, TypeOK',
         \A d \in Client : receiver[d] = "none" => receiver'[d] = "none",
         \A d \in Behaved : OneDebt(d)' /\ (Owes(d)' => Owes(d))
  PROVE  SessionInv'
<1>1. KeepAliveInv' /\ (\A d \in Client : Exact(d)' = Exact(d)) /\ listIndex' = listIndex
  BY KeepAliveSame DEF SessionInv, kaVars
<1>2. \A d \in Client : Tracked(d)' /\ Begun(d)'
  BY <1>1 DEF SessionInv, Tracked, Begun
<1>3. \A d \in Behaved : Tame(d)'
  BY <1>1 DEF SessionInv, Tame
<1> QED BY <1>1, <1>2, <1>3 DEF SessionInv

\* The debt of all but c stays.
LEMMA DebtMoves ==
  ASSUME SessionInv, NEW c \in Client, UNCHANGED <<kaVars, main, players, inWorld>>, TypeOK',
         \A d \in Client \ {c} : /\ queue'[d] = queue[d] /\ toAnswer'[d] = toAnswer[d]
                                 /\ receiver'[d] = receiver[d],
         receiver[c] = "none" => receiver'[c] = "none",
         c \in Behaved => OneDebt(c)' /\ (Owes(c)' => Owes(c))
  PROVE  SessionInv'
<1>1. ASSUME NEW d \in Behaved, d # c PROVE OneDebt(d)' /\ (Owes(d)' => Owes(d))
  <2>1. DebtSame(d)
    BY <1>1 DEF DebtSame
  <2> QED BY <1>1, <2>1, DebtKept DEF SessionInv, Tame
<1>2. \A d \in Client : receiver[d] = "none" => receiver'[d] = "none"
  OBVIOUS
<1>3. \A d \in Behaved : OneDebt(d)' /\ (Owes(d)' => Owes(d))
  BY <1>1
<1> QED BY <1>2, <1>3, DebtsMove

LEMMA SendStep == ASSUME SessionInv, NEW c \in Client, Send(c) PROVE SessionInv'
<1>1. /\ QueuesOK(queue) /\ queue[c] # <<>> /\ queue[c] \in Seq(Packet)
      /\ toAnswer \in [Client -> Nat] /\ sender \in [Client -> {"none", "running", "done"}]
      /\ toAnswer' = [toAnswer EXCEPT ![c] =
           IF c \in open \ Babblers /\ Head(queue[c]) = "keepalive" THEN @ + 1 ELSE @]
      /\ UNCHANGED <<kaVars, main, receiver, players, inWorld, open>>
      /\ c \in Behaved => OneDebt(c)
  BY DEF SessionInv, TypeOK, QueuesOK, Send, Tame
<1>2. CASE /\ c \notin open \/ Head(queue[c]) = "disconnect"
           /\ sender' = [sender EXCEPT ![c] = "done"]
           /\ queue' = [queue EXCEPT ![c] = <<>>]
  <2> DEFINE e == <<>>
  <2>1. e \in Seq(Packet) /\ Len(e) = 0 /\ Asked(e) = {}
    BY EmptySeq DEF Asked
  <2> HIDE DEF e
  <2>2. queue' = [queue EXCEPT ![c] = e]
    BY <1>2 DEF e
  <2>3. toAnswer' = toAnswer
    BY <1>1, <1>2
  <2>4. QueuesOK(queue') /\ Asked(queue'[c]) = {}
    BY <1>1, <2>1, <2>2, QueueCapAssumption DEF QueuesOK
  <2>5. TypeOK'
    BY <1>1, <1>2, <2>3, <2>4 DEF SessionInv, TypeOK, QueuesOK, kaVars, KeepAliveTypeOK
  <2>6. c \in Behaved => OneDebt(c)' /\ (Owes(c)' => Owes(c))
    BY <1>1, <2>3, <2>4 DEF OneDebt, Owes
  <2> QED BY <1>1, <2>2, <2>3, <2>5, <2>6, DebtMoves DEF QueuesOK
<1>3. CASE /\ c \in open /\ Head(queue[c]) # "disconnect"
           /\ queue' = [queue EXCEPT ![c] = Tail(@)]
           /\ sender' = sender
  <2>1. /\ Tail(queue[c]) \in Seq(Packet) /\ Len(Tail(queue[c])) = Len(queue[c]) - 1
        /\ Len(queue[c]) \in Nat
        /\ Head(queue[c]) # "keepalive" => (Asked(Tail(queue[c])) # {} => Asked(queue[c]) # {})
        /\ c \in Behaved =>
             /\ \A i, j \in Asked(Tail(queue[c])) : i = j
             /\ Head(queue[c]) = "keepalive" => Asked(Tail(queue[c])) = {} /\ Asked(queue[c]) # {}
    BY <1>1, AskedTail DEF OneDebt
  <2>2. QueuesOK(queue') /\ queue'[c] = Tail(queue[c])
    BY <1>1, <1>3, <2>1, QueueCapAssumption DEF QueuesOK
  <2>3. toAnswer' \in [Client -> Nat]
    BY <1>1
  <2>4. TypeOK'
    BY <1>1, <1>3, <2>2, <2>3 DEF SessionInv, TypeOK, QueuesOK, kaVars, KeepAliveTypeOK
  <2>5. ASSUME c \in Behaved PROVE OneDebt(c)' /\ (Owes(c)' => Owes(c))
    <3>1. CASE Head(queue[c]) = "keepalive"
      <4>1. Asked(queue'[c]) = {} /\ Asked(queue[c]) # {}
        BY <2>1, <2>2, <2>5, <3>1
      <4>2. toAnswer[c] = 0 /\ receiver[c] # "ticking"
        BY <1>1, <2>5, <4>1 DEF OneDebt
      <4>3. toAnswer'[c] = 1 /\ receiver'[c] # "ticking"
        BY <1>1, <1>3, <2>5, <3>1, <4>2
      <4> QED BY <4>1, <4>3 DEF OneDebt, Owes
    <3>2. CASE Head(queue[c]) # "keepalive"
      <4>1. toAnswer'[c] = toAnswer[c] /\ receiver'[c] = receiver[c]
        BY <1>1, <3>2
      <4> QED BY <1>1, <2>1, <2>2, <2>5, <3>2, <4>1 DEF OneDebt, Owes
    <3> QED BY <3>1, <3>2
  <2> QED BY <1>1, <1>3, <2>4, <2>5, DebtMoves DEF QueuesOK
<1> QED BY <1>2, <1>3 DEF Send

LEMMA ReceiveAnswerStep == ASSUME SessionInv, NEW c \in Client, ReceiveAnswer(c) PROVE SessionInv'
<1>1. /\ receiver[c] = "running" /\ (Answer(c) \/ Babble(c))
      /\ toAnswer \in [Client -> Nat] /\ main \in [Client -> MainAt]
      /\ receiver \in [Client -> {"none", "running", "ticking", "done"}]
      /\ receiver' = [receiver EXCEPT ![c] = "ticking"]
      /\ UNCHANGED <<kaVars, main, sender, players, inWorld, queue, open>>
  BY DEF SessionInv, TypeOK, ReceiveAnswer
<1>2. toAnswer' \in [Client -> Nat] /\ \A d \in Client \ {c} : toAnswer'[d] = toAnswer[d]
  <2>1. CASE Answer(c)
    BY <1>1, <2>1 DEF Answer
  <2>2. CASE Babble(c)
    BY <1>1, <2>2 DEF Babble
  <2> QED BY <1>1, <2>1, <2>2
<1>3. TypeOK'
  BY <1>1, <1>2 DEF SessionInv, TypeOK, kaVars, KeepAliveTypeOK
<1>4. ASSUME c \in Behaved PROVE OneDebt(c)' /\ (Owes(c)' => Owes(c))
  <2>1. toAnswer[c] > 0 /\ toAnswer' = [toAnswer EXCEPT ![c] = @ - 1] /\ OneDebt(c)
    BY <1>1, <1>4 DEF Answer, Babble, SessionInv, Tame
  <2>2. toAnswer'[c] = 0 /\ Asked(queue[c]) = {} /\ Owes(c)
    BY <1>1, <2>1 DEF OneDebt, Owes
  <2> QED BY <1>1, <2>2 DEF OneDebt
<1> QED BY <1>1, <1>2, <1>3, <1>4, DebtMoves

LEMMA ReceiveFailsStep == ASSUME SessionInv, NEW c \in Client, ReceiveFails(c) PROVE SessionInv'
<1>1. /\ receiver[c] = "running" /\ (c \in Behaved => OneDebt(c)) /\ toAnswer \in [Client -> Nat]
      /\ receiver \in [Client -> {"none", "running", "ticking", "done"}]
      /\ toAnswer' = [toAnswer EXCEPT ![c] = 0]
      /\ receiver' = [receiver EXCEPT ![c] = "done"]
      /\ UNCHANGED <<kaVars, main, sender, players, inWorld, queue, open>>
  BY DEF SessionInv, TypeOK, ReceiveFails, Tame
<1>2. TypeOK'
  BY <1>1 DEF SessionInv, TypeOK, kaVars, KeepAliveTypeOK
<1>3. c \in Behaved => OneDebt(c)' /\ (Owes(c)' => Owes(c))
  BY <1>1 DEF OneDebt, Owes
<1> QED BY <1>1, <1>2, <1>3, DebtMoves

LEMMA PeerGoneStep == ASSUME SessionInv, NEW c \in Client, PeerGone(c) PROVE SessionInv'
<1>1. /\ open' = open \ {c}
      /\ UNCHANGED <<kaVars, main, sender, receiver, players, inWorld, queue, toAnswer>>
  BY DEF PeerGone
<1>2. TypeOK'
  BY <1>1 DEF SessionInv, TypeOK, kaVars, KeepAliveTypeOK
<1>3. c \in Behaved => OneDebt(c)' /\ (Owes(c)' => Owes(c))
  BY <1>1 DEF SessionInv, Tame, OneDebt, Owes
<1> QED BY <1>1, <1>2, <1>3, DebtMoves

LEMMA TrafficStep == ASSUME SessionInv, NEW c \in Client, Traffic(c) PROVE SessionInv'
<1>1. /\ QueuesOK(queue) /\ queue' = Broadcast({c}, "other")
      /\ UNCHANGED <<kaVars, main, sender, receiver, players, inWorld, open, toAnswer>>
  BY DEF SessionInv, TypeOK, QueuesOK, Traffic, Push
<1>2. QueuesOK(queue') /\ \A d \in Client : Asked(queue'[d]) = Asked(queue[d])
  BY <1>1, Pushed DEF Packet
<1>3. TypeOK'
  BY <1>1, <1>2 DEF SessionInv, TypeOK, QueuesOK, kaVars, KeepAliveTypeOK
<1>4. \A d \in Client : DebtSame(d)
  BY <1>1, <1>2 DEF DebtSame
<1>5. \A d \in Behaved : OneDebt(d)' /\ (Owes(d)' => Owes(d))
  BY <1>4, DebtKept DEF SessionInv, Tame
<1> QED BY <1>1, <1>3, <1>5, DebtsMove

----------------------------------------------------------------------------
(* Steps of the keep-alive component *)

\* What a step of Run that concerns one client leaves to the others.
LEMMA OthersTame ==
  ASSUME SessionInv, NEW c \in Client, OthersExact(c),
         \A d \in Client \ {c} : main'[d] = main[d] /\ listIndex'[d] = listIndex[d],
         \A d \in Behaved \ {c} : DebtSame(d)
  PROVE  \A d \in Behaved \ {c} : Tame(d)'
<1>1. \A d \in Behaved \ {c} : OneDebt(d)' /\ (Owes(d)' <=> Owes(d))
  BY DebtKept DEF SessionInv, Tame
<1> QED BY <1>1 DEF SessionInv, Tame, OthersExact

LEMMA JoinKeepAliveStep == ASSUME SessionInv, NEW c \in Client, JoinKeepAlive(c) PROVE SessionInv'
<1>1. /\ KeepAliveInv /\ main \in [Client -> MainAt] /\ main[c] = "listed"
      /\ main' = [main EXCEPT ![c] = "kept"] /\ pushPlayer(c) /\ listIndex \in [Client -> Where]
      /\ listIndex' = [listIndex EXCEPT ![c] = "ping"]
      /\ UNCHANGED <<sender, receiver, players, inWorld, queue, open, toAnswer>>
  BY DEF SessionInv, TypeOK, KeepAliveTypeOK, JoinKeepAlive, Goto, pushPlayer
<1>2. /\ KeepAliveInv' /\ OthersExact(c)
      /\ Exact(c) /\ listIndex[c] = "none" => Exact(c)'
  BY <1>1, PushKeeps
<1>3. TypeOK'
  BY <1>1, <1>2 DEF SessionInv, TypeOK, KeepAliveInv, MainAt
<1>4. \A d \in Client : DebtSame(d)
  BY <1>1 DEF DebtSame
<1>5. \A d \in Behaved \ {c} : Tame(d)'
  BY <1>1, <1>2, <1>4, OthersTame
<1>6. c \in Behaved => Tame(c)'
  BY <1>1, <1>2, <1>4, DebtKept DEF SessionInv, Tame
<1>7. \A d \in Client : Tracked(d)' /\ Begun(d)'
  BY <1>1 DEF SessionInv, Tracked, Begun
<1> QED BY <1>2, <1>3, <1>5, <1>6, <1>7 DEF SessionInv

LEMMA LeaveKeepAliveStep == ASSUME SessionInv, NEW c \in Client, LeaveKeepAlive(c) PROVE SessionInv'
<1>1. /\ KeepAliveInv /\ main \in [Client -> MainAt] /\ main[c] = "unlisted"
      /\ main' = [main EXCEPT ![c] = "unkept"] /\ removePlayer(c) /\ listIndex \in [Client -> Where]
      /\ listIndex' = [listIndex EXCEPT ![c] = "none"]
      /\ UNCHANGED <<sender, receiver, players, inWorld, queue, open, toAnswer>>
  BY DEF SessionInv, TypeOK, KeepAliveTypeOK, LeaveKeepAlive, Goto, removePlayer
<1>2. KeepAliveInv' /\ OthersExact(c) /\ (Exact(c) => Exact(c)')
  BY <1>1, RemoveKeeps
<1>3. TypeOK'
  BY <1>1, <1>2 DEF SessionInv, TypeOK, KeepAliveInv, MainAt
<1>4. \A d \in Client : DebtSame(d)
  BY <1>1 DEF DebtSame
<1>5. \A d \in Behaved \ {c} : Tame(d)'
  BY <1>1, <1>2, <1>4, OthersTame
<1>6. c \in Behaved => Tame(c)'
  BY <1>1, <1>2, <1>4, DebtKept DEF SessionInv, Tame
<1>7. \A d \in Client : Tracked(d)' /\ Begun(d)'
  BY <1>1 DEF SessionInv, Tracked, Begun
<1> QED BY <1>2, <1>3, <1>5, <1>6, <1>7 DEF SessionInv

\* The answer to a ping: a client that behaves owed it, so it is not in pingList.
LEMMA ClientTickStep == ASSUME SessionInv, NEW c \in Client, ClientTick(c) PROVE SessionInv'
<1>1. /\ KeepAliveInv /\ QueuesOK(queue) /\ receiver[c] = "ticking"
      /\ receiver \in [Client -> {"none", "running", "ticking", "done"}]
      /\ receiver' = [receiver EXCEPT ![c] = "running"] /\ listIndex \in [Client -> Where]
      /\ queue' \in {queue, Broadcast(players, "other")}
      /\ UNCHANGED <<main, sender, players, inWorld, open, toAnswer>>
  BY DEF SessionInv, TypeOK, QueuesOK, KeepAliveTypeOK, ClientTick
<1>2. QueuesOK(queue') /\ \A d \in Client : Asked(queue'[d]) = Asked(queue[d])
  BY <1>1, Pushed DEF Packet
<1>3. ASSUME c \in Behaved
      PROVE  /\ OneDebt(c)' /\ ~Owes(c)'
             /\ listIndex[c] # "ping" /\ main[c] \notin {"new", "listed"} /\ Exact(c)
  BY <1>1, <1>2, <1>3 DEF SessionInv, Tame, OneDebt, Owes
<1>4. \A d \in Behaved \ {c} : DebtSame(d)
  BY <1>1, <1>2 DEF DebtSame
<1>5. \A d \in Client : Begun(d)'
  BY <1>1 DEF SessionInv, Begun
<1>6. CASE tickKnownPlayer(c)
  <2>1. /\ listIndex' = [listIndex EXCEPT ![c] = "ping"] /\ listIndex[c] # "none"
    BY <1>6 DEF tickKnownPlayer
  <2>2. KeepAliveInv' /\ OthersExact(c) /\ (Exact(c) /\ listIndex[c] # "ping" => Exact(c)')
    BY <1>1, <1>6, TickKeeps
  <2>3. TypeOK'
    BY <1>1, <1>2, <2>2 DEF SessionInv, TypeOK, QueuesOK, KeepAliveInv
  <2>4. \A d \in Behaved \ {c} : Tame(d)'
    BY <1>1, <1>4, <2>1, <2>2, OthersTame
  <2>5. c \in Behaved => Tame(c)'
    BY <1>1, <1>3, <2>1, <2>2 DEF SessionInv, Tame
  <2>6. \A d \in Client : Tracked(d)'
    BY <1>1, <2>1 DEF SessionInv, Tracked
  <2> QED BY <1>5, <2>2, <2>3, <2>4, <2>5, <2>6 DEF SessionInv
<1>7. CASE tickUnknownPlayer(c)
  <2>1. /\ UNCHANGED <<pingList, waitList, listIndex, listTimer, waitTimer>> /\ crashed' = TRUE
    BY <1>7 DEF tickUnknownPlayer
  <2>2. KeepAliveInv' /\ \A d \in Client : Exact(d)' = Exact(d)
    BY <1>1, <2>1 DEF KeepAliveInv, KeepAliveTypeOK, Indexed, Exact
  <2>3. TypeOK'
    BY <1>1, <1>2, <2>2 DEF SessionInv, TypeOK, QueuesOK, KeepAliveInv
  <2>4. \A d \in Behaved \ {c} : Tame(d)'
    BY <1>1, <1>4, <2>1, <2>2, OthersTame DEF OthersExact
  <2>5. c \in Behaved => Tame(c)'
    BY <1>1, <1>3, <2>1, <2>2 DEF SessionInv, Tame
  <2>6. \A d \in Client : Tracked(d)'
    BY <1>1, <2>1 DEF SessionInv, Tracked
  <2> QED BY <1>5, <2>2, <2>3, <2>4, <2>5, <2>6 DEF SessionInv
<1> QED BY <1>6, <1>7 DEF ClientTick, tickPlayer

LEMMA PingStep == ASSUME SessionInv, Ping PROVE SessionInv'
<1>1. /\ KeepAliveInv /\ pingPlayer /\ QueuesOK(queue) /\ listIndex \in [Client -> Where]
      /\ UNCHANGED <<main, sender, receiver, players, inWorld, open, toAnswer>>
  BY DEF SessionInv, TypeOK, QueuesOK, KeepAliveTypeOK, Ping, ListTimerFires
<1>2. KeepAliveInv' /\ \A d \in Client : Exact(d) => Exact(d)'
  BY <1>1, PingKeeps
<1>3. CASE pingList = <<>>
  <2>1. listIndex' = listIndex /\ queue' = queue
    BY <1>1, <1>3 DEF pingPlayer, Ping
  <2>2. \A d \in Client : DebtSame(d)
    BY <1>1, <2>1 DEF DebtSame
  <2>3. TypeOK'
    BY <1>1, <1>2, <2>1 DEF SessionInv, TypeOK, KeepAliveInv
  <2>4. \A d \in Behaved : Tame(d)'
    BY <1>1, <1>2, <2>1, <2>2, DebtKept DEF SessionInv, Tame
  <2>5. \A d \in Client : Tracked(d)' /\ Begun(d)'
    BY <1>1, <2>1 DEF SessionInv, Tracked, Begun
  <2> QED BY <1>2, <2>3, <2>4, <2>5 DEF SessionInv
<1>4. CASE pingList # <<>>
  <2>1. PICK h \in Client : h = Head(pingList).player /\ Positions(pingList, h) # {}
    <3>1. pingList \in Seq(Item)
      BY <1>1 DEF KeepAliveInv, KeepAliveTypeOK
    <3>2. 1 \in 1..Len(pingList) /\ Head(pingList) = pingList[1] /\ pingList[1] \in Item
      BY <1>4, <3>1, TailIsWithout, ElementOfSeq
    <3>3. 1 \in Positions(pingList, Head(pingList).player)
      BY <3>1, <3>2, LenProperties DEF Positions
    <3> QED BY <3>2, <3>3 DEF Item
  <2>2. listIndex' = [listIndex EXCEPT ![h] = "wait"] /\ queue' = Broadcast({h}, "keepalive")
    BY <1>1, <1>4, <2>1 DEF pingPlayer, PingFirst, Ping, Push
  <2>3. h \in Behaved => listIndex[h] = "ping" /\ ~Owes(h)
    BY <2>1 DEF SessionInv, Tame, Exact
  <2>4. /\ QueuesOK(queue') /\ \A d \in Client \ {h} : queue'[d] = queue[d]
        /\ Asked(queue[h]) = {} => \A i, j \in Asked(queue'[h]) : i = j
    BY <1>1, <2>2, Pushed DEF Packet
  <2>5. \A d \in Behaved \ {h} : Tame(d)'
    <3>1. OthersExact(h) /\ \A d \in Client \ {h} : DebtSame(d)
      BY <1>1, <1>2, <2>4 DEF DebtSame, OthersExact
    <3> QED BY <1>1, <2>2, <3>1, OthersTame
  <2>6. ASSUME h \in Behaved PROVE Tame(h)'
    <3>1. toAnswer[h] = 0 /\ receiver[h] # "ticking" /\ Asked(queue[h]) = {}
      BY <2>3, <2>6 DEF Owes, SessionInv, TypeOK
    <3>2. OneDebt(h)'
      BY <1>1, <2>4, <3>1 DEF OneDebt
    <3>3. Exact(h)' /\ main[h] \notin {"new", "listed", "unkept", "gone"}
      BY <1>2, <2>3, <2>6 DEF SessionInv, Tame
    <3> QED BY <1>1, <2>2, <3>2, <3>3 DEF Tame
  <2>7. TypeOK'
    BY <1>1, <1>2, <2>4 DEF SessionInv, TypeOK, QueuesOK, KeepAliveInv
  <2>8. \A d \in Client : Tracked(d)' /\ Begun(d)'
    BY <1>1, <2>2 DEF SessionInv, Tracked, Begun
  <2> QED BY <1>2, <2>5, <2>6, <2>7, <2>8 DEF SessionInv
<1> QED BY <1>3, <1>4

LEMMA KickStep == ASSUME SessionInv, Kick PROVE SessionInv'
<1>1. /\ KeepAliveInv /\ kickPlayer /\ QueuesOK(queue)
      /\ UNCHANGED <<main, sender, receiver, players, inWorld, open, toAnswer>>
      /\ queue' = IF waitList = <<>> THEN queue ELSE Broadcast({Head(waitList).player}, "disconnect")
  BY DEF SessionInv, TypeOK, QueuesOK, Kick, WaitTimerFires, Push
<1>2. /\ KeepAliveInv' /\ \A d \in Client : Exact(d) => Exact(d)'
      /\ \A d \in Client : \/ listIndex'[d] = listIndex[d]
                           \/ listIndex[d] = "wait" /\ listIndex'[d] = "orphan"
  BY <1>1, KickKeeps
<1>3. QueuesOK(queue') /\ \A d \in Client : Asked(queue'[d]) = Asked(queue[d])
  BY <1>1, Pushed DEF Packet
<1>4. \A d \in Client : DebtSame(d)
  BY <1>1, <1>3 DEF DebtSame
<1>5. \A d \in Behaved : Tame(d)'
  BY <1>1, <1>2, <1>4, DebtKept DEF SessionInv, Tame
<1>6. TypeOK'
  BY <1>1, <1>2, <1>3 DEF SessionInv, TypeOK, QueuesOK, KeepAliveInv
<1>7. \A d \in Client : Tracked(d)' /\ Begun(d)'
  BY <1>1, <1>2 DEF SessionInv, Tracked, Begun
<1> QED BY <1>2, <1>5, <1>6, <1>7 DEF SessionInv

LEMMA TickStep == ASSUME SessionInv, Tick PROVE SessionInv'
<1>1. KeepAliveInv /\ Time /\ UNCHANGED sessionVars /\ listIndex' = listIndex
  BY DEF SessionInv, Tick, Time
<1>2. KeepAliveInv' /\ \A d \in Client : Exact(d) => Exact(d)'
  BY <1>1, TimeKeeps
<1>3. TypeOK'
  BY <1>1, <1>2 DEF SessionInv, TypeOK, KeepAliveInv, sessionVars
<1>4. \A d \in Behaved : Tame(d)'
  <2>1. \A d \in Client : DebtSame(d)
    BY <1>1 DEF DebtSame, sessionVars
  <2> QED BY <1>1, <1>2, <2>1, DebtKept DEF SessionInv, Tame, sessionVars
<1>5. \A d \in Client : Tracked(d)' /\ Begun(d)'
  BY <1>1 DEF SessionInv, Tracked, Begun, sessionVars
<1> QED BY <1>2, <1>3, <1>4, <1>5 DEF SessionInv

LEMMA SessionInvStep == SessionInv /\ [Next]_vars => SessionInv'
<1> SUFFICES ASSUME SessionInv, [Next]_vars PROVE SessionInv'
  OBVIOUS
<1>1. ASSUME NEW c \in Client, AcceptPlayer(c) PROVE SessionInv'
  BY <1>1, JoinListStep, JoinKeepAliveStep, JoinWorldStep, LeaveWorldStep, LeaveListStep,
     LeaveKeepAliveStep, CloseConnStep DEF AcceptPlayer
<1>2. ASSUME NEW c \in Client, Send(c) \/ ReceiveAnswer(c) \/ ClientTick(c) \/ ReceiveFails(c)
      PROVE SessionInv'
  BY <1>2, SendStep, ReceiveAnswerStep, ClientTickStep, ReceiveFailsStep
<1>3. ASSUME NEW c \in Client, PeerGone(c) \/ Traffic(c) PROVE SessionInv'
  BY <1>3, PeerGoneStep, TrafficStep
<1>4. CASE Ping \/ Kick \/ Tick
  BY <1>4, PingStep, KickStep, TickStep
<1>5. CASE UNCHANGED vars
  BY <1>5 DEF vars, kaVars, sessionVars, SessionInv, TypeOK, KeepAliveInv, KeepAliveTypeOK,
     Indexed, Exact, OneDebt, Tracked, Owes, Begun, Tame
<1> QED BY <1>1, <1>2, <1>3, <1>4, <1>5 DEF Next

LEMMA SessionInvariant == Spec => []SessionInv
BY SessionInvInit, SessionInvStep, PTL DEF Spec

----------------------------------------------------------------------------
(* The invariants the runs check *)

\* The state of every session keeps its types: in particular no queue grows
\* beyond its capacity, whoever pushes.
THEOREM SessionTyped == Spec => []TypeOK
<1>1. SessionInv => TypeOK
  BY DEF SessionInv
<1> QED BY <1>1, SessionInvariant, PTL

\* Before AddPlayer the keep-alive goroutine knows the client and it is only
\* taken out after RemovePlayer, and nothing in between unsupervises it.
THEOREM WorldStaysSupervised == Spec => []WorldIsSupervised
<1>1. SessionInv => WorldIsSupervised
  BY DEF SessionInv, TypeOK, Tracked, WorldIsSupervised
<1> QED BY <1>1, SessionInvariant, PTL

\* After removePlayer the world and the player list have forgotten the client,
\* and the index and both lists of the keep-alive goroutine have forgotten one
\* that answered only what it was asked, whatever kicks, pings and answers of
\* its were under way and whatever the others answered unasked.
THEOREM NothingStaysBehind == Spec => []NothingLeftBehind
<1>1. ASSUME SessionInv PROVE NothingLeftBehind
  <2> SUFFICES ASSUME NEW c \in Client, main[c] \in {"new", "unkept", "gone"}
               PROVE  /\ c \notin inWorld \cup players
                      /\ c \in Behaved =>
                           /\ listIndex[c] = "none"
                           /\ Count(pingList, c) = 0 /\ Count(waitList, c) = 0
    BY DEF NothingLeftBehind
  <2>1. c \notin inWorld \cup players
    BY <1>1 DEF SessionInv, Tracked
  <2>2. ASSUME c \in Behaved
        PROVE  listIndex[c] = "none" /\ Positions(pingList, c) = {} /\ Positions(waitList, c) = {}
    BY <1>1, <2>2 DEF SessionInv, Tame, Exact
  <2>3. pingList \in Seq(Item) /\ waitList \in Seq(Item)
    BY <1>1 DEF SessionInv, KeepAliveInv, KeepAliveTypeOK
  <2> QED BY <2>1, <2>2, <2>3, CountOf
<1> QED BY <1>1, SessionInvariant, PTL

----------------------------------------------------------------------------
(* Refinement: every session keeps the contract of the keep-alive component *)

\* Of the clients that behave, a step moves at most c.
OnlyMoves(c) == \A d \in Behaved \ {c} : listIndex'[d] = listIndex[d] /\ SameAge(d)

LEMMA OneMoves ==
  ASSUME listIndex \in [Client -> Where], NEW c \in Behaved, OnlyMoves(c), NEW from, NEW to,
         ClientStatus(c) \in from, ClientStatus(c)' = to, ClientAge(c)' = 0
  PROVE  Contract!Move(c, from, to)
<1>1. \A d \in Behaved \ {c} : ClientStatus(d)' = ClientStatus(d) /\ ClientAge(d)' = ClientAge(d)
  BY OthersKept DEF OnlyMoves
<1>2. [d \in Behaved |-> ClientStatus(d)]' = [[d \in Behaved |-> ClientStatus(d)] EXCEPT ![c] = to]
  BY <1>1
<1>3. [d \in Behaved |-> ClientAge(d)]' = [[d \in Behaved |-> ClientAge(d)] EXCEPT ![c] = 0]
  BY <1>1
<1> QED BY <1>2, <1>3 DEF Contract!Move

\* A step of a client that answers unasked is no step of the contract,
LEMMA BabblerMoves ==
  ASSUME listIndex \in [Client -> Where], NEW c, c \notin Behaved, OnlyMoves(c)
  PROVE  UNCHANGED Contract!vars
<1>1. \A d \in Behaved : ClientStatus(d)' = ClientStatus(d) /\ ClientAge(d)' = ClientAge(d)
  BY OthersKept DEF OnlyMoves
<1> QED BY <1>1 DEF Contract!vars

\* nor is one that is no handler of Run's.
LEMMA NoneMoves ==
  ASSUME UNCHANGED <<pingList, waitList, listIndex>>
  PROVE  UNCHANGED Contract!vars
BY DEF Contract!vars, ClientStatus, ClientAge

LEMMA JoinKeepAliveIsJoin ==
  ASSUME SessionInv, NEW c \in Client, JoinKeepAlive(c)
  PROVE  [Contract!Next]_(Contract!vars)
<1>1. /\ KeepAliveInv /\ pushPlayer(c) /\ main[c] = "listed" /\ listIndex \in [Client -> Where]
      /\ listIndex' = [listIndex EXCEPT ![c] = "ping"]
  BY DEF SessionInv, TypeOK, KeepAliveTypeOK, JoinKeepAlive, Goto, pushPlayer
<1>2. OnlyMoves(c)
  BY <1>1, PushAges DEF OnlyMoves, SessionInv, Tame
<1>3. ASSUME c \in Behaved PROVE Contract!Join(c)
  <2>1. listIndex[c] = "none" /\ AgeIn(pingList', c) = 0
    BY <1>1, <1>3, PushAges DEF SessionInv, Tame
  <2>2. ClientStatus(c) \in {"out"} /\ ClientStatus(c)' = "idle" /\ ClientAge(c)' = 0
    BY <1>1, <2>1, StatusOf, StatusOfNext
  <2> QED BY <1>1, <1>2, <1>3, <2>2, OneMoves DEF Contract!Join
<1> QED BY <1>1, <1>2, <1>3, BabblerMoves DEF Contract!Next

LEMMA LeaveKeepAliveIsLeave ==
  ASSUME SessionInv, NEW c \in Client, LeaveKeepAlive(c)
  PROVE  [Contract!Next]_(Contract!vars)
<1>1. /\ KeepAliveInv /\ removePlayer(c) /\ main[c] = "unlisted" /\ listIndex \in [Client -> Where]
      /\ listIndex' = [listIndex EXCEPT ![c] = "none"]
  BY DEF SessionInv, TypeOK, KeepAliveTypeOK, LeaveKeepAlive, Goto, removePlayer
<1>2. OnlyMoves(c) /\ listIndex[c] # "none"
  BY <1>1, RemoveAges DEF OnlyMoves, SessionInv, Tame, Tracked
<1>3. ASSUME c \in Behaved PROVE Contract!Leave(c)
  <2>1. /\ ClientStatus(c) \in Contract!Status \ {"out"}
        /\ ClientStatus(c)' = "out" /\ ClientAge(c)' = 0
    BY <1>1, <1>2, StatusOf, StatusOfNext DEF Contract!Status, Where
  <2> QED BY <1>1, <1>2, <1>3, <2>1, OneMoves DEF Contract!Leave
<1> QED BY <1>1, <1>2, <1>3, BabblerMoves DEF Contract!Next

\* The receiver holds an answer: a client that behaves is not waiting for a ping.
LEMMA ClientTickIsAnswer ==
  ASSUME SessionInv, NEW c \in Client, ClientTick(c), tickKnownPlayer(c)
  PROVE  [Contract!Next]_(Contract!vars)
<1>1. /\ KeepAliveInv /\ receiver[c] = "ticking" /\ listIndex \in [Client -> Where]
      /\ listIndex[c] # "none" /\ listIndex' = [listIndex EXCEPT ![c] = "ping"]
  BY DEF SessionInv, TypeOK, KeepAliveTypeOK, ClientTick, tickKnownPlayer
<1>2. OnlyMoves(c)
  BY <1>1, TickAges DEF OnlyMoves, SessionInv, Tame
<1>3. ASSUME c \in Behaved PROVE Contract!Answer(c)
  <2>1. listIndex[c] \in {"wait", "orphan"} /\ Exact(c)
    BY <1>1, <1>3 DEF SessionInv, Tame, Owes, Where
  <2>2. AgeIn(pingList', c) = 0
    BY <1>1, <2>1, TickAges
  <2>3. ClientStatus(c) \in {"waiting", "kicked"} /\ ClientStatus(c)' = "idle" /\ ClientAge(c)' = 0
    BY <1>1, <2>1, <2>2, StatusOf, StatusOfNext
  <2> QED BY <1>1, <1>2, <1>3, <2>3, OneMoves DEF Contract!Answer
<1> QED BY <1>1, <1>2, <1>3, BabblerMoves DEF Contract!Next

LEMMA PingIsPing ==
  ASSUME SessionInv, Ping
  PROVE  [Contract!Next]_(Contract!vars)
<1>1. KeepAliveInv /\ pingPlayer /\ listIndex \in [Client -> Where]
  BY DEF SessionInv, TypeOK, KeepAliveTypeOK, Ping, ListTimerFires
<1>2. CASE pingList = <<>>
  BY <1>1, <1>2, NoneMoves DEF pingPlayer
<1>3. CASE pingList # <<>>
  <2>1. PICK h \in Client : h = Head(pingList).player
    BY <1>1, <1>3, PingKeeps
  <2>2. PingFirst /\ listIndex' = [listIndex EXCEPT ![h] = "wait"]
    BY <1>1, <1>3, <2>1 DEF pingPlayer, PingFirst
  <2>3. /\ \A d \in Client \ {h} : Exact(d) => SameAge(d)
        /\ Exact(h) => listIndex[h] = "ping" /\ AgeIn(waitList', h) = 0
    BY <1>1, <1>3, <2>1, <2>2, PingAges
  <2>4. OnlyMoves(h)
    BY <1>1, <2>2, <2>3 DEF OnlyMoves, SessionInv, Tame
  <2>5. ASSUME h \in Behaved PROVE Contract!Ping(h)
    <3>1. ClientStatus(h) \in {"idle"} /\ ClientStatus(h)' = "waiting" /\ ClientAge(h)' = 0
      BY <1>1, <2>2, <2>3, <2>5, StatusOf, StatusOfNext DEF SessionInv, Tame
    <3> QED BY <1>1, <2>4, <2>5, <3>1, OneMoves DEF Contract!Ping
  <2> QED BY <1>1, <2>4, <2>5, BabblerMoves DEF Contract!Next
<1> QED BY <1>2, <1>3

LEMMA KickIsKick ==
  ASSUME SessionInv, Kick
  PROVE  [Contract!Next]_(Contract!vars)
<1>1. KeepAliveInv /\ kickPlayer /\ listIndex \in [Client -> Where] /\ pingList' = pingList
  BY DEF SessionInv, TypeOK, KeepAliveTypeOK, Kick, WaitTimerFires, kickPlayer
<1>2. CASE waitList = <<>>
  BY <1>1, <1>2, NoneMoves DEF kickPlayer
<1>3. CASE waitList # <<>>
  <2>1. PICK h \in Client : h = Head(waitList).player
    BY <1>1, <1>3, KickKeeps
  <2>2. /\ KickFirst
        /\ listIndex' = [listIndex EXCEPT ![h] =
             IF @ = "wait" /\ LastPosition(waitList, h) = 1 THEN "orphan" ELSE @]
    BY <1>1, <1>3, <2>1 DEF kickPlayer, KickFirst
  <2>3. /\ \A d \in Client \ {h} : Exact(d) => SameAge(d)
        /\ Exact(h) => listIndex[h] = "wait" /\ LastPosition(waitList, h) = 1
    BY <1>1, <1>3, <2>1, <2>2, KickAges
  <2>4. OnlyMoves(h)
    BY <1>1, <2>2, <2>3 DEF OnlyMoves, SessionInv, Tame
  <2>5. ASSUME h \in Behaved PROVE Contract!Kick(h)
    <3>1. ClientStatus(h) \in {"waiting"} /\ ClientStatus(h)' = "kicked" /\ ClientAge(h)' = 0
      BY <1>1, <2>2, <2>3, <2>5, StatusOf, StatusOfNext DEF SessionInv, Tame
    <3> QED BY <1>1, <2>4, <2>5, <3>1, OneMoves DEF Contract!Kick
  <2> QED BY <1>1, <2>4, <2>5, BabblerMoves DEF Contract!Next
<1> QED BY <1>2, <1>3

LEMMA TickIsTime ==
  ASSUME SessionInv, Tick
  PROVE  Contract!Time
<1> USE IntervalAssumption
<1>1. /\ pingList \in Seq(Item) /\ InTime(pingList, listTimer, Interval) /\ listTimer \in 1..Interval
      /\ waitList \in Seq(Item) /\ InTime(waitList, waitTimer, WaitInterval) /\ waitTimer \in 1..WaitInterval
      /\ Interval \in Nat /\ WaitInterval \in Nat
      /\ pingList' = Aged(pingList) /\ waitList' = Aged(waitList) /\ listIndex' = listIndex
      /\ listIndex \in [Client -> Where]
  BY DEF Tick, Time, SessionInv, KeepAliveInv, KeepAliveTypeOK
<1>2. ASSUME NEW d \in Behaved
      PROVE  /\ ClientStatus(d)' = ClientStatus(d)
             /\ ClientStatus(d) = "idle" => ClientAge(d) < Interval
             /\ ClientStatus(d) = "waiting" => ClientAge(d) < WaitInterval
             /\ ClientAge(d)' = IF ClientStatus(d) \in {"idle", "waiting"} THEN ClientAge(d) + 1 ELSE 0
  <2>1. d \in Client /\ Exact(d) /\ listIndex[d] \in Where /\ listIndex'[d] = listIndex[d]
    BY <1>1 DEF SessionInv, Tame
  <2>2. CASE listIndex[d] = "ping"
    <3>1. AgeIn(pingList, d) < Interval /\ AgeIn(pingList', d) = AgeIn(pingList, d) + 1
      BY <1>1, <2>1, <2>2, BeforeDeadline, AgedAge DEF Exact
    <3> QED BY <2>1, <2>2, <3>1, StatusOf, StatusOfNext
  <2>3. CASE listIndex[d] = "wait"
    <3>1. AgeIn(waitList, d) < WaitInterval /\ AgeIn(waitList', d) = AgeIn(waitList, d) + 1
      BY <1>1, <2>1, <2>3, BeforeDeadline, AgedAge DEF Exact
    <3> QED BY <2>1, <2>3, <3>1, StatusOf, StatusOfNext
  <2>4. CASE listIndex[d] \in {"none", "orphan"}
    BY <2>1, <2>4, StatusOf, StatusOfNext
  <2> QED BY <2>1, <2>2, <2>3, <2>4 DEF Where
<1>3. \A d \in Behaved : Contract!Deadline(d)
  BY <1>2 DEF Contract!Deadline
<1>4. [d \in Behaved |-> ClientStatus(d)]' = [d \in Behaved |-> ClientStatus(d)]
  BY <1>2
<1>5. [d \in Behaved |-> ClientAge(d)]'
      = [c \in Behaved |-> IF [d \in Behaved |-> ClientStatus(d)][c] \in {"idle", "waiting"}
                          THEN [d \in Behaved |-> ClientAge(d)][c] + 1 ELSE 0]
  BY <1>2
<1> QED BY <1>3, <1>4, <1>5 DEF Contract!Time

\* What KeepAliveClients assumes of its clients the sessions guarantee: with the
\* goroutines of client.go and game.go around it, the component still gives every
\* client that answers only what it was asked a deadline of its own, and each
\* step of any session is one step of one client's contract, or none - whatever
\* the clients next to it answer unasked.
THEOREM SessionsKeepDeadlines == Spec => ImplementsContract /\ Contract!Spec
<1>1. Init => Contract!Init
  <2> SUFFICES ASSUME Init PROVE Contract!Init
    OBVIOUS
  <2>1. \A c \in Behaved : ClientStatus(c) = "out" /\ ClientAge(c) = 0
    BY StatusOf DEF Init, NewKeepAlive
  <2> QED BY <2>1 DEF Contract!Init
<1>2. ASSUME SessionInv, [Next]_vars PROVE [Contract!Next]_(Contract!vars)
  <2>1. ASSUME NEW c \in Client, AcceptPlayer(c) PROVE [Contract!Next]_(Contract!vars)
    <3>1. CASE JoinKeepAlive(c)
      BY <1>2, <3>1, JoinKeepAliveIsJoin
    <3>2. CASE LeaveKeepAlive(c)
      BY <1>2, <3>2, LeaveKeepAliveIsLeave
    <3>3. CASE JoinList(c) \/ JoinWorld(c) \/ LeaveWorld(c) \/ LeaveList(c) \/ CloseConn(c)
      <4>1. UNCHANGED kaVars
        BY <3>3 DEF JoinList, JoinWorld, LeaveWorld, LeaveList, CloseConn
      <4> QED BY <4>1, NoneMoves DEF kaVars
    <3> QED BY <2>1, <3>1, <3>2, <3>3 DEF AcceptPlayer
  <2>2. ASSUME NEW c \in Client, ClientTick(c) PROVE [Contract!Next]_(Contract!vars)
    <3>1. CASE tickKnownPlayer(c)
      BY <1>2, <2>2, <3>1, ClientTickIsAnswer
    <3>2. CASE tickUnknownPlayer(c)
      BY <3>2, NoneMoves DEF tickUnknownPlayer
    <3> QED BY <2>2, <3>1, <3>2 DEF ClientTick, tickPlayer
  <2>3. ASSUME NEW c \in Client,
               Send(c) \/ ReceiveAnswer(c) \/ ReceiveFails(c) \/ PeerGone(c) \/ Traffic(c)
        PROVE  [Contract!Next]_(Contract!vars)
    <3>1. UNCHANGED kaVars
      BY <2>3 DEF Send, ReceiveAnswer, ReceiveFails, PeerGone, Traffic
    <3> QED BY <3>1, NoneMoves DEF kaVars
  <2>4. CASE Ping
    BY <1>2, <2>4, PingIsPing
  <2>5. CASE Kick
    BY <1>2, <2>5, KickIsKick
  <2>6. CASE Tick
    BY <1>2, <2>6, TickIsTime DEF Contract!Next
  <2>7. CASE UNCHANGED vars
    BY <2>7, NoneMoves DEF vars, kaVars
  <2> QED BY <1>2, <2>1, <2>2, <2>3, <2>4, <2>5, <2>6, <2>7 DEF Next
<1>3. Spec => Contract!Init /\ [][Contract!Next]_(Contract!vars)
  BY <1>1, <1>2, SessionInvariant, PTL DEF Spec
<1>4. [Contract!Next]_(Contract!vars) =>
        [UNCHANGED <<pingList, waitList, listIndex>> \/ Contract!Next]_(Contract!vars)
  OBVIOUS
<1> QED BY <1>3, <1>4, PTL DEF ImplementsContract, Contract!Spec
============================================================================
