------------------------- MODULE KeepAliveClients -------------------------
(***************************************************************************)
(* The keep-alive component with the clients around it: they join, answer  *)
(* pings late or never, and leave at any time.  Answers come only from     *)
(* clients between their ClientJoin and their ClientLeft (PlayerSession    *)
(* shows what the goroutines of a session really guarantee).               *)
(***************************************************************************)
EXTENDS KeepAlive

CONSTANTS
  Babblers,      \* the clients that send keep-alives nobody asked for
  MaxPing        \* bound on pingList, reached only by unsolicited answers

ASSUME BabblersAssumption == Babblers \subseteq Client
ASSUME MaxPingAssumption == MaxPing \in Nat

VARIABLES
  connected,     \* the clients between their ClientJoin and their ClientLeft
  unanswered     \* keep-alives the client was sent and has not answered
                 \* (not counted for a babbler, which needs none to answer)

vars == <<kaVars, connected, unanswered>>

Init ==
  /\ NewKeepAlive
  /\ connected = {}
  /\ unanswered = [c \in Client |-> 0]

\* A name stands for a new connection once nothing of its last one is left.
ClientJoin(c) ==
  /\ ~crashed /\ c \notin connected
  /\ listIndex[c] = "none" /\ Positions(pingList, c) = {}
  /\ pushPlayer(c)
  /\ connected' = connected \cup {c}
  /\ unanswered' = [unanswered EXCEPT ![c] = 0]

ClientLeft(c) ==
  /\ ~crashed /\ c \in connected
  /\ removePlayer(c)
  /\ connected' = connected \ {c}
  /\ UNCHANGED unanswered

Answer(c) == unanswered[c] > 0 /\ unanswered' = [unanswered EXCEPT ![c] = @ - 1]
Babble(c) == c \in Babblers /\ Len(pingList) < MaxPing /\ UNCHANGED unanswered

ClientTick(c) ==
  /\ ~crashed /\ c \in connected
  /\ Answer(c) \/ Babble(c)
  /\ tickPlayer(c)
  /\ UNCHANGED connected

Ping ==
  /\ ListTimerFires
  /\ unanswered' = [c \in Client |->
       IF c \notin Babblers /\ pingList # <<>> /\ Head(pingList).player = c
       THEN unanswered[c] + 1 ELSE unanswered[c]]
  /\ UNCHANGED connected

Kick == WaitTimerFires /\ UNCHANGED <<connected, unanswered>>

Tick == Time /\ UNCHANGED <<connected, unanswered>>

Next ==
  \/ \E c \in Client : ClientJoin(c) \/ ClientLeft(c) \/ ClientTick(c)
  \/ Ping
  \/ Kick
  \/ Tick

Spec == Init /\ [][Next]_vars

\* Run serves its timers and the clock advances; nothing obliges a client to
\* join, answer or leave.
FairSpec == Spec /\ WF_vars(Ping) /\ WF_vars(Kick) /\ WF_vars(Tick)

----------------------------------------------------------------------------
(* Properties *)

\* Types of the component's state and of the clients'.
TypeOK ==
  /\ KeepAliveTypeOK
  /\ connected \subseteq Client
  /\ unanswered \in [Client -> Nat]

Behaved == Client \ Babblers

\* The two lists and the index agree: every client Run knows is in exactly the
\* list its index says and once, a kicked or departed client in neither, so
\* that the removals of removePlayer and tickPlayer hit the right element.
\* (A babbler is left behind in pingList by tickPlayer's extra PushBack.)
IndexExact ==
  \A c \in Behaved :
    /\ Count(pingList, c) = IF listIndex[c] = "ping" THEN 1 ELSE 0
    /\ Count(waitList, c) = IF listIndex[c] = "wait" THEN 1 ELSE 0

\* One timer per list is enough: whatever joins, leaves, answers and kicks
\* reorder the lists and reset the timers, no client is left unpinged for
\* longer than keepAliveInterval, none unanswered for longer than
\* keepAliveWaitInterval.
NobodyOverdue ==
  /\ \A i \in DOMAIN pingList : pingList[i].age <= Interval
  /\ \A i \in DOMAIN waitList : waitList[i].age <= WaitInterval

\* The panic of tickPlayer is unreachable while answers only come from clients
\* between their ClientJoin and ClientLeft (also from kicked ones).
NeverCrashes == ~crashed

\* kickPlayer disconnects a client only once it has been waiting for
\* keepAliveWaitInterval ("how long does the player expired", keepalive.go:15).
KickOnlyExpired ==
  [][Kick => waitList = <<>> \/ Head(waitList).age >= WaitInterval]_vars

\* A client is pinged again and again for as long as it stays: one that is to
\* be pinged gets its ping or leaves.
EventuallyPinged ==
  \A c \in Behaved : listIndex[c] = "ping" ~> listIndex[c] # "ping"

\* A client that was pinged does not stay in limbo: it answers, leaves, or is
\* disconnected.
EventuallyResolved ==
  \A c \in Behaved : listIndex[c] = "wait" ~> listIndex[c] # "wait"

=============================================================================
