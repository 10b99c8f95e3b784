------------------------ MODULE KeepAliveContract ------------------------
(***************************************************************************)
(* What the keep-alive component promises, one client at a time: no lists, *)
(* no index, no shared timers.  Every connected client has a deadline of   *)
(* its own, and time does not pass it.                                     *)
(***************************************************************************)
EXTENDS Naturals

CONSTANTS Client, Interval, WaitInterval

VARIABLES status, age

vars == <<status, age>>

Status == {"out", "idle", "waiting", "kicked"}

Init ==
  /\ status = [c \in Client |-> "out"]
  /\ age = [c \in Client |-> 0]

Move(c, from, to) ==
  /\ status[c] \in from
  /\ status' = [status EXCEPT ![c] = to]
  /\ age' = [age EXCEPT ![c] = 0]

Join(c) == Move(c, {"out"}, "idle")
Ping(c) == Move(c, {"idle"}, "waiting")
Answer(c) == Move(c, {"waiting", "kicked"}, "idle")
Kick(c) == Move(c, {"waiting"}, "kicked")
Leave(c) == Move(c, Status \ {"out"}, "out")

Deadline(c) ==
  CASE status[c] = "idle" -> age[c] < Interval
    [] status[c] = "waiting" -> age[c] < WaitInterval
    [] OTHER -> TRUE

Time ==
  /\ \A c \in Client : Deadline(c)
  /\ age' = [c \in Client |-> IF status[c] \in {"idle", "waiting"} THEN age[c] + 1 ELSE 0]
  /\ UNCHANGED status

Next ==
  \/ \E c \in Client : Join(c) \/ Ping(c) \/ Answer(c) \/ Kick(c) \/ Leave(c)
  \/ Time

Spec == Init /\ [][Next]_vars

=============================================================================
