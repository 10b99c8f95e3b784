-------------------------- MODULE MCPlayerSession --------------------------
(* PlayerSession for TLC, and its refinement of KeepAliveContract. *)
EXTENDS PlayerSession

\* The goroutines of all sessions together keep the contract of every client
\* that answers only what it was asked: its answer is handed to Run once per
\* ping that reached it, nobody joins Run twice or leaves it unknown, a late
\* answer, which panics, moves nobody's deadline before it does, and a client
\* that answers unasked disturbs nobody's deadline but its own.
Contract == INSTANCE KeepAliveContract WITH
  Client <- Behaved,
  status <- [c \in Behaved |-> ClientStatus(c)],
  age <- [c \in Behaved |-> ClientAge(c)]

\* Contract!Spec; most steps do not touch what Run keeps, and TLC need not try
\* them as contract steps.
ImplementsContract ==
  /\ Contract!Init
  /\ [][UNCHANGED <<pingList, waitList, listIndex>> \/ Contract!Next]_(Contract!vars)

=============================================================================
