---------------------------- MODULE MCKeepAlive ----------------------------
(* KeepAlive for TLC, and its refinement of KeepAliveContract. *)
EXTENDS KeepAliveClients

\* Two FIFO lists with one timer each implement a deadline per client: every
\* handler of Run is one contract step of the right client, or none.  A client
\* that answers unasked disturbs nobody's deadline but its own.
Contract == INSTANCE KeepAliveContract WITH
  Client <- Behaved,
  status <- [c \in Behaved |-> ClientStatus(c)],
  age <- [c \in Behaved |-> ClientAge(c)]

ImplementsContract == Contract!Spec

=============================================================================
