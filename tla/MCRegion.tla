------------------------------ MODULE MCRegion ------------------------------
(* Region for TLC. *)
EXTENDS Region

\* States that differ only in what no ReadSector of an intact chunk sees are
\* one: stale sectors, and the history of a torn chunk, are only ever
\* overwritten before they are looked at.
Seen == UNION {SectorsOf(head[c]) \cup SectorsOf(offsets[c]) : c \in Chunk \ torn}

View ==
  <<offsets, sectors, head, writing, torn,
    [s \in Sector |-> IF s \in Seen THEN disk[s] ELSE Blank],
    [c \in Chunk |-> IF c \in torn THEN NoData ELSE last[c]]>>

=============================================================================
