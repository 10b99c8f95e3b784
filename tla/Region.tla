------------------------------- MODULE Region -------------------------------
(***************************************************************************)
(* A region file (save/region/mca.go): the sector allocator in memory, the *)
(* header and the sectors on disk, and what a crash of the process or an   *)
(* I/O error between two of WriteSector's writes leaves behind.            *)
(*                                                                         *)
(* A Region is not safe for concurrent use, so one WriteSector runs at a   *)
(* time; it is split at its writes.  Sizes are in sectors (the number the  *)
(* code calls need), a sector's content is the piece of data it holds, and *)
(* a sector only partly written counts as not written.  Bytes handed to    *)
(* Write survive a crash of the process.  Timestamps are left out.         *)
(***************************************************************************)
EXTENDS Integers

CONSTANTS
  Chunk,       \* the chunks (x, z) of the region
  Size,        \* the sectors a chunk's data can take
  Version,     \* to tell one content of a chunk from another
  LastSector   \* bound: the file does not grow beyond it

Sector == 0..LastSector

ASSUME SizeAssumption == Size \subseteq 1..255   \* need >= 256 is ErrTooLarge
ASSUME LastSectorAssumption == LastSector \in Nat \ {0}

VARIABLES
  offsets,  \* Region.offsets: per chunk its first sector and their number
  sectors,  \* Region.sectors: those marked used
  head,     \* the offsets in the header on disk
  disk,     \* what each sector on disk holds
  writing,  \* the WriteSector under way: its chunk, data and next write
  last,     \* (history) what the last WriteSector of a chunk that succeeded,
            \* or that nothing of reached the disk, left
  torn      \* (history) chunks whose last WriteSector did not succeed

vars == <<offsets, sectors, head, disk, writing, last, torn>>

NoSector == [n |-> 0, num |-> 0]
Loc == [n : Sector, num : Size] \cup {NoSector}
NoData == [ver |-> "none", num |-> 0]
Data == [ver : Version, num : Size] \cup {NoData}
Blank == <<>>
Piece == Chunk \X Version \X Nat
Idle == [stage |-> "idle"]
Writing == [stage : {"head", "data"}, chunk : Chunk, data : Data \ {NoData}]

SectorsOf(loc) == loc.n .. (loc.n + loc.num - 1)
HeadSectors == {0, 1}

\* The sectors table that Load makes of a header.
UsedBy(offs) == HeadSectors \cup UNION {SectorsOf(offs[c]) : c \in Chunk}

\* CreateWriter
Init ==
  /\ offsets = [c \in Chunk |-> NoSector]
  /\ sectors = HeadSectors
  /\ head = offsets
  /\ disk = [s \in Sector |-> Blank]
  /\ writing = Idle
  /\ last = [c \in Chunk |-> NoData]
  /\ torn = {}

----------------------------------------------------------------------------
(* WriteSector *)

Fits(n, need, used) == \A s \in n .. (n + need - 1) : s \notin used

\* What findSpace returns: the first of the first need free sectors in a row.
FirstSpace(n, need, used) ==
  /\ n + need - 1 <= LastSector
  /\ Fits(n, need, used)
  /\ \A m \in 0 .. (n - 1) : ~Fits(m, need, used)

\* Mutant: the new sectors are marked but the old ones never freed.
MutantAllocate(c, need) ==
  \E n \in Sector :
    /\ FirstSpace(n, need, sectors)
    /\ offsets' = [offsets EXCEPT ![c] = [n |-> n, num |-> need]]
    /\ sectors' = sectors \cup (n .. (n + need - 1))

\* Mutant: the two halves of an offset are swapped.
MutantAllocateSwapped(c, need) ==
  \E n \in Sector :
    /\ FirstSpace(n, need, sectors \ SectorsOf(offsets[c]))
    /\ offsets' = [offsets EXCEPT ![c] = [n |-> need, num |-> n]]
    /\ sectors' = (sectors \ SectorsOf(offsets[c])) \cup (n .. (n + need - 1))

\* The chunk's sectors are freed first, so the new ones may overlap the old.
Allocate(c, need) ==
  LET freed == sectors \ SectorsOf(offsets[c]) IN
  \E n \in Sector :
    /\ FirstSpace(n, need, freed)
    /\ offsets' = [offsets EXCEPT ![c] = [n |-> n, num |-> need]]
    /\ sectors' = freed \cup (n .. (n + need - 1))

WriteNew(c, data) ==
  /\ writing = Idle
  /\ offsets[c].num # data.num
  /\ Allocate(c, data.num)
  /\ writing' = [stage |-> "head", chunk |-> c, data |-> data]
  /\ UNCHANGED <<head, disk, last, torn>>

\* The old sectors are overwritten; the header is left alone.
WriteOver(c, data) ==
  /\ writing = Idle
  /\ offsets[c].num = data.num
  /\ writing' = [stage |-> "data", chunk |-> c, data |-> data]
  /\ torn' = torn \cup {c}
  /\ UNCHANGED <<offsets, sectors, head, disk, last>>

SetHead ==
  /\ writing.stage = "head"
  /\ head' = [head EXCEPT ![writing.chunk] = offsets[writing.chunk]]
  /\ writing' = [writing EXCEPT !.stage = "data"]
  /\ torn' = torn \cup {writing.chunk}
  /\ UNCHANGED <<offsets, sectors, disk, last>>

\* Mutant: one sector more is written.
MutantWrittenTo(k) ==
  disk' = [s \in Sector |->
    LET first == offsets[writing.chunk].n IN
    IF s \in first .. (first + k)
    THEN <<writing.chunk, writing.data.ver, s - first + 1>> ELSE disk[s]]

\* The first k sectors of the data under way have been written.
WrittenTo(k) ==
  disk' = [s \in Sector |->
    LET first == offsets[writing.chunk].n IN
    IF s \in first .. (first + k - 1)
    THEN <<writing.chunk, writing.data.ver, s - first + 1>> ELSE disk[s]]

WriteData ==
  /\ writing.stage = "data"
  /\ WrittenTo(writing.data.num)
  /\ writing' = Idle
  /\ last' = [last EXCEPT ![writing.chunk] = writing.data]
  /\ torn' = torn \ {writing.chunk}
  /\ UNCHANGED <<offsets, sectors, head>>

\* A write of the header returns an error, and WriteSector with it: what it had
\* done in memory stays, and the header does not know of it.  Not a step of
\* Next: what the region keeps otherwise, it does not keep after this one.
HeadFails ==
  /\ writing.stage = "head"
  /\ writing' = Idle
  /\ torn' = torn \cup {writing.chunk}
  /\ UNCHANGED <<offsets, sectors, head, disk, last>>

\* A later write returns an error after k sectors of the data.  (Failing to
\* write the timestamp is DataFails(0).)
DataFails(k) ==
  /\ writing.stage = "data"
  /\ k < writing.data.num
  /\ WrittenTo(k)
  /\ writing' = Idle
  /\ UNCHANGED <<offsets, sectors, head, last, torn>>

----------------------------------------------------------------------------
(* Load: after a crash, or a Close, the memory is what the header says *)

\* Mutant: all sectors of a chunk are marked but its last.
MutantLoad ==
  /\ offsets' = head
  /\ sectors' = HeadSectors \cup
       UNION {head[c].n .. (head[c].n + head[c].num - 2) : c \in Chunk}

Load == offsets' = head /\ sectors' = UsedBy(head)

Crash(k) ==
  /\ writing # Idle
  /\ Load
  /\ \/ writing.stage = "data" /\ k < writing.data.num /\ WrittenTo(k)
     \/ writing.stage = "head" /\ k = 0 /\ UNCHANGED disk
  /\ writing' = Idle
  /\ UNCHANGED <<head, last, torn>>

Reopen ==
  /\ writing = Idle
  /\ Load
  /\ UNCHANGED <<head, disk, writing, last, torn>>

----------------------------------------------------------------------------

Next ==
  \/ \E c \in Chunk, data \in Data \ {NoData} : WriteNew(c, data) \/ WriteOver(c, data)
  \/ SetHead \/ WriteData \/ Reopen
  \/ \E k \in 0..255 : DataFails(k) \/ Crash(k)

Spec == Init /\ [][Next]_vars

\* The same with writes of the header that can fail, too.
HeadFaultsSpec == Init /\ [][Next \/ HeadFails]_vars

----------------------------------------------------------------------------
(* Properties *)

\* Types.
TypeOK ==
  /\ offsets \in [Chunk -> Loc]
  /\ sectors \subseteq Sector
  /\ head \in [Chunk -> Loc]
  /\ disk \in [Sector -> Piece \cup {Blank}]
  /\ writing \in Writing \cup {Idle}
  /\ last \in [Chunk -> Data]
  /\ torn \subseteq Chunk

Disjoint(offs) ==
  /\ \A c \in Chunk : SectorsOf(offs[c]) \cap HeadSectors = {}
  /\ \A c, d \in Chunk : c # d => SectorsOf(offs[c]) \cap SectorsOf(offs[d]) = {}

\* The allocator never gives a sector away twice, nor the header's, and never
\* loses one: those marked used are exactly the header's and the chunks', after
\* any sequence of growing, shrinking, failing and reopening.
AllocationExact == Disjoint(offsets) /\ sectors = UsedBy(offsets)

\* ReadSector, from the header on disk: the pieces in the chunk's sectors.
ReadSector(offs, c) == [i \in 1 .. offs[c].num |-> disk[offs[c].n + i - 1]]
Pieces(c, data) == [i \in 1 .. data.num |-> <<c, data.ver, i>>]

\* A region opened at any moment, after a crash as well, reads back every chunk
\* as its last successful WriteSector left it: writing one chunk, however it
\* ends, damages no other, and a write interrupted before its header is
\* written has not happened ("WriteSector write Chunk data into region file",
\* mca.go:175).
Durable ==
  \A c \in Chunk \ torn : ReadSector(head, c) = Pieces(c, last[c])

\* The same for the region that is open, between two calls.
ReadsBack ==
  writing = Idle => \A c \in Chunk \ torn : ReadSector(offsets, c) = Pieces(c, last[c])

=============================================================================
