--------------------------- MODULE RegionProofs ---------------------------
(***************************************************************************)
(* Region proved for any chunks, sizes and versions and any file size: as  *)
(* long as writing the header does not fail, the allocator is exact and a  *)
(* region opened at any moment reads back every intact chunk.              *)
(***************************************************************************)
EXTENDS Region, TLAPS

\* The header on disk is the table in memory, except for the chunk whose new
\* place has not been written to it yet; its old place is still its own.
HeadFollows ==
  /\ Disjoint(head)
  /\ UsedBy(head) \subseteq Sector
  /\ \A c \in Chunk :
       (writing.stage = "head" /\ c = writing.chunk) \/ head[c] = offsets[c]

\* The data under way fits the sectors found for it, and from the first write
\* that touches the chunk's old state on the chunk counts as torn.
WritingFits ==
  writing # Idle =>
    /\ offsets[writing.chunk].num = writing.data.num
    /\ writing.stage = "data" => writing.chunk \in torn

\* The inductive invariant.
IInv ==
  /\ TypeOK
  /\ AllocationExact
  /\ HeadFollows
  /\ WritingFits
  /\ Durable

----------------------------------------------------------------------------
(* Facts about locations *)

\* Sizes are positive.
LEMMA SizeIsNat == \A n \in Size : n \in Nat /\ n > 0
BY SizeAssumption

\* A location starts at a sector and has a natural number of them.
LEMMA LocType ==
  ASSUME NEW loc \in Loc
  PROVE  loc.n \in Nat /\ loc.num \in Nat /\ loc.n \in Sector
<1>1. CASE loc \in [n : Sector, num : Size]
  <2>1. loc.n \in Sector /\ loc.num \in Size
    BY <1>1
  <2> QED BY <2>1, SizeIsNat, LastSectorAssumption DEF Sector
<1>2. CASE loc = NoSector
  BY <1>2, LastSectorAssumption DEF NoSector, Sector
<1> QED BY <1>1, <1>2 DEF Loc

\* A piece of data takes at least one sector.
LEMMA DataType ==
  ASSUME NEW data \in Data \ {NoData}
  PROVE  /\ data.ver \in Version /\ data.num \in Size
         /\ data.num \in Nat /\ data.num > 0
<1>1. data \in [ver : Version, num : Size]
  BY DEF Data
<1>2. data.ver \in Version /\ data.num \in Size
  BY <1>1
<1> QED BY <1>2, SizeIsNat

\* Idle is not taken for a WriteSector under way.
LEMMA WritingType ==
  ASSUME writing \in Writing \cup {Idle}, writing # Idle
  PROVE  /\ writing \in Writing
         /\ writing.chunk \in Chunk
         /\ writing.data \in Data \ {NoData}
         /\ writing.stage \in {"head", "data"}
BY DEF Writing, Idle

\* Allocate gives the chunk free sectors and leaves the table exact.
LEMMA AllocateExact ==
  ASSUME TypeOK, AllocationExact, NEW c \in Chunk, NEW need \in Size,
         Allocate(c, need)
  PROVE  /\ offsets' \in [Chunk -> Loc] /\ sectors' \subseteq Sector
         /\ AllocationExact'
         /\ offsets'[c].num = need
         /\ \A d \in Chunk \ {c} : offsets'[d] = offsets[d]
<1> DEFINE freed == sectors \ SectorsOf(offsets[c])
<1>1. PICK n \in Sector :
        /\ FirstSpace(n, need, freed)
        /\ offsets' = [offsets EXCEPT ![c] = [n |-> n, num |-> need]]
        /\ sectors' = freed \cup (n .. (n + need - 1))
  BY DEF Allocate
<1> DEFINE new == [n |-> n, num |-> need]
<1>2. need \in Nat /\ need > 0 /\ n \in Nat
  BY SizeIsNat, LastSectorAssumption DEF Sector
<1>3. new \in Loc
  BY DEF Loc
<1>4. /\ offsets' \in [Chunk -> Loc]
      /\ offsets'[c] = new
      /\ \A d \in Chunk \ {c} : offsets'[d] = offsets[d]
  BY <1>1, <1>3 DEF TypeOK
<1>5. SectorsOf(new) = n .. (n + need - 1)
  BY DEF SectorsOf
<1>6. SectorsOf(new) \cap freed = {}
  BY <1>1, <1>5 DEF FirstSpace, Fits
<1>7. SectorsOf(new) \subseteq Sector
  BY <1>1, <1>2, <1>5, LastSectorAssumption DEF FirstSpace, Sector
<1>8. freed = HeadSectors \cup UNION {SectorsOf(offsets[d]) : d \in Chunk \ {c}}
  <2>1. sectors = HeadSectors \cup UNION {SectorsOf(offsets[d]) : d \in Chunk}
    BY DEF AllocationExact, UsedBy
  <2>2. SectorsOf(offsets[c]) \cap HeadSectors = {}
    BY DEF AllocationExact, Disjoint
  <2>3. \A d \in Chunk \ {c} : SectorsOf(offsets[d]) \cap SectorsOf(offsets[c]) = {}
    BY DEF AllocationExact, Disjoint
  <2> QED BY <2>1, <2>2, <2>3
<1>9. sectors' = UsedBy(offsets')
  <2>1. UNION {SectorsOf(offsets'[d]) : d \in Chunk}
          = (UNION {SectorsOf(offsets[d]) : d \in Chunk \ {c}}) \cup SectorsOf(new)
    BY <1>4
  <2> QED BY <2>1, <1>1, <1>5, <1>8 DEF UsedBy
<1>10. Disjoint(offsets')
  <2>1. \A d \in Chunk \ {c} : SectorsOf(new) \cap SectorsOf(offsets[d]) = {}
    BY <1>6, <1>8
  <2>2. SectorsOf(new) \cap HeadSectors = {}
    BY <1>6, <1>8
  <2>3. \A d \in Chunk : SectorsOf(offsets'[d]) \cap HeadSectors = {}
    BY <1>4, <2>2 DEF AllocationExact, Disjoint
  <2>4. ASSUME NEW d \in Chunk, NEW e \in Chunk, d # e
        PROVE  SectorsOf(offsets'[d]) \cap SectorsOf(offsets'[e]) = {}
    <3>1. CASE d = c
      BY <3>1, <2>4, <1>4, <2>1
    <3>2. CASE e = c
      BY <3>2, <2>4, <1>4, <2>1
    <3>3. CASE d # c /\ e # c
      BY <3>3, <2>4, <1>4 DEF AllocationExact, Disjoint
    <3> QED BY <3>1, <3>2, <3>3
  <2> QED BY <2>3, <2>4 DEF Disjoint
<1>11. sectors' \subseteq Sector
  BY <1>1, <1>5, <1>7 DEF TypeOK
<1> QED BY <1>4, <1>9, <1>10, <1>11 DEF AllocationExact

\* What WrittenTo leaves in the sectors of the chunk being written ...
LEMMA WrittenType ==
  ASSUME TypeOK, WritingFits, writing # Idle, NEW k \in Nat, WrittenTo(k)
  PROVE  disk' \in [Sector -> Piece \cup {Blank}]
<1>1. /\ writing.chunk \in Chunk /\ writing.data.ver \in Version
      /\ offsets[writing.chunk].n \in Nat
  BY WritingType, DataType, LocType DEF TypeOK
<1> DEFINE first == offsets[writing.chunk].n
<1>2. ASSUME NEW s \in Sector, s \in first .. (first + k - 1)
      PROVE  <<writing.chunk, writing.data.ver, s - first + 1>> \in Piece
  <2>1. s - first + 1 \in Nat
    BY <1>1, <1>2, LastSectorAssumption DEF Sector
  <2> QED BY <1>1, <2>1 DEF Piece
<1> QED BY <1>2 DEF WrittenTo, TypeOK

\* ... and that it touches no other sector.
LEMMA WrittenElsewhere ==
  ASSUME TypeOK, WritingFits, writing # Idle, NEW k \in Nat, WrittenTo(k),
         k <= writing.data.num,
         NEW s \in Sector, s \notin SectorsOf(offsets[writing.chunk])
  PROVE  disk'[s] = disk[s]
<1>1. /\ offsets[writing.chunk].n \in Nat
      /\ offsets[writing.chunk].num = writing.data.num
      /\ writing.data.num \in Nat
  BY WritingType, DataType, LocType DEF TypeOK, WritingFits
<1>2. s \notin offsets[writing.chunk].n .. (offsets[writing.chunk].n + k - 1)
  BY <1>1, LastSectorAssumption DEF SectorsOf, Sector
<1> QED BY <1>2 DEF WrittenTo

\* A chunk whose place on disk and history are untouched is still intact.
LEMMA StillDurable ==
  ASSUME Durable, NEW c \in Chunk \ torn, head'[c] = head[c], last'[c] = last[c],
         \A i \in 1 .. head[c].num :
           disk'[head[c].n + i - 1] = disk[head[c].n + i - 1]
  PROVE  ReadSector(head, c)' = Pieces(c, last[c])'
<1>1. ReadSector(head, c)' = ReadSector(head, c)
  BY DEF ReadSector
<1>2. Pieces(c, last[c])' = Pieces(c, last[c])
  BY DEF Pieces
<1> QED BY <1>1, <1>2 DEF Durable

\* So Durable survives a step that writes no sector.
LEMMA DurableUntouched ==
  ASSUME Durable, UNCHANGED disk,
         \A c \in Chunk \ torn' : c \notin torn /\ head'[c] = head[c] /\ last'[c] = last[c]
  PROVE  Durable'
<1> SUFFICES ASSUME NEW c \in Chunk \ torn'
             PROVE  ReadSector(head, c)' = Pieces(c, last[c])'
  BY DEF Durable
<1> QED BY StillDurable

\* A write of data, complete or not, leaves every other chunk intact.
LEMMA OthersIntact ==
  ASSUME IInv, writing # Idle, writing.stage = "data",
         NEW k \in Nat, k <= writing.data.num, WrittenTo(k), UNCHANGED head,
         NEW c \in Chunk \ torn, last'[c] = last[c]
  PROVE  ReadSector(head, c)' = Pieces(c, last[c])'
<1>1. c # writing.chunk
  BY DEF IInv, WritingFits
<1>2. writing.chunk \in Chunk
  BY WritingType DEF IInv, TypeOK
<1>3. /\ head[c] = offsets[c]
      /\ SectorsOf(offsets[c]) \cap SectorsOf(offsets[writing.chunk]) = {}
  BY <1>1, <1>2 DEF IInv, HeadFollows, AllocationExact, Disjoint
<1>4. head[c].n \in Nat /\ head[c].num \in Nat
  BY LocType DEF IInv, TypeOK
<1>5. SectorsOf(head[c]) \subseteq Sector
  BY <1>3 DEF IInv, AllocationExact, UsedBy, TypeOK
<1>6. ASSUME NEW i \in 1 .. head[c].num
      PROVE  disk'[head[c].n + i - 1] = disk[head[c].n + i - 1]
  <2> DEFINE s == head[c].n + i - 1
  <2>1. s \in SectorsOf(head[c])
    BY <1>4, <1>6 DEF SectorsOf
  <2>2. s \in Sector /\ s \notin SectorsOf(offsets[writing.chunk])
    BY <2>1, <1>3, <1>5
  <2> HIDE DEF s
  <2>3. disk'[s] = disk[s]
    BY <2>2, WrittenElsewhere DEF IInv
  <2> QED BY <2>3 DEF s
<1> QED BY <1>6, StillDurable DEF IInv

----------------------------------------------------------------------------
(* The invariant is inductive *)

LEMMA InitInvariant == Init => IInv
<1> SUFFICES ASSUME Init PROVE IInv
  OBVIOUS
<1>1. \A c \in Chunk : SectorsOf(offsets[c]) = {}
  <2>1. SectorsOf(NoSector) = {}
    BY DEF SectorsOf, NoSector
  <2> QED BY <2>1 DEF Init
<1>2. TypeOK
  BY LastSectorAssumption
  DEF Init, TypeOK, Loc, Data, HeadSectors, Sector
<1>3. Disjoint(offsets) /\ Disjoint(head)
  BY <1>1 DEF Init, Disjoint
<1>4. sectors = UsedBy(offsets)
  BY <1>1 DEF Init, UsedBy
<1>5. HeadFollows
  BY <1>2, <1>3, <1>4 DEF Init, HeadFollows, TypeOK
<1>6. WritingFits
  BY DEF Init, WritingFits
<1>7. Durable
  <2> SUFFICES ASSUME NEW c \in Chunk PROVE ReadSector(head, c) = Pieces(c, last[c])
    BY DEF Durable
  <2>1. head[c].num = 0 /\ last[c].num = 0
    BY DEF Init, NoSector, NoData
  <2> QED BY <2>1 DEF ReadSector, Pieces
<1> QED BY <1>2, <1>3, <1>4, <1>5, <1>6, <1>7 DEF IInv, AllocationExact

\* Loading the header, at any moment, makes an exact table.
LEMMA LoadExact ==
  ASSUME IInv, Load, UNCHANGED head
  PROVE  /\ offsets' \in [Chunk -> Loc] /\ sectors' \subseteq Sector
         /\ AllocationExact' /\ Disjoint(head)' /\ (UsedBy(head) \subseteq Sector)'
         /\ \A c \in Chunk : head'[c] = offsets'[c]
<1>1. offsets' = head /\ sectors' = UsedBy(head)
  BY DEF Load
<1>2. Disjoint(head)
  BY DEF IInv, HeadFollows
<1>3. Disjoint(offsets)' /\ Disjoint(head)'
  BY <1>1, <1>2 DEF Disjoint
<1>4. (sectors = UsedBy(offsets))'
  BY <1>1 DEF UsedBy
<1>5. UsedBy(head) \subseteq Sector
  BY DEF IInv, HeadFollows
<1>6. (UsedBy(head) \subseteq Sector)'
  BY <1>5 DEF UsedBy
<1> QED BY <1>1, <1>3, <1>4, <1>5, <1>6 DEF IInv, TypeOK, AllocationExact

LEMMA StepInvariant ==
  IInv /\ [Next]_vars => IInv'
<1> SUFFICES ASSUME IInv, [Next]_vars PROVE IInv'
  OBVIOUS
<1> USE DEF IInv
<1>1. ASSUME NEW c \in Chunk, NEW data \in Data \ {NoData}, WriteNew(c, data)
      PROVE  IInv'
  <2>1. /\ writing = Idle /\ Allocate(c, data.num)
        /\ writing' = [stage |-> "head", chunk |-> c, data |-> data]
        /\ UNCHANGED <<head, disk, last, torn>>
    BY <1>1 DEF WriteNew
  <2>2. data.num \in Size
    BY DataType
  <2>3. /\ offsets' \in [Chunk -> Loc] /\ sectors' \subseteq Sector
        /\ AllocationExact'
        /\ offsets'[c].num = data.num
        /\ \A d \in Chunk \ {c} : offsets'[d] = offsets[d]
    BY <2>1, <2>2, AllocateExact
  <2>4. writing' \in Writing
    BY <2>1 DEF Writing
  <2>5. TypeOK'
    BY <2>1, <2>3, <2>4 DEF TypeOK
  <2>6. HeadFollows'
    BY <2>1, <2>3 DEF HeadFollows, Disjoint, UsedBy, Idle
  <2>7. WritingFits'
    BY <2>1, <2>3 DEF WritingFits
  <2>8. Durable'
    BY <2>1, DurableUntouched
  <2> QED BY <2>3, <2>5, <2>6, <2>7, <2>8
<1>2. ASSUME NEW c \in Chunk, NEW data \in Data \ {NoData}, WriteOver(c, data)
      PROVE  IInv'
  <2>1. /\ writing = Idle /\ offsets[c].num = data.num
        /\ writing' = [stage |-> "data", chunk |-> c, data |-> data]
        /\ torn' = torn \cup {c}
        /\ UNCHANGED <<offsets, sectors, head, disk, last>>
    BY <1>2 DEF WriteOver
  <2>2. writing' \in Writing
    BY <2>1 DEF Writing
  <2>3. TypeOK'
    BY <2>1, <2>2 DEF TypeOK
  <2>4. AllocationExact'
    BY <2>1 DEF AllocationExact, Disjoint, UsedBy
  <2>5. HeadFollows'
    BY <2>1 DEF HeadFollows, Disjoint, UsedBy, Idle
  <2>6. WritingFits'
    BY <2>1 DEF WritingFits
  <2>7. Durable'
    BY <2>1, DurableUntouched
  <2> QED BY <2>3, <2>4, <2>5, <2>6, <2>7
<1>3. CASE SetHead
  <2> DEFINE c == writing.chunk
  <2>1. /\ writing.stage = "head"
        /\ head' = [head EXCEPT ![c] = offsets[c]]
        /\ writing' = [writing EXCEPT !.stage = "data"]
        /\ torn' = torn \cup {c}
        /\ UNCHANGED <<offsets, sectors, disk, last>>
    BY <1>3 DEF SetHead
  <2>2. writing # Idle
    BY <2>1 DEF Idle
  <2>3. writing \in Writing /\ c \in Chunk
    BY <2>2, WritingType DEF TypeOK
  <2>4. /\ writing' \in Writing /\ writing'.stage = "data"
        /\ writing'.chunk = c /\ writing'.data = writing.data
    BY <2>1, <2>3 DEF Writing
  <2>5. head' = offsets
    BY <2>1, <2>3 DEF HeadFollows, TypeOK
  <2>6. TypeOK'
    BY <2>1, <2>3, <2>4, <2>5 DEF TypeOK
  <2>7. AllocationExact'
    BY <2>1 DEF AllocationExact, Disjoint, UsedBy
  <2>8. HeadFollows'
    BY <2>1, <2>5 DEF HeadFollows, AllocationExact, Disjoint, UsedBy, TypeOK
  <2>9. WritingFits'
    BY <2>1, <2>2, <2>4 DEF WritingFits
  <2>10. Durable'
    <3>1. ASSUME NEW d \in Chunk \ torn, d # c
          PROVE  head'[d] = head[d]
      BY <3>1, <2>1, <2>3 DEF TypeOK
    <3> QED BY <3>1, <2>1, DurableUntouched
  <2> QED BY <2>6, <2>7, <2>8, <2>9, <2>10
<1>4. CASE WriteData
  <2>2. writing # Idle
    BY <1>4 DEF WriteData, Idle
  <2> PICK c \in Chunk, data \in Data \ {NoData} : c = writing.chunk /\ data = writing.data
    BY <2>2, WritingType DEF TypeOK
  <2>1. /\ writing.stage = "data" /\ WrittenTo(data.num) /\ writing' = Idle
        /\ last' = [last EXCEPT ![c] = data] /\ torn' = torn \ {c}
        /\ UNCHANGED <<offsets, sectors, head>>
    BY <1>4 DEF WriteData
  <2>3. data.num \in Nat
    BY DataType
  <2>4. TypeOK'
    <3>1. disk' \in [Sector -> Piece \cup {Blank}]
      BY <2>1, <2>2, <2>3, WrittenType
    <3> QED BY <2>1, <2>3, <3>1 DEF TypeOK
  <2>5. AllocationExact'
    BY <2>1 DEF AllocationExact, Disjoint, UsedBy
  <2>6. \A d \in Chunk : head[d] = offsets[d]
    BY <2>1 DEF HeadFollows
  <2>7. HeadFollows'
    BY <2>1, <2>6 DEF HeadFollows, Disjoint, UsedBy
  <2>8. WritingFits'
    BY <2>1 DEF WritingFits
  <2>9. ReadSector(head, c)' = Pieces(c, last[c])'
    <3>1. /\ head'[c] = offsets[c] /\ offsets[c].num = data.num
          /\ offsets[c].n \in Nat /\ last'[c] = data
      BY <2>1, <2>2, <2>3, <2>6, LocType DEF TypeOK, WritingFits
    <3>2. ASSUME NEW i \in 1 .. data.num
          PROVE  disk'[offsets[c].n + i - 1] = <<c, data.ver, i>>
      <4> DEFINE s == offsets[c].n + i - 1
      <4>1. s \in SectorsOf(offsets[c])
        BY <2>3, <3>1, <3>2 DEF SectorsOf
      <4>2. s \in Sector
        BY <4>1, <2>3 DEF AllocationExact, UsedBy, TypeOK
      <4>3. /\ s \in offsets[c].n .. (offsets[c].n + data.num - 1)
            /\ s - offsets[c].n + 1 = i
        BY <2>3, <3>1, <3>2
      <4> HIDE DEF s
      <4>4. disk'[s] = <<c, data.ver, i>>
        BY <2>1, <4>2, <4>3 DEF WrittenTo
      <4> QED BY <4>4 DEF s
    <3>3. ReadSector(head, c)' = [i \in 1 .. data.num |-> disk'[offsets[c].n + i - 1]]
      BY <3>1 DEF ReadSector
    <3>4. Pieces(c, last[c])' = [i \in 1 .. data.num |-> <<c, data.ver, i>>]
      BY <3>1 DEF Pieces
    <3> QED BY <3>2, <3>3, <3>4
  <2>10. ASSUME NEW d \in Chunk \ torn, d # c
         PROVE  ReadSector(head, d)' = Pieces(d, last[d])'
    <3>1. last'[d] = last[d]
      BY <2>1, <2>3, <2>10 DEF TypeOK
    <3>2. data.num <= data.num
      BY <2>3
    <3> QED BY <2>1, <2>2, <2>3, <3>1, <3>2, OthersIntact
  <2>11. Durable'
    <3> SUFFICES ASSUME NEW d \in Chunk \ torn'
                 PROVE  ReadSector(head, d)' = Pieces(d, last[d])'
      BY DEF Durable
    <3> QED BY <2>1, <2>9, <2>10
  <2> QED BY <2>4, <2>5, <2>7, <2>8, <2>11
<1>5. ASSUME NEW k \in 0..255, DataFails(k)
      PROVE  IInv'
  <2>1. /\ writing.stage = "data" /\ k < writing.data.num
        /\ WrittenTo(k) /\ writing' = Idle
        /\ UNCHANGED <<offsets, sectors, head, last, torn>>
    BY <1>5 DEF DataFails
  <2>2. writing # Idle
    BY <2>1 DEF Idle
  <2>3. k \in Nat /\ k <= writing.data.num
    BY <2>1, <2>2, WritingType, DataType DEF TypeOK
  <2>4. TypeOK'
    <3>1. disk' \in [Sector -> Piece \cup {Blank}]
      BY <2>1, <2>2, <2>3, WrittenType
    <3> QED BY <2>1, <3>1 DEF TypeOK
  <2>5. AllocationExact'
    BY <2>1 DEF AllocationExact, Disjoint, UsedBy
  <2>6. HeadFollows'
    BY <2>1 DEF HeadFollows, Disjoint, UsedBy
  <2>7. WritingFits'
    BY <2>1 DEF WritingFits
  <2>8. Durable'
    BY <2>1, <2>2, <2>3, OthersIntact DEF Durable
  <2> QED BY <2>4, <2>5, <2>6, <2>7, <2>8
<1>6. ASSUME NEW k \in 0..255, Crash(k)
      PROVE  IInv'
  <2>1. /\ writing # Idle /\ Load /\ writing' = Idle
        /\ UNCHANGED <<head, last, torn>>
    BY <1>6 DEF Crash
  <2>2. /\ offsets' \in [Chunk -> Loc] /\ sectors' \subseteq Sector
        /\ AllocationExact' /\ Disjoint(head)' /\ (UsedBy(head) \subseteq Sector)'
        /\ \A c \in Chunk : head'[c] = offsets'[c]
    BY <2>1, LoadExact
  <2>3. HeadFollows' /\ WritingFits'
    BY <2>1, <2>2 DEF HeadFollows, WritingFits
  <2>4. disk' \in [Sector -> Piece \cup {Blank}] /\ Durable'
    <3>1. CASE writing.stage = "data" /\ k < writing.data.num /\ WrittenTo(k)
      <4>1. k \in Nat /\ k <= writing.data.num
        BY <2>1, <3>1, WritingType, DataType DEF TypeOK
      <4>2. disk' \in [Sector -> Piece \cup {Blank}]
        BY <2>1, <3>1, <4>1, WrittenType
      <4>3. Durable'
        BY <2>1, <3>1, <4>1, OthersIntact DEF Durable
      <4> QED BY <4>2, <4>3
    <3>2. CASE UNCHANGED disk
      BY <2>1, <3>2, DurableUntouched DEF TypeOK
    <3> QED BY <1>6, <3>1, <3>2 DEF Crash
  <2>5. TypeOK'
    BY <2>1, <2>2, <2>4 DEF TypeOK
  <2> QED BY <2>2, <2>3, <2>4, <2>5
<1>7. CASE Reopen
  <2>1. /\ writing = Idle /\ Load /\ UNCHANGED <<head, disk, writing, last, torn>>
    BY <1>7 DEF Reopen
  <2>2. /\ offsets' \in [Chunk -> Loc] /\ sectors' \subseteq Sector
        /\ AllocationExact' /\ Disjoint(head)' /\ (UsedBy(head) \subseteq Sector)'
        /\ \A c \in Chunk : head'[c] = offsets'[c]
    BY <2>1, LoadExact
  <2>3. HeadFollows' /\ WritingFits'
    BY <2>1, <2>2 DEF HeadFollows, WritingFits
  <2>4. Durable'
    BY <2>1, DurableUntouched
  <2>5. TypeOK'
    BY <2>1, <2>2 DEF TypeOK
  <2> QED BY <2>2, <2>3, <2>4, <2>5
<1>8. CASE UNCHANGED vars
  <2>1. Durable'
    BY <1>8, DurableUntouched DEF vars
  <2> QED BY <1>8, <2>1 DEF vars, TypeOK, AllocationExact, HeadFollows, WritingFits,
             Disjoint, UsedBy
<1> QED BY <1>1, <1>2, <1>3, <1>4, <1>5, <1>6, <1>7, <1>8 DEF Next

----------------------------------------------------------------------------
(* Theorems *)

\* IInv holds in every state the code reaches as long as no header write fails.
THEOREM Invariant == Spec => []IInv
<1>1. Init => IInv
  BY InitInvariant
<1>2. IInv /\ [Next]_vars => IInv'
  BY StepInvariant
<1> QED BY <1>1, <1>2, PTL DEF Spec

\* A region keeps its types, whatever is written, fails, or dies: no location
\* reaches beyond the file.
THEOREM RegionTyped == Spec => []TypeOK
<1>1. IInv => TypeOK
  BY DEF IInv
<1> QED BY <1>1, Invariant, PTL

\* WriteSector's allocator never gives a sector away twice, nor the header's,
\* and loses none, for any sizes up to ErrTooLarge.
THEOREM AllocatorExact == Spec => []AllocationExact
<1>1. IInv => AllocationExact
  BY DEF IInv
<1> QED BY <1>1, Invariant, PTL

\* A process that dies between, or in, any two writes of WriteSector leaves a
\* file from which Load reads back every chunk that was not being written.
THEOREM CrashDurability == Spec => []Durable
<1>1. IInv => Durable
  BY DEF IInv
<1> QED BY <1>1, Invariant, PTL

\* As long as header writes succeed, the open region does so too, whatever data
\* writes failed before: it reads back every chunk whose last write did not fail
\* half-way.
THEOREM OpenReadsBack == Spec => []ReadsBack
<1>1. IInv => ReadsBack
  <2> SUFFICES ASSUME IInv, writing = Idle, NEW c \in Chunk \ torn
               PROVE  ReadSector(offsets, c) = Pieces(c, last[c])
    BY DEF ReadsBack
  <2>1. head[c] = offsets[c]
    BY DEF IInv, HeadFollows, Idle
  <2> QED BY <2>1 DEF IInv, Durable, ReadSector
<1> QED BY <1>1, Invariant, PTL

=============================================================================
