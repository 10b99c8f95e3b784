-------------------------- MODULE PaletteContainer --------------------------
(***************************************************************************)
(* The container of a section's block states or biomes (level/palette.go,  *)
(* level/bitstorage.go): indices packed into 64-bit longs, and the palette *)
(* they point into, which grows with the values seen until the values are  *)
(* stored themselves.  A container is filled by Set, sent to a client      *)
(* (WriteTo, ReadFrom) and kept in a chunk file (ChunkToSave,              *)
(* ChunkFromSave).  The single-value palette is the palette of width 0:    *)
(* room for one value, and no bits.                                        *)
(***************************************************************************)
EXTENDS Integers, Sequences, SequencesExt

CONSTANTS
    Length,    \* cells of a container (4096 block states, 64 biomes)
    LongBits,  \* bits of a long (64)
    State,     \* the states that occur, as their numbers
    Configs    \* statesCfg is [min |-> 4, max |-> 8, global |-> 15], biomesCfg [1, 3, 6]

ASSUME LengthAssumption == Length \in Nat \ {0}

(* 1 << n *)
Pow2[n \in Nat] == IF n = 0 THEN 1 ELSE 2 * Pow2[n - 1]

ASSUME LongBitsAssumption == LongBits \in Nat
ASSUME ConfigsAssumption ==
    \A c \in Configs :
      /\ c.min \in Nat \ {0} /\ c.max \in Nat /\ c.global \in Nat
      /\ c.min <= c.max /\ c.max < c.global /\ c.global <= LongBits
ASSUME StateAssumption == State \subseteq Nat /\ \A c \in Configs, v \in State : v < Pow2[c.global]

VARIABLES
    config,    \* PaletteContainer.config
    box,       \* the container: bits as announced, width of a cell, palette and its capacity, longs
    contents,  \* what was last set, cell by cell
    misread    \* the file's longs were cut at other bounds than they were packed with

paletteVars == <<config, box, contents, misread>>

Cell == 1..Length

-----------------------------------------------------------------------------
(* BitStorage *)

PerLong(width) == LongBits \div width

Longs(width) ==
    IF width = 0 THEN 0 ELSE (Length + PerLong(width) - 1) \div PerLong(width)

(* calcBitsPerValue: the width is not in the file, only the longs are. *)
BitsPerValue(longs) ==
    IF longs = 0 THEN 0 ELSE LongBits \div ((Length + longs - 1) \div longs)

Long(i, width) == (i - 1) \div PerLong(width) + 1
Shift(i, width) == Pow2[width * ((i - 1) % PerLong(width))]

Stored(b, i) ==
    IF b.width = 0 THEN 0
    ELSE (b.longs[Long(i, b.width)] \div Shift(i, b.width)) % Pow2[b.width]

Store(b, i, v) ==
    IF b.width = 0 THEN b
    ELSE [b EXCEPT !.longs[Long(i, b.width)] = @ + (v - Stored(b, i)) * Shift(i, b.width)]

-----------------------------------------------------------------------------
(* Palettes *)

Width(bits) ==
    IF bits = 0 THEN 0
    ELSE IF bits <= config.min THEN config.min
    ELSE IF bits <= config.max THEN bits ELSE config.global

IsGlobal(b) == b.width > config.max

Empty(bits) ==
    [bits |-> bits, width |-> Width(bits), values |-> <<>>, cap |-> Pow2[Width(bits)],
     longs |-> [k \in 1..Longs(Width(bits)) |-> 0]]

Get(b, i) == IF IsGlobal(b) THEN Stored(b, i) ELSE b.values[Stored(b, i) + 1]

(* Mutant: a full palette takes one more value. *)
MutantHasRoom(b, v) == IsGlobal(b) \/ Contains(b.values, v) \/ Len(b.values) <= b.cap

(* palette.id found the value, or had room for it. *)
HasRoom(b, v) == IsGlobal(b) \/ Contains(b.values, v) \/ Len(b.values) < b.cap

Entered(b, i, v) ==
    CASE IsGlobal(b) -> Store(b, i, v)
      [] ~IsGlobal(b) /\ Contains(b.values, v) ->
           Store(b, i, SelectInSeq(b.values, LAMBDA w : w = v) - 1)
      [] OTHER -> Store([b EXCEPT !.values = Append(@, v)], i, Len(b.values))

(* Mutant: the indices are copied, the palette is not. *)
MutantResized(b) ==
    LET copied[i \in 0..Length] ==
          IF i = 0 THEN Empty(b.width + 1) ELSE Store(copied[i - 1], i, Stored(b, i))
    IN copied[Length]

(* The copy into a container one bit wider; values no cell has any more stay behind. *)
Resized(b) ==
    LET copied[i \in 0..Length] ==
          IF i = 0 THEN Empty(b.width + 1) ELSE Entered(copied[i - 1], i, Get(b, i))
    IN copied[Length]

-----------------------------------------------------------------------------
PaletteInit ==
    /\ config \in Configs
    /\ \E v \in State :
         /\ box = [Empty(0) EXCEPT !.values = <<v>>]
         /\ contents = [i \in Cell |-> v]
    /\ misread = FALSE

Set(i, v) ==
    /\ ~misread
    /\ box' = Entered(IF HasRoom(box, v) THEN box ELSE Resized(box), i, v)
    /\ contents' = [contents EXCEPT ![i] = v]
    /\ UNCHANGED <<config, misread>>

(* ReadFrom of what WriteTo wrote: the bits announced, the palette, the longs. *)
Received(b) == [b EXCEPT !.bits = Width(b.bits), !.width = Width(b.bits), !.cap = Pow2[Width(b.bits)]]

Transfer ==
    /\ ~misread
    /\ box' = Received(box)
    /\ UNCHANGED <<config, contents, misread>>

(* The containers built WithData from a saved palette and its longs: the     *)
(* palette is as large as the file's, and the rounding to min and max is     *)
(* done, but not the one to global.                                          *)
Loaded(b) ==
    LET bits == BitsPerValue(Len(b.longs))
        width == IF bits <= config.max THEN Width(bits) ELSE bits
    IN [b EXCEPT !.bits = width, !.width = width, !.cap = Len(b.values)]

Reload ==
    /\ ~misread
    /\ box' = Loaded(box)
    /\ misread' = (box'.width # box.width)
    /\ UNCHANGED <<config, contents>>

(* A section is built anew (LevelChunkFromHPC). *)
NewContainer(v) ==
    /\ box' = [Empty(0) EXCEPT !.values = <<v>>]
    /\ contents' = [i \in Cell |-> v]
    /\ misread' = FALSE
    /\ UNCHANGED config

PaletteNext ==
    \/ \E v \in State : NewContainer(v)
    \/ \E i \in Cell, v \in State : Set(i, v)
    \/ Transfer
    \/ Reload

PaletteSpec == PaletteInit /\ [][PaletteNext]_paletteVars

-----------------------------------------------------------------------------
(* Every cell reads back what was last set in it, however often the palette  *)
(* has grown since, whatever it still lists, and on either side of a         *)
(* transfer or a file whose width was guessed right (palette.go:104-128).    *)
ContentsMatch == ~misread => \A i \in Cell : Get(box, i) = contents[i]

(* No palette lists a value twice or more than its cells can point to, so    *)
(* the panics of BitStorage.Set ("value out of bounds") and of a palette's   *)
(* value ("out of bounds") stay out of reach.                                *)
PaletteFits ==
    ~misread /\ ~IsGlobal(box) =>
      /\ \A j, k \in DOMAIN box.values : box.values[j] = box.values[k] => j = k
      /\ Len(box.values) <= Pow2[box.width]
      /\ \A i \in Cell : Stored(box, i) < Len(box.values)
=============================================================================
