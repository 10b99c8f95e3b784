-------------------------------- MODULE CFB8 --------------------------------
(***************************************************************************)
(* The stream cipher of a connection (net/CFB8/cfb8.go): XORKeyStream with *)
(* its ring of three blocks, in which every turn encrypts the window of    *)
(* the last BlockSize ciphertext bytes, and the faster way through long    *)
(* inputs.  A call's two slices lie in one memory, dst before src, at src, *)
(* or behind it.  The reference is the shift register of the definition    *)
(* of the mode.                                                            *)
(***************************************************************************)
EXTENDS Integers, Sequences

CONSTANTS
    Byte,        \* bound: bytes of one bit, {0, 1}
    Xor(_, _),   \* the exclusive or of two bytes
    BlockSize,   \* 16 for AES; a power of two
    Encrypt(_),  \* the block cipher, on sequences of BlockSize bytes
    CallLengths  \* bound: the lengths of src

ASSUME ByteAssumption == 0 \in Byte /\ \A a, b \in Byte : Xor(a, b) \in Byte
ASSUME BlockAssumption ==
    BlockSize \in Nat \ {0} /\ \A b \in [1..BlockSize -> Byte] : Encrypt(b) \in [1..BlockSize -> Byte]
ASSUME CallLengthsAssumption == CallLengths \subseteq Nat

VARIABLES
    decrypts,  \* CFB8.de
    iv,        \* CFB8.iv, three blocks
    ivPos,     \* CFB8.ivPos
    register,  \* the reference: the last BlockSize bytes of ciphertext
    lastCall   \* inPlaceOrApart: one slice, or two disjoint ones; right: it wrote what the reference does

cfbVars == <<decrypts, iv, ivPos, register, lastCall>>

Block == [1..BlockSize -> Byte]

Slice(m, at, n) == [i \in 1..n |-> m[at + i - 1]]
BlockAt(m, at) == Slice(m, at, BlockSize)
Put(m, at, bytes) ==
    [i \in DOMAIN m |-> IF i \in at..(at + Len(bytes) - 1) THEN bytes[i - at + 1] ELSE m[i]]

(* A loop: turn(s, k) for k from 0 to n - 1. *)
Repeated(turn(_, _), s, n) ==
    LET after[k \in 0..n] == IF k = 0 THEN s ELSE turn(after[k - 1], k - 1)
    IN after[n]

-----------------------------------------------------------------------------
(* A call in progress: s has the memory, where dst and src start in it, and  *)
(* iv and ivPos.                                                             *)

(* Mutant: the wrap keeps one byte too few. *)
MutantByteDone(s, k) ==
    LET temp == (s.ivPos + BlockSize) % (2 * BlockSize)
        ring == Put(s.iv, temp + 1, Encrypt(BlockAt(s.iv, s.ivPos + 1)))
        in == s.mem[s.src + k]
        out == Xor(in, ring[temp + 1])
        fed == IF decrypts THEN in ELSE out
    IN IF s.ivPos = 2 * BlockSize
       THEN [s EXCEPT !.iv = [Put(ring, 1, Slice(ring, s.ivPos + 1, BlockSize)) EXCEPT ![BlockSize] = fed],
                      !.ivPos = 0, !.mem[s.dst + k] = out]
       ELSE [s EXCEPT !.iv = [ring EXCEPT ![s.ivPos + BlockSize + 1] = fed],
                      !.ivPos = s.ivPos + 1, !.mem[s.dst + k] = out]

(* xorKeyStream, one byte. *)
ByteDone(s, k) ==
    LET temp == (s.ivPos + BlockSize) % (2 * BlockSize)
        ring == Put(s.iv, temp + 1, Encrypt(BlockAt(s.iv, s.ivPos + 1)))
        in == s.mem[s.src + k]
        out == Xor(in, ring[temp + 1])
        fed == IF decrypts THEN in ELSE out
    IN IF s.ivPos = 2 * BlockSize
       THEN [s EXCEPT !.iv = [Put(ring, 1, Slice(ring, s.ivPos + 2, BlockSize - 1)) EXCEPT ![BlockSize] = fed],
                      !.ivPos = 0, !.mem[s.dst + k] = out]
       ELSE [s EXCEPT !.iv = [ring EXCEPT ![s.ivPos + BlockSize + 1] = fed],
                      !.ivPos = s.ivPos + 1, !.mem[s.dst + k] = out]

Slowly(s, n) == Repeated(ByteDone, s, n)

(* Mutant: the ciphertext is always what was written. *)
MutantCiphertext(s) == s.dst

(* Where the ciphertext of the call is read back from. *)
Ciphertext(s) == IF decrypts THEN s.src ELSE s.dst

(* After the first block: a byte's window is read from the ciphertext itself, *)
(* encrypted in the first block of iv, ...                                    *)
FromCiphertext(s, i) ==
    LET e == Encrypt(BlockAt(s.mem, Ciphertext(s) + i)) IN
    [s EXCEPT !.iv = Put(@, 1, e),
              !.mem[s.dst + BlockSize + i] = Xor(s.mem[s.src + BlockSize + i], e[1])]

(* ... or block after block in dst, whose first bytes stay. *)
IntoDst(s, i) ==
    [s EXCEPT !.mem = Put(@, s.dst + BlockSize + i, Encrypt(BlockAt(s.mem, Ciphertext(s) + i)))]

XoredInDst(s, n) ==
    [s EXCEPT !.mem = [p \in DOMAIN @ |->
        IF p - s.dst - BlockSize \in 0..(n - 1)
        THEN Xor(s.mem[s.src + (p - s.dst)], s.mem[p]) ELSE s.mem[p]]]

(* The two slices, without their first blocks, share memory. *)
Overlap(s, n) == s.dst <= s.src + n - 1 /\ s.src <= s.dst + n - 1

Quickly(s, len) ==
    LET first == Slowly(s, BlockSize)
        n == len - BlockSize
        whole == Repeated(IntoDst, first, n - BlockSize)
        tail(r, i) == FromCiphertext(r, n - BlockSize + i)
        done == IF decrypts /\ Overlap(s, n)
                THEN Repeated(tail, XoredInDst(whole, n - BlockSize), BlockSize)
                ELSE Repeated(FromCiphertext, first, n)
    IN [done EXCEPT !.iv = Put(@, 1, BlockAt(done.mem, Ciphertext(s) + n)), !.ivPos = 0]

IsLong(s, len) ==
    len > 2 * BlockSize /\ (s.dst + BlockSize <= s.src \/ s.src + len <= s.dst)

(* The reference: bytes shifted through the register one at a time. *)
Reference(bytes) ==
    LET turn(r, k) ==
          LET in == bytes[k + 1]
              out == Xor(in, Encrypt(r.register)[1])
          IN [register |-> Append(Tail(r.register), IF decrypts THEN in ELSE out),
              out |-> Append(r.out, out)]
    IN Repeated(turn, [register |-> register, out |-> <<>>], Len(bytes))

-----------------------------------------------------------------------------
CFBInit ==
    /\ decrypts \in BOOLEAN
    /\ register \in Block
    /\ iv = [i \in 1..(3 * BlockSize) |-> IF i <= BlockSize THEN register[i] ELSE 0]
    /\ ivPos = 0
    /\ lastCall = [inPlaceOrApart |-> TRUE, right |-> TRUE]

(* shift bytes from dst to src; src lies before dst if it is negative. *)
XORKeyStream(bytes, shift) ==
    LET len == Len(bytes)
        dst == IF shift < 0 THEN 1 - shift ELSE 1
        src == dst + shift
        mem == Put([i \in 1..(2 * len) |-> 0], src, bytes)
        s == [mem |-> mem, dst |-> dst, src |-> src, iv |-> iv, ivPos |-> ivPos]
        end == IF IsLong(s, len) THEN Quickly(s, len) ELSE Slowly(s, len)
        ref == Reference(bytes)
    IN
    /\ iv' = end.iv
    /\ ivPos' = end.ivPos
    /\ register' = ref.register
    /\ lastCall' = [inPlaceOrApart |-> shift \in {-len, 0, len},
                    right |-> Slice(end.mem, dst, len) = ref.out]
    /\ UNCHANGED decrypts

(* The layouts cipher.Stream allows are 0 and the disjoint ones; an           *)
(* overlapping dst before src, which the code looks for, is the rest.  A dst  *)
(* that overlaps src from behind is left out: it goes the slow way, and       *)
(* nothing in the repository passes one.                                      *)
CFBNext ==
    \E len \in CallLengths : \E bytes \in [1..len -> Byte], shift \in {-len} \cup 0..len :
        XORKeyStream(bytes, shift)

CFBSpec == CFBInit /\ [][CFBNext]_cfbVars

-----------------------------------------------------------------------------
(* Whatever the lengths and the layouts of the calls before, the window of   *)
(* iv is the last block of ciphertext: slow and fast calls leave the state   *)
(* to each other, the slow ones in a ring that they also encrypt in          *)
(* (cfb8.go:103-133), the fast ones in the first block (cfb8.go:93).         *)
WindowIsRegister == BlockAt(iv, ivPos + 1) = register

(* In place, into another buffer, and for encryption also with dst before    *)
(* src and overlapping it, a call writes what the reference does: the key    *)
(* stream does not depend on how a connection's reads and writes cut it into *)
(* calls.                                                                    *)
StreamIsReference == lastCall.inPlaceOrApart \/ ~decrypts => lastCall.right

(* "If dst and src does not overlap in first block size, ... we can use an   *)
(* optimized implementation" (cfb8.go:45-47): with dst ahead of src a call   *)
(* writes what the reference does, too.                                      *)
OptimizedIsReference == lastCall.right
=============================================================================
