--------------------------- MODULE SignatureCache ---------------------------
(***************************************************************************)
(* The cache of message signatures both ends of a chat connection keep     *)
(* (chat/sign/cache.go): an array, and an index from a signature to its    *)
(* place.  PopOrInsert puts a message's own signature and the ones its     *)
(* sender had seen last in front; whatever they displace is appended to    *)
(* the buffer the loop is still reading.  One step is one turn of the loop.*)
(***************************************************************************)
EXTENDS Integers, Sequences, FiniteSets

CONSTANTS
    Signature,
    Size,       \* the length of the array (128)
    MaxSeen,    \* bound: signatures a message lists (20 in the protocol)
    None        \* the nil pointer

ASSUME SizeAssumption == Size \in Nat \ {0}
ASSUME MaxSeenAssumption == MaxSeen \in Nat
ASSUME NoneAssumption == None \notin Signature

VARIABLES
    signatures,   \* SignatureCache.signatures
    signIndexes,  \* SignatureCache.signIndexes
    cachedBuffer, \* SignatureCache.cachedBuffer
    turn          \* the loop's i, counted from 1; 0 between calls

cacheVars == <<signatures, signIndexes, cachedBuffer, turn>>

Slot == 1..Size

CacheInit ==
    /\ signatures = [i \in Slot |-> None]
    /\ signIndexes = <<>>
    /\ cachedBuffer = <<>>
    /\ turn = 0

(* self is nil for an unsigned message. *)
PopOrInsert(self, lastSeen) ==
    /\ turn = 0
    /\ cachedBuffer' = self \o lastSeen
    /\ turn' = 1
    /\ UNCHANGED <<signatures, signIndexes>>

More == turn > 0 /\ turn <= Len(cachedBuffer) /\ turn <= Size

(* The slot v is taken out of. *)
Popped(v) ==
    IF v \in DOMAIN signIndexes
    THEN [signatures EXCEPT ![signIndexes[v]] = None] ELSE signatures

(* Mutant: what was displaced stays in the index. *)
MutantReindexed(v, i, tmp) ==
    [s \in DOMAIN signIndexes \cup {v} |-> IF s = v THEN i ELSE signIndexes[s]]

(* The index with v at i and without what was there. *)
Reindexed(v, i, tmp) ==
    [s \in (DOMAIN signIndexes \cup {v}) \ {tmp} |-> IF s = v THEN i ELSE signIndexes[s]]

(* Mutant: the new signature leaves the index with the one it displaced. *)
MutantTurn ==
    LET v == cachedBuffer[turn]
        tmp == Popped(v)[turn]
    IN
    /\ More
    /\ signatures' = [Popped(v) EXCEPT ![turn] = v]
    /\ signIndexes' = IF tmp = None THEN Reindexed(v, turn, tmp)
                      ELSE [s \in DOMAIN signIndexes \ {v, tmp} |-> signIndexes[s]]
    /\ cachedBuffer' = IF tmp = None THEN cachedBuffer ELSE Append(cachedBuffer, tmp)
    /\ turn' = turn + 1

Turn ==
    LET v == cachedBuffer[turn]
        tmp == Popped(v)[turn]
    IN
    /\ More
    /\ signatures' = [Popped(v) EXCEPT ![turn] = v]
    /\ signIndexes' = Reindexed(v, turn, tmp)
    /\ cachedBuffer' = IF tmp = None THEN cachedBuffer ELSE Append(cachedBuffer, tmp)
    /\ turn' = turn + 1

Return ==
    /\ turn > 0 /\ ~More
    /\ turn' = 0
    /\ cachedBuffer' = <<>>
    /\ UNCHANGED <<signatures, signIndexes>>

Messages == UNION {[1..n -> Signature] : n \in 0..MaxSeen}

CacheNext ==
    \/ \E self \in {<<>>} \cup {<<s>> : s \in Signature}, lastSeen \in Messages :
          PopOrInsert(self, lastSeen)
    \/ Turn
    \/ Return

CacheSpec == CacheInit /\ [][CacheNext]_cacheVars

-----------------------------------------------------------------------------
CacheTypeOK ==
    /\ signatures \in [Slot -> Signature \cup {None}]
    /\ DOMAIN signIndexes \subseteq Signature
    /\ \A s \in DOMAIN signIndexes : signIndexes[s] \in Slot
    /\ cachedBuffer \in Seq(Signature)
    /\ turn \in 0..(Size + 1)

(* At every turn the index and the array say the same: a signature is cached *)
(* where its index says, and nowhere else.  Turns take a signature out of    *)
(* one slot, put it into another and drop the one that was there, in three   *)
(* assignments to two structures (cache.go:28-37).                           *)
IndexesAgree ==
    /\ \A s \in DOMAIN signIndexes : signatures[signIndexes[s]] = s
    /\ \A i \in Slot : signatures[i] # None =>
          signatures[i] \in DOMAIN signIndexes /\ signIndexes[signatures[i]] = i

(* Every signature the loop has worked through is cached, whatever later     *)
(* turns move, displace and insert again: of a message's signatures, and of  *)
(* those they displaced, only what the buffer holds past the array's length  *)
(* is forgotten (cache.go:24-38).                                            *)
WorkedOffStay ==
    turn > 0 =>
      \A k \in DOMAIN cachedBuffer : k < turn => cachedBuffer[k] \in DOMAIN signIndexes
=============================================================================
