-------------------------- MODULE StructuresProofs --------------------------
(***************************************************************************)
(* The four structures proved for every value of their constants: the      *)
(* signature cache, the tree of bounding volumes, the paletted container   *)
(* and the stream cipher.  They share nothing but the lemmas below.        *)
(***************************************************************************)
EXTENDS BVH, PaletteContainer, SignatureCache, CFB8,
        FiniteSetTheorems, SequenceTheorems, WellFoundedInduction, TLAPS

-----------------------------------------------------------------------------
(* What the proofs share: the least number of a set, recursion along a       *)
(* relation that ends, counting up, division.                                *)

\* A set of numbers has a least one.
LEMMA LeastOf ==
  ASSUME NEW S \in SUBSET Nat, S # {}
  PROVE  \E k \in S : \A j \in S : k <= j
<1> DEFINE R == OpToRel(<, Nat)
<1>1. \A j, k \in Nat : j < k => <<j, k>> \in R
  BY DEF OpToRel
<1>2. IsWellFoundedOn(R, Nat)
  BY NatLessThanWellFounded
<1> HIDE DEF R
<1>3. PICK k \in S : \A j \in S : ~(<<j, k>> \in R)
  BY <1>2, WFMin
<1>4. ASSUME NEW j \in S PROVE k <= j
  <2>1. j \in Nat /\ k \in Nat /\ (j < k => <<j, k>> \in R) /\ ~(<<j, k>> \in R)
    BY <1>1, <1>3
  <2> QED BY <2>1
<1> QED BY <1>4

\* f is what the recursion along up gives for the members of A.
Partial(A, f, N, V, up, top, base, step) ==
    /\ A \in SUBSET N /\ f \in [A -> V]
    /\ \A n \in A : /\ up[n] = top \/ up[n] \in A
                    /\ f[n] = IF up[n] = top THEN base[n] ELSE step[n][f[up[n]]]

\* Whoever follows up in N comes to top.
Grounded(up, N, top) ==
    /\ up \in [N -> N \cup {top}] /\ top \notin N
    /\ \A S \in SUBSET N : S # {} => \E n \in S : up[n] \notin S

\* g is the function the recursion along up defines.
Follows(g, N, up, top, base, step) ==
    \A n \in N : g[n] = IF up[n] = top THEN base[n] ELSE step[n][g[up[n]]]

\* There is one.
LEMMA Recursion ==
  ASSUME NEW N, NEW V, NEW top, NEW up, Grounded(up, N, top),
         NEW base, base \in [N -> V], NEW step, step \in [N -> [V -> V]]
  PROVE  \E g \in [N -> V] : Follows(g, N, up, top, base, step)
<1>g. /\ up \in [N -> N \cup {top}] /\ top \notin N
      /\ \A S \in SUBSET N : S # {} => \E n \in S : up[n] \notin S
  BY DEF Grounded
<1> DEFINE P(A, f) == Partial(A, f, N, V, up, top, base, step)
<1>1. ASSUME NEW A, NEW f, P(A, f), NEW B, NEW h, P(B, h), NEW n \in A, n \in B
      PROVE  f[n] = h[n]
  <2> DEFINE S == {m \in A \cap B : f[m] # h[m]}
  <2>1. SUFFICES ASSUME S # {} PROVE FALSE
    BY <1>1
  <2>2. S \in SUBSET N
    BY <1>1 DEF Partial
  <2>3. PICK m \in S : up[m] \notin S
    BY <1>g, <2>1, <2>2
  <2>4. m \in A /\ m \in B /\ f[m] # h[m]
    BY <2>3
  <2>5. /\ up[m] = top \/ up[m] \in A
        /\ f[m] = IF up[m] = top THEN base[m] ELSE step[m][f[up[m]]]
    BY <1>1, <2>4 DEF Partial
  <2>6. /\ up[m] = top \/ up[m] \in B
        /\ h[m] = IF up[m] = top THEN base[m] ELSE step[m][h[up[m]]]
    BY <1>1, <2>4 DEF Partial
  <2>7. up[m] # top => f[up[m]] = h[up[m]]
    BY <2>3, <2>5, <2>6
  <2> QED BY <2>4, <2>5, <2>6, <2>7
<1>2. ASSUME NEW n \in N PROVE \E A \in SUBSET N : \E f \in [A -> V] : P(A, f) /\ n \in A
  <2> DEFINE S == {m \in N : ~ \E A \in SUBSET N : \E f \in [A -> V] : P(A, f) /\ m \in A}
  <2>1. SUFFICES ASSUME S # {} PROVE FALSE
    BY <1>2
  <2>2. PICK m \in S : up[m] \notin S
    BY <1>g, <2>1
  <2>3. m \in N
    OBVIOUS
  <2>4. CASE up[m] = top
    <3> DEFINE f == [x \in {m} |-> base[m]]
    <3>1. P({m}, f)
      BY <2>3, <2>4 DEF Partial
    <3>2. {m} \in SUBSET N /\ f \in [{m} -> V]
      BY <2>3
    <3> QED BY <3>1, <3>2
  <2>5. CASE up[m] # top
    <3>1. up[m] \in N /\ up[m] \notin S
      BY <1>g, <2>2, <2>3, <2>5
    <3>a. PICK A \in SUBSET N : \E f \in [A -> V] : P(A, f) /\ up[m] \in A
      BY <3>1
    <3>2. PICK f \in [A -> V] : P(A, f) /\ up[m] \in A
      BY <3>a
    <3> DEFINE B == A \cup {m}
               h == [x \in B |-> IF x \in A THEN f[x] ELSE step[m][f[up[m]]]]
    <3>3. B \in SUBSET N
      BY <2>3
    <3>4. step[m][f[up[m]]] \in V
      BY <2>3, <3>2
    <3>5. h \in [B -> V] /\ \A x \in A : h[x] = f[x]
      BY <3>4
    <3>6. h[m] = step[m][f[up[m]]]
      <4>1. CASE m \in A
        BY <2>5, <3>2, <4>1 DEF Partial
      <4>2. CASE m \notin A
        BY <4>2
      <4> QED BY <4>1, <4>2
    <3> HIDE DEF h
    <3>7. ASSUME NEW x \in B
          PROVE  /\ up[x] = top \/ up[x] \in B
                 /\ h[x] = IF up[x] = top THEN base[x] ELSE step[x][h[up[x]]]
      <4>1. CASE x \in A
        BY <3>2, <3>5, <4>1 DEF Partial
      <4>2. CASE x = m
        BY <2>5, <3>2, <3>5, <3>6, <4>2
      <4> QED BY <4>1, <4>2
    <3>8. P(B, h)
      BY <3>3, <3>5, <3>7 DEF Partial
    <3> QED BY <3>3, <3>5, <3>8
  <2> QED BY <2>4, <2>5
<1> DEFINE Val(n, v) == \E A \in SUBSET N : \E f \in [A -> V] : P(A, f) /\ n \in A /\ v = f[n]
           g == [n \in N |-> CHOOSE v \in V : Val(n, v)]
<1>3. ASSUME NEW A, NEW f, P(A, f), NEW n \in A PROVE g[n] = f[n]
  <2> HIDE DEF P
  <2>1. A \in SUBSET N /\ f \in [A -> V] /\ n \in N /\ f[n] \in V
    BY <1>3 DEF Partial, P
  <2>2. Val(n, f[n])
    BY <1>3, <2>1
  <2>3. g[n] \in V /\ Val(n, g[n])
    <3>1. \E v \in V : Val(n, v)
      BY <2>1, <2>2
    <3> HIDE DEF Val
    <3> QED BY <2>1, <3>1
  <2>a. PICK B \in SUBSET N : \E h \in [B -> V] : P(B, h) /\ n \in B /\ g[n] = h[n]
    BY <2>3
  <2>4. PICK h \in [B -> V] : P(B, h) /\ n \in B /\ g[n] = h[n]
    BY <2>a
  <2> QED BY <1>1, <1>3, <2>4 DEF P
<1>4. ASSUME NEW n \in N
      PROVE g[n] \in V /\ g[n] = IF up[n] = top THEN base[n] ELSE step[n][g[up[n]]]
  <2>a. PICK A \in SUBSET N : \E f \in [A -> V] : P(A, f) /\ n \in A
    BY <1>2
  <2>1. PICK f \in [A -> V] : P(A, f) /\ n \in A
    BY <2>a
  <2>2. \A m \in A : g[m] = f[m]
    BY <1>3, <2>1
  <2> HIDE DEF g
  <2>3. /\ up[n] = top \/ up[n] \in A
        /\ f[n] = IF up[n] = top THEN base[n] ELSE step[n][f[up[n]]]
    BY <2>1 DEF Partial
  <2> QED BY <2>1, <2>2, <2>3
<1>5. g \in [N -> V]
  <2>1. g = [n \in N |-> g[n]]
    OBVIOUS
  <2> HIDE DEF g
  <2> QED BY <1>4, <2>1
<1> HIDE DEF g
<1> QED BY <1>4, <1>5 DEF Follows

\* Recursion from 0 upwards, over all numbers or those up to a bound.
FromZero(N) == N \in SUBSET Nat /\ \A n \in N : n = 0 \/ n - 1 \in N

Counts(g, N, zero, step) == \A n \in N : g[n] = IF n = 0 THEN zero ELSE step[n][g[n - 1]]

LEMMA CountingUp ==
  ASSUME NEW N, FromZero(N), NEW V, NEW zero, zero \in V, NEW step, step \in [N -> [V -> V]]
  PROVE  \E g \in [N -> V] : Counts(g, N, zero, step)
<1>0. N \in SUBSET Nat /\ \A n \in N : n = 0 \/ n - 1 \in N
  BY DEF FromZero
<1> DEFINE up == [n \in N |-> n - 1]
           base == [n \in N |-> zero]
<1>1. Grounded(up, N, -1)
  <2>1. up \in [N -> N \cup {-1}] /\ -1 \notin N
    BY <1>0
  <2>2. ASSUME NEW S \in SUBSET N, S # {} PROVE \E n \in S : up[n] \notin S
    <3>1. PICK n \in S : \A j \in S : n <= j
      BY <1>0, <2>2, LeastOf
    <3>2. n \in Nat /\ n \in N
      BY <1>0
    <3> QED BY <3>1, <3>2
  <2> QED BY <2>1, <2>2 DEF Grounded
<1>2. base \in [N -> V]
  OBVIOUS
<1>3. \E g \in [N -> V] : Follows(g, N, up, -1, base, step)
  <2> HIDE DEF up, base
  <2> QED BY <1>1, <1>2, Recursion
<1>4. PICK g \in [N -> V] : Follows(g, N, up, -1, base, step)
  BY <1>3
<1>5. \A n \in N : g[n] = IF n = 0 THEN zero ELSE step[n][g[n - 1]]
  <2> TAKE n \in N
  <2>1. up[n] = n - 1 /\ n \in Nat /\ base[n] = zero
    BY <1>0
  <2>2. g[n] = IF up[n] = -1 THEN base[n] ELSE step[n][g[up[n]]]
    BY <1>4 DEF Follows
  <2> QED BY <2>1, <2>2
<1> QED BY <1>5 DEF Counts

\* Division with rest, ...
LEMMA DivMod ==
  ASSUME NEW a \in Int, NEW d \in Nat \ {0}
  PROVE  /\ a \div d \in Int /\ a % d \in Int /\ 0 <= a % d /\ a % d < d
         /\ a = d * (a \div d) + (a % d)
OBVIOUS

\* ... and that there is only one.
LEMMA DivUnique ==
  ASSUME NEW a \in Int, NEW d \in Nat \ {0}, NEW q \in Int, NEW r \in Int, 0 <= r, r < d, a = d * q + r
  PROVE  a \div d = q /\ a % d = r
<1> DEFINE p == a \div d
           s == a % d
<1>1. p \in Int /\ s \in Int /\ 0 <= s /\ s < d /\ a = d * p + s
  BY DivMod
<1> HIDE DEF p, s
<1>2. d * (p - q) = r - s
  BY <1>1
<1>3. p - q < 1
  <2>1. SUFFICES ASSUME p - q >= 1 PROVE FALSE
    BY <1>1
  <2>2. d * (p - q) >= d
    BY <1>1, <2>1
  <2> QED BY <1>1, <1>2, <2>2
<1>4. p - q > -1
  <2>1. SUFFICES ASSUME q - p >= 1 PROVE FALSE
    BY <1>1
  <2>2. d * (q - p) >= d
    BY <1>1, <2>1
  <2>3. d * (q - p) = s - r
    BY <1>1
  <2> QED BY <1>1, <2>3, <2>2
<1>5. p = q
  BY <1>1, <1>3, <1>4
<1> QED BY <1>1, <1>5 DEF p, s

\* Induction over the turns of a loop.
LEMMA Upwards ==
  ASSUME NEW n \in Nat, NEW S \in SUBSET (0..n), 0 \in S, \A k \in 1..n : k - 1 \in S => k \in S
  PROVE  \A k \in 0..n : k \in S
<1> SUFFICES ASSUME (0..n) \ S # {} PROVE FALSE
  OBVIOUS
<1>1. PICK k \in (0..n) \ S : \A j \in (0..n) \ S : k <= j
  <2>1. (0..n) \ S \in SUBSET Nat
    OBVIOUS
  <2> QED BY <2>1, LeastOf
<1>2. k \in 1..n /\ k - 1 \in 0..n /\ k - 1 < k
  BY <1>1
<1>3. k - 1 \in S
  BY <1>1, <1>2
<1> QED BY <1>1, <1>2, <1>3

-----------------------------------------------------------------------------
(* SignatureCache                                                            *)

(* Worked-off signatures lie below the slot the loop fills next: that slot's *)
(* displaced signature is none of them.                                      *)
WorkedOffBelow ==
    turn > 0 =>
      \A k \in DOMAIN cachedBuffer : k < turn =>
          /\ cachedBuffer[k] \in DOMAIN signIndexes
          /\ signIndexes[cachedBuffer[k]] < turn

\* The inductive invariant of the cache: IndexesAgree alone does not say that the
\* loop finds its displaced signature where nothing worked through can be.
CacheInv == CacheTypeOK /\ IndexesAgree /\ WorkedOffBelow

LEMMA InitCacheInv == CacheInit => CacheInv
<1> SUFFICES ASSUME CacheInit PROVE CacheInv
  OBVIOUS
<1>1. DOMAIN signIndexes = {} /\ DOMAIN cachedBuffer = {}
  BY DEF CacheInit
<1>2. cachedBuffer \in Seq(Signature)
  BY EmptySeq DEF CacheInit
<1> QED
  BY <1>1, <1>2, SizeAssumption
  DEF CacheInit, CacheInv, CacheTypeOK, IndexesAgree, WorkedOffBelow, Slot

(* One turn of the loop, v going into the slot i that held tmp once v was    *)
(* taken out of its old slot.                                                *)
LEMMA TurnStep == ASSUME CacheInv, Turn PROVE CacheInv'
<1> DEFINE i == turn
           v == cachedBuffer[turn]
           tmp == Popped(v)[turn]
<1> USE SizeAssumption, NoneAssumption
<1>1. i \in Slot /\ i \in DOMAIN cachedBuffer /\ v \in Signature
  BY DEF CacheInv, CacheTypeOK, Turn, More, Slot
<1>2. /\ \A j \in Slot : Popped(v)[j] = IF signatures[j] = v THEN None ELSE signatures[j]
      /\ Popped(v) \in [Slot -> Signature \cup {None}]
  BY <1>1 DEF CacheInv, CacheTypeOK, IndexesAgree, Popped
<1>3. tmp = IF signatures[i] = v THEN None ELSE signatures[i]
  BY <1>1, <1>2
<1>4. signatures' \in [Slot -> Signature \cup {None}]
  BY <1>1, <1>2 DEF Turn
<1>5. \A j \in Slot : signatures'[j] =
        IF j = i THEN v ELSE IF signatures[j] = v THEN None ELSE signatures[j]
  BY <1>1, <1>2 DEF Turn
<1>6. /\ DOMAIN signIndexes' = (DOMAIN signIndexes \cup {v}) \ {tmp}
      /\ \A s \in DOMAIN signIndexes' :
            signIndexes'[s] = IF s = v THEN i ELSE signIndexes[s]
  BY DEF Turn, Reindexed
<1>7. tmp # v
  BY <1>1, <1>3
<1>8. CacheTypeOK'
  <2>1. DOMAIN signIndexes' \subseteq Signature
    BY <1>1, <1>6 DEF CacheInv, CacheTypeOK
  <2>2. \A s \in DOMAIN signIndexes' : signIndexes'[s] \in Slot
    BY <1>1, <1>6 DEF CacheInv, CacheTypeOK
  <2>3. cachedBuffer' \in Seq(Signature)
    <3>1. CASE tmp = None
      BY <3>1 DEF Turn, CacheInv, CacheTypeOK
    <3>2. CASE tmp # None
      <4>1. tmp \in Signature
        BY <3>2, <1>1, <1>2
      <4> QED BY <3>2, <4>1, AppendProperties DEF Turn, CacheInv, CacheTypeOK
    <3> QED BY <3>1, <3>2
  <2>4. turn' \in 0..(Size + 1)
    BY DEF Turn, More, CacheInv, CacheTypeOK
  <2> QED BY <1>4, <2>1, <2>2, <2>3, <2>4 DEF CacheTypeOK
<1>9. IndexesAgree'
  <2>1. ASSUME NEW s \in DOMAIN signIndexes' PROVE signatures'[signIndexes'[s]] = s
    <3>1. CASE s = v
      BY <3>1, <1>1, <1>5, <1>6
    <3>2. CASE s # v
      <4>1. s \in DOMAIN signIndexes /\ s # tmp /\ signIndexes'[s] = signIndexes[s]
        BY <3>2, <1>6
      <4>2. signIndexes[s] \in Slot /\ signatures[signIndexes[s]] = s
        BY <4>1 DEF CacheInv, CacheTypeOK, IndexesAgree
      <4>3. signIndexes[s] # i
        BY <3>2, <4>1, <4>2, <1>3
      <4> QED BY <3>2, <4>1, <4>2, <4>3, <1>5
    <3> QED BY <3>1, <3>2
  <2>2. ASSUME NEW j \in Slot, signatures'[j] # None
        PROVE  signatures'[j] \in DOMAIN signIndexes' /\ signIndexes'[signatures'[j]] = j
    <3>1. CASE j = i
      BY <3>1, <1>1, <1>5, <1>6, <1>7
    <3>2. CASE j # i
      <4>1. signatures'[j] = signatures[j] /\ signatures[j] # v
        BY <3>2, <2>2, <1>5
      <4>2. signatures[j] \in DOMAIN signIndexes /\ signIndexes[signatures[j]] = j
        BY <4>1, <2>2 DEF CacheInv, IndexesAgree
      <4>3. signatures[j] # tmp
        <5> SUFFICES ASSUME signatures[j] = tmp PROVE FALSE
          OBVIOUS
        <5>1. signatures[i] = signatures[j]
          BY <2>2, <4>1, <1>3
        <5>2. signIndexes[signatures[i]] = i
          BY <5>1, <2>2, <4>1, <1>1 DEF CacheInv, IndexesAgree
        <5> QED BY <3>2, <4>2, <5>1, <5>2
      <4> QED BY <4>1, <4>2, <4>3, <1>6
    <3> QED BY <3>1, <3>2
  <2> QED BY <2>1, <2>2 DEF IndexesAgree
<1>10. WorkedOffBelow'
  <2> SUFFICES ASSUME NEW k \in DOMAIN cachedBuffer', k < turn'
               PROVE  /\ cachedBuffer'[k] \in DOMAIN signIndexes'
                      /\ signIndexes'[cachedBuffer'[k]] < turn'
    BY DEF WorkedOffBelow
  <2>1. turn' = i + 1 /\ i \in Nat /\ i > 0
    BY DEF Turn, More, CacheInv, CacheTypeOK
  <2>2. k \in DOMAIN cachedBuffer /\ cachedBuffer'[k] = cachedBuffer[k] /\ k <= i
    <3>1. CASE tmp = None
      BY <3>1, <2>1 DEF Turn, CacheInv, CacheTypeOK
    <3>2. CASE tmp # None
      <4>1. tmp \in Signature /\ cachedBuffer' = Append(cachedBuffer, tmp)
        BY <3>2, <1>1, <1>2 DEF Turn
      <4> QED BY <4>1, <2>1, <1>1, AppendProperties DEF CacheInv, CacheTypeOK
    <3> QED BY <3>1, <3>2
  <2>3. CASE cachedBuffer[k] = v
    BY <2>3, <2>1, <2>2, <1>6, <1>7
  <2>4. CASE cachedBuffer[k] # v
    <3>1. k < i
      BY <2>4, <2>1, <2>2 DEF CacheInv, CacheTypeOK
    <3>2. cachedBuffer[k] \in DOMAIN signIndexes /\ signIndexes[cachedBuffer[k]] < i
      BY <3>1, <2>1, <2>2 DEF CacheInv, WorkedOffBelow
    <3>3. cachedBuffer[k] # tmp
      <4> SUFFICES ASSUME cachedBuffer[k] = tmp PROVE FALSE
        OBVIOUS
      <4>1. tmp # None
        BY <3>2 DEF CacheInv, CacheTypeOK
      <4>2. signatures[i] = tmp
        BY <4>1, <1>3
      <4>3. signIndexes[tmp] = i
        BY <4>1, <4>2, <1>1 DEF CacheInv, IndexesAgree
      <4> QED BY <3>2, <4>3, <2>1
    <3>4. signIndexes[cachedBuffer[k]] \in Slot
      BY <3>2 DEF CacheInv, CacheTypeOK
    <3> QED BY <2>1, <2>2, <2>4, <3>2, <3>3, <3>4, <1>6 DEF Slot
  <2> QED BY <2>3, <2>4
<1> QED BY <1>8, <1>9, <1>10 DEF CacheInv

\* Only Turn changes what the invariant speaks of between two calls.
LEMMA NextCacheInv == CacheInv /\ [CacheNext]_cacheVars => CacheInv'
<1> SUFFICES ASSUME CacheInv, [CacheNext]_cacheVars PROVE CacheInv'
  OBVIOUS
<1> USE SizeAssumption
<1>1. ASSUME NEW self \in {<<>>} \cup {<<s>> : s \in Signature}, NEW lastSeen \in Messages,
             PopOrInsert(self, lastSeen)
      PROVE  CacheInv'
  <2>1. self \in Seq(Signature)
    <3>1. CASE self = <<>>
      BY <3>1, EmptySeq
    <3>2. CASE \E s \in Signature : self = <<s>>
      BY <3>2
    <3> QED BY <3>1, <3>2
  <2>2. lastSeen \in Seq(Signature)
    <3>1. PICK n \in 0..MaxSeen : lastSeen \in [1..n -> Signature]
      BY DEF Messages
    <3> QED BY <3>1, MaxSeenAssumption
  <2>3. cachedBuffer' \in Seq(Signature) /\ DOMAIN cachedBuffer' \subseteq Nat \ {0}
    <3>1. cachedBuffer' \in Seq(Signature)
      BY <1>1, <2>1, <2>2, ConcatProperties DEF PopOrInsert
    <3> QED BY <3>1, LenProperties
  <2> QED
    BY <1>1, <2>3
    DEF PopOrInsert, CacheInv, CacheTypeOK, IndexesAgree, WorkedOffBelow, Slot
<1>2. CASE Turn
  BY <1>2, TurnStep
<1>3. CASE Return
  <2>1. cachedBuffer' \in Seq(Signature)
    BY <1>3, EmptySeq DEF Return
  <2> QED
    BY <1>3, <2>1 DEF Return, CacheInv, CacheTypeOK, IndexesAgree, WorkedOffBelow, Slot
<1>4. CASE UNCHANGED cacheVars
  BY <1>4 DEF cacheVars, CacheInv, CacheTypeOK, IndexesAgree, WorkedOffBelow
<1> QED BY <1>1, <1>2, <1>3, <1>4 DEF CacheNext

LEMMA CacheInvariant == CacheSpec => []CacheInv
BY InitCacheInv, NextCacheInv, PTL DEF CacheSpec

(* At every turn of the loop a signature is in the array exactly where its   *)
(* index says (cache.go:28-37).                                              *)
THEOREM CacheIndexesAgree == CacheSpec => []IndexesAgree
<1>1. CacheInv => IndexesAgree
  BY DEF CacheInv
<1> QED BY <1>1, CacheInvariant, PTL

(* What the loop has worked through stays cached to the end of the call,     *)
(* although later turns displace and re-insert (cache.go:24-38).             *)
THEOREM CacheWorkedOffStay == CacheSpec => []WorkedOffStay
<1>1. CacheInv => WorkedOffStay
  BY DEF CacheInv, WorkedOffBelow, WorkedOffStay
<1> QED BY <1>1, CacheInvariant, PTL

-----------------------------------------------------------------------------
(* BVH                                                                       *)

\* A pointer to a node, nil among them.
Pointer == Node \cup {Nil}

BoxType == [lo : [1..3 -> Int], hi : [1..3 -> Int]]

NodeType == [box : BoxType, parent : Pointer, kids : [1..2 -> Pointer]]

\* t is a heap of nodes.
TreeType(t) == DOMAIN t \subseteq Node /\ t \in [DOMAIN t -> NodeType]

\* A pair as the function it is.
LEMMA Pair ==
  ASSUME NEW P, NEW a \in P, NEW b \in P
  PROVE  /\ <<a, b>> \in [1..2 -> P]
         /\ <<a, b>>[1] = a /\ <<a, b>>[2] = b
<1>1. 1..2 = {1, 2}
  OBVIOUS
<1>2. DOMAIN <<a, b>> = 1..2
  OBVIOUS
<1>3. <<a, b>> = [k \in 1..2 |-> <<a, b>>[k]]
  BY <1>2
<1>4. <<a, b>>[1] = a /\ <<a, b>>[2] = b
  OBVIOUS
<1> QED BY <1>1, <1>2, <1>3, <1>4

LEMMA JoinedType ==
  ASSUME NEW a \in BoxType, NEW b \in BoxType
  PROVE  Joined(a, b) \in BoxType
BY DEF BoxType, Joined, Lower, Upper

\* The box a holds the box b.
Holds(a, b) == \A k \in 1..3 : a.lo[k] <= b.lo[k] /\ b.hi[k] <= a.hi[k]

\* Joined holds both boxes and is the least that does.
LEMMA JoinedHolds ==
  ASSUME NEW a \in BoxType, NEW b \in BoxType
  PROVE  /\ Holds(Joined(a, b), a) /\ Holds(Joined(a, b), b)
         /\ Holds(a, b) <=> Joined(a, b) = a
         /\ \A c \in BoxType : Holds(c, a) /\ Holds(c, b) => Holds(c, Joined(a, b))
         /\ \A c \in BoxType : Holds(c, a) /\ Holds(a, b) => Holds(c, b)
<1>1. /\ \A k \in 1..3 : a.lo[k] \in Int /\ a.hi[k] \in Int /\ b.lo[k] \in Int /\ b.hi[k] \in Int
      /\ a.lo \in [1..3 -> Int] /\ a.hi \in [1..3 -> Int] /\ a = [lo |-> a.lo, hi |-> a.hi]
  BY DEF BoxType
<1>2. /\ \A k \in 1..3 : Joined(a, b).lo[k] = Lower(a.lo[k], b.lo[k]) 
      /\ \A k \in 1..3 : Joined(a, b).hi[k] = Upper(a.hi[k], b.hi[k])
  BY DEF Joined
<1>3. Holds(Joined(a, b), a) /\ Holds(Joined(a, b), b)
  BY <1>1, <1>2 DEF Holds, Lower, Upper
<1>4. \A c \in BoxType : Holds(c, a) /\ Holds(c, b) => Holds(c, Joined(a, b))
  BY <1>2 DEF Holds, Lower, Upper
<1>5. \A c \in BoxType : Holds(c, a) /\ Holds(a, b) => Holds(c, b)
  <2> SUFFICES ASSUME NEW c \in BoxType, Holds(c, a), Holds(a, b), NEW k \in 1..3
      PROVE c.lo[k] <= b.lo[k] /\ b.hi[k] <= c.hi[k]
    BY DEF Holds
  <2>1. c.lo[k] \in Int /\ c.hi[k] \in Int
    BY DEF BoxType
  <2>2. c.lo[k] <= a.lo[k] /\ a.lo[k] <= b.lo[k] /\ b.hi[k] <= a.hi[k] /\ a.hi[k] <= c.hi[k]
    BY DEF Holds
  <2> QED BY <1>1, <2>1, <2>2
<1>6. ASSUME Holds(a, b) PROVE Joined(a, b) = a
  <2>1. \A k \in 1..3 : Lower(a.lo[k], b.lo[k]) = a.lo[k] /\ Upper(a.hi[k], b.hi[k]) = a.hi[k]
    BY <1>1, <1>6 DEF Holds, Lower, Upper
  <2>2. [k \in 1..3 |-> Lower(a.lo[k], b.lo[k])] = a.lo /\ [k \in 1..3 |-> Upper(a.hi[k], b.hi[k])] = a.hi
    BY <1>1, <2>1
  <2> QED BY <1>1, <2>2 DEF Joined
<1> QED BY <1>3, <1>4, <1>5, <1>6

\* The box of n holds its children's.
Covers(t, n) ==
    t[n].kids[1] # Nil => \A k \in 1..2 : Holds(t[n].box, t[t[n].kids[k]].box)

\* u has the leaves of t, with their boxes.
SameLeaves(u, t, D) ==
    \A m \in D : /\ u[m].kids[1] = Nil <=> t[m].kids[1] = Nil
                 /\ t[m].kids[1] = Nil => u[m].box = t[m].box

\* The nodes D of t are one tree with root r: parents and children know each
\* other, ...
Linked(t, r, D) ==
    \A n \in D :
      /\ IF n = r THEN t[n].parent = Nil
         ELSE t[n].parent \in D /\ n \in {t[t[n].parent].kids[1], t[t[n].parent].kids[2]}
      /\ IF t[n].kids[1] = Nil THEN t[n].kids[2] = Nil
         ELSE /\ t[n].kids[1] # t[n].kids[2]
              /\ t[n].kids[1] \in D /\ t[t[n].kids[1]].parent = n
              /\ t[n].kids[2] \in D /\ t[t[n].kids[2]].parent = n

\* ... and whoever follows the parents from any node comes to the root.
Rooted(t, r, D) ==
    \A S \in SUBSET D :
      S # {} /\ (\A n \in S : n = r \/ t[n].parent \in S) => r \in S

\* The two children of n: out is to leave, stay stays.
AreKids(t, n, out, stay) ==
    \/ out = t[n].kids[1] /\ stay = t[n].kids[2]
    \/ out = t[n].kids[2] /\ stay = t[n].kids[1]

\* Nobody is its own parent or grandparent.
LEMMA NoLoop ==
  ASSUME NEW t, NEW r, NEW D, Nil \notin D, Linked(t, r, D), Rooted(t, r, D), NEW n \in D
  PROVE  t[n].parent # n /\ (n # r => t[t[n].parent].parent # n)
<1>1. ASSUME t[n].parent = n PROVE FALSE
  <2>1. \A m \in {n} : m = r \/ t[m].parent \in {n}
    BY <1>1
  <2> QED BY <1>1, <2>1 DEF Rooted, Linked
<1>2. ASSUME n # r, t[t[n].parent].parent = n PROVE FALSE
  <2> DEFINE p == t[n].parent
  <2>1. p \in D
    BY <1>2 DEF Linked
  <2>2. \A m \in {n, p} : m = r \/ t[m].parent \in {n, p}
    BY <1>2
  <2>3. p = r
    BY <1>2, <2>1, <2>2 DEF Rooted
  <2> QED BY <1>2, <2>1, <2>3 DEF Linked
<1> QED BY <1>1, <1>2

\* What a change of the nodes D of t to u leaves as it was; the boxes but
\* those of X hold their children's.
Keeps(u, t, r, D, p) ==
    /\ TreeType(u) /\ DOMAIN u = DOMAIN t
    /\ Linked(u, r, D) /\ Rooted(u, r, D)
    /\ SameLeaves(u, t, D)
    /\ \A X \in SUBSET {p} :
          (\A m \in D \ X : Covers(t, m)) => \A m \in D \ X : Covers(u, m)

\* A child of n changes places with the sibling of n, as the rotations do:
\* the tree stays a tree.
LEMMA SwappedLinked ==
  ASSUME NEW t, TreeType(t), NEW r, NEW D \in SUBSET DOMAIN t, Linked(t, r, D),
         NEW n \in D, n # r, NEW out \in D, NEW stay \in D,
         Rooted(t, r, D), AreKids(t, n, out, stay)
  PROVE  Keeps(Swapped(t, n, out, stay), t, r, D, t[n].parent)
<1> DEFINE p == t[n].parent
           s == Other(t, p, n)
           u == Swapped(t, n, out, stay)
<1>0. Nil \notin D
  BY NilAssumption DEF TreeType, Node
<1>1. p \in D /\ n \in {t[p].kids[1], t[p].kids[2]}
  BY DEF Linked
<1>2. t[p].kids[1] # Nil
  BY <1>0, <1>1 DEF Linked
<1>3. /\ t[p].kids[1] # t[p].kids[2]
      /\ t[p].kids[1] \in D /\ t[t[p].kids[1]].parent = p
      /\ t[p].kids[2] \in D /\ t[t[p].kids[2]].parent = p
  BY <1>1, <1>2 DEF Linked
<1>4. /\ s \in D /\ s \in {t[p].kids[1], t[p].kids[2]} /\ s # n /\ t[s].parent = p
  BY <1>1, <1>3 DEF Other
<1>5. t[out].parent = n /\ t[stay].parent = n /\ out # stay
  BY <1>0 DEF Linked, AreKids
<1>6. p # n /\ s # out /\ s # stay /\ p # s /\ p # out /\ p # stay
  BY <1>0, <1>1, <1>4, <1>5, NoLoop
<1>7. t \in [DOMAIN t -> NodeType] /\ {p, s, n, out, stay} \subseteq DOMAIN t
  BY <1>1, <1>4 DEF TreeType
<1>8. u = [t EXCEPT ![p].kids = <<n, out>>, ![out].parent = p, ![s].parent = n,
                    ![n].kids = <<s, stay>>, ![n].box = Joined(t[s].box, t[stay].box)]
  BY DEF Swapped
<1>9. DOMAIN u = DOMAIN t
  BY <1>8
<1>10. ASSUME NEW m \in DOMAIN t
       PROVE  /\ u[m].parent = IF m = out THEN p ELSE IF m = s THEN n ELSE t[m].parent
              /\ u[m].kids = IF m = p THEN <<n, out>> ELSE IF m = n THEN <<s, stay>> ELSE t[m].kids
              /\ u[m].box = IF m = n THEN Joined(t[s].box, t[stay].box) ELSE t[m].box
              /\ u[m] = [box |-> u[m].box, parent |-> u[m].parent, kids |-> u[m].kids]
  <2> HIDE DEF p, s, u
  <2>1. t[m] \in NodeType
    BY <1>7
  <2>2. CASE m \notin {p, out, s, n}
    BY <1>7, <1>8, <2>1, <2>2 DEF NodeType
  <2>3. CASE m = p
    BY <1>6, <1>5, <1>7, <1>8, <2>1, <2>3 DEF NodeType
  <2>4. CASE m = out
    BY <1>6, <1>5, <1>7, <1>8, <2>1, <2>4 DEF NodeType
  <2>5. CASE m = s
    BY <1>6, <1>5, <1>7, <1>8, <2>1, <2>5 DEF NodeType
  <2>6. CASE m = n
    BY <1>6, <1>5, <1>7, <1>8, <2>1, <2>6 DEF NodeType
  <2> QED BY <2>2, <2>3, <2>4, <2>5, <2>6
<1>11. /\ \A m \in D : u[m].parent = IF m = out THEN p ELSE IF m = s THEN n ELSE t[m].parent
       /\ \A m \in D : u[m].kids[1] = IF m = p THEN n ELSE IF m = n THEN s ELSE t[m].kids[1]
       /\ \A m \in D : u[m].kids[2] = IF m = p THEN out ELSE IF m = n THEN stay ELSE t[m].kids[2]
  <2> HIDE DEF p, s, u
  <2> SUFFICES ASSUME NEW m \in D
      PROVE  /\ u[m].parent = IF m = out THEN p ELSE IF m = s THEN n ELSE t[m].parent
             /\ u[m].kids[1] = IF m = p THEN n ELSE IF m = n THEN s ELSE t[m].kids[1]
             /\ u[m].kids[2] = IF m = p THEN out ELSE IF m = n THEN stay ELSE t[m].kids[2]
    OBVIOUS
  <2>1. m \in DOMAIN t
    OBVIOUS
  <2>2. /\ <<n, out>>[1] = n /\ <<n, out>>[2] = out
        /\ <<s, stay>>[1] = s /\ <<s, stay>>[2] = stay
    OBVIOUS
  <2>3. CASE m = p
    BY <1>10, <2>1, <2>2, <2>3, <1>6
  <2>4. CASE m = n
    BY <1>10, <2>1, <2>2, <2>4, <1>6
  <2>5. CASE m # p /\ m # n
    BY <1>10, <2>1, <2>2, <2>5
  <2> QED BY <2>3, <2>4, <2>5
<1>12. TreeType(u)
  <2> HIDE DEF p, s, u
  <2>0. n \in Pointer /\ s \in Pointer /\ p \in Pointer /\ out \in Pointer /\ stay \in Pointer
    BY <1>7 DEF TreeType, Pointer
  <2>1. <<n, out>> \in [1..2 -> Pointer] /\ <<s, stay>> \in [1..2 -> Pointer]
    BY <2>0, Pair
  <2>2. ASSUME NEW m \in DOMAIN t PROVE u[m] \in NodeType
    <3>1. t[m] \in NodeType /\ t[s] \in NodeType /\ t[stay] \in NodeType
      BY <1>7
    <3>2. Joined(t[s].box, t[stay].box) \in BoxType
      BY <3>1, JoinedType DEF NodeType
    <3>3. u[m].parent \in Pointer
      BY <1>10, <3>1, <2>0 DEF NodeType
    <3>4. u[m].kids \in [1..2 -> Pointer]
      BY <1>10, <3>1, <2>1 DEF NodeType
    <3>5. u[m].box \in BoxType
      BY <1>10, <3>1, <3>2 DEF NodeType
    <3>6. [box |-> u[m].box, parent |-> u[m].parent, kids |-> u[m].kids] \in NodeType
      BY <3>3, <3>4, <3>5 DEF NodeType
    <3> QED BY <1>10, <3>6
  <2>3. u = [m \in DOMAIN t |-> u[m]]
    BY <1>8, <1>9, <1>7
  <2> QED BY <1>9, <2>2, <2>3 DEF TreeType
<1>13. Linked(u, r, D)
  <2> HIDE DEF p, s, u
  <2> SUFFICES ASSUME NEW m \in D
      PROVE /\ IF m = r THEN u[m].parent = Nil
               ELSE u[m].parent \in D /\ m \in {u[u[m].parent].kids[1], u[u[m].parent].kids[2]}
            /\ IF u[m].kids[1] = Nil THEN u[m].kids[2] = Nil
               ELSE /\ u[m].kids[1] # u[m].kids[2]
                    /\ u[m].kids[1] \in D /\ u[u[m].kids[1]].parent = m
                    /\ u[m].kids[2] \in D /\ u[u[m].kids[2]].parent = m
    BY DEF Linked
  <2> USE <1>0, <1>1, <1>2, <1>3, <1>4, <1>5, <1>6, <1>11 DEF AreKids
  <2>0. /\ IF m = r THEN t[m].parent = Nil
           ELSE t[m].parent \in D /\ m \in {t[t[m].parent].kids[1], t[t[m].parent].kids[2]}
        /\ IF t[m].kids[1] = Nil THEN t[m].kids[2] = Nil
           ELSE /\ t[m].kids[1] # t[m].kids[2]
                /\ t[m].kids[1] \in D /\ t[t[m].kids[1]].parent = m
                /\ t[m].kids[2] \in D /\ t[t[m].kids[2]].parent = m
    BY DEF Linked
  <2>00. IF p = r THEN t[p].parent = Nil
         ELSE t[p].parent \in D /\ p \in {t[t[p].parent].kids[1], t[t[p].parent].kids[2]}
    BY DEF Linked
  <2>1. out # r /\ stay # r /\ s # r
    BY DEF Linked
  <2>2. CASE m = out
    BY <2>0, <2>1, <2>2
  <2>3. CASE m = s
    BY <2>0, <2>1, <2>3
  <2>4. CASE m = n
    BY <2>0, <2>1, <2>4
  <2>5. CASE m = p
    BY <2>0, <2>1, <2>5
  <2>6. CASE m \notin {out, s, n, p}
    BY <2>0, <2>1, <2>6
  <2> QED BY <2>2, <2>3, <2>4, <2>5, <2>6
<1>14. Rooted(u, r, D)
  <2> HIDE DEF p, s, u
  <2> SUFFICES ASSUME NEW S \in SUBSET D, S # {}, \A m \in S : m = r \/ u[m].parent \in S
      PROVE  r \in S
    BY DEF Rooted
  <2> DEFINE S2 == IF p \in S THEN S \cup {n} ELSE S
  <2>1. ASSUME NEW m \in S2, m # r PROVE t[m].parent \in S2
    <3>1. t[n].parent = p
      BY DEF p
    <3>2. CASE m = n
      BY <1>4, <1>5, <1>6, <1>11, <2>1, <3>1, <3>2
    <3>3. CASE m = out
      BY <1>5, <1>6, <1>11, <2>1, <3>3
    <3>4. CASE m = s
      <4>1. n # out
        BY <1>5, <1>6, <3>1
      <4>2. u[s].parent = n /\ u[n].parent = p
        BY <1>4, <1>6, <1>11, <3>1, <4>1
      <4>3. s \in S
        BY <1>4, <2>1, <3>4
      <4>4. n \in S /\ p \in S
        BY <2>1, <3>4, <4>2, <4>3
      <4> QED BY <1>4, <3>4, <4>4
    <3>5. CASE m \notin {n, out, s}
      BY <1>11, <2>1, <3>5
    <3> QED BY <3>2, <3>3, <3>4, <3>5
  <2>2. r \in S2
    BY <2>1 DEF Rooted
  <2> QED BY <2>2
<1>15. SameLeaves(u, t, D)
  <2> HIDE DEF p, s, u
  <2> SUFFICES ASSUME NEW m \in D
      PROVE (u[m].kids[1] = Nil <=> t[m].kids[1] = Nil) /\ (t[m].kids[1] = Nil => u[m].box = t[m].box)
    BY DEF SameLeaves
  <2>1. t[n].kids[1] # Nil
    BY <1>0 DEF AreKids, Linked
  <2>2. u[m].kids[1] = IF m = p THEN n ELSE IF m = n THEN s ELSE t[m].kids[1]
    BY <1>11
  <2>3. m # n => u[m].box = t[m].box
    BY <1>10
  <2> QED BY <1>0, <1>2, <1>4, <2>1, <2>2, <2>3
<1>16. ASSUME NEW X \in SUBSET {p}, \A m \in D \ X : Covers(t, m), NEW m \in D \ X
       PROVE  Covers(u, m)
  <2> HIDE DEF p, s, u
  <2> USE <1>0, <1>1, <1>2, <1>3, <1>4, <1>5, <1>6, <1>11 DEF AreKids
  <2>1. \A x \in D : t[x] \in NodeType /\ t[x].box \in BoxType
    BY <1>7 DEF NodeType
  <2>2. /\ \A x \in D : x # n => u[x].box = t[x].box
        /\ u[n].box = Joined(t[s].box, t[stay].box)
    BY <1>10
  <2>3. SUFFICES ASSUME u[m].kids[1] # Nil
        PROVE Holds(u[m].box, u[u[m].kids[1]].box) /\ Holds(u[m].box, u[u[m].kids[2]].box)
    BY DEF Covers
  <2>4. CASE m = n
    BY <2>1, <2>2, <2>4, JoinedHolds
  <2>5. CASE m = p
    <3>1. Covers(t, p) /\ Covers(t, n)
      BY <1>16, <2>5
    <3>2. t[n].kids[1] # Nil
      BY DEF Linked
    <3>3. /\ Holds(t[p].box, t[n].box) /\ Holds(t[p].box, t[s].box)
          /\ Holds(t[n].box, t[out].box) /\ Holds(t[n].box, t[stay].box)
      BY <3>1, <3>2 DEF Covers
    <3>4. Holds(t[p].box, t[out].box) /\ Holds(t[p].box, t[stay].box)
      BY <2>1, <3>3, JoinedHolds
    <3>5. Holds(t[p].box, Joined(t[s].box, t[stay].box))
      BY <2>1, <3>3, <3>4, JoinedHolds
    <3> QED BY <2>2, <2>5, <3>4, <3>5
  <2>6. CASE m # n /\ m # p
    <3>1. Covers(t, m)
      BY <1>16
    <3>2. u[m].kids[1] = t[m].kids[1] /\ u[m].kids[2] = t[m].kids[2]
      BY <2>6
    <3>3. /\ t[m].kids[1] \in D /\ t[t[m].kids[1]].parent = m
          /\ t[m].kids[2] \in D /\ t[t[m].kids[2]].parent = m
      BY <2>3, <3>2 DEF Linked
    <3>4. t[m].kids[1] # n /\ t[m].kids[2] # n
      BY <2>6, <3>3 DEF p
    <3>5. Holds(t[m].box, t[t[m].kids[1]].box) /\ Holds(t[m].box, t[t[m].kids[2]].box)
      BY <2>3, <3>1, <3>2 DEF Covers
    <3> QED BY <2>2, <2>6, <3>2, <3>3, <3>4, <3>5
  <2> QED BY <2>4, <2>5, <2>6
<1> QED BY <1>9, <1>12, <1>13, <1>14, <1>15, <1>16 DEF Keeps

\* v is t with the box of n refitted.
Fitted(v, t, n) == v = [t EXCEPT ![n].box = Joined(t[t[n].kids[1]].box, t[t[n].kids[2]].box)]

\* One turn of refitting, with the rotation it may do.
LEMMA RefitTurn ==
  ASSUME NEW t, TreeType(t), NEW r, NEW D \in SUBSET DOMAIN t, Linked(t, r, D), Rooted(t, r, D),
         NEW n \in D, t[n].kids[1] # Nil,
         NEW v, Fitted(v, t, n)
  PROVE  /\ TreeType(Rotated(v, n)) /\ DOMAIN Rotated(v, n) = DOMAIN t
         /\ Linked(Rotated(v, n), r, D) /\ Rooted(Rotated(v, n), r, D)
         /\ SameLeaves(Rotated(v, n), t, D)
         /\ (\A m \in D : Covers(t, m)) => \A m \in D : Covers(Rotated(v, n), m)
         /\ (\A m \in D \ {n, t[n].parent} : Covers(t, m))
               => \A m \in D \ {t[n].parent} : Covers(Rotated(v, n), m)
<1> DEFINE p == t[n].parent
           k1 == t[n].kids[1]
           k2 == t[n].kids[2]
<1> v = [t EXCEPT ![n].box = Joined(t[k1].box, t[k2].box)]
  BY DEF Fitted
<1>0. Nil \notin D
  BY NilAssumption DEF TreeType, Node
<1>1. k1 \in D /\ k2 \in D /\ t[k1].parent = n /\ t[k2].parent = n
  BY DEF Linked
<1>2. p # n /\ k1 # n /\ k2 # n
  BY <1>0, <1>1, NoLoop
<1>3. \A m \in DOMAIN t : t[m] \in NodeType /\ t[m].box \in BoxType
  BY DEF TreeType, NodeType
<1>4. Joined(t[k1].box, t[k2].box) \in BoxType
  BY <1>1, <1>3, JoinedType
<1>5. DOMAIN v = DOMAIN t
  OBVIOUS
<1>6. \A m \in DOMAIN t : m # n => v[m] = t[m]
  BY DEF TreeType
<1>7. /\ v[n] \in NodeType /\ v[n].parent = p /\ v[n].kids = t[n].kids
      /\ v[n].box = Joined(t[k1].box, t[k2].box)
  <2>1. v[n] = [t[n] EXCEPT !.box = Joined(t[k1].box, t[k2].box)]
    BY DEF TreeType
  <2> QED BY <1>3, <1>4, <2>1 DEF NodeType
<1>8. TreeType(v)
  <2>1. v \in [DOMAIN t -> NodeType]
    <3> HIDE DEF k1, k2
    <3>1. v = [m \in DOMAIN t |-> v[m]]
      BY DEF TreeType, k1, k2
    <3>2. \A m \in DOMAIN t : v[m] \in NodeType
      BY <1>3, <1>6, <1>7
    <3> QED BY <3>1, <3>2
  <2> QED BY <1>5, <2>1 DEF TreeType
<1>9. \A m \in D : v[m].parent = t[m].parent /\ v[m].kids = t[m].kids
  BY <1>6, <1>7
<1>10. Linked(v, r, D)
  <2> HIDE DEF k1, k2, p
  <2> SUFFICES ASSUME NEW m \in D
      PROVE /\ IF m = r THEN v[m].parent = Nil
               ELSE v[m].parent \in D /\ m \in {v[v[m].parent].kids[1], v[v[m].parent].kids[2]}
            /\ IF v[m].kids[1] = Nil THEN v[m].kids[2] = Nil
               ELSE /\ v[m].kids[1] # v[m].kids[2]
                    /\ v[m].kids[1] \in D /\ v[v[m].kids[1]].parent = m
                    /\ v[m].kids[2] \in D /\ v[v[m].kids[2]].parent = m
    BY DEF Linked
  <2>0. /\ IF m = r THEN t[m].parent = Nil
           ELSE t[m].parent \in D /\ m \in {t[t[m].parent].kids[1], t[t[m].parent].kids[2]}
        /\ IF t[m].kids[1] = Nil THEN t[m].kids[2] = Nil
           ELSE /\ t[m].kids[1] # t[m].kids[2]
                /\ t[m].kids[1] \in D /\ t[t[m].kids[1]].parent = m
                /\ t[m].kids[2] \in D /\ t[t[m].kids[2]].parent = m
    BY DEF Linked
  <2> QED BY <1>9, <2>0
<1>11. Rooted(v, r, D)
  BY <1>9 DEF Rooted
<1>12. SameLeaves(v, t, D)
  BY <1>6, <1>7 DEF SameLeaves
<1>13. Covers(v, n)
  BY <1>1, <1>2, <1>3, <1>6, <1>7, JoinedHolds DEF Covers
<1>14. ASSUME NEW m \in D, m # n, m # p, Covers(t, m) PROVE Covers(v, m)
  <2> SUFFICES ASSUME v[m].kids[1] # Nil
      PROVE Holds(v[m].box, v[v[m].kids[1]].box) /\ Holds(v[m].box, v[v[m].kids[2]].box)
    BY DEF Covers
  <2>1. v[m] = t[m]
    BY <1>6, <1>14
  <2>2. /\ t[m].kids[1] \in D /\ t[t[m].kids[1]].parent = m
        /\ t[m].kids[2] \in D /\ t[t[m].kids[2]].parent = m
    BY <2>1 DEF Linked
  <2>3. t[m].kids[1] # n /\ t[m].kids[2] # n
    BY <1>14, <2>2
  <2>4. Holds(t[m].box, t[t[m].kids[1]].box) /\ Holds(t[m].box, t[t[m].kids[2]].box)
    BY <1>14, <2>1 DEF Covers
  <2> HIDE DEF p, k1, k2
  <2> QED BY <1>6, <2>1, <2>2, <2>3, <2>4
<1>15. ASSUME \A m \in D : Covers(t, m), p \in D PROVE Covers(v, p)
  <2> HIDE DEF k1, k2
  <2>1. v[p] = t[p]
    BY <1>2, <1>6, <1>15
  <2> HIDE DEF p
  <2> SUFFICES ASSUME v[p].kids[1] # Nil
      PROVE Holds(v[p].box, v[v[p].kids[1]].box) /\ Holds(v[p].box, v[v[p].kids[2]].box)
    BY DEF Covers
  <2>2. t[p].kids[1] \in D /\ t[p].kids[2] \in D
    BY <1>15, <2>1 DEF Linked
  <2>3. Holds(t[p].box, t[t[p].kids[1]].box) /\ Holds(t[p].box, t[t[p].kids[2]].box)
    BY <1>15, <2>1 DEF Covers
  <2>4. n \in {t[p].kids[1], t[p].kids[2]}
    BY <1>0, <1>15 DEF Linked, p
  <2>5. Holds(t[n].box, t[k1].box) /\ Holds(t[n].box, t[k2].box)
    BY <1>15 DEF Covers, k1, k2
  <2>6. Holds(t[p].box, t[n].box)
    BY <2>3, <2>4
  <2>7. Holds(t[p].box, t[k1].box) /\ Holds(t[p].box, t[k2].box)
    BY <1>1, <1>3, <1>15, <2>5, <2>6, JoinedHolds
  <2>8. Holds(t[p].box, v[n].box)
    BY <1>1, <1>3, <1>7, <1>15, <2>7, JoinedHolds
  <2> QED BY <1>6, <2>1, <2>2, <2>3, <2>8
<1>16. CASE p = Nil
  <2>1. Rotated(v, n) = v
    BY <1>7, <1>16 DEF Rotated
  <2>2. \A m \in D : m # p
    BY <1>0, <1>16
  <2> HIDE DEF p
  <2>3. (\A m \in D : Covers(t, m)) => \A m \in D : Covers(v, m)
    BY <1>13, <1>14, <2>2
  <2>4. (\A m \in D \ {n, p} : Covers(t, m)) => \A m \in D \ {p} : Covers(v, m)
    BY <1>13, <1>14
  <2> QED BY <1>5, <1>8, <1>10, <1>11, <1>12, <2>1, <2>3, <2>4 DEF p
<1>17. CASE p # Nil
  <2>1. n # r /\ p \in D
    BY <1>17 DEF Linked
  <2>2. \/ Rotated(v, n) = v
        \/ Rotated(v, n) = Swapped(v, n, k1, k2)
        \/ Rotated(v, n) = Swapped(v, n, k2, k1)
    BY <1>7, <1>17 DEF Rotated
  <2>3. ASSUME NEW out, NEW stay, AreKids(v, n, out, stay), out \in D, stay \in D
        PROVE  Keeps(Swapped(v, n, out, stay), v, r, D, p)
    <3>1. v[n].parent = p
      BY <1>7
    <3>2. D \in SUBSET DOMAIN v
      BY <1>5
    <3>3. Keeps(Swapped(v, n, out, stay), v, r, D, v[n].parent)
      BY <1>8, <1>10, <1>11, <2>1, <2>3, <3>2, SwappedLinked
    <3> QED BY <3>1, <3>3
  <2>4. AreKids(v, n, k1, k2) /\ AreKids(v, n, k2, k1)
    BY <1>7 DEF AreKids
  <2> HIDE DEF k1, k2
  <2>5. Keeps(Rotated(v, n), v, r, D, p)
    <3>1. CASE Rotated(v, n) = v
      BY <3>1, <1>8, <1>10, <1>11 DEF Keeps, SameLeaves
    <3>2. CASE Rotated(v, n) = Swapped(v, n, k1, k2)
      BY <3>2, <1>1, <2>3, <2>4
    <3>3. CASE Rotated(v, n) = Swapped(v, n, k2, k1)
      BY <3>3, <1>1, <2>3, <2>4
    <3> QED BY <2>2, <3>1, <3>2, <3>3
  <2> HIDE DEF p
  <2>6. ASSUME \A m \in D : Covers(t, m) PROVE \A m \in D : Covers(Rotated(v, n), m)
    <3>1. \A m \in D \ {} : Covers(v, m)
      BY <1>13, <1>14, <1>15, <2>1, <2>6
    <3>2. {} \in SUBSET {p}
      OBVIOUS
    <3> QED BY <2>5, <3>1, <3>2 DEF Keeps
  <2>7. ASSUME \A m \in D \ {n, p} : Covers(t, m) PROVE \A m \in D \ {p} : Covers(Rotated(v, n), m)
    <3>1. \A m \in D \ {p} : Covers(v, m)
      BY <1>13, <1>14, <2>7
    <3> QED BY <2>5, <3>1 DEF Keeps
  <2>8. SameLeaves(Rotated(v, n), t, D)
    BY <1>12, <2>5 DEF SameLeaves, Keeps
  <2> QED BY <1>5, <2>5, <2>6, <2>7, <2>8 DEF p, Keeps
<1> QED BY <1>16, <1>17

\* The root when x took its place below g.
RootAfter(g, x, r) == IF g = Nil THEN x ELSE r

\* u is t with a new parent f for the sibling s and the leaf c.
Inserted(u, t, s, c, f) ==
    /\ DOMAIN u = DOMAIN t \cup {f} /\ u = [m \in DOMAIN u |-> u[m]]
    /\ \A m \in DOMAIN u :
        /\ u[m] \in NodeType
        /\ m # f => u[m].box = t[m].box
        /\ u[m].parent = IF m = f THEN t[s].parent ELSE IF m \in {s, c} THEN f ELSE t[m].parent
        /\ u[m].kids[1] = IF m = f THEN s
                          ELSE IF m = t[s].parent /\ t[m].kids[1] = s THEN f ELSE t[m].kids[1]
        /\ u[m].kids[2] = IF m = f THEN c
                          ELSE IF m = t[s].parent /\ t[m].kids[2] = s THEN f ELSE t[m].kids[2]

LEMMA ReplacedKids ==
  ASSUME NEW P, NEW kids \in [1..2 -> P], NEW a \in P, NEW b \in P
  PROVE  /\ Replaced(kids, a, b) \in [1..2 -> P]
         /\ Replaced(kids, a, b)[1] = IF kids[1] = a THEN b ELSE kids[1]
         /\ Replaced(kids, a, b)[2] = IF kids[2] = a THEN b ELSE kids[2]
BY DEF Replaced

LEMMA NodeParts ==
  ASSUME NEW x \in NodeType
  PROVE  /\ x.box \in BoxType /\ x.parent \in Pointer /\ x.kids \in [1..2 -> Pointer]
         /\ \A q \in Pointer : /\ [x EXCEPT !.parent = q] \in NodeType
                               /\ [x EXCEPT !.parent = q].box = x.box
                               /\ [x EXCEPT !.parent = q].parent = q
                               /\ [x EXCEPT !.parent = q].kids = x.kids
         /\ \A k \in [1..2 -> Pointer] : /\ [x EXCEPT !.kids = k] \in NodeType
                                         /\ [x EXCEPT !.kids = k].box = x.box
                                         /\ [x EXCEPT !.kids = k].parent = x.parent
                                         /\ [x EXCEPT !.kids = k].kids = k
BY DEF NodeType

\* What linking a leaf writes to whom: the fields of the new tree.
LEMMA InsertFields ==
  ASSUME NEW t, TreeType(t), NEW c \in DOMAIN t, NEW s \in DOMAIN t,
         NEW f \in Node, f \notin DOMAIN t,
         NEW up, up = t[s].parent, up \in DOMAIN t \cup {Nil}, c # s, up # s, up # c,
         NEW new, new = [box |-> Joined(t[s].box, t[c].box), parent |-> up, kids |-> <<s, c>>],
         NEW linked, linked = [With(t, f, new) EXCEPT ![s].parent = f, ![c].parent = f]
  PROVE  Inserted(IF up = Nil THEN linked ELSE [linked EXCEPT ![up].kids = Replaced(@, s, f)], t, s, c, f)
<1>0. Nil \notin Node /\ DOMAIN t \subseteq Node /\ f \in Pointer /\ s \in Pointer /\ c \in Pointer /\ up \in Pointer
  BY NilAssumption DEF TreeType, Node, Pointer
<1>1. f # s /\ f # c /\ up # f
  BY <1>0
<1>2. t \in [DOMAIN t -> NodeType] /\ \A m \in DOMAIN t : t[m] \in NodeType
  BY DEF TreeType
<1>3. /\ new \in NodeType
      /\ new.box = Joined(t[s].box, t[c].box) /\ new.parent = up
      /\ new.kids[1] = s /\ new.kids[2] = c
  <2>1. t[s].box \in BoxType /\ t[c].box \in BoxType
    BY <1>2, NodeParts
  <2>2. Joined(t[s].box, t[c].box) \in BoxType
    BY <2>1, JoinedType
  <2>3. <<s, c>> \in [1..2 -> Pointer] /\ <<s, c>>[1] = s /\ <<s, c>>[2] = c
    BY <1>0, Pair
  <2> QED BY <1>0, <2>2, <2>3 DEF NodeType
<1>4. DOMAIN With(t, f, new) = DOMAIN t \cup {f} /\ With(t, f, new)[f] = new
      /\ \A m \in DOMAIN t : With(t, f, new)[m] = t[m]
  BY DEF With
<1>5. /\ DOMAIN linked = DOMAIN t \cup {f} /\ linked = [m \in DOMAIN linked |-> linked[m]]
      /\ linked[f] = new
      /\ linked[s] = [t[s] EXCEPT !.parent = f]
      /\ linked[c] = [t[c] EXCEPT !.parent = f]
      /\ \A m \in DOMAIN t : m # s /\ m # c => linked[m] = t[m]
  <2> DEFINE w == With(t, f, new)
  <2>1. linked = [w EXCEPT ![s].parent = f, ![c].parent = f]
    OBVIOUS
  <2>2. w = [m \in DOMAIN w |-> w[m]]
    BY DEF With
  <2> HIDE DEF w
  <2>3. DOMAIN w = DOMAIN t \cup {f} /\ w[f] = new /\ \A m \in DOMAIN t : w[m] = t[m]
    BY <1>4 DEF w
  <2> QED BY <1>1, <2>1, <2>2, <2>3
<1> DEFINE u == IF up = Nil THEN linked ELSE [linked EXCEPT ![up].kids = Replaced(@, s, f)]
<1> SUFFICES Inserted(u, t, s, c, f)
  OBVIOUS
<1>6. DOMAIN u = DOMAIN t \cup {f} /\ u = [m \in DOMAIN u |-> u[m]]
  BY <1>5
<1>7. /\ up # Nil => u[up] = [linked[up] EXCEPT !.kids = Replaced(@, s, f)]
      /\ \A m \in DOMAIN t \cup {f} : m # up => u[m] = linked[m]
  BY <1>0, <1>5
<1>8. up # Nil => /\ u[up] = [t[up] EXCEPT !.kids = Replaced(t[up].kids, s, f)]
                  /\ Replaced(t[up].kids, s, f) \in [1..2 -> Pointer]
                  /\ Replaced(t[up].kids, s, f)[1] = IF t[up].kids[1] = s THEN f ELSE t[up].kids[1]
                  /\ Replaced(t[up].kids, s, f)[2] = IF t[up].kids[2] = s THEN f ELSE t[up].kids[2]
  <2> HIDE DEF u
  <2> SUFFICES ASSUME up # Nil
      PROVE /\ u[up] = [t[up] EXCEPT !.kids = Replaced(t[up].kids, s, f)]
            /\ Replaced(t[up].kids, s, f) \in [1..2 -> Pointer]
            /\ Replaced(t[up].kids, s, f)[1] = IF t[up].kids[1] = s THEN f ELSE t[up].kids[1]
            /\ Replaced(t[up].kids, s, f)[2] = IF t[up].kids[2] = s THEN f ELSE t[up].kids[2]
    OBVIOUS
  <2>1. linked[up] = t[up] /\ t[up].kids \in [1..2 -> Pointer]
    BY <1>2, <1>5, NodeParts
  <2>2. /\ Replaced(t[up].kids, s, f) \in [1..2 -> Pointer]
        /\ Replaced(t[up].kids, s, f)[1] = IF t[up].kids[1] = s THEN f ELSE t[up].kids[1]
        /\ Replaced(t[up].kids, s, f)[2] = IF t[up].kids[2] = s THEN f ELSE t[up].kids[2]
    BY <1>0, <2>1, ReplacedKids
  <2>3. u[up] = [t[up] EXCEPT !.kids = Replaced(t[up].kids, s, f)]
    BY <1>7, <2>1
  <2> QED BY <2>2, <2>3
<1> HIDE DEF u
<1>9. ASSUME NEW m \in DOMAIN t \cup {f}
      PROVE /\ u[m] \in NodeType
            /\ m # f => u[m].box = t[m].box
            /\ u[m].parent = IF m = f THEN up ELSE IF m \in {s, c} THEN f ELSE t[m].parent
            /\ u[m].kids[1] = IF m = f THEN s ELSE IF m = up /\ t[m].kids[1] = s THEN f ELSE t[m].kids[1]
            /\ u[m].kids[2] = IF m = f THEN c ELSE IF m = up /\ t[m].kids[2] = s THEN f ELSE t[m].kids[2]
  <2>1. CASE m = f
    <3>1. u[f] = new
      BY <1>1, <1>5, <1>7
    <3> QED BY <1>3, <2>1, <3>1
  <2>2. CASE m \in {s, c}
    <3>1. u[m] = [t[m] EXCEPT !.parent = f]
      BY <1>5, <1>7, <2>2
    <3>2. t[m] \in NodeType
      BY <1>2, <2>2
    <3>3. /\ u[m] \in NodeType /\ u[m].box = t[m].box
          /\ u[m].parent = f /\ u[m].kids = t[m].kids
      BY <1>0, <3>1, <3>2, NodeParts
    <3> QED BY <1>1, <2>2, <3>3
  <2>3. CASE m = up /\ m \in DOMAIN t
    <3>1. up # Nil /\ t[up] \in NodeType
      BY <1>0, <1>2, <2>3
    <3> DEFINE kids == Replaced(t[up].kids, s, f)
    <3>a. u[up] = [t[up] EXCEPT !.kids = kids] /\ kids \in [1..2 -> Pointer]
      BY <1>8, <3>1
    <3>2. u[up] \in NodeType /\ u[up].box = t[up].box /\ u[up].parent = t[up].parent /\ u[up].kids = kids
      <4> HIDE DEF kids
      <4> QED BY <3>1, <3>a, NodeParts
    <3> QED BY <1>1, <1>8, <2>3, <3>1, <3>2
  <2>4. CASE m \notin {f, s, c, up}
    <3>1. u[m] = t[m] /\ t[m] \in NodeType
      BY <1>2, <1>5, <1>7, <2>4
    <3> QED BY <2>4, <3>1
  <2> QED BY <2>1, <2>2, <2>3, <2>4
<1> QED BY <1>6, <1>9 DEF Inserted

\* What the new tree u keeps: all but f and its parent still hold their
\* children's boxes.
InsertKeeps(u, t, r, c, s, f) ==
    /\ TreeType(u) /\ DOMAIN u = DOMAIN t \cup {f}
    /\ Linked(u, RootAfter(t[s].parent, f, r), DOMAIN u)
    /\ Rooted(u, RootAfter(t[s].parent, f, r), DOMAIN u)
    /\ u[f].kids[1] # Nil /\ u[f].parent = t[s].parent
    /\ SameLeaves(u, t, DOMAIN t)
    /\ (\A m \in DOMAIN t \ {c} : Covers(t, m))
         => \A m \in DOMAIN u \ {f, t[s].parent} : Covers(u, m)

\* A leaf linked below a new parent leaves a tree, and one new leaf.
LEMMA InsertShape ==
  ASSUME NEW t, TreeType(t), NEW r, NEW c \in DOMAIN t,
         Linked(t, r, DOMAIN t \ {c}), Rooted(t, r, DOMAIN t \ {c}),
         t[c].kids[1] = Nil, t[c].kids[2] = Nil, NEW s \in DOMAIN t, s # c,
         NEW f \in Node, f \notin DOMAIN t,
         NEW u, Inserted(u, t, s, c, f)
  PROVE  InsertKeeps(u, t, r, c, s, f)
<1> DEFINE D == DOMAIN t \ {c}
           q == RootAfter(t[s].parent, f, r)
<1> Linked(t, r, D) /\ Rooted(t, r, D) /\ s \in D /\ D = DOMAIN t \ {c}
  OBVIOUS
<1> q = RootAfter(t[s].parent, f, r)
  OBVIOUS
<1> HIDE DEF D, q
<1> DEFINE up == t[s].parent
<1>0. Nil \notin Node /\ DOMAIN t \subseteq Node /\ Nil \notin D
  BY NilAssumption DEF TreeType, Node
<1>1. /\ up = Nil => s = r
      /\ up # Nil => up \in D /\ s # r
      /\ c # s /\ f # s /\ f # c /\ up # f /\ up # c /\ up # s
  <2>1. up # s
    BY <1>0, NoLoop
  <2>2. IF s = r THEN up = Nil ELSE up \in D
    BY DEF Linked
  <2> QED BY <1>0, <2>1, <2>2
<1>6. DOMAIN u = DOMAIN t \cup {f}
  BY DEF Inserted
<1>9. \A m \in DOMAIN u :
        /\ u[m] \in NodeType
        /\ m # f => u[m].box = t[m].box
        /\ u[m].parent = IF m = f THEN up ELSE IF m \in {s, c} THEN f ELSE t[m].parent
        /\ u[m].kids[1] = IF m = f THEN s ELSE IF m = up /\ t[m].kids[1] = s THEN f ELSE t[m].kids[1]
        /\ u[m].kids[2] = IF m = f THEN c ELSE IF m = up /\ t[m].kids[2] = s THEN f ELSE t[m].kids[2]
  BY DEF Inserted
<1>10. TreeType(u)
  <2>1. u = [m \in DOMAIN u |-> u[m]]
    BY DEF Inserted
  <2> QED BY <1>0, <1>6, <1>9, <2>1 DEF TreeType
<1>11. \A m \in D :
         /\ IF m = r THEN t[m].parent = Nil
            ELSE t[m].parent \in D /\ m \in {t[t[m].parent].kids[1], t[t[m].parent].kids[2]}
         /\ IF t[m].kids[1] = Nil THEN t[m].kids[2] = Nil
            ELSE /\ t[m].kids[1] # t[m].kids[2]
                 /\ t[m].kids[1] \in D /\ t[t[m].kids[1]].parent = m
                 /\ t[m].kids[2] \in D /\ t[t[m].kids[2]].parent = m
  BY DEF Linked
<1>112. r \in D
  <2>1. \A m \in D : m = r \/ t[m].parent \in D
    BY <1>11
  <2>2. D # {} /\ D \in SUBSET D
    OBVIOUS
  <2> QED BY <2>1, <2>2 DEF Rooted
<1>113. (up = Nil => q = f) /\ (up # Nil => q = r) /\ r # f /\ r # c
  BY <1>0, <1>112 DEF RootAfter
<1>111. t[s].parent = up
  OBVIOUS
<1> HIDE DEF up
<1>12. Linked(u, q, DOMAIN u)
  <2> SUFFICES ASSUME NEW m \in DOMAIN t \cup {f}
      PROVE /\ IF m = q THEN u[m].parent = Nil
               ELSE u[m].parent \in DOMAIN u /\ m \in {u[u[m].parent].kids[1], u[u[m].parent].kids[2]}
            /\ IF u[m].kids[1] = Nil THEN u[m].kids[2] = Nil
               ELSE /\ u[m].kids[1] # u[m].kids[2]
                    /\ u[m].kids[1] \in DOMAIN u /\ u[u[m].kids[1]].parent = m
                    /\ u[m].kids[2] \in DOMAIN u /\ u[u[m].kids[2]].parent = m
    BY <1>6 DEF Linked
  <2> USE <1>0, <1>1, <1>6, <1>9, <1>111, <1>113
  <2>1. CASE m = f
    BY <1>11, <2>1
  <2>2. CASE m = c
    BY <2>2
  <2>3. CASE m = s
    BY <1>11, <2>3
  <2>4. CASE m = up
    BY <1>11, <2>4
  <2>5. CASE m \notin {f, c, s, up}
    BY <1>11, <2>5
  <2> QED BY <2>1, <2>2, <2>3, <2>4, <2>5
<1>13. Rooted(u, q, DOMAIN u)
  <2> SUFFICES ASSUME NEW S \in SUBSET (DOMAIN t \cup {f}), S # {},
                      \A m \in S : m = q \/ u[m].parent \in S
      PROVE  q \in S
    BY <1>6 DEF Rooted
  <2> DEFINE S2 == S \cap D
  <2>1. ASSUME NEW m \in S2, m # r PROVE t[m].parent \in S2
    <3>1. t[m].parent \in D
      BY <1>11, <2>1
    <3>2. CASE m = s
      BY <1>1, <1>6, <1>9, <1>111, <1>113, <2>1, <3>2
    <3>3. CASE m # s
      BY <1>1, <1>6, <1>9, <1>111, <1>113, <2>1, <3>1, <3>3
    <3> QED BY <3>2, <3>3
  <2>2. S2 # {} => r \in S2
    BY <2>1 DEF Rooted
  <2>3. c \in S => f \in S
    BY <1>1, <1>6, <1>9, <1>111, <1>113, <2>2
  <2>4. f \in S => f = q \/ up \in S
    BY <1>6, <1>9
  <2>5. CASE up = Nil
    <3>1. s \in S => f \in S
      BY <1>1, <1>6, <1>9, <1>111, <1>113, <2>5
    <3>2. S2 = {} => f \in S
      BY <2>3
    <3> QED BY <1>1, <1>111, <1>113, <2>2, <2>5, <3>1, <3>2
  <2>6. CASE up # Nil
    BY <1>1, <1>111, <1>113, <2>2, <2>3, <2>4, <2>6
  <2> QED BY <2>5, <2>6
<1>14. SameLeaves(u, t, DOMAIN t)
  <2> SUFFICES ASSUME NEW m \in DOMAIN t
      PROVE (u[m].kids[1] = Nil <=> t[m].kids[1] = Nil) /\ (t[m].kids[1] = Nil => u[m].box = t[m].box)
    BY DEF SameLeaves
  <2> QED BY <1>0, <1>6, <1>9
<1>15. ASSUME \A m \in D : Covers(t, m), NEW m \in DOMAIN u \ {f, up} PROVE Covers(u, m)
  <2>1. SUFFICES ASSUME u[m].kids[1] # Nil
        PROVE Holds(u[m].box, u[u[m].kids[1]].box) /\ Holds(u[m].box, u[u[m].kids[2]].box)
    BY DEF Covers
  <2>2. u[m].kids[1] = t[m].kids[1] /\ u[m].kids[2] = t[m].kids[2] /\ u[m].box = t[m].box
    BY <1>9, <1>15
  <2>3. m \in D
    BY <1>6, <1>15, <2>1, <2>2
  <2>4. t[m].kids[1] \in D /\ t[m].kids[2] \in D
    BY <1>11, <2>1, <2>2, <2>3
  <2>5. Holds(t[m].box, t[t[m].kids[1]].box) /\ Holds(t[m].box, t[t[m].kids[2]].box)
    BY <1>15, <2>1, <2>2, <2>3 DEF Covers
  <2>6. u[t[m].kids[1]].box = t[t[m].kids[1]].box /\ u[t[m].kids[2]].box = t[t[m].kids[2]].box
    BY <1>6, <1>9, <2>4
  <2> QED BY <2>2, <2>5, <2>6
<1>16. u[f].kids[1] # Nil /\ u[f].parent = up
  BY <1>0, <1>6, <1>9
<1> QED BY <1>6, <1>10, <1>12, <1>13, <1>14, <1>15, <1>16, <1>111 DEF InsertKeeps, D, q

\* u is t without the leaf n and its parent p, whose place below g s takes.
Deleted(u, t, n, p, s, g) ==
    /\ DOMAIN u = DOMAIN t \ {n, p} /\ u = [m \in DOMAIN u |-> u[m]]
    /\ \A m \in DOMAIN u :
        /\ u[m] \in NodeType
        /\ u[m].box = t[m].box
        /\ u[m].parent = IF m = s THEN g ELSE t[m].parent
        /\ u[m].kids[1] = IF m = g /\ t[m].kids[1] = p THEN s ELSE t[m].kids[1]
        /\ u[m].kids[2] = IF m = g /\ t[m].kids[2] = p THEN s ELSE t[m].kids[2]

\* t without n and p, s below g.
CutOut(t, n, p, s, g) ==
    IF g = Nil THEN [Without(t, {n, p}) EXCEPT ![s].parent = Nil]
    ELSE [Without(t, {n, p}) EXCEPT ![s].parent = g, ![g].kids = Replaced(@, p, s)]

\* What cutting a leaf out writes to whom.
LEMMA DeleteFields ==
  ASSUME NEW t, TreeType(t), NEW n \in DOMAIN t, NEW p \in DOMAIN t, NEW s \in DOMAIN t,
         s # n, s # p, NEW g \in DOMAIN t \cup {Nil}, g \notin {n, p, s}
  PROVE  Deleted(CutOut(t, n, p, s, g), t, n, p, s, g)
<1> DEFINE cut == Without(t, {n, p})
           u == IF g = Nil THEN [cut EXCEPT ![s].parent = Nil]
                ELSE [cut EXCEPT ![s].parent = g, ![g].kids = Replaced(@, p, s)]
<1> SUFFICES Deleted(u, t, n, p, s, g)
  BY DEF CutOut
<1>0. Nil \notin Node /\ DOMAIN t \subseteq Node /\ s \in Pointer /\ p \in Pointer /\ g \in Pointer
  BY NilAssumption DEF TreeType, Node, Pointer
<1>2. t \in [DOMAIN t -> NodeType] /\ \A m \in DOMAIN t : t[m] \in NodeType
  BY DEF TreeType
<1>3. /\ DOMAIN cut = DOMAIN t \ {n, p} /\ cut = [m \in DOMAIN cut |-> cut[m]]
      /\ \A m \in DOMAIN cut : cut[m] = t[m]
  BY DEF Without
<1> HIDE DEF cut
<1>4. DOMAIN u = DOMAIN t \ {n, p} /\ u = [m \in DOMAIN u |-> u[m]]
  BY <1>3
<1>5. /\ u[s] = [t[s] EXCEPT !.parent = g]
      /\ g # Nil => u[g] = [t[g] EXCEPT !.kids = Replaced(t[g].kids, p, s)]
      /\ \A m \in DOMAIN u : m # s /\ m # g => u[m] = t[m]
  <2>1. CASE g = Nil
    BY <1>3, <1>4, <2>1
  <2>2. CASE g # Nil
    BY <1>3, <1>4, <2>2
  <2> QED BY <2>1, <2>2
<1> HIDE DEF u
<1>6. ASSUME NEW m \in DOMAIN u
      PROVE /\ u[m] \in NodeType
            /\ u[m].box = t[m].box
            /\ u[m].parent = IF m = s THEN g ELSE t[m].parent
            /\ u[m].kids[1] = IF m = g /\ t[m].kids[1] = p THEN s ELSE t[m].kids[1]
            /\ u[m].kids[2] = IF m = g /\ t[m].kids[2] = p THEN s ELSE t[m].kids[2]
  <2>1. CASE m = s
    <3>1. /\ u[m] \in NodeType /\ u[m].box = t[m].box
          /\ u[m].parent = g /\ u[m].kids = t[m].kids
      <4>1. t[s] \in NodeType /\ g \in Pointer
        BY <1>0, <1>2
      <4>2. u[s] = [t[s] EXCEPT !.parent = g]
        BY <1>5
      <4>3. /\ u[s] \in NodeType /\ u[s].box = t[s].box
            /\ u[s].parent = g /\ u[s].kids = t[s].kids
        BY <4>1, <4>2, NodeParts
      <4> QED BY <2>1, <4>3
    <3> QED BY <2>1, <3>1
  <2>2. CASE m = g
    <3> DEFINE kids == Replaced(t[g].kids, p, s)
    <3>1. t[g] \in NodeType /\ g # Nil
      BY <1>0, <1>2, <1>4, <2>2
    <3>2. /\ kids \in [1..2 -> Pointer]
          /\ kids[1] = IF t[g].kids[1] = p THEN s ELSE t[g].kids[1]
          /\ kids[2] = IF t[g].kids[2] = p THEN s ELSE t[g].kids[2]
      BY <1>0, <3>1, NodeParts, ReplacedKids
    <3>3. u[g] = [t[g] EXCEPT !.kids = kids]
      BY <1>5, <3>1
    <3> HIDE DEF kids
    <3>4. u[g] \in NodeType /\ u[g].box = t[g].box /\ u[g].parent = t[g].parent /\ u[g].kids = kids
      BY <3>1, <3>2, <3>3, NodeParts
    <3> QED BY <2>2, <3>2, <3>4
  <2>3. CASE m # s /\ m # g
    BY <1>2, <1>4, <1>5, <2>3
  <2> QED BY <2>1, <2>2, <2>3
<1> QED BY <1>4, <1>6 DEF Deleted

\* What the tree without n and p keeps.
DeleteKeeps(u, t, r, n, p, s, g) ==
    /\ TreeType(u) /\ DOMAIN u = DOMAIN t \ {n, p}
    /\ Linked(u, RootAfter(g, s, r), DOMAIN u)
    /\ Rooted(u, RootAfter(g, s, r), DOMAIN u)
    /\ s \in DOMAIN u
    /\ g # Nil => g \in DOMAIN u /\ u[g].kids[1] # Nil
    /\ t[p].kids[1] # Nil
    /\ SameLeaves(u, t, DOMAIN u)
    /\ (\A m \in DOMAIN t : Covers(t, m)) => \A m \in DOMAIN u : Covers(u, m)

\* The parent, the sibling and the grandparent of a leaf.
LEMMA Relatives ==
  ASSUME NEW t, TreeType(t), NEW r, Linked(t, r, DOMAIN t), Rooted(t, r, DOMAIN t),
         NEW n \in DOMAIN t, t[n].kids[1] = Nil, t[n].parent # Nil
  PROVE  LET p == t[n].parent
             s == Other(t, p, n)
             g == t[p].parent
         IN /\ p \in DOMAIN t /\ s \in DOMAIN t /\ g \in DOMAIN t \cup {Nil}
            /\ s # n /\ s # p /\ p # n /\ g \notin {n, p, s} /\ s # r /\ n # r
            /\ t[p].kids[1] # Nil /\ n \in {t[p].kids[1], t[p].kids[2]}
            /\ s \in {t[p].kids[1], t[p].kids[2]} /\ t[s].parent = p
<1> DEFINE p == t[n].parent
           s == Other(t, p, n)
           g == t[p].parent
           D == DOMAIN t
<1>0. Nil \notin D
  BY NilAssumption DEF TreeType, Node
<1>1. \A m \in D :
         /\ IF m = r THEN t[m].parent = Nil
            ELSE t[m].parent \in D /\ m \in {t[t[m].parent].kids[1], t[t[m].parent].kids[2]}
         /\ IF t[m].kids[1] = Nil THEN t[m].kids[2] = Nil
            ELSE /\ t[m].kids[1] # t[m].kids[2]
                 /\ t[m].kids[1] \in D /\ t[t[m].kids[1]].parent = m
                 /\ t[m].kids[2] \in D /\ t[t[m].kids[2]].parent = m
  BY DEF Linked
<1>2. p \in D /\ n # r /\ n \in {t[p].kids[1], t[p].kids[2]}
  BY <1>0, <1>1
<1>3. t[p].kids[1] # Nil
  BY <1>0, <1>1, <1>2
<1>4. s \in D /\ s # n /\ s \in {t[p].kids[1], t[p].kids[2]} /\ t[s].parent = p
  BY <1>1, <1>2, <1>3 DEF Other
<1>5. p # n /\ s # p /\ g # p /\ s # r /\ p # Nil
  BY <1>0, <1>1, <1>2, <1>3, <1>4, NoLoop
<1>6. g \in D \cup {Nil}
  BY <1>1, <1>2
<1>7. g # n
  BY <1>0, <1>1, <1>2
<1>8. g # s
  BY <1>0, <1>4, <1>5, NoLoop
<1> QED BY <1>2, <1>3, <1>4, <1>5, <1>6, <1>7, <1>8

\* A leaf cut out with its parent leaves a tree without it.
LEMMA DeleteShape ==
  ASSUME NEW t, TreeType(t), NEW r, Linked(t, r, DOMAIN t), Rooted(t, r, DOMAIN t),
         NEW n \in DOMAIN t, t[n].kids[1] = Nil,
         NEW p \in DOMAIN t, p = t[n].parent, NEW s, s = Other(t, p, n), NEW g, g = t[p].parent,
         NEW u, Deleted(u, t, n, p, s, g)
  PROVE  DeleteKeeps(u, t, r, n, p, s, g)
<1> DEFINE q == RootAfter(g, s, r)
<1> q = RootAfter(g, s, r)
  OBVIOUS
<1> HIDE DEF q
<1> DEFINE D == DOMAIN t
<1>0. Nil \notin Node /\ D \subseteq Node /\ Nil \notin D
  BY NilAssumption DEF TreeType, Node
<1>1. \A m \in D :
         /\ IF m = r THEN t[m].parent = Nil
            ELSE t[m].parent \in D /\ m \in {t[t[m].parent].kids[1], t[t[m].parent].kids[2]}
         /\ IF t[m].kids[1] = Nil THEN t[m].kids[2] = Nil
            ELSE /\ t[m].kids[1] # t[m].kids[2]
                 /\ t[m].kids[1] \in D /\ t[t[m].kids[1]].parent = m
                 /\ t[m].kids[2] \in D /\ t[t[m].kids[2]].parent = m
  BY DEF Linked
<1>2. n # r /\ n \in {t[p].kids[1], t[p].kids[2]}
  BY <1>0, <1>1
<1>3. t[p].kids[1] # Nil
  BY <1>0, <1>1, <1>2
<1>4. s \in D /\ s # n /\ s \in {t[p].kids[1], t[p].kids[2]} /\ t[s].parent = p
  BY <1>1, <1>2, <1>3 DEF Other
<1>5. p # n /\ s # p /\ g \notin {n, p, s} /\ s # r
  BY <1>0, <1>1, <1>2, <1>3, <1>4, NoLoop
<1>6. (g = Nil => p = r) /\ (g # Nil => g \in D /\ p # r)
  BY <1>0, <1>1
<1>7. \A m \in D : t[m].parent = p => m \in {n, s}
  BY <1>0, <1>1, <1>2, <1>4
<1>8. \A m \in D : t[m].parent # n
  BY <1>0, <1>1
<1>9. r \in D
  <2>1. \A m \in D : m = r \/ t[m].parent \in D
    BY <1>1
  <2> QED BY <2>1 DEF Rooted
<1>10. DOMAIN u = D \ {n, p}
  BY DEF Deleted
<1>11. \A m \in DOMAIN u :
        /\ u[m] \in NodeType
        /\ u[m].box = t[m].box
        /\ u[m].parent = IF m = s THEN g ELSE t[m].parent
        /\ u[m].kids[1] = IF m = g /\ t[m].kids[1] = p THEN s ELSE t[m].kids[1]
        /\ u[m].kids[2] = IF m = g /\ t[m].kids[2] = p THEN s ELSE t[m].kids[2]
  BY DEF Deleted
<1>12. TreeType(u)
  <2>1. u = [m \in DOMAIN u |-> u[m]]
    BY DEF Deleted
  <2> QED BY <1>0, <1>10, <1>11, <2>1 DEF TreeType
<1>13. n \in D /\ p \in D /\ t[n].parent = p /\ t[p].parent = g
  OBVIOUS
<1> HIDE DEF D
<1>14. Linked(u, q, DOMAIN u)
  <2> SUFFICES ASSUME NEW m \in D \ {n, p}
      PROVE /\ IF m = q THEN u[m].parent = Nil
               ELSE u[m].parent \in DOMAIN u /\ m \in {u[u[m].parent].kids[1], u[u[m].parent].kids[2]}
            /\ IF u[m].kids[1] = Nil THEN u[m].kids[2] = Nil
               ELSE /\ u[m].kids[1] # u[m].kids[2]
                    /\ u[m].kids[1] \in DOMAIN u /\ u[u[m].kids[1]].parent = m
                    /\ u[m].kids[2] \in DOMAIN u /\ u[u[m].kids[2]].parent = m
    BY <1>10 DEF Linked
  <2> USE <1>0, <1>2, <1>4, <1>5, <1>6, <1>7, <1>8, <1>10, <1>11, <1>13
  <2>0. q = IF g = Nil THEN s ELSE r
    BY DEF RootAfter
  <2>1. CASE m = s
    BY <1>1, <2>0, <2>1
  <2>2. CASE m = g
    <3>1. m = q => u[m].parent = Nil
      BY <1>1, <2>0, <2>2
    <3>2. m # q => u[m].parent \in DOMAIN u /\ m \in {u[u[m].parent].kids[1], u[u[m].parent].kids[2]}
      <4> SUFFICES ASSUME m # q
          PROVE u[m].parent \in DOMAIN u /\ m \in {u[u[m].parent].kids[1], u[u[m].parent].kids[2]}
        OBVIOUS
      <4> DEFINE h == t[m].parent
      <4>1. h \in D /\ m \in {t[h].kids[1], t[h].kids[2]}
        BY <1>1, <2>0, <2>2
      <4>2. h # p /\ h # n /\ u[m].parent = h /\ m # p
        BY <2>2
      <4> HIDE DEF h
      <4> QED BY <4>1, <4>2
    <3>3. g \in D /\ t[g].kids[1] # Nil /\ p \in {t[g].kids[1], t[g].kids[2]}
      BY <1>1, <2>2
    <3>4. /\ u[m].kids[1] = IF t[g].kids[1] = p THEN s ELSE t[g].kids[1]
          /\ u[m].kids[2] = IF t[g].kids[2] = p THEN s ELSE t[g].kids[2]
      BY <2>2
    <3>5. ASSUME NEW k \in {t[g].kids[1], t[g].kids[2]}, k # p
          PROVE k \in DOMAIN u /\ u[k].parent = g /\ k # s
      <4>1. k \in D /\ t[k].parent = g
        BY <1>1, <3>3, <3>5
      <4>2. k # s /\ k # n
        BY <4>1
      <4> QED BY <3>5, <4>1, <4>2
    <3>6. s \in DOMAIN u /\ u[s].parent = g /\ s # Nil
      OBVIOUS
    <3>7. t[g].kids[1] # t[g].kids[2] /\ t[g].kids[1] # Nil /\ t[g].kids[2] # Nil
      BY <1>1, <3>3
    <3>8. /\ u[m].kids[1] # Nil /\ u[m].kids[1] # u[m].kids[2]
          /\ u[m].kids[1] \in DOMAIN u /\ u[u[m].kids[1]].parent = g
          /\ u[m].kids[2] \in DOMAIN u /\ u[u[m].kids[2]].parent = g
      BY <3>4, <3>5, <3>6, <3>7
    <3> QED BY <2>2, <3>1, <3>2, <3>8
  <2>3. CASE m # s /\ m # g
    <3>1. m = q => u[m].parent = Nil
      BY <1>1, <2>0, <2>3
    <3>2. m # q => u[m].parent \in DOMAIN u /\ m \in {u[u[m].parent].kids[1], u[u[m].parent].kids[2]}
      BY <1>1, <2>0, <2>3
    <3>3. u[m].kids[1] = t[m].kids[1] /\ u[m].kids[2] = t[m].kids[2]
      BY <2>3
    <3>4. ASSUME t[m].kids[1] # Nil, NEW k \in {t[m].kids[1], t[m].kids[2]}
          PROVE k \in DOMAIN u /\ u[k].parent = m
      <4>1. k \in D /\ t[k].parent = m
        BY <1>1, <3>4
      <4> QED BY <2>3, <4>1
    <3>5. IF t[m].kids[1] = Nil THEN t[m].kids[2] = Nil ELSE t[m].kids[1] # t[m].kids[2]
      BY <1>1
    <3> QED BY <3>1, <3>2, <3>3, <3>4, <3>5
  <2> QED BY <2>1, <2>2, <2>3
<1>15. Rooted(u, q, DOMAIN u)
  <2> SUFFICES ASSUME NEW S \in SUBSET (D \ {n, p}), S # {},
                      \A m \in S : m = q \/ u[m].parent \in S
      PROVE  q \in S
    BY <1>10 DEF Rooted
  <2> DEFINE S2 == IF s \in S THEN S \cup {p} ELSE S
  <2>1. ASSUME NEW m \in S2, m # r, q \notin S PROVE t[m].parent \in S2
    <3>1. CASE m = p
      BY <1>4, <1>5, <1>6, <1>10, <1>11, <1>13, <2>1, <3>1
    <3>2. CASE m = s
      BY <1>4, <2>1, <3>2
    <3>3. CASE m # s /\ m # p
      BY <1>10, <1>11, <2>1, <3>3
    <3> QED BY <3>1, <3>2, <3>3
  <2>2. S2 \in SUBSET D /\ S2 # {}
    BY <1>13
  <2>3. q \notin S => r \in S2
    BY <2>1, <2>2 DEF Rooted, D
  <2> QED BY <1>5, <1>6, <1>13, <2>3 DEF RootAfter
<1>16. SameLeaves(u, t, DOMAIN u)
  <2> SUFFICES ASSUME NEW m \in DOMAIN u
      PROVE (u[m].kids[1] = Nil <=> t[m].kids[1] = Nil) /\ (t[m].kids[1] = Nil => u[m].box = t[m].box)
    BY DEF SameLeaves
  <2> QED BY <1>0, <1>4, <1>10, <1>11, <1>13
<1>17. ASSUME g # Nil PROVE g \in DOMAIN u /\ u[g].kids[1] # Nil
  BY <1>0, <1>1, <1>4, <1>5, <1>6, <1>10, <1>11, <1>13, <1>17
<1>18. ASSUME \A m \in D : Covers(t, m), NEW m \in DOMAIN u PROVE Covers(u, m)
  <2>1. SUFFICES ASSUME u[m].kids[1] # Nil
        PROVE Holds(u[m].box, u[u[m].kids[1]].box) /\ Holds(u[m].box, u[u[m].kids[2]].box)
    BY DEF Covers
  <2>2. m \in D /\ t[m].kids[1] # Nil /\ u[m].box = t[m].box
    BY <1>0, <1>10, <1>11, <1>13, <1>16, <2>1 DEF SameLeaves
  <2>3. Holds(t[m].box, t[t[m].kids[1]].box) /\ Holds(t[m].box, t[t[m].kids[2]].box)
    BY <1>18, <2>2 DEF Covers
  <2>4. u[m].kids[1] \in DOMAIN u /\ u[m].kids[2] \in DOMAIN u
    BY <1>14, <2>1 DEF Linked
  <2>5. m = g => Holds(t[m].box, t[s].box)
    <3> SUFFICES ASSUME m = g PROVE Holds(t[m].box, t[s].box)
      OBVIOUS
    <3>1. Holds(t[p].box, t[s].box)
      BY <1>3, <1>4, <1>13, <1>18 DEF Covers
    <3>2. Holds(t[g].box, t[p].box)
      <4>1. p \in {t[g].kids[1], t[g].kids[2]}
        BY <1>0, <1>1, <1>6, <1>13, <2>2
      <4> QED BY <2>3, <4>1
    <3>3. t[g].box \in BoxType /\ t[p].box \in BoxType /\ t[s].box \in BoxType
      <4>1. t[g] \in NodeType /\ t[p] \in NodeType /\ t[s] \in NodeType
        BY <1>4, <1>13, <2>2 DEF TreeType, D
      <4> QED BY <4>1, NodeParts
    <3> QED BY <3>1, <3>2, <3>3, JoinedHolds
  <2> QED BY <1>4, <1>10, <1>11, <2>2, <2>3, <2>4, <2>5
<1> QED BY <1>3, <1>4, <1>5, <1>10, <1>12, <1>14, <1>15, <1>16, <1>17, <1>18 DEF D, q, DeleteKeeps

\* While an insert looks for a sibling its leaf belongs to no tree.
Attached == IF call = "search" THEN Nodes \ {cursor} ELSE Nodes

\* The parts of the inductive invariant: the nodes attached are one tree; ...
TreeShape ==
    /\ TreeType(tree)
    /\ Linked(tree, root, Attached) /\ Rooted(tree, root, Attached)
    /\ Attached = {} => root = Nil

\* ... its leaves are what the tree was given and not asked to delete; ...
LeavesHeld ==
    /\ DOMAIN held = {n \in Nodes : IsLeaf(n)}
    /\ \A n \in DOMAIN held : tree[n].box = held[n]

\* One inner node less than leaves: there is a fresh node whenever one is needed.
Counted ==
    /\ Cardinality(DOMAIN held) <= MaxLeaves
    /\ Nodes # {} =>
         Cardinality(Nodes) = 2 * Cardinality(DOMAIN held) - (IF call = "search" THEN 2 ELSE 1)

\* ... the loop of the running call is where it can be; ...
CallState ==
    /\ call \in {"none", "search", "insert", "delete"}
    /\ call = "search" =>
         /\ cursor \in Nodes /\ root \in Attached
         /\ tree[cursor].parent = Nil /\ tree[cursor].kids[1] = Nil /\ tree[cursor].kids[2] = Nil
         /\ best.at \in Attached /\ \A p \in queue : p.at \in Attached
    /\ call \in {"insert", "delete"} => cursor \in Nodes /\ ~IsLeaf(cursor)

\* ... and every box holds its children's, but those of the node an insert's
\* refitting is at and of its parent.
BoxesHold ==
    /\ call # "insert" => \A m \in Attached : Covers(tree, m)
    /\ call = "insert" => \A m \in Nodes \ {cursor, tree[cursor].parent} : Covers(tree, m)

BVHInv == TreeShape /\ LeavesHeld /\ Counted /\ CallState /\ BoxesHold

LEMMA NodesFinite ==
  ASSUME TreeShape
  PROVE  IsFiniteSet(Node) /\ Cardinality(Node) = 2 * MaxLeaves /\ IsFiniteSet(Nodes) /\ Nodes \subseteq Node
         /\ Nil \notin Node
<1>1. IsFiniteSet(Node) /\ Cardinality(Node) = 2 * MaxLeaves
  <2>1. 1 \in Int /\ 2 * MaxLeaves \in Int /\ ~(1 > 2 * MaxLeaves)
    BY MaxLeavesAssumption
  <2> QED BY <2>1, FS_Interval, MaxLeavesAssumption DEF Node
<1>2. Nodes \subseteq Node
  BY DEF TreeShape, TreeType, Nodes
<1>3. Nil \notin Node
  BY NilAssumption DEF Node
<1> QED BY <1>1, <1>2, <1>3, FS_Subset

\* The fresh node is none of the allocated ones.
LEMMA FreshFree ==
  ASSUME TreeShape, Cardinality(Nodes) < 2 * MaxLeaves
  PROVE  Fresh \in Node /\ Fresh \notin Nodes
<1>1. Node \ Nodes # {}
  <2>1. SUFFICES ASSUME Node \ Nodes = {} PROVE FALSE
    OBVIOUS
  <2>2. Node = Nodes
    BY <2>1, NodesFinite
  <2> QED BY <2>2, NodesFinite, MaxLeavesAssumption
<1>2. Node \ Nodes \in SUBSET Nat
  BY MaxLeavesAssumption DEF Node
<1>3. \E n \in Node \ Nodes : \A m \in Node \ Nodes : n <= m
  BY <1>1, <1>2, LeastOf
<1> QED BY <1>3 DEF Fresh

LEMMA RootIn ==
  ASSUME TreeShape, Attached # {}
  PROVE  root \in Attached
<1>1. \A n \in Attached : n = root \/ tree[n].parent \in Attached
  BY DEF TreeShape, Linked
<1> QED BY <1>1 DEF TreeShape, Rooted

LEMMA HeldCount ==
  ASSUME BVHInv
  PROVE  IsFiniteSet(DOMAIN held) /\ Cardinality(DOMAIN held) \in Nat /\ Cardinality(Nodes) \in Nat
         /\ DOMAIN held \subseteq Nodes
<1>1. DOMAIN held \subseteq Nodes
  BY DEF BVHInv, LeavesHeld
<1> QED BY <1>1, NodesFinite, FS_Subset, FS_CardinalityType DEF BVHInv

LEMMA LeafType ==
  ASSUME NEW b \in Box
  PROVE  /\ Leaf(b) \in NodeType /\ Leaf(b).box = b /\ Leaf(b).parent = Nil
         /\ Leaf(b).kids[1] = Nil /\ Leaf(b).kids[2] = Nil
<1>1. b \in BoxType
  BY BoxAssumption DEF BoxType
<1>2. Nil \in Pointer
  BY DEF Pointer
<1>3. <<Nil, Nil>> \in [1..2 -> Pointer] /\ <<Nil, Nil>>[1] = Nil /\ <<Nil, Nil>>[2] = Nil
  BY <1>2, Pair
<1> QED BY <1>1, <1>2, <1>3 DEF Leaf, NodeType

LEMMA WithType ==
  ASSUME NEW t, TreeType(t), NEW f \in Node, NEW x \in NodeType
  PROVE  /\ TreeType(With(t, f, x)) /\ DOMAIN With(t, f, x) = DOMAIN t \cup {f}
         /\ With(t, f, x)[f] = x
         /\ \A m \in DOMAIN t : m # f => With(t, f, x)[m] = t[m]
BY DEF TreeType, With

LEMMA InitBVHInv == BVHInit => BVHInv
<1> SUFFICES ASSUME BVHInit PROVE BVHInv
  OBVIOUS
<1>1. tree = <<>> /\ held = <<>> /\ call = "none" /\ root = Nil
  BY DEF BVHInit
<1>2. DOMAIN tree = {} /\ DOMAIN held = {}
  BY <1>1
<1>3. tree \in [{} -> NodeType]
  <2>1. tree = [m \in {} |-> tree[m]]
    BY <1>1, <1>2
  <2> QED BY <2>1
<1>4. Attached = {}
  BY <1>1, <1>2 DEF Attached, Nodes
<1>5. TreeShape
  BY <1>1, <1>2, <1>3, <1>4 DEF TreeShape, TreeType, Linked, Rooted
<1> QED BY <1>1, <1>2, <1>4, <1>5, FS_EmptySet, MaxLeavesAssumption
        DEF BVHInv, LeavesHeld, Counted, CallState, BoxesHold, Nodes

\* One lemma for each action.
LEMMA InsertFirstStep ==
  ASSUME BVHInv, NEW view \in Box, InsertFirst(view)
  PROVE  BVHInv'
<1> DEFINE f == Fresh
<1>1. call = "none" /\ call' = "none" /\ root = Nil /\ root' = f
      /\ tree' = With(tree, f, Leaf(view)) /\ held' = With(held, f, view)
  BY DEF InsertFirst
<1>2. Nodes = {} /\ DOMAIN held = {}
  <2>1. Attached = Nodes
    BY <1>1 DEF Attached
  <2>2. root \notin Nodes
    BY <1>1, NodesFinite DEF BVHInv
  <2>3. Nodes = {}
    BY <2>1, <2>2, RootIn DEF BVHInv
  <2> QED BY <2>3, HeldCount
<1>3. f \in Node
  <2>1. Cardinality(Nodes) < 2 * MaxLeaves
    BY <1>2, FS_EmptySet, MaxLeavesAssumption
  <2> QED BY <2>1, FreshFree DEF BVHInv
<1>4. f # Nil
  BY <1>3, NodesFinite DEF BVHInv
<1> HIDE DEF f
<1>5. TreeType(tree') /\ DOMAIN tree' = {f} /\ tree'[f] = Leaf(view)
  <2>1. TreeType(tree) /\ DOMAIN tree = {} /\ Leaf(view) \in NodeType
    BY <1>2, LeafType DEF BVHInv, TreeShape, Nodes
  <2>2. tree' = With(tree, f, Leaf(view))
    BY <1>1
  <2> DEFINE l == Leaf(view)
  <2>3. TreeType(tree) /\ f \in Node /\ l \in NodeType
    BY <1>3, <2>1
  <2>4. /\ TreeType(With(tree, f, l)) /\ DOMAIN With(tree, f, l) = DOMAIN tree \cup {f} /\ With(tree, f, l)[f] = l
    <3> HIDE DEF l
    <3> QED BY ONLY <2>3, WithType
  <2> HIDE DEF l
  <2> QED BY <2>1, <2>2, <2>4 DEF l
<1>6. DOMAIN held' = {f} /\ held'[f] = view
  BY <1>1, <1>2 DEF With
<1>7. Attached' = {f} /\ Nodes' = {f}
  BY <1>1, <1>5 DEF Attached, Nodes
<1>8. TreeShape'
  BY <1>1, <1>5, <1>7, LeafType DEF TreeShape, Linked, Rooted
<1>9. LeavesHeld'
  BY <1>5, <1>6, <1>7, LeafType DEF LeavesHeld, IsLeaf
<1>10. Counted'
  <2>1. Cardinality({f}) = 1
    BY FS_Singleton
  <2> QED BY <1>1, <1>6, <1>7, <2>1, MaxLeavesAssumption DEF Counted
<1>11. CallState' /\ BoxesHold'
  BY <1>1, <1>5, <1>7, LeafType DEF CallState, BoxesHold, Covers
<1> QED BY <1>8, <1>9, <1>10, <1>11 DEF BVHInv

LEMMA InsertBeginsStep ==
  ASSUME BVHInv, NEW view \in Box, InsertBegins(view)
  PROVE  BVHInv'
<1> DEFINE f == Fresh
<1>1. call = "none" /\ call' = "search" /\ root # Nil /\ root' = root
      /\ tree' = With(tree, f, Leaf(view)) /\ held' = With(held, f, view)
      /\ cursor' = f /\ queue' = {[at |-> root, inherited |-> 0]}
      /\ best'.at = root /\ Cardinality(DOMAIN held) < MaxLeaves
  BY DEF InsertBegins
<1>2. Attached = Nodes /\ Nodes # {} /\ root \in Nodes
  <2>1. Attached = Nodes
    BY <1>1 DEF Attached
  <2>2. Nodes # {}
    BY <1>1, <2>1 DEF BVHInv, TreeShape
  <2> QED BY <2>1, <2>2, RootIn DEF BVHInv
<1>3. Cardinality(Nodes) = 2 * Cardinality(DOMAIN held) - 1
  BY <1>1, <1>2 DEF BVHInv, Counted
<1>4. f \in Node /\ f \notin Nodes
  BY <1>1, <1>3, HeldCount, FreshFree, MaxLeavesAssumption DEF BVHInv
<1>5. f # Nil /\ Nil \notin Nodes
  BY <1>4, NodesFinite DEF BVHInv
<1> HIDE DEF f
<1>6. /\ TreeType(tree') /\ DOMAIN tree' = Nodes \cup {f} /\ tree'[f] = Leaf(view)
      /\ \A m \in Nodes : tree'[m] = tree[m]
  BY <1>1, <1>4, WithType, LeafType DEF BVHInv, TreeShape, Nodes
<1>7. /\ DOMAIN held' = DOMAIN held \cup {f} /\ held'[f] = view /\ f \notin DOMAIN held
      /\ \A m \in DOMAIN held : held'[m] = held[m]
  BY <1>1, <1>4, HeldCount DEF With
<1>8. Attached' = Nodes /\ Nodes' = Nodes \cup {f}
  BY <1>1, <1>4, <1>6 DEF Attached, Nodes
<1>9. TreeShape'
  <2>1. Linked(tree', root, Nodes)
    <3>1. Linked(tree, root, Nodes)
      BY <1>2 DEF BVHInv, TreeShape
    <3> QED BY <1>6, <3>1 DEF Linked
  <2>2. Rooted(tree', root, Nodes)
    <3>1. Rooted(tree, root, Nodes)
      BY <1>2 DEF BVHInv, TreeShape
    <3> QED BY <1>6, <3>1 DEF Rooted
  <2> QED BY <1>1, <1>2, <1>6, <1>8, <2>1, <2>2 DEF TreeShape
<1>10. LeavesHeld'
  <2>1. \A m \in Nodes \cup {f} : m \in DOMAIN held' <=> tree'[m].kids[1] = Nil
    BY <1>6, <1>7, LeafType DEF BVHInv, LeavesHeld, IsLeaf
  <2>2. \A m \in DOMAIN held' : tree'[m].box = held'[m]
    BY <1>6, <1>7, HeldCount, LeafType DEF BVHInv, LeavesHeld
  <2>3. DOMAIN held' \subseteq Nodes \cup {f}
    BY <1>7, HeldCount
  <2> QED BY <1>8, <2>1, <2>2, <2>3 DEF LeavesHeld, IsLeaf
<1>11. Counted'
  <2>1. Cardinality(Nodes') = Cardinality(Nodes) + 1
    BY <1>4, <1>8, NodesFinite, FS_AddElement DEF BVHInv
  <2>2. Cardinality(DOMAIN held') = Cardinality(DOMAIN held) + 1
    BY <1>7, HeldCount, FS_AddElement
  <2> QED BY <1>1, <1>3, <2>1, <2>2, HeldCount, MaxLeavesAssumption DEF Counted
<1>12. CallState'
  <2>1. \A p \in queue' : p.at = root
    BY <1>1
  <2> QED BY <1>1, <1>2, <1>6, <1>8, <2>1, LeafType DEF CallState
<1>13. BoxesHold'
  <2>1. \A m \in Nodes : Covers(tree, m)
    BY <1>1, <1>2 DEF BVHInv, BoxesHold
  <2>2. ASSUME NEW m \in Nodes PROVE Covers(tree', m)
    <3>1. tree[m].kids[1] # Nil => tree[m].kids[1] \in Nodes /\ tree[m].kids[2] \in Nodes
      BY <1>2 DEF BVHInv, TreeShape, Linked
    <3>2. Covers(tree, m) /\ tree'[m] = tree[m]
      BY <1>6, <2>1
    <3>3. SUFFICES ASSUME tree[m].kids[1] # Nil
          PROVE \A k \in 1..2 : Holds(tree[m].box, tree'[tree[m].kids[k]].box)
      BY <3>2 DEF Covers
    <3>4. \A k \in 1..2 : tree'[tree[m].kids[k]] = tree[tree[m].kids[k]]
      BY <1>6, <3>1, <3>3
    <3> QED BY <3>2, <3>3, <3>4 DEF Covers
  <2> QED BY <1>1, <1>8, <2>2 DEF BoxesHold
<1> QED BY <1>9, <1>10, <1>11, <1>12, <1>13 DEF BVHInv

LEMMA SearchStepStep ==
  ASSUME BVHInv, SearchStep
  PROVE  BVHInv'
<1>1. call = "search" /\ call' = call /\ cursor' = cursor /\ tree' = tree /\ root' = root /\ held' = held
  BY DEF SearchStep
<1>2. PICK p \in queue : 
         /\ best' = IF p.inherited + Merged(p.at, tree[cursor].box) <= best.cost
                    THEN [at |-> p.at, cost |-> p.inherited + Merged(p.at, tree[cursor].box)] ELSE best
         /\ \/ queue' = queue \ {p}
            \/ /\ ~IsLeaf(p.at)
               /\ queue' = (queue \ {p}) \cup
                     {[at |-> tree[p.at].kids[k], inherited |-> Bound(p, tree[cursor].box)] : k \in 1..2}
  BY DEF SearchStep
<1>3. Attached' = Attached /\ Nodes' = Nodes
  BY <1>1 DEF Attached, Nodes
<1>4. p.at \in Attached /\ best.at \in Attached
  BY <1>1 DEF BVHInv, CallState
<1>5. best'.at \in Attached
  BY <1>2, <1>4
<1>6. ASSUME NEW x \in queue' PROVE x.at \in Attached
  <2>1. CASE x \in queue
    BY <1>1, <2>1 DEF BVHInv, CallState
  <2>2. CASE x \notin queue
    <3>1. PICK k \in 1..2 : x.at = tree[p.at].kids[k]
      BY <1>2, <2>2
    <3>2. tree[p.at].kids[1] # Nil
      BY <1>2, <2>2 DEF IsLeaf
    <3>3. tree[p.at].kids[1] \in Attached /\ tree[p.at].kids[2] \in Attached
      BY <1>4, <3>2 DEF BVHInv, TreeShape, Linked
    <3> QED BY <3>1, <3>3
  <2> QED BY <2>1, <2>2
<1>7. CallState'
  BY <1>1, <1>3, <1>5, <1>6 DEF BVHInv, CallState
<1>8. TreeShape' /\ LeavesHeld' /\ Counted' /\ BoxesHold'
  BY <1>1, <1>3 DEF BVHInv, TreeShape, LeavesHeld, Counted, BoxesHold, IsLeaf
<1> QED BY <1>7, <1>8 DEF BVHInv

LEMMA InsertLinksStep ==
  ASSUME BVHInv, InsertLinks
  PROVE  BVHInv'
<1> DEFINE f == Fresh
           s == best.at
           c == cursor
           up == tree[s].parent
           new == [box |-> Joined(tree[s].box, tree[c].box), parent |-> up, kids |-> <<s, c>>]
           linked == [With(tree, f, new) EXCEPT ![s].parent = f, ![c].parent = f]
           D == Nodes \ {c}
<1>1. call = "search" /\ call' = "insert" /\ held' = held /\ cursor' = f
  BY DEF InsertLinks
<1>2. /\ tree' = IF up = Nil THEN linked ELSE [linked EXCEPT ![up].kids = Replaced(@, s, f)]
      /\ root' = IF up = Nil THEN f ELSE root
  BY DEF InsertLinks
<1>3. Attached = D /\ Attached' = Nodes'
  BY <1>1 DEF Attached
<1>4. /\ c \in Nodes /\ s \in D /\ c # s /\ root \in D
      /\ tree[c].parent = Nil /\ tree[c].kids[1] = Nil /\ tree[c].kids[2] = Nil
  BY <1>1, <1>3 DEF BVHInv, CallState
<1>5. Cardinality(Nodes) = 2 * Cardinality(DOMAIN held) - 2 /\ Cardinality(DOMAIN held) <= MaxLeaves
  BY <1>1, <1>4 DEF BVHInv, Counted
<1>6. f \in Node /\ f \notin Nodes
  BY <1>5, HeldCount, FreshFree, MaxLeavesAssumption DEF BVHInv
<1>7. TreeType(tree) /\ Linked(tree, root, D) /\ Rooted(tree, root, D)
  BY <1>3 DEF BVHInv, TreeShape
<1>8. up \in D \cup {Nil} /\ up # s /\ up # c
  <2>1. Nil \notin Nodes
    BY NodesFinite DEF BVHInv
  <2>2. up \in D \cup {Nil}
    BY <1>4, <1>7 DEF Linked
  <2>3. up # s
    <3>1. Nil \notin D
      BY <2>1
    <3> HIDE DEF D
    <3> QED BY <1>4, <1>7, <3>1, NoLoop
  <2> QED BY <1>4, <2>1, <2>2, <2>3
<1> HIDE DEF f
<1>9. Inserted(tree', tree, s, c, f)
  <2>1. Inserted(IF up = Nil THEN linked ELSE [linked EXCEPT ![up].kids = Replaced(@, s, f)], tree, s, c, f)
    <3>1. c \in DOMAIN tree /\ s \in DOMAIN tree /\ f \notin DOMAIN tree /\ up \in DOMAIN tree \cup {Nil}
      BY <1>4, <1>6, <1>8 DEF Nodes
    <3> HIDE DEF s, c, up, D
    <3>2. up = tree[s].parent
      BY DEF up
    <3> QED BY <1>4, <1>6, <1>7, <1>8, <3>1, <3>2, InsertFields
  <2> QED BY <1>2, <2>1
<1> HIDE DEF s, c, linked, new
<1>10. /\ TreeType(tree') /\ Nodes' = Nodes \cup {f}
       /\ Linked(tree', root', Nodes') /\ Rooted(tree', root', Nodes')
       /\ tree'[f].kids[1] # Nil /\ tree'[f].parent = up
       /\ SameLeaves(tree', tree, Nodes)
       /\ (\A m \in D : Covers(tree, m)) => \A m \in Nodes' \ {f, up} : Covers(tree', m)
  <2>1. c \in DOMAIN tree /\ s \in DOMAIN tree /\ s # c /\ D = DOMAIN tree \ {c} /\ f \notin DOMAIN tree
    BY <1>4, <1>6 DEF Nodes
  <2>2. up = tree[s].parent /\ root' = RootAfter(tree[s].parent, f, root)
    BY <1>2 DEF RootAfter
  <2>3. Linked(tree, root, DOMAIN tree \ {c}) /\ Rooted(tree, root, DOMAIN tree \ {c})
    BY <1>7 DEF Nodes
  <2> HIDE DEF D, up
  <2>4. InsertKeeps(tree', tree, root, c, s, f)
    BY <1>4, <1>6, <1>7, <1>9, <2>1, <2>3, InsertShape
  <2> QED BY <2>1, <2>2, <2>4 DEF Nodes, InsertKeeps
<1>11. TreeShape'
  BY <1>3, <1>10 DEF TreeShape
<1>12. LeavesHeld'
  <2>1. \A m \in Nodes : m \in DOMAIN held <=> tree[m].kids[1] = Nil
    BY DEF BVHInv, LeavesHeld, IsLeaf
  <2>5. \A m \in DOMAIN held : tree[m].box = held[m]
    BY DEF BVHInv, LeavesHeld
  <2>6. ASSUME NEW m \in Nodes
        PROVE  /\ tree'[m].kids[1] = Nil <=> tree[m].kids[1] = Nil
               /\ tree[m].kids[1] = Nil => tree'[m].box = tree[m].box
    <3>1. SameLeaves(tree', tree, Nodes)
      BY <1>10
    <3> QED BY <3>1 DEF SameLeaves
  <2>2. \A m \in Nodes' : m \in DOMAIN held' <=> tree'[m].kids[1] = Nil
    BY <1>1, <1>6, <1>10, <2>1, <2>6, HeldCount
  <2>3. \A m \in DOMAIN held' : tree'[m].box = held'[m]
    BY <1>1, <2>1, <2>5, <2>6, HeldCount
  <2>4. DOMAIN held' \subseteq Nodes'
    BY <1>1, <1>10, HeldCount
  <2> QED BY <2>2, <2>3, <2>4 DEF LeavesHeld, IsLeaf
<1>13. Counted'
  <2>1. Cardinality(Nodes') = Cardinality(Nodes) + 1
    BY <1>6, <1>10, NodesFinite, FS_AddElement DEF BVHInv
  <2> QED BY <1>1, <1>5, <2>1, HeldCount DEF Counted
<1>14. CallState'
  BY <1>1, <1>10 DEF CallState, IsLeaf
<1>15. BoxesHold'
  <2>1. \A m \in D : Covers(tree, m)
    BY <1>1, <1>3 DEF BVHInv, BoxesHold
  <2> QED BY <1>1, <1>10, <2>1 DEF BoxesHold
<1> QED BY <1>11, <1>12, <1>13, <1>14, <1>15 DEF BVHInv

\* One turn of the way up at an inner node, for the invariant's parts.
LEMMA RefitsKeep ==
  ASSUME BVHInv, call # "search", call' # "search", cursor \in Nodes, ~IsLeaf(cursor),
         tree' = Rotated(Refitted(cursor), cursor), root' = root, held' = held
  PROVE  /\ TreeShape' /\ LeavesHeld' /\ Counted' /\ Nodes' = Nodes /\ Attached = Nodes /\ Attached' = Nodes
         /\ \A m \in Nodes : tree'[m].kids[1] = Nil <=> tree[m].kids[1] = Nil
         /\ (\A m \in Nodes : Covers(tree, m)) => \A m \in Nodes : Covers(tree', m)
         /\ (\A m \in Nodes \ {cursor, tree[cursor].parent} : Covers(tree, m))
               => \A m \in Nodes \ {tree[cursor].parent} : Covers(tree', m)
<1> DEFINE v == Refitted(cursor)
<1>1. Attached = Nodes /\ Attached' = Nodes'
  BY DEF Attached
<1>2. Fitted(v, tree, cursor)
  BY DEF Refitted, Fitted
<1>3. TreeType(tree) /\ Linked(tree, root, Nodes) /\ Rooted(tree, root, Nodes) /\ Nodes \in SUBSET DOMAIN tree
  BY <1>1 DEF BVHInv, TreeShape, Nodes
<1>4. cursor \in Nodes /\ tree[cursor].kids[1] # Nil
  BY DEF IsLeaf
<1> HIDE DEF v
<1>5. tree' = Rotated(v, cursor)
  BY DEF v
<1>6. /\ TreeType(tree') /\ DOMAIN tree' = DOMAIN tree
      /\ Linked(tree', root, Nodes) /\ Rooted(tree', root, Nodes)
      /\ SameLeaves(tree', tree, Nodes)
      /\ (\A m \in Nodes : Covers(tree, m)) => \A m \in Nodes : Covers(tree', m)
      /\ (\A m \in Nodes \ {cursor, tree[cursor].parent} : Covers(tree, m))
            => \A m \in Nodes \ {tree[cursor].parent} : Covers(tree', m)
  <2>1. /\ TreeType(Rotated(v, cursor)) /\ DOMAIN Rotated(v, cursor) = DOMAIN tree
        /\ Linked(Rotated(v, cursor), root, Nodes) /\ Rooted(Rotated(v, cursor), root, Nodes)
        /\ SameLeaves(Rotated(v, cursor), tree, Nodes)
        /\ (\A m \in Nodes : Covers(tree, m)) => \A m \in Nodes : Covers(Rotated(v, cursor), m)
        /\ (\A m \in Nodes \ {cursor, tree[cursor].parent} : Covers(tree, m))
              => \A m \in Nodes \ {tree[cursor].parent} : Covers(Rotated(v, cursor), m)
    BY ONLY <1>2, <1>3, <1>4, RefitTurn
  <2> QED BY ONLY <1>5, <2>1
<1>7. Nodes' = Nodes
  BY <1>6 DEF Nodes
<1>8. TreeShape'
  BY <1>1, <1>4, <1>6, <1>7 DEF TreeShape
<1>9. LeavesHeld'
  <2>1. \A m \in Nodes : m \in DOMAIN held <=> tree[m].kids[1] = Nil
    BY DEF BVHInv, LeavesHeld, IsLeaf
  <2>4. \A m \in DOMAIN held : tree[m].box = held[m]
    BY DEF BVHInv, LeavesHeld
  <2>5. ASSUME NEW m \in Nodes
        PROVE  /\ tree'[m].kids[1] = Nil <=> tree[m].kids[1] = Nil
               /\ tree[m].kids[1] = Nil => tree'[m].box = tree[m].box
    <3>1. SameLeaves(tree', tree, Nodes)
      BY <1>6
    <3> QED BY <3>1 DEF SameLeaves
  <2>2. \A m \in Nodes : m \in DOMAIN held' <=> tree'[m].kids[1] = Nil
    BY <2>1, <2>5
  <2>3. \A m \in DOMAIN held : tree'[m].box = held[m]
    BY <2>1, <2>4, <2>5, HeldCount
  <2> QED BY <1>7, <2>2, <2>3, HeldCount DEF LeavesHeld, IsLeaf
<1>10. Counted'
  BY <1>7 DEF BVHInv, Counted
<1> QED BY <1>1, <1>6, <1>7, <1>8, <1>9, <1>10 DEF SameLeaves

LEMMA ParentIn ==
  ASSUME BVHInv, Attached = Nodes, NEW n \in Nodes, tree[n].parent # Nil
  PROVE  tree[n].parent \in Nodes /\ ~IsLeaf(tree[n].parent)
<1>1. Linked(tree, root, Nodes) /\ Nil \notin Nodes
  BY NodesFinite DEF BVHInv, TreeShape
<1>2. tree[n].parent \in Nodes /\ n \in {tree[tree[n].parent].kids[1], tree[tree[n].parent].kids[2]}
  BY <1>1 DEF Linked
<1> QED BY <1>1, <1>2 DEF Linked, IsLeaf

LEMMA InsertRefitsStep ==
  ASSUME BVHInv, InsertRefits
  PROVE  BVHInv'
<1> DEFINE p == tree[cursor].parent
<1>1. /\ call = "insert" /\ cursor \in Nodes /\ ~IsLeaf(cursor)
      /\ tree' = Rotated(Refitted(cursor), cursor) /\ root' = root /\ held' = held
      /\ cursor' = p /\ call' = IF p = Nil THEN "none" ELSE "insert"
  BY DEF InsertRefits, BVHInv, CallState
<1>2. call # "search" /\ call' # "search"
  BY <1>1
<1>3. /\ TreeShape' /\ LeavesHeld' /\ Counted' /\ Nodes' = Nodes /\ Attached = Nodes /\ Attached' = Nodes
      /\ \A m \in Nodes : tree'[m].kids[1] = Nil <=> tree[m].kids[1] = Nil
      /\ \A m \in Nodes \ {p} : Covers(tree', m)
  <2>1. \A m \in Nodes \ {cursor, p} : Covers(tree, m)
    BY <1>1 DEF BVHInv, BoxesHold
  <2> QED BY <1>1, <1>2, <2>1, RefitsKeep
<1>4. p # Nil => p \in Nodes /\ ~IsLeaf(p)
  BY <1>1, <1>3, ParentIn
<1> HIDE DEF p
<1>5. CallState'
  BY <1>1, <1>3, <1>4 DEF CallState, IsLeaf
<1>6. BoxesHold'
  <2>1. Nil \notin Nodes
    BY NodesFinite DEF BVHInv
  <2> QED BY <1>1, <1>3, <2>1 DEF BoxesHold
<1> QED BY <1>3, <1>5, <1>6 DEF BVHInv

LEMMA DeleteRefitsStep ==
  ASSUME BVHInv, DeleteRefits
  PROVE  BVHInv'
<1> DEFINE p == tree[cursor].parent
<1>1. call = "delete" /\ cursor \in Nodes /\ ~IsLeaf(cursor) /\ root' = root /\ held' = held
  BY DEF DeleteRefits, BVHInv, CallState
<1>2. Attached = Nodes
  BY <1>1 DEF Attached
<1>3. \A m \in Nodes : Covers(tree, m)
  BY <1>1, <1>2 DEF BVHInv, BoxesHold
<1>4. CASE p = Nil
  <2>1. call' = "none" /\ tree' = tree
    BY <1>4 DEF DeleteRefits
  <2>2. Attached' = Nodes /\ Nodes' = Nodes
    BY <2>1 DEF Attached, Nodes
  <2> QED BY <1>1, <1>2, <1>3, <2>1, <2>2
          DEF BVHInv, TreeShape, LeavesHeld, Counted, CallState, BoxesHold, IsLeaf
<1>5. CASE p # Nil
  <2>1. /\ tree' = Rotated(Refitted(cursor), cursor)
        /\ cursor' = p /\ call' = "delete"
    BY <1>1, <1>5 DEF DeleteRefits
  <2>2. /\ TreeShape' /\ LeavesHeld' /\ Counted' /\ Nodes' = Nodes /\ Attached' = Nodes
        /\ \A m \in Nodes : tree'[m].kids[1] = Nil <=> tree[m].kids[1] = Nil
        /\ \A m \in Nodes : Covers(tree', m)
    <3>1. call # "search" /\ call' # "search"
      BY <1>1, <2>1
    <3> QED BY <1>1, <1>3, <2>1, <3>1, RefitsKeep
  <2>3. p \in Nodes /\ ~IsLeaf(p)
    BY <1>1, <1>2, <1>5, ParentIn
  <2> HIDE DEF p
  <2>4. CallState' /\ BoxesHold'
    BY <2>1, <2>2, <2>3 DEF CallState, BoxesHold, IsLeaf
  <2> QED BY <2>2, <2>4 DEF BVHInv
<1> QED BY <1>4, <1>5

\* A leaf without a parent is the whole tree.
LEMMA OnlyRoot ==
  ASSUME NEW t, TreeType(t), NEW r, Linked(t, r, DOMAIN t), Rooted(t, r, DOMAIN t),
         NEW n \in DOMAIN t, t[n].kids[1] = Nil, t[n].parent = Nil
  PROVE  DOMAIN t = {n}
<1>0. Nil \notin DOMAIN t
  BY NilAssumption DEF TreeType, Node
<1>1. n = r /\ t[n].kids[2] = Nil
  BY <1>0 DEF Linked
<1>2. \A m \in DOMAIN t \ {n} : m = r \/ t[m].parent \in DOMAIN t \ {n}
  BY <1>0, <1>1 DEF Linked
<1>3. DOMAIN t \ {n} = {}
  BY <1>1, <1>2 DEF Rooted
<1> QED BY <1>3

LEMMA DeleteStep ==
  ASSUME BVHInv, NEW n \in DOMAIN held, Delete(n)
  PROVE  BVHInv'
<1> DEFINE p == tree[n].parent
           s == Other(tree, p, n)
           g == tree[p].parent
<1>1. call = "none" /\ DOMAIN held' = DOMAIN held \ {n} /\ \A m \in DOMAIN held' : held'[m] = held[m]
  BY DEF Delete, Without
<1>2. /\ p = Nil => /\ tree' = Without(tree, {n}) /\ root' = Nil
                    /\ call' = "none"
      /\ p # Nil => tree' = CutOut(tree, n, p, s, g)
      /\ p # Nil => /\ root' = RootAfter(g, s, root)
                    /\ call' = IF g = Nil THEN "none" ELSE "delete"
                    /\ g # Nil => cursor' = g
  BY <1>1 DEF Delete, RootAfter, CutOut
<1>3. Attached = Nodes
  BY <1>1 DEF Attached
<1>4. /\ TreeType(tree) /\ Linked(tree, root, DOMAIN tree) /\ Rooted(tree, root, DOMAIN tree)
      /\ \A m \in DOMAIN tree : Covers(tree, m)
  BY <1>1, <1>3 DEF BVHInv, TreeShape, BoxesHold, Nodes
<1>5. n \in DOMAIN tree /\ tree[n].kids[1] = Nil
  BY DEF BVHInv, LeavesHeld, IsLeaf, Nodes
<1>6. Cardinality(Nodes) = 2 * Cardinality(DOMAIN held) - 1
  BY <1>1, <1>5 DEF BVHInv, Counted, Nodes
<1>7. Cardinality(DOMAIN held') = Cardinality(DOMAIN held) - 1 /\ Cardinality(DOMAIN held) <= MaxLeaves
  BY <1>1, HeldCount, FS_RemoveElement DEF BVHInv, Counted
<1> HIDE DEF p
<1>8. CASE p = Nil
  <2>1. DOMAIN tree = {n}
    BY <1>4, <1>5, <1>8, OnlyRoot DEF p
  <2>2. DOMAIN tree' = {} /\ TreeType(tree')
    BY <1>2, <1>4, <1>8, <2>1 DEF Without, TreeType
  <2>3. DOMAIN held' = {}
    BY <1>1, <2>1, HeldCount DEF Nodes
  <2>4. Nodes' = {} /\ Attached' = {}
    BY <2>2 DEF Nodes, Attached
  <2>5. TreeShape'
    BY <1>2, <1>8, <2>2, <2>4 DEF TreeShape, Linked, Rooted
  <2> QED BY <1>2, <1>8, <2>3, <2>4, <2>5, FS_EmptySet, MaxLeavesAssumption
          DEF BVHInv, LeavesHeld, Counted, CallState, BoxesHold
<1>9. CASE p # Nil
  <2> USE <1>9
  <2>1. /\ p \in DOMAIN tree /\ s \in DOMAIN tree /\ g \in DOMAIN tree \cup {Nil}
        /\ s # n /\ s # p /\ p # n /\ g \notin {n, p, s}
    BY <1>4, <1>5, Relatives DEF p
  <2>2. p = tree[n].parent /\ s = Other(tree, p, n) /\ g = tree[p].parent
    BY DEF p
  <2> HIDE DEF s, g
  <2>3. Deleted(CutOut(tree, n, p, s, g), tree, n, p, s, g)
    BY <1>4, <1>5, <2>1, <2>2, DeleteFields
  <2>4. Deleted(tree', tree, n, p, s, g)
    BY <1>2, <2>3
  <2>5. DeleteKeeps(tree', tree, root, n, p, s, g)
    BY <1>4, <1>5, <2>1, <2>2, <2>4, DeleteShape
  <2>6. /\ TreeType(tree') /\ DOMAIN tree' = DOMAIN tree \ {n, p} /\ s \in DOMAIN tree'
        /\ Linked(tree', root', DOMAIN tree') /\ Rooted(tree', root', DOMAIN tree')
        /\ g # Nil => g \in DOMAIN tree' /\ tree'[g].kids[1] # Nil
        /\ tree[p].kids[1] # Nil
        /\ SameLeaves(tree', tree, DOMAIN tree')
        /\ \A m \in DOMAIN tree' : Covers(tree', m)
    BY <1>2, <1>4, <2>5 DEF DeleteKeeps
  <2>7. Attached' = Nodes' /\ Nodes' = Nodes \ {n, p}
    BY <1>2, <2>6 DEF Attached, Nodes
  <2>8. TreeShape'
    BY <2>6, <2>7 DEF TreeShape, Nodes
  <2>9. LeavesHeld'
    <3>1. \A m \in Nodes : m \in DOMAIN held <=> tree[m].kids[1] = Nil
      BY DEF BVHInv, LeavesHeld, IsLeaf
    <3>2. \A m \in DOMAIN held : tree[m].box = held[m]
      BY DEF BVHInv, LeavesHeld
    <3>3. ASSUME NEW m \in Nodes'
          PROVE  /\ tree'[m].kids[1] = Nil <=> tree[m].kids[1] = Nil
                 /\ tree[m].kids[1] = Nil => tree'[m].box = tree[m].box
      <4>1. SameLeaves(tree', tree, Nodes')
        BY <2>6 DEF Nodes
      <4> QED BY <4>1 DEF SameLeaves
    <3>4. p \in Nodes /\ p \notin DOMAIN held
      BY <2>1, <2>6, <3>1 DEF Nodes
    <3>5. DOMAIN held' \subseteq Nodes'
      BY <1>1, <2>7, <3>4, HeldCount
    <3>6. \A m \in Nodes' : m \in DOMAIN held' <=> tree'[m].kids[1] = Nil
      BY <1>1, <2>7, <3>1, <3>3
    <3>7. \A m \in DOMAIN held' : tree'[m].box = held'[m]
      BY <1>1, <3>1, <3>2, <3>3, <3>5, HeldCount
    <3> QED BY <3>5, <3>6, <3>7 DEF LeavesHeld, IsLeaf
  <2>10. Counted'
    <3>1. IsFiniteSet(Nodes) /\ n \in Nodes /\ p \in Nodes /\ p # n
      BY <1>5, <2>1, NodesFinite DEF BVHInv, Nodes
    <3>2. IsFiniteSet(Nodes \ {n}) /\ Cardinality(Nodes \ {n}) = Cardinality(Nodes) - 1
      BY <3>1, FS_RemoveElement
    <3>3. Cardinality((Nodes \ {n}) \ {p}) = Cardinality(Nodes \ {n}) - 1
      BY <3>1, <3>2, FS_RemoveElement
    <3>4. (Nodes \ {n}) \ {p} = Nodes'
      BY <2>7
    <3>5. Cardinality(Nodes') = 2 * Cardinality(DOMAIN held') - 1
      BY <1>6, <1>7, <3>2, <3>3, <3>4, HeldCount
    <3>6. call' # "search"
      BY <1>2
    <3> QED BY <1>7, <3>5, <3>6, HeldCount, MaxLeavesAssumption DEF Counted
  <2>11. CallState'
    BY <1>2, <2>6 DEF CallState, IsLeaf, Nodes
  <2>12. BoxesHold'
    BY <1>2, <2>6, <2>7 DEF BoxesHold, Nodes
  <2> QED BY <2>8, <2>9, <2>10, <2>11, <2>12 DEF BVHInv
<1> QED BY <1>8, <1>9

LEMMA NextBVHInv == BVHInv /\ [BVHNext]_bvhVars => BVHInv'
<1> SUFFICES ASSUME BVHInv, [BVHNext]_bvhVars PROVE BVHInv'
  OBVIOUS
<1>1. ASSUME NEW view \in Box, InsertFirst(view) \/ InsertBegins(view) PROVE BVHInv'
  BY <1>1, InsertFirstStep, InsertBeginsStep
<1>2. CASE SearchStep
  BY <1>2, SearchStepStep
<1>3. CASE InsertLinks
  BY <1>3, InsertLinksStep
<1>4. CASE InsertRefits
  BY <1>4, InsertRefitsStep
<1>5. ASSUME NEW n \in DOMAIN held, Delete(n) PROVE BVHInv'
  BY <1>5, DeleteStep
<1>6. CASE DeleteRefits
  BY <1>6, DeleteRefitsStep
<1>7. CASE UNCHANGED bvhVars
  BY <1>7 DEF bvhVars, BVHInv, TreeShape, LeavesHeld, Counted, CallState, BoxesHold, Attached, Nodes, IsLeaf
<1> QED BY <1>1, <1>2, <1>3, <1>4, <1>5, <1>6, <1>7 DEF BVHNext

LEMMA BVHInvariant == BVHSpec => []BVHInv
BY InitBVHInv, NextBVHInv, PTL DEF BVHSpec

\* Whatever boxes are inserted and deleted in whatever order, and with the
\* rotations of every refitting: between calls the nodes are one tree, parents and
\* children know each other, and its leaves are the boxes inserted and not
\* deleted (bvh.go, Insert, Delete).
THEOREM BVHTreeLinked == BVHSpec => []TreeLinked
<1>1. BVHInv => TreeLinked
  <2> SUFFICES ASSUME BVHInv, call = "none" PROVE TreeLinked
    BY DEF TreeLinked
  <2>1. Attached = Nodes
    BY DEF Attached
  <2>2. Linked(tree, root, Nodes) /\ Rooted(tree, root, Nodes) /\ Nil \notin Nodes
    BY <2>1, NodesFinite DEF BVHInv, TreeShape
  <2>3. ASSUME NEW S \in SUBSET Nodes, root \in S,
               \A m \in S : {tree[m].kids[1], tree[m].kids[2]} \subseteq S \cup {Nil}
        PROVE  S = Nodes
    <3>1. \A m \in Nodes \ S : m = root \/ tree[m].parent \in Nodes \ S
      BY <2>2, <2>3 DEF Linked
    <3>2. Nodes \ S = {}
      BY <2>2, <2>3, <3>1 DEF Rooted
    <3> QED BY <3>2
  <2>4. Visited = Nodes
    BY <2>3 DEF Visited
  <2>5. {n \in Nodes : IsLeaf(n)} = DOMAIN held /\ \A n \in DOMAIN held : tree[n].box = held[n]
    BY DEF BVHInv, LeavesHeld
  <2>6. ASSUME NEW n \in Nodes
        PROVE  /\ IF n = root THEN tree[n].parent = Nil
                  ELSE tree[n].parent \in Nodes /\ \E k \in 1..2 : tree[tree[n].parent].kids[k] = n
               /\ ~IsLeaf(n) => tree[n].kids[1] # tree[n].kids[2]
                                /\ \A k \in 1..2 : tree[tree[n].kids[k]].parent = n
    BY <2>2 DEF Linked, IsLeaf
  <2> QED BY <2>4, <2>5, <2>6 DEF TreeLinked
<1> QED BY <1>1, BVHInvariant, PTL

\* And the box of every inner node holds its children's: Find leaves nothing
\* out (bvh.go, Insert, Delete and the refitting loop).
THEOREM BVHBoxesCover == BVHSpec => []BoxesCover
<1>1. BVHInv => BoxesCover
  <2> SUFFICES ASSUME BVHInv, call = "none", NEW n \in Nodes, NEW k \in 1..2, ~IsLeaf(n)
      PROVE  Joined(tree[n].box, tree[tree[n].kids[k]].box) = tree[n].box
    BY DEF BoxesCover
  <2>1. Attached = Nodes
    BY DEF Attached
  <2>2. Covers(tree, n)
    BY <2>1 DEF BVHInv, BoxesHold
  <2>3. tree[n].kids[k] \in Nodes
    <3>1. Linked(tree, root, Nodes)
      BY <2>1 DEF BVHInv, TreeShape
    <3> QED BY <3>1 DEF Linked, IsLeaf
  <2>4. tree[n].box \in BoxType /\ tree[tree[n].kids[k]].box \in BoxType
    <3>1. \A m \in Nodes : tree[m] \in NodeType
      BY DEF BVHInv, TreeShape, TreeType, Nodes
    <3> QED BY <2>3, <3>1, NodeParts
  <2>5. Holds(tree[n].box, tree[tree[n].kids[k]].box)
    BY <2>2 DEF Covers, IsLeaf
  <2> QED BY <2>4, <2>5, JoinedHolds
<1> QED BY <1>1, BVHInvariant, PTL

\* What merging a box into a node costs, for any tree.
MergedIn(t, n, view) == Surface(Joined(t[n].box, view))

GrowthIn(t, n, view) == MergedIn(t, n, view) - Surface(t[n].box)

\* CostAt, for a tree t: what the ancestors of m grow by, and the sum.
GrownIn(t, view) ==
    CHOOSE g : g = [m \in DOMAIN t |->
        LET p == t[m].parent IN IF p = Nil THEN 0 ELSE g[p] + GrowthIn(t, p, view)]

CostIn(t, n, view) == GrownIn(t, view)[n] + MergedIn(t, n, view)

\* The cost of the module is the one of its tree.
LEMMA CostAtIn ==
  ASSUME NEW n, NEW view
  PROVE  CostAt(n, view) = CostIn(tree, n, view)
BY DEF CostAt, CostIn, GrownIn, GrowthIn, MergedIn, Growth, Merged, Nodes

\* A merged box has no less surface than either.
LEMMA SurfaceFacts ==
  ASSUME NEW a \in BoxType, NEW b \in BoxType
  PROVE  /\ Surface(a) \in Int /\ Surface(Joined(a, b)) \in Int
         /\ Surface(a) <= Surface(Joined(a, b)) /\ Surface(b) <= Surface(Joined(a, b))
<1>1. /\ \A k \in 1..3 : a.lo[k] \in Int /\ a.hi[k] \in Int /\ b.lo[k] \in Int /\ b.hi[k] \in Int
  BY DEF BoxType
<1>2. \A k \in 1..3 : /\ Joined(a, b).lo[k] = Lower(a.lo[k], b.lo[k])
                      /\ Joined(a, b).hi[k] = Upper(a.hi[k], b.hi[k])
  BY DEF Joined
<1>3. \A k \in 1..3 :
        /\ Joined(a, b).lo[k] \in Int /\ Joined(a, b).hi[k] \in Int
        /\ Joined(a, b).lo[k] <= a.lo[k] /\ Joined(a, b).lo[k] <= b.lo[k]
        /\ a.hi[k] <= Joined(a, b).hi[k] /\ b.hi[k] <= Joined(a, b).hi[k]
  BY <1>1, <1>2 DEF Lower, Upper
<1>4. 1 \in 1..3 /\ 2 \in 1..3
  OBVIOUS
<1> DEFINE j == Joined(a, b)
<1> HIDE DEF j
<1>5. \A k \in 1..2 : /\ a.lo[k] \in Int /\ a.hi[k] \in Int /\ b.lo[k] \in Int /\ b.hi[k] \in Int
                      /\ j.lo[k] \in Int /\ j.hi[k] \in Int
                      /\ j.lo[k] <= a.lo[k] /\ j.lo[k] <= b.lo[k] /\ a.hi[k] <= j.hi[k] /\ b.hi[k] <= j.hi[k]
  BY <1>1, <1>3 DEF j
<1>6. Surface(a) \in Int /\ Surface(j) \in Int /\ Surface(a) <= Surface(j) /\ Surface(b) <= Surface(j)
  BY <1>5 DEF Surface
<1> QED BY <1>6 DEF j

\* No node shrinks, and merging costs at least the surface of the box.
LEMMA GrowthFacts ==
  ASSUME NEW t, TreeType(t), NEW n \in DOMAIN t, NEW view \in BoxType
  PROVE  /\ MergedIn(t, n, view) \in Int /\ Surface(view) \in Int /\ Surface(view) <= MergedIn(t, n, view)
         /\ GrowthIn(t, n, view) \in Int /\ 0 <= GrowthIn(t, n, view)
<1>1. t[n].box \in BoxType
  BY DEF TreeType, NodeType
<1>2. Surface(view) \in Int
  BY SurfaceFacts
<1> QED BY <1>1, <1>2, SurfaceFacts DEF MergedIn, GrowthIn

\* The recursion of GrownIn computes what it says, for every node of the tree.
LEMMA GrownFacts ==
  ASSUME NEW t, TreeType(t), NEW r, NEW D \in SUBSET DOMAIN t, Linked(t, r, D), Rooted(t, r, D),
         \A m \in DOMAIN t \ D : t[m].parent = Nil, NEW view \in BoxType
  PROVE  /\ GrownIn(t, view) \in [DOMAIN t -> Int]
         /\ \A m \in DOMAIN t :
              GrownIn(t, view)[m] = IF t[m].parent = Nil THEN 0
                                   ELSE GrownIn(t, view)[t[m].parent] + GrowthIn(t, t[m].parent, view)
<1> DEFINE N == DOMAIN t
           up == [m \in N |-> t[m].parent]
           base == [m \in N |-> 0]
           step == [m \in N |-> [v \in Int |-> IF t[m].parent = Nil THEN v
                                               ELSE v + GrowthIn(t, t[m].parent, view)]]
<1>1. Nil \notin N
  BY NilAssumption DEF TreeType, Node
<1>2. ASSUME NEW m \in N PROVE t[m].parent = Nil \/ t[m].parent \in N
  BY <1>2 DEF Linked
<1>3. up \in [N -> N \cup {Nil}]
  BY <1>2
<1>4. ASSUME NEW S \in SUBSET N, S # {} PROVE \E n \in S : up[n] \notin S
  <2>1. SUFFICES ASSUME \A n \in S : t[n].parent \in S PROVE FALSE
    OBVIOUS
  <2>2. S \in SUBSET D
    BY <1>1, <2>1
  <2>3. r \in S
    BY <1>4, <2>1, <2>2 DEF Rooted
  <2> QED BY <1>1, <2>1, <2>2, <2>3 DEF Linked
<1>5. base \in [N -> Int] /\ step \in [N -> [Int -> Int]]
  <2>1. ASSUME NEW m \in N, t[m].parent # Nil PROVE GrowthIn(t, t[m].parent, view) \in Int
    BY <1>2, <2>1, GrowthFacts
  <2> QED BY <2>1
<1>6. \E g \in [N -> Int] : \A n \in N : g[n] = IF up[n] = Nil THEN base[n] ELSE step[n][g[up[n]]]
  <2>1. Grounded(up, N, Nil)
    BY <1>1, <1>3, <1>4 DEF Grounded
  <2>2. \E g \in [N -> Int] : Follows(g, N, up, Nil, base, step)
    <3> HIDE DEF N, up, base, step
    <3> QED BY <1>5, <2>1, Recursion
  <2> QED BY <2>2 DEF Follows
<1>7. PICK g \in [N -> Int] : \A n \in N : g[n] = IF up[n] = Nil THEN base[n] ELSE step[n][g[up[n]]]
  BY <1>6
<1>8. ASSUME NEW m \in N
      PROVE  g[m] = IF t[m].parent = Nil THEN 0 ELSE g[t[m].parent] + GrowthIn(t, t[m].parent, view)
  <2>1. t[m].parent # Nil => g[t[m].parent] \in Int
    BY <1>2, <1>7
  <2> QED BY <1>7, <2>1
<1>9. g = [m \in DOMAIN t |->
             LET p == t[m].parent IN IF p = Nil THEN 0 ELSE g[p] + GrowthIn(t, p, view)]
  BY <1>7, <1>8
<1> DEFINE Is(h) == h = [m \in DOMAIN t |->
             LET p == t[m].parent IN IF p = Nil THEN 0 ELSE h[p] + GrowthIn(t, p, view)]
<1>10. Is(GrownIn(t, view))
  <2>1. \E h : Is(h)
    BY <1>9
  <2>2. GrownIn(t, view) = CHOOSE h : Is(h)
    BY DEF GrownIn
  <2> HIDE DEF Is
  <2> QED BY <2>1, <2>2
<1> DEFINE q == GrownIn(t, view)
<1>11. ASSUME NEW m \in N
       PROVE  q[m] = IF t[m].parent = Nil THEN 0 ELSE q[t[m].parent] + GrowthIn(t, t[m].parent, view)
  BY <1>10
<1>12. q = [m \in N |-> q[m]]
  BY <1>10
<1> HIDE DEF q, Is
<1>13. \A m \in N : q[m] = g[m]
  <2> DEFINE S == {m \in N : q[m] # g[m]}
  <2>1. SUFFICES ASSUME S # {} PROVE FALSE
    OBVIOUS
  <2>2. PICK m \in S : up[m] \notin S
    BY <1>4, <2>1
  <2>3. m \in N /\ q[m] # g[m]
    BY <2>2
  <2>4. t[m].parent # Nil => q[t[m].parent] = g[t[m].parent]
    BY <1>2, <2>2, <2>3
  <2> QED BY <1>8, <1>11, <2>3, <2>4
<1>14. q \in [N -> Int]
  BY <1>7, <1>12, <1>13
<1> QED BY <1>11, <1>14 DEF q

\* Who follows the parents from n comes to a.
Above(t, r, D, a, n) ==
    \A S \in SUBSET D : n \in S /\ (\A m \in S : m = r \/ t[m].parent \in S) => a \in S

LEMMA AboveKid ==
  ASSUME NEW t, NEW r, NEW D, Nil \notin D, Linked(t, r, D),
         NEW a \in D, NEW n \in D, Above(t, r, D, a, n), n # a
  PROVE  /\ t[a].kids[1] # Nil
         /\ Above(t, r, D, t[a].kids[1], n) \/ Above(t, r, D, t[a].kids[2], n)
<1> DEFINE Up(S) == \A m \in S : m = r \/ t[m].parent \in S
<1>1. ASSUME NEW S \in SUBSET D, Up(S), n \in S, t[a].kids[1] \notin S, t[a].kids[2] \notin S
      PROVE  FALSE
  <2>1. ASSUME NEW m \in S \ {a}, m # r PROVE t[m].parent \in S \ {a}
    <3>1. t[m].parent \in S /\ m \in {t[t[m].parent].kids[1], t[t[m].parent].kids[2]}
      BY <1>1, <2>1 DEF Linked
    <3> QED BY <1>1, <3>1
  <2>2. Up(S \ {a}) /\ n \in S \ {a} /\ S \ {a} \in SUBSET D
    BY <1>1, <2>1
  <2> QED BY <2>2 DEF Above
<1>2. t[a].kids[1] # Nil
  <2>1. SUFFICES ASSUME t[a].kids[1] = Nil PROVE FALSE
    OBVIOUS
  <2>2. t[a].kids[2] = Nil
    BY <2>1 DEF Linked
  <2>3. Up(D) /\ D \in SUBSET D
    BY DEF Linked
  <2> QED BY <1>1, <2>1, <2>2, <2>3
<1>3. SUFFICES ASSUME ~ Above(t, r, D, t[a].kids[1], n), ~ Above(t, r, D, t[a].kids[2], n)
      PROVE FALSE
  BY <1>2
<1>4. PICK S1 \in SUBSET D : n \in S1 /\ Up(S1) /\ t[a].kids[1] \notin S1
  BY <1>3 DEF Above
<1>5. PICK S2 \in SUBSET D : n \in S2 /\ Up(S2) /\ t[a].kids[2] \notin S2
  BY <1>3 DEF Above
<1>6. Up(S1 \cap S2) /\ S1 \cap S2 \in SUBSET D /\ n \in S1 \cap S2
  BY <1>4, <1>5
<1> QED BY <1>1, <1>4, <1>5, <1>6

\* What the boxes from a upwards grow by, a node below a has to bear, too.
LEMMA GrownBelow ==
  ASSUME NEW t, TreeType(t), NEW r, NEW D \in SUBSET DOMAIN t, Linked(t, r, D), Rooted(t, r, D),
         \A m \in DOMAIN t \ D : t[m].parent = Nil, NEW view \in BoxType,
         NEW a \in D, NEW n \in D, Above(t, r, D, a, n), n # a
  PROVE  GrownIn(t, view)[a] + GrowthIn(t, a, view) <= GrownIn(t, view)[n]
<1> DEFINE g == GrownIn(t, view)
           x == g[a] + GrowthIn(t, a, view)
           S == {m \in D : m # a /\ g[m] < x}
<1>1. /\ g \in [DOMAIN t -> Int]
      /\ \A m \in DOMAIN t :
           g[m] = IF t[m].parent = Nil THEN 0 ELSE g[t[m].parent] + GrowthIn(t, t[m].parent, view)
  BY GrownFacts
<1> HIDE DEF g
<1>2. Nil \notin D
  BY NilAssumption DEF TreeType, Node
<1>3. \A m \in D : g[m] \in Int /\ GrowthIn(t, m, view) \in Int /\ 0 <= GrowthIn(t, m, view)
  BY <1>1, GrowthFacts
<1>4. ASSUME NEW m \in S, m # r PROVE t[m].parent \in S
  <2>1. t[m].parent \in D
    BY <1>4 DEF Linked
  <2>2. g[m] = g[t[m].parent] + GrowthIn(t, t[m].parent, view) /\ g[m] < x /\ g[m] \in Int
    BY <1>1, <1>2, <1>3, <2>1
  <2>3. t[m].parent # a
    BY <1>3, <2>2
  <2>4. g[t[m].parent] < x
    BY <1>3, <2>1, <2>2
  <2> QED BY <2>1, <2>3, <2>4
<1>5. n \notin S
  BY <1>4 DEF Above
<1> QED BY <1>3, <1>5 DEF g

\* The cost of the best so far is that of a node, the queue carries the true
\* sums, and what the search has not seen beats the best only below the queue.
SearchInv ==
    call = "search" =>
      LET b == tree[cursor].box IN
      /\ best.cost = CostIn(tree, best.at, b)
      /\ \A p \in queue : p.inherited = GrownIn(tree, b)[p.at]
      /\ \A n \in Attached :
           best.cost <= CostIn(tree, n, b) \/ \E p \in queue : Above(tree, root, Attached, p.at, n)

LEMMA InsertBeginsSearch ==
  ASSUME BVHInv, BVHInv', NEW view \in Box, InsertBegins(view)
  PROVE  SearchInv'
<1>1. call' = "search" /\ queue' = {[at |-> root, inherited |-> 0]}
      /\ best'.at = root /\ best'.cost = Merged(root, view) /\ root' = root
      /\ tree' = With(tree, Fresh, Leaf(view)) /\ cursor' = Fresh
  BY DEF InsertBegins
<1> DEFINE D == Attached'
           t == tree'
           b == tree'[cursor'].box
<1>2. /\ TreeType(t) /\ Linked(t, root, D) /\ Rooted(t, root, D) /\ D \in SUBSET DOMAIN t
      /\ D = DOMAIN t \ {cursor'} /\ root \in D /\ cursor' \in DOMAIN t /\ t[cursor'].parent = Nil
  BY <1>1 DEF BVHInv, TreeShape, CallState, Attached, Nodes
<1>3. b = view /\ t[cursor'] = Leaf(view)
  BY <1>1, LeafType DEF With
<1>4. b \in BoxType
  BY <1>3, BoxAssumption DEF BoxType
<1>5. t[root] = tree[root]
  BY <1>1, <1>2 DEF With
<1>6. GrownIn(t, b)[root] = 0 /\ MergedIn(t, root, b) \in Int
  <2>1. t[root].parent = Nil
    BY <1>2 DEF Linked
  <2>2. \A m \in DOMAIN t \ D : t[m].parent = Nil
    BY <1>2
  <2> HIDE DEF t, D, b
  <2> QED BY <1>2, <1>4, <2>1, <2>2, GrownFacts, GrowthFacts
<1>7. best'.cost = CostIn(t, root, b)
  BY <1>1, <1>3, <1>5, <1>6 DEF CostIn, MergedIn, Merged
<1>8. ASSUME NEW n \in D PROVE Above(t, root, D, root, n)
  BY <1>2 DEF Above, Rooted
<1>9. \A p \in queue' : p.at = root /\ p.inherited = GrownIn(t, b)[p.at]
  BY <1>1, <1>6
<1>10. \E p \in queue' : p.at = root
  BY <1>1
<1> QED BY <1>1, <1>7, <1>8, <1>9, <1>10 DEF SearchInv

\* One turn of the search: what it takes off the heap it compares, and what it
\* puts there or leaves out the bound decides.
LEMMA SearchStepSearch ==
  ASSUME BVHInv, SearchInv, SearchStep
  PROVE  SearchInv'
<1> DEFINE D == Attached
           b == tree[cursor].box
           g == GrownIn(tree, b)
<1>1. call = "search" /\ cursor' = cursor /\ tree' = tree /\ root' = root /\ Attached' = Attached
  BY DEF SearchStep, Attached, Nodes
<1>2. /\ TreeType(tree) /\ Linked(tree, root, D) /\ Rooted(tree, root, D) /\ D \in SUBSET DOMAIN tree
      /\ D = DOMAIN tree \ {cursor} /\ cursor \in DOMAIN tree
      /\ \A m \in DOMAIN tree \ D : tree[m].parent = Nil
      /\ best.at \in D /\ \A p \in queue : p.at \in D
  BY <1>1 DEF BVHInv, TreeShape, CallState, Attached, Nodes
<1>3. b \in BoxType /\ Nil \notin D
  BY <1>2, NilAssumption DEF TreeType, NodeType, Node
<1>4. /\ best.cost = CostIn(tree, best.at, b)
      /\ \A p \in queue : p.inherited = g[p.at]
      /\ \A n \in D : best.cost <= CostIn(tree, n, b) \/ \E p \in queue : Above(tree, root, D, p.at, n)
  BY <1>1 DEF SearchInv
<1> DEFINE Better(p) == IF p.inherited + Merged(p.at, b) <= best.cost
                        THEN [at |-> p.at, cost |-> p.inherited + Merged(p.at, b)] ELSE best
           Explore(p) == ~IsLeaf(p.at) /\ Bound(p, b) + Surface(b) < Better(p).cost
<1>5. PICK p \in queue :
         /\ best' = Better(p)
         /\ queue' = (queue \ {p}) \cup
               IF Explore(p)
               THEN {[at |-> tree[p.at].kids[k], inherited |-> Bound(p, b)] : k \in 1..2}
               ELSE {}
  BY DEF SearchStep
<1>6. ASSUME NEW n \in D
      PROVE  /\ g[n] \in Int /\ MergedIn(tree, n, b) \in Int /\ CostIn(tree, n, b) \in Int
             /\ GrowthIn(tree, n, b) \in Int
             /\ Surface(b) \in Int /\ Surface(b) <= MergedIn(tree, n, b)
             /\ CostIn(tree, n, b) = g[n] + MergedIn(tree, n, b)
             /\ tree[n].parent # Nil => g[n] = g[tree[n].parent] + GrowthIn(tree, tree[n].parent, b)
  <2> HIDE DEF D, b
  <2>1. g \in [DOMAIN tree -> Int] /\ n \in DOMAIN tree
    BY <1>2, <1>3, GrownFacts
  <2>2. tree[n].parent # Nil => g[n] = g[tree[n].parent] + GrowthIn(tree, tree[n].parent, b)
    BY <1>2, <1>3, <2>1, GrownFacts
  <2>3. MergedIn(tree, n, b) \in Int /\ Surface(b) \in Int /\ Surface(b) <= MergedIn(tree, n, b)
        /\ GrowthIn(tree, n, b) \in Int
    BY <1>2, <1>3, <2>1, GrowthFacts
  <2> QED BY <2>1, <2>2, <2>3 DEF CostIn
<1>7. /\ p.at \in D /\ p.inherited = g[p.at]
      /\ p.inherited + Merged(p.at, b) = CostIn(tree, p.at, b)
      /\ Bound(p, b) = g[p.at] + GrowthIn(tree, p.at, b)
  BY <1>2, <1>4, <1>6 DEF Merged, Bound, Growth, MergedIn, GrowthIn
<1>8. /\ best.cost \in Int /\ CostIn(tree, p.at, b) \in Int /\ best'.cost \in Int
      /\ best'.cost <= best.cost /\ best'.cost <= CostIn(tree, p.at, b)
      /\ best'.cost = CostIn(tree, best'.at, b)
  BY <1>2, <1>4, <1>5, <1>6, <1>7
<1>9. ASSUME NEW q \in queue' PROVE q.inherited = g[q.at]
  <2>1. CASE q \in queue
    BY <1>4, <2>1
  <2>2. CASE q \notin queue
    <3>1. PICK k \in 1..2 : q = [at |-> tree[p.at].kids[k], inherited |-> Bound(p, b)]
      BY <1>5, <2>2
    <3>2. ~IsLeaf(p.at)
      BY <1>5, <2>2
    <3>3. q.at \in D /\ tree[q.at].parent = p.at
      BY <1>2, <1>7, <3>1, <3>2 DEF Linked, IsLeaf
    <3>4. g[q.at] = g[p.at] + GrowthIn(tree, p.at, b)
      BY <1>3, <1>6, <1>7, <3>3
    <3> QED BY <1>7, <3>1, <3>4
  <2> QED BY <2>1, <2>2
<1>10. ASSUME NEW n \in D
       PROVE  best'.cost <= CostIn(tree, n, b) \/ \E q \in queue' : Above(tree, root, D, q.at, n)
  <2>1. CASE best.cost <= CostIn(tree, n, b)
    BY <1>6, <1>8, <2>1
  <2>2. CASE \E q \in queue \ {p} : Above(tree, root, D, q.at, n)
    BY <1>5, <2>2
  <2>3. CASE Above(tree, root, D, p.at, n) /\ n = p.at
    BY <1>8, <2>3
  <2>4. CASE Above(tree, root, D, p.at, n) /\ n # p.at
    <3>1. /\ tree[p.at].kids[1] # Nil
          /\ \/ Above(tree, root, D, tree[p.at].kids[1], n)
             \/ Above(tree, root, D, tree[p.at].kids[2], n)
      <4> HIDE DEF D
      <4> QED BY <1>2, <1>3, <1>7, <2>4, AboveKid
    <3>2. CASE Explore(p)
      <4> DEFINE kid(k) == [at |-> tree[p.at].kids[k], inherited |-> Bound(p, b)]
      <4>1. kid(1) \in queue' /\ kid(2) \in queue'
        BY <1>5, <3>2
      <4>2. kid(1).at = tree[p.at].kids[1] /\ kid(2).at = tree[p.at].kids[2]
        OBVIOUS
      <4> HIDE DEF kid
      <4> QED BY <3>1, <4>1, <4>2
    <3>3. CASE ~Explore(p)
      <4>1. g[p.at] + GrowthIn(tree, p.at, b) <= g[n]
        <5> HIDE DEF D, b
        <5> QED BY <1>2, <1>3, <1>7, <2>4, GrownBelow
      <4>2. ~(Bound(p, b) + Surface(b) < best'.cost)
        BY <1>5, <3>1, <3>3 DEF IsLeaf
      <4>3. best'.cost <= Bound(p, b) + Surface(b)
        BY <1>6, <1>7, <1>8, <4>2
      <4> QED BY <1>6, <1>7, <1>8, <4>1, <4>3
    <3> QED BY <3>2, <3>3
  <2> QED BY <1>4, <2>1, <2>2, <2>3, <2>4
<1> QED BY <1>1, <1>8, <1>9, <1>10 DEF SearchInv

\* When the search ends the heap is empty: what it never looked at was left
\* out by the lower bound, and that bound was right.
THEOREM BVHSearchFindsBest == BVHSpec => []SearchFindsBest
<1>1. BVHInit => SearchInv
  BY DEF BVHInit, SearchInv
<1>2. BVHInv /\ SearchInv /\ BVHInv' /\ [BVHNext]_bvhVars => SearchInv'
  <2> SUFFICES ASSUME BVHInv, SearchInv, BVHInv', [BVHNext]_bvhVars PROVE SearchInv'
    OBVIOUS
  <2>1. ASSUME NEW view \in Box, InsertFirst(view) PROVE SearchInv'
    BY <2>1 DEF InsertFirst, SearchInv
  <2>2. ASSUME NEW view \in Box, InsertBegins(view) PROVE SearchInv'
    BY <2>2, InsertBeginsSearch
  <2>3. CASE SearchStep
    BY <2>3, SearchStepSearch
  <2>4. CASE InsertLinks
    BY <2>4 DEF InsertLinks, SearchInv
  <2>5. CASE InsertRefits
    BY <2>5 DEF InsertRefits, SearchInv
  <2>6. ASSUME NEW n \in DOMAIN held, Delete(n) PROVE SearchInv'
    BY <2>6 DEF Delete, SearchInv
  <2>7. CASE DeleteRefits
    BY <2>7 DEF DeleteRefits, SearchInv
  <2>8. CASE UNCHANGED bvhVars
    BY <2>8 DEF bvhVars, SearchInv, Attached, Nodes
  <2> QED BY <2>1, <2>2, <2>3, <2>4, <2>5, <2>6, <2>7, <2>8 DEF BVHNext
<1>3. BVHInv /\ SearchInv => SearchFindsBest
  BY CostAtIn DEF SearchInv, SearchFindsBest, Attached
<1> QED BY <1>1, <1>2, <1>3, BVHInvariant, PTL DEF BVHSpec

-----------------------------------------------------------------------------
(* PaletteContainer                                                          *)

\* The powers of two: the recursive function computes what it says, ...
LEMMA Pow2Facts ==
  /\ Pow2 \in [Nat -> Nat \ {0}] /\ Pow2[0] = 1
  /\ \A n \in Nat : Pow2[n + 1] = 2 * Pow2[n]
<1> DEFINE V == Nat \ {0}
           step == [n \in Nat |-> [v \in V |-> 2 * v]]
           Is(f) == f = [n \in Nat |-> IF n = 0 THEN 1 ELSE 2 * f[n - 1]]
<1>1. \E g \in [Nat -> V] : Counts(g, Nat, 1, step)
  <2>1. step \in [Nat -> [V -> V]] /\ 1 \in V
    OBVIOUS
  <2>2. FromZero(Nat)
    BY DEF FromZero
  <2> HIDE DEF step, V
  <2> QED BY <2>1, <2>2, CountingUp
<1>2. PICK g \in [Nat -> V] : \A n \in Nat : g[n] = IF n = 0 THEN 1 ELSE step[n][g[n - 1]]
  BY <1>1 DEF Counts
<1>3. \A n \in Nat : g[n] = IF n = 0 THEN 1 ELSE 2 * g[n - 1]
  <2> TAKE n \in Nat
  <2>1. n # 0 => n - 1 \in Nat /\ g[n - 1] \in V
    OBVIOUS
  <2> QED BY <1>2, <2>1
<1>4. Is(g)
  BY <1>3
<1>5. Is(Pow2)
  <2>1. \E f : Is(f)
    BY <1>4
  <2>2. Pow2 = CHOOSE f : Is(f)
    BY DEF Pow2
  <2> HIDE DEF Is
  <2> QED BY <2>1, <2>2
<1>6. \A n \in Nat : Pow2[n] = IF n = 0 THEN 1 ELSE 2 * Pow2[n - 1]
  BY <1>5
<1>7. Pow2 = [n \in Nat |-> Pow2[n]]
  BY <1>5
<1>8. \A n \in Nat : Pow2[n] \in V
  <2> DEFINE S == {n \in Nat : Pow2[n] \notin V}
  <2>1. SUFFICES ASSUME S # {} PROVE FALSE
    OBVIOUS
  <2>2. PICK n \in S : \A j \in S : n <= j
    BY <2>1, LeastOf
  <2>3. n \in Nat /\ Pow2[n] \notin V
    BY <2>2
  <2>4. n # 0 => n - 1 \in Nat /\ n - 1 \notin S
    BY <2>2, <2>3
  <2>5. n # 0 => Pow2[n - 1] \in V
    BY <2>4
  <2> QED BY <1>6, <2>3, <2>5
<1>9. \A n \in Nat : Pow2[n + 1] = 2 * Pow2[n]
  <2> TAKE n \in Nat
  <2>1. n + 1 \in Nat /\ n + 1 # 0 /\ (n + 1) - 1 = n
    OBVIOUS
  <2> QED BY <1>6, <2>1
<1> QED BY <1>6, <1>7, <1>8, <1>9

\* ... turns sums into products ...
LEMMA Pow2Sum ==
  ASSUME NEW m \in Nat, NEW n \in Nat
  PROVE  Pow2[m + n] = Pow2[m] * Pow2[n]
<1> DEFINE S == {k \in Nat : Pow2[m + k] # Pow2[m] * Pow2[k]}
<1>1. SUFFICES ASSUME S # {} PROVE FALSE
  OBVIOUS
<1>2. PICK k \in S : \A j \in S : k <= j
  BY <1>1, LeastOf
<1>3. k \in Nat /\ Pow2[m + k] # Pow2[m] * Pow2[k]
  BY <1>2
<1>4. k # 0
  BY <1>3, Pow2Facts
<1>5. PICK j \in Nat : k = j + 1
  BY <1>3, <1>4
<1>6. Pow2[m + j] = Pow2[m] * Pow2[j]
  BY <1>2, <1>5
<1>7. Pow2[m + k] = 2 * Pow2[m + j] /\ Pow2[k] = 2 * Pow2[j]
  <2>1. m + k = (m + j) + 1 /\ m + j \in Nat
    BY <1>5
  <2> QED BY <1>5, <2>1, Pow2Facts
<1>8. Pow2[m] \in Nat /\ Pow2[j] \in Nat
  BY Pow2Facts
<1> QED BY <1>3, <1>6, <1>7, <1>8

\* ... and grows.
LEMMA Pow2Grows ==
  ASSUME NEW m \in Nat, NEW n \in Nat, m < n
  PROVE  Pow2[m] < Pow2[n]
<1>1. PICK k \in Nat : n = m + (k + 1)
  <2>1. n - m - 1 \in Nat /\ n = m + ((n - m - 1) + 1)
    OBVIOUS
  <2> QED BY <2>1
<1>2. Pow2[n] = Pow2[m] * Pow2[k + 1] /\ Pow2[k + 1] = 2 * Pow2[k]
  <2>1. k + 1 \in Nat
    BY <1>1
  <2>2. Pow2[m + (k + 1)] = Pow2[m] * Pow2[k + 1]
    BY ONLY <2>1, m \in Nat, Pow2Sum
  <2> QED BY <1>1, <2>2, Pow2Facts
<1>3. Pow2[m] \in Nat \ {0} /\ Pow2[k] \in Nat \ {0}
  BY Pow2Facts
<1> QED
  <2> DEFINE a == Pow2[m]
             c == Pow2[k]
  <2>1. a \in Nat \ {0} /\ c \in Nat \ {0} /\ Pow2[n] = a * (2 * c)
    BY <1>2, <1>3
  <2> HIDE DEF a, c
  <2>2. a * (2 * c) >= a * 2
    BY <2>1
  <2> QED BY <2>1, <2>2 DEF a

LEMMA DivAdd ==
  ASSUME NEW x \in Int, NEW d \in Nat \ {0}, NEW k \in Int
  PROVE  (x + k * d) \div d = (x \div d) + k /\ (x + k * d) % d = x % d
<1> DEFINE q == x \div d
           r == x % d
<1>1. q \in Int /\ r \in Int /\ 0 <= r /\ r < d /\ x = d * q + r
  BY DivMod
<1> HIDE DEF q, r
<1>2. x + k * d = d * (q + k) + r /\ x + k * d \in Int /\ q + k \in Int
  BY <1>1
<1>3. (x + k * d) \div d = q + k /\ (x + k * d) % d = r
  BY <1>1, <1>2, DivUnique
<1> QED BY <1>3 DEF q, r

LEMMA DivDiv ==
  ASSUME NEW x \in Int, NEW c \in Nat \ {0}, NEW d \in Nat \ {0}
  PROVE  x \div (c * d) = (x \div c) \div d
<1> DEFINE q == x \div c
           r == x % c
           h == q \div d
           s == q % d
<1>1. q \in Int /\ r \in Int /\ 0 <= r /\ r < c /\ x = c * q + r
  BY DivMod
<1>2. h \in Int /\ s \in Int /\ 0 <= s /\ s < d /\ q = d * h + s
  BY <1>1, DivMod
<1> HIDE DEF q, r, h, s
<1>3. x = (c * d) * h + (c * s + r)
  BY <1>1, <1>2
<1>4. 0 <= c * s /\ c * s <= c * (d - 1)
  BY <1>2
<1>5. c * s + r \in Int /\ 0 <= c * s + r /\ c * s + r < c * d /\ c * d \in Nat \ {0}
  BY <1>1, <1>2, <1>4
<1>6. x \div (c * d) = h
  BY <1>2, <1>3, <1>5, DivUnique
<1> QED BY <1>6 DEF h, q

\* A field of w bits in x, at the o-th place, and what putting v there does
\* to it and to the field at another place.
Field(x, w, o) == (x \div Pow2[w * o]) % Pow2[w]

\* x with v in that field.
Filled(x, w, o, v) == x + (v - Field(x, w, o)) * Pow2[w * o]

LEMMA FieldRange ==
  ASSUME NEW x \in Int, NEW w \in Nat, NEW o \in Nat
  PROVE  /\ Field(x, w, o) \in Int /\ 0 <= Field(x, w, o) /\ Field(x, w, o) < Pow2[w]
         /\ \A v \in Int : Filled(x, w, o, v) \in Int
<1>1. w * o \in Nat
  OBVIOUS
<1>2. Pow2[w * o] \in Nat \ {0} /\ Pow2[w] \in Nat \ {0}
  BY <1>1, Pow2Facts
<1>3. x \div Pow2[w * o] \in Int
  BY <1>2, DivMod
<1>4. Field(x, w, o) \in Int /\ 0 <= Field(x, w, o) /\ Field(x, w, o) < Pow2[w]
  BY <1>2, <1>3, DivMod DEF Field
<1> QED BY <1>2, <1>4 DEF Filled

\* The field holds v then, ...
LEMMA FilledHere ==
  ASSUME NEW x \in Int, NEW w \in Nat, NEW o \in Nat, NEW v \in Int, 0 <= v, v < Pow2[w]
  PROVE  Field(Filled(x, w, o, v), w, o) = v
<1> DEFINE P == Pow2[w * o]
           W == Pow2[w]
           s == Field(x, w, o)
           q == x \div P
           h == q \div W
<1>0. w * o \in Nat
  OBVIOUS
<1>1. P \in Nat \ {0} /\ W \in Nat \ {0} /\ s \in Int
  BY <1>0, Pow2Facts, FieldRange
<1>2. q \in Int
  BY <1>1, DivMod
<1>3. h \in Int /\ q = W * h + s
  BY <1>1, <1>2, DivMod DEF Field
<1>4. v < W
  OBVIOUS
<1>5. Field(Filled(x, w, o, v), w, o) = ((x + (v - s) * P) \div P) % W
  BY DEF Field, Filled
<1>6. (x + (v - s) * P) \div P = q + (v - s)
  <2> HIDE DEF P, s
  <2>1. v - s \in Int
    BY <1>1
  <2> QED BY <1>1, <2>1, DivAdd
<1> HIDE DEF P, W, s, q, h
<1>7. q + (v - s) = W * h + v /\ q + (v - s) \in Int
  BY <1>1, <1>2, <1>3
<1>8. (q + (v - s)) % W = v
  BY <1>1, <1>3, <1>4, <1>7, DivUnique
<1> QED BY <1>5, <1>6, <1>8

\* ... and every other field what it held.
LEMMA FilledElsewhere ==
  ASSUME NEW x \in Int, NEW w \in Nat, NEW o \in Nat, NEW v \in Int, 0 <= v, v < Pow2[w],
         NEW p \in Nat, p # o
  PROVE  Field(Filled(x, w, o, v), w, p) = Field(x, w, p)
<1> DEFINE P == Pow2[w * o]
           Q == Pow2[w * p]
           W == Pow2[w]
           s == Field(x, w, o)
           y == Filled(x, w, o, v)
<1>0. w * o \in Nat /\ w * p \in Nat
  OBVIOUS
<1>1. P \in Nat \ {0} /\ Q \in Nat \ {0} /\ W \in Nat \ {0} /\ s \in Int /\ y \in Int
  BY <1>0, Pow2Facts, FieldRange
<1>2. y = x + (v - s) * P
  BY DEF Filled
<1>3. ASSUME NEW a \in Nat, NEW b \in Nat, a < b
      PROVE  \E T \in Nat \ {0} : Pow2[w * b] = (Pow2[w * a] * W) * T
  <2>1. PICK k \in Nat : b = a + 1 + k
    <3>1. b - a - 1 \in Nat /\ b = a + 1 + (b - a - 1)
      BY <1>3
    <3> QED BY <3>1
  <2>2. w * a \in Nat /\ w * k \in Nat /\ (w * a) + w \in Nat
    OBVIOUS
  <2>3. w * b = ((w * a) + w) + (w * k)
    BY <2>1
  <2>4. Pow2[((w * a) + w) + (w * k)] = Pow2[(w * a) + w] * Pow2[w * k]
    BY <2>2, Pow2Sum
  <2>5. Pow2[(w * a) + w] = Pow2[w * a] * Pow2[w]
    BY <2>2, Pow2Sum
  <2>6. Pow2[w * k] \in Nat \ {0}
    BY <2>2, Pow2Facts
  <2> QED BY <2>3, <2>4, <2>5, <2>6
<1>4. CASE p < o
  <2>1. PICK T \in Nat \ {0} : P = (Q * W) * T
    BY <1>3, <1>4
  <2> HIDE DEF P, Q, W, s, y
  <2>2. y = x + (((v - s) * T) * W) * Q /\ ((v - s) * T) * W \in Int /\ (v - s) * T \in Int
    <3>1. (v - s) * P = (((v - s) * T) * W) * Q
      BY <1>1, <2>1
    <3> QED BY <1>1, <1>2, <3>1
  <2>3. y \div Q = (x \div Q) + ((v - s) * T) * W
    BY <1>1, <2>2, DivAdd
  <2>4. x \div Q \in Int
    BY <1>1, DivMod
  <2>5. ((x \div Q) + ((v - s) * T) * W) % W = (x \div Q) % W
    BY <1>1, <2>2, <2>4, DivAdd
  <2>6. (y \div Q) % W = (x \div Q) % W
    BY <2>3, <2>5
  <2> QED BY <2>6 DEF Field, y, Q, W
<1>5. CASE o < p
  <2>1. PICK T \in Nat \ {0} : Q = (P * W) * T
    BY <1>3, <1>5
  <2>2. Field(y, w, o) = v
    BY FilledHere
  <2>3. (y \div P) % W = v /\ (x \div P) % W = s
    BY <2>2 DEF Field
  <2> HIDE DEF P, Q, W, s, y
  <2>4. x \div P \in Int /\ y \div P \in Int /\ y \div P = (x \div P) + (v - s)
    <3>1. v - s \in Int
      BY <1>1
    <3>2. x \div P \in Int /\ y \div P \in Int
      BY <1>1, DivMod
    <3>3. (x + (v - s) * P) \div P = (x \div P) + (v - s)
      BY <1>1, <3>1, DivAdd
    <3> QED BY <1>2, <3>2, <3>3
  <2>5. (y \div P) \div W = (x \div P) \div W
    <3> DEFINE a == x \div P
               c == y \div P
               h == a \div W
               g == c \div W
    <3>1. h \in Int /\ a = W * h + s /\ g \in Int /\ c = W * g + v /\ a \in Int /\ c \in Int /\ c = a + (v - s)
      BY <1>1, <2>3, <2>4, DivMod
    <3> HIDE DEF a, c, h, g
    <3>2. c = W * h + v
      BY <1>1, <3>1
    <3>3. v < W
      BY DEF W
    <3>4. c \div W = h
      BY <1>1, <3>1, <3>2, <3>3, DivUnique
    <3> QED BY <3>4 DEF a, c, h, g
  <2>6. P * W \in Nat \ {0}
    BY <1>1
  <2>7. x \div Q = ((x \div P) \div W) \div T /\ y \div Q = ((y \div P) \div W) \div T
    <3>1. ASSUME NEW z \in Int PROVE z \div ((P * W) * T) = ((z \div P) \div W) \div T
      <4>1. z \div ((P * W) * T) = (z \div (P * W)) \div T
        BY <2>6, DivDiv
      <4>2. z \div (P * W) = (z \div P) \div W
        BY <1>1, DivDiv
      <4> QED BY <4>1, <4>2
    <3> QED BY <1>1, <2>1, <3>1
  <2>8. (y \div Q) % W = (x \div Q) % W
    BY <2>5, <2>7
  <2> QED BY <2>8 DEF Field, y, Q, W
<1> QED BY <1>4, <1>5

\* Where the cells of width w are.
Offset(i, w) == (i - 1) % PerLong(w)

\* Two cells are two fields, or lie in two longs.
LEMMA Places ==
  ASSUME NEW w \in Nat \ {0}, w <= LongBits, NEW i \in Cell
  PROVE  /\ Offset(i, w) \in Nat /\ Longs(w) \in Nat
         /\ Long(i, w) \in 1..Longs(w)
         /\ \A j \in Cell : j # i /\ Long(j, w) = Long(i, w) => Offset(j, w) # Offset(i, w)
<1> DEFINE P == PerLong(w)
           L == Longs(w)
<1>1. P \in Nat \ {0}
  <2> DEFINE r == LongBits % w
  <2>1. LongBits \in Int /\ P \in Int /\ r \in Int /\ 0 <= r /\ r < w /\ LongBits = w * P + r
    BY LongBitsAssumption, DivMod DEF PerLong
  <2> HIDE DEF P, r
  <2>2. SUFFICES ASSUME P <= 0 PROVE FALSE
    BY <2>1
  <2>3. w * P <= 0
    BY <2>1, <2>2
  <2> QED BY <2>1, <2>3
<1>2. L = (Length + P - 1) \div P
  BY DEF Longs
<1>3. ASSUME NEW j \in Cell
      PROVE  /\ Offset(j, w) \in Int /\ 0 <= Offset(j, w) /\ Offset(j, w) < P
             /\ Long(j, w) \in Int /\ j - 1 = P * (Long(j, w) - 1) + Offset(j, w)
  <2>1. j - 1 \in Int
    BY DEF Cell
  <2> DEFINE q == (j - 1) \div P
             r == (j - 1) % P
  <2>2. q \in Int /\ r \in Int /\ 0 <= r /\ r < P /\ j - 1 = P * q + r
    BY <1>1, <2>1, DivMod
  <2>3. Long(j, w) = q + 1 /\ Offset(j, w) = r
    BY DEF Long, Offset
  <2> HIDE DEF q, r
  <2>4. Long(j, w) - 1 = q
    BY <2>2, <2>3
  <2> QED BY <2>2, <2>3, <2>4
<1>4. Length \in Nat \ {0} /\ 1 <= i /\ i <= Length /\ i \in Int
  BY LengthAssumption DEF Cell
<1> DEFINE e == (Length + P - 1) % P
<1>5. L \in Int /\ e \in Int /\ 0 <= e /\ e < P /\ Length + P - 1 = P * L + e
  <2>1. Length + P - 1 \in Int
    BY <1>1, <1>4
  <2> QED BY <1>1, <1>2, <2>1, DivMod
<1> DEFINE q == Long(i, w) - 1
           r == Offset(i, w)
<1>6. q \in Int /\ r \in Int /\ 0 <= r /\ r < P /\ i - 1 = P * q + r
  BY <1>3
<1>7. Long(i, w) = q + 1
  BY <1>3
<1> HIDE DEF P, L, e, q, r
<1>8. q >= 0
  <2>1. SUFFICES ASSUME q <= -1 PROVE FALSE
    BY <1>6
  <2>2. P * q <= -P
    BY <1>1, <1>6, <2>1
  <2> QED BY <1>1, <1>4, <1>6, <2>2
<1>9. q + 1 <= L
  <2>1. SUFFICES ASSUME L <= q PROVE FALSE
    BY <1>5, <1>6
  <2>2. P * L <= P * q
    BY <1>1, <1>5, <1>6, <2>1
  <2>3. P * L \in Int /\ P * q \in Int
    BY <1>1, <1>5, <1>6
  <2> QED BY <1>1, <1>4, <1>5, <1>6, <2>2, <2>3
<1>10. ASSUME NEW j \in Cell, j # i, Long(j, w) = Long(i, w) PROVE Offset(j, w) # Offset(i, w)
  <2>1. j - 1 = P * q + Offset(j, w) /\ j \in Int
    <3>1. j - 1 = P * (Long(j, w) - 1) + Offset(j, w)
      BY <1>3 DEF P
    <3> QED BY <1>10, <3>1 DEF q, Cell
  <2>2. P * q \in Int
    BY <1>1, <1>6
  <2> QED BY <1>4, <1>6, <1>10, <2>1, <2>2 DEF r
<1>11. L \in Nat /\ Long(i, w) \in 1..L
  BY <1>5, <1>6, <1>7, <1>8, <1>9
<1>12. Offset(i, w) \in Nat
  BY <1>6 DEF r
<1> QED BY <1>10, <1>11, <1>12 DEF L

\* The containers whose cells are w bits wide.
Containers(w) ==
    [bits : Nat, width : {w}, values : Seq(State), cap : Nat, longs : [1..Longs(w) -> Int]]

LEMMA StoredField ==
  ASSUME NEW b, NEW i, b.width # 0
  PROVE  /\ Stored(b, i) = Field(b.longs[Long(i, b.width)], b.width, Offset(i, b.width))
         /\ \A v : Store(b, i, v) = [b EXCEPT !.longs[Long(i, b.width)] =
                                        Filled(b.longs[Long(i, b.width)], b.width, Offset(i, b.width), v)]
<1>1. Shift(i, b.width) = Pow2[b.width * Offset(i, b.width)]
  BY DEF Shift, Offset
<1>2. Stored(b, i) = Field(b.longs[Long(i, b.width)], b.width, Offset(i, b.width))
  BY <1>1 DEF Stored, Field
<1> QED BY <1>1, <1>2 DEF Store, Filled

\* Storing into a cell changes no other.
LEMMA StoreKeeps ==
  ASSUME NEW w \in Nat, w <= LongBits, NEW b \in Containers(w), NEW i \in Cell,
         NEW v \in Int, 0 <= v, v < Pow2[w]
  PROVE  /\ Store(b, i, v) \in Containers(w)
         /\ Store(b, i, v).bits = b.bits /\ Store(b, i, v).values = b.values /\ Store(b, i, v).cap = b.cap
         /\ Stored(Store(b, i, v), i) = v
         /\ \A j \in Cell : j # i => Stored(Store(b, i, v), j) = Stored(b, j)
         /\ \A j \in Cell : Stored(b, j) \in Int /\ 0 <= Stored(b, j) /\ Stored(b, j) < Pow2[w]
<1>1. b.width = w
  BY DEF Containers
<1>2. CASE w = 0
  <2>1. Pow2[w] = 1
    BY <1>2, Pow2Facts
  <2>2. v = 0
    BY <2>1
  <2>3. Store(b, i, v) = b /\ \A j \in Cell : Stored(b, j) = 0
    BY <1>1, <1>2 DEF Store, Stored
  <2> QED BY <2>1, <2>2, <2>3
<1>3. CASE w # 0
  <2> DEFINE k == Long(i, w)
             o == Offset(i, w)
             x == b.longs[k]
             y == Filled(x, w, o, v)
             c == Store(b, i, v)
  <2>1. /\ \A j \in Cell : Offset(j, w) \in Nat /\ Long(j, w) \in 1..Longs(w)
        /\ \A j \in Cell : j # i /\ Long(j, w) = k => Offset(j, w) # o
    BY <1>3, Places
  <2>2. \A j \in Cell : b.longs[Long(j, w)] \in Int
    BY <2>1 DEF Containers
  <2>3. y \in Int
    BY <2>1, <2>2, FieldRange
  <2>4. c = [b EXCEPT !.longs[k] = y]
    <3>1. b.width # 0
      BY <1>1, <1>3
    <3>2. Store(b, i, v) = [b EXCEPT !.longs[Long(i, b.width)] =
                              Filled(b.longs[Long(i, b.width)], b.width, Offset(i, b.width), v)]
      BY ONLY <3>1, StoredField
    <3> QED BY <1>1, <3>2
  <2>5. /\ c \in Containers(w) /\ c.bits = b.bits /\ c.values = b.values /\ c.cap = b.cap /\ c.width = w
        /\ \A j \in Cell : c.longs[Long(j, w)] = IF Long(j, w) = k THEN y ELSE b.longs[Long(j, w)]
    <3> HIDE DEF k, y, c
    <3> QED BY <1>1, <2>1, <2>3, <2>4 DEF Containers
  <2>6. \A j \in Cell : /\ Stored(b, j) = Field(b.longs[Long(j, w)], w, Offset(j, w))
                        /\ Stored(c, j) = Field(c.longs[Long(j, w)], w, Offset(j, w))
    <3> TAKE j \in Cell
    <3>1. Stored(b, j) = Field(b.longs[Long(j, w)], w, Offset(j, w))
      BY <1>1, <1>3, StoredField
    <3>2. Stored(c, j) = Field(c.longs[Long(j, w)], w, Offset(j, w))
      <4> HIDE DEF c
      <4> QED BY <1>3, <2>5, StoredField
    <3> QED BY <3>1, <3>2
  <2>7. Stored(c, i) = v
    <3>1. Field(Filled(x, w, o, v), w, o) = v
      BY <2>1, <2>2, FilledHere
    <3>2. Stored(c, i) = Field(y, w, o)
      BY <2>5, <2>6
    <3> QED BY <3>1, <3>2
  <2>8. ASSUME NEW j \in Cell, j # i PROVE Stored(c, j) = Stored(b, j)
    <3>1. CASE Long(j, w) = k
      <4>1. Field(Filled(x, w, o, v), w, Offset(j, w)) = Field(x, w, Offset(j, w))
        BY <2>1, <2>2, <2>8, <3>1, FilledElsewhere
      <4> QED BY <2>5, <2>6, <3>1, <4>1
    <3>2. CASE Long(j, w) # k
      BY <2>5, <2>6, <3>2
    <3> QED BY <3>1, <3>2
  <2>9. ASSUME NEW j \in Cell PROVE Stored(b, j) \in Int /\ 0 <= Stored(b, j) /\ Stored(b, j) < Pow2[w]
    BY <2>1, <2>2, <2>6, FieldRange
  <2> QED BY <2>5, <2>7, <2>8, <2>9
<1> QED BY <1>2, <1>3

\* The widths of a configuration: no less than the bits asked for, or direct.
LEMMA WidthFacts ==
  ASSUME config \in Configs, NEW bits \in Nat
  PROVE  /\ Width(bits) \in Nat /\ Width(bits) <= LongBits /\ Width(Width(bits)) = Width(bits)
         /\ config.max \in Nat
         /\ Width(bits) > config.max => Width(bits) = config.global
         /\ bits <= config.max => bits <= Width(bits)
         /\ bits > config.max => Width(bits) = config.global /\ config.global > config.max
         /\ Width(0) = 0
BY ConfigsAssumption, LongBitsAssumption DEF Width

\* No value is listed twice.
Distinct(s) == \A j, k \in DOMAIN s : s[j] = s[k] => j = k

\* What a container is between two calls: cells of a width that goes with
\* the bits announced, and a palette with room in them for what it lists.
Sound(b) ==
    /\ b.width \in Nat /\ b.width <= LongBits /\ b \in Containers(b.width)
    /\ b.width > config.max => b.width = config.global
    /\ ~IsGlobal(b) => Distinct(b.values) /\ Len(b.values) <= b.cap /\ b.cap <= Pow2[b.width]

\* The cell's index is one of the palette's.
Points(b, i) == ~IsGlobal(b) => Stored(b, i) < Len(b.values)

LEMMA GetIn ==
  ASSUME config \in Configs, NEW b, Sound(b), NEW i \in Cell, Points(b, i), ~IsGlobal(b)
  PROVE  /\ Stored(b, i) + 1 \in 1..Len(b.values) /\ Get(b, i) = b.values[Stored(b, i) + 1]
         /\ Get(b, i) \in State /\ Contains(b.values, Get(b, i))
<1>0. b.width \in Nat /\ b \in Containers(b.width) /\ b.width <= LongBits
  BY DEF Sound
<1>1. 0 \in Int /\ 0 < Pow2[b.width]
  <2>1. Pow2[b.width] \in Nat \ {0}
    BY <1>0, Pow2Facts
  <2> QED BY <2>1
<1>2. Stored(b, i) \in Int /\ 0 <= Stored(b, i)
  BY <1>0, <1>1, StoreKeeps
<1>3. b.values \in Seq(State) /\ Len(b.values) \in Nat
  BY <1>0 DEF Containers
<1>4. Stored(b, i) + 1 \in 1..Len(b.values)
  BY <1>2, <1>3 DEF Points
<1> QED BY <1>3, <1>4 DEF Get, Contains

\* e is b with v entered in cell i.
HasEntered(e, b, i, v) ==
    /\ Sound(e) /\ e.width = b.width /\ e.bits = b.bits /\ e.cap = b.cap
    /\ Get(e, i) = v /\ Points(e, i)
    /\ \A j \in Cell : j # i /\ Points(b, j) => Points(e, j) /\ Get(e, j) = Get(b, j)
    /\ \A k \in DOMAIN e.values : e.values[k] = v \/ Contains(b.values, e.values[k])

\* A value entered in one cell: the others read what they did.
LEMMA EnteredKeeps ==
  ASSUME config \in Configs, NEW b, Sound(b), NEW i \in Cell, NEW v \in State, HasRoom(b, v)
  PROVE  HasEntered(Entered(b, i, v), b, i, v)
<1> DEFINE w == b.width
<1>1. w \in Nat /\ w <= LongBits /\ b \in Containers(w) /\ b.width = w
  BY DEF Sound
<1>2. b.values \in Seq(State) /\ Len(b.values) \in Nat /\ b.cap \in Nat /\ DOMAIN b.values = 1..Len(b.values)
  BY <1>1 DEF Containers
<1>3. v \in Int /\ 0 <= v /\ v < Pow2[config.global] /\ v \in Nat
  BY StateAssumption
<1>4. Pow2[w] \in Nat
  BY <1>1, Pow2Facts
<1>5. CASE IsGlobal(b)
  <2> DEFINE e == Store(b, i, v)
  <2>1. Entered(b, i, v) = e
    BY <1>5 DEF Entered
  <2>2. w = config.global /\ w > config.max
    BY <1>5 DEF Sound, IsGlobal
  <2>3. /\ e \in Containers(w) /\ e.bits = b.bits /\ e.values = b.values /\ e.cap = b.cap
        /\ Stored(e, i) = v /\ \A j \in Cell : j # i => Stored(e, j) = Stored(b, j)
    BY <1>1, <1>3, <2>2, StoreKeeps
  <2> HIDE DEF e
  <2>4. e.width = w
    BY <2>3 DEF Containers
  <2>5. IsGlobal(e)
    BY <2>2, <2>4 DEF IsGlobal
  <2>6. \A j \in Cell : Get(e, j) = Stored(e, j) /\ Get(b, j) = Stored(b, j)
    BY <1>5, <2>5 DEF Get
  <2>7. Sound(e)
    BY <1>1, <2>2, <2>3, <2>4, <2>5 DEF Sound
  <2>8. HasEntered(e, b, i, v)
    BY <1>2, <2>3, <2>4, <2>5, <2>6, <2>7 DEF HasEntered, Points, Contains
  <2> QED BY <2>1, <2>8
<1>6. CASE ~IsGlobal(b) /\ Contains(b.values, v)
  <2> DEFINE I == {k \in 1..Len(b.values) : b.values[k] = v}
             n == SelectInSeq(b.values, LAMBDA x : x = v)
             e == Store(b, i, n - 1)
  <2>1. n \in 1..Len(b.values) /\ b.values[n] = v
    <3>1. I # {} /\ I \in SUBSET Nat
      BY <1>2, <1>6 DEF Contains
    <3>2. \E k \in I : \A j \in I : k <= j
      BY <3>1, LeastOf
    <3>3. n = CHOOSE k \in I : \A j \in I : k <= j
      BY <3>1 DEF SelectInSeq, Min
    <3> HIDE DEF n
    <3>4. n \in I
      BY <3>2, <3>3
    <3> QED BY <3>4
  <2>2. Entered(b, i, v) = e
    BY <1>6 DEF Entered
  <2> HIDE DEF n
  <2>3. n - 1 \in Int /\ 0 <= n - 1 /\ n - 1 < Pow2[w]
    BY <1>2, <1>4, <1>6, <2>1 DEF Sound
  <2>4. /\ e \in Containers(w) /\ e.bits = b.bits /\ e.values = b.values /\ e.cap = b.cap
        /\ Stored(e, i) = n - 1 /\ \A j \in Cell : j # i => Stored(e, j) = Stored(b, j)
    BY <1>1, <2>3, StoreKeeps
  <2> HIDE DEF e
  <2>5. e.width = w
    BY <2>4 DEF Containers
  <2>6. ~IsGlobal(e)
    BY <1>6, <2>5 DEF IsGlobal
  <2>7. \A j \in Cell : Get(e, j) = b.values[Stored(e, j) + 1] /\ Get(b, j) = b.values[Stored(b, j) + 1]
    BY <1>6, <2>4, <2>6 DEF Get
  <2>8. Sound(e)
    BY <1>1, <1>6, <2>4, <2>5, <2>6 DEF Sound
  <2>9. Get(e, i) = v /\ Points(e, i)
    <3>1. (n - 1) + 1 = n /\ n - 1 < Len(b.values)
      BY <1>2, <2>1
    <3> QED BY <2>1, <2>4, <2>7, <3>1 DEF Points
  <2>10. HasEntered(e, b, i, v)
    BY <1>2, <1>6, <2>4, <2>5, <2>7, <2>8, <2>9 DEF HasEntered, Points, Contains
  <2> QED BY <2>2, <2>10
<1>7. CASE ~IsGlobal(b) /\ ~Contains(b.values, v)
  <2> DEFINE c == [b EXCEPT !.values = Append(@, v)]
             n == Len(b.values)
             e == Store(c, i, n)
  <2>1. Entered(b, i, v) = e
    BY <1>7 DEF Entered
  <2>2. n < b.cap /\ b.cap <= Pow2[w]
    BY <1>7 DEF HasRoom, Sound
  <2>3. /\ Append(b.values, v) \in Seq(State) /\ Len(Append(b.values, v)) = n + 1
        /\ \A k \in 1..n : Append(b.values, v)[k] = b.values[k]
        /\ Append(b.values, v)[n + 1] = v
    BY <1>2, AppendProperties
  <2>4. /\ c \in Containers(w) /\ c.values = Append(b.values, v) /\ c.bits = b.bits /\ c.cap = b.cap
        /\ c.longs = b.longs /\ c.width = w
    BY <1>1, <2>3 DEF Containers
  <2>5. \A j \in Cell : Stored(c, j) = Stored(b, j)
    BY <1>1, <2>4 DEF Stored
  <2> HIDE DEF c
  <2>6. /\ e \in Containers(w) /\ e.bits = c.bits /\ e.values = c.values /\ e.cap = c.cap
        /\ Stored(e, i) = n /\ \A j \in Cell : j # i => Stored(e, j) = Stored(c, j)
    <3>1. n \in Int /\ 0 <= n /\ n < Pow2[w] /\ w \in Nat /\ w <= LongBits /\ i \in Cell /\ c \in Containers(w)
      BY <1>1, <1>2, <1>4, <2>2, <2>4
    <3> HIDE DEF n, w
    <3> QED BY ONLY <3>1, StoreKeeps
  <2>7. \A j \in Cell : Stored(b, j) \in Int /\ 0 <= Stored(b, j)
    <3>1. 0 \in Int /\ 0 < Pow2[w]
      BY <1>1, Pow2Facts
    <3> QED BY <1>1, <3>1, StoreKeeps
  <2> HIDE DEF e
  <2>8. e.width = w /\ e.values = Append(b.values, v) /\ e.cap = b.cap /\ e.bits = b.bits
    BY <2>4, <2>6 DEF Containers
  <2> DEFINE s == e.values
  <2>9. s \in Seq(State) /\ Len(s) = n + 1 /\ DOMAIN s = 1..(n + 1)
        /\ s[n + 1] = v /\ \A k \in 1..n : s[k] = b.values[k]
    BY <1>2, <2>3, <2>8
  <2>10. ~IsGlobal(e)
    BY <1>7, <2>8 DEF IsGlobal
  <2> HIDE DEF s
  <2>11. Distinct(s)
    <3> SUFFICES ASSUME NEW j \in 1..(n + 1), NEW k \in 1..(n + 1), s[j] = s[k] PROVE j = k
      BY <2>9 DEF Distinct
    <3>1. \A m \in 1..n : b.values[m] # v
      BY <1>2, <1>7 DEF Contains
    <3>2. (j = n + 1 \/ j \in 1..n) /\ (k = n + 1 \/ k \in 1..n)
      BY <1>2
    <3>3. j \in 1..n /\ k \in 1..n => j = k
      BY <1>2, <1>7, <2>9 DEF Sound, Distinct
    <3> QED BY <2>9, <3>1, <3>2, <3>3
  <2>12. Sound(e)
    <3>1. Len(s) <= e.cap /\ e.cap <= Pow2[e.width]
      BY <1>2, <2>2, <2>8, <2>9
    <3>2. e \in Containers(e.width) /\ e.width \in Nat /\ e.width <= LongBits
      BY <1>1, <2>6, <2>8
    <3> QED BY <2>10, <2>8, <2>11, <3>1, <3>2, <1>7 DEF Sound, IsGlobal, s
  <2>13. \A j \in Cell : Get(e, j) = s[Stored(e, j) + 1] /\ Get(b, j) = b.values[Stored(b, j) + 1]
    BY <1>7, <2>10 DEF Get, s
  <2>14. Get(e, i) = v /\ Points(e, i)
    BY <1>2, <2>6, <2>9, <2>13 DEF Points, s
  <2>15. ASSUME NEW j \in Cell, j # i, Points(b, j)
         PROVE  Points(e, j) /\ Get(e, j) = Get(b, j)
    <3>1. Stored(b, j) < n /\ Stored(e, j) = Stored(b, j)
      BY <1>7, <2>5, <2>6, <2>15 DEF Points
    <3>2. Stored(b, j) + 1 \in 1..n /\ Stored(b, j) < n + 1
      BY <1>2, <2>7, <3>1
    <3> QED BY <2>9, <2>13, <3>1, <3>2 DEF Points, s
  <2>16. ASSUME NEW k \in DOMAIN s PROVE s[k] = v \/ Contains(b.values, s[k])
    <3>1. k = n + 1 \/ k \in 1..n
      BY <1>2, <2>9
    <3> QED BY <2>9, <3>1 DEF Contains
  <2>17. HasEntered(e, b, i, v)
    BY <2>8, <2>12, <2>14, <2>15, <2>16 DEF HasEntered, s
  <2> QED BY <2>1, <2>17
<1> QED BY <1>5, <1>6, <1>7

\* A sequence without duplicates whose values all occur in t is no longer.
LEMMA NoLonger ==
  ASSUME NEW s \in Seq(State), Distinct(s), NEW t \in Seq(State), \A k \in DOMAIN s : Contains(t, s[k])
  PROVE  Len(s) <= Len(t)
<1> DEFINE S == 1..Len(s)
           T == 1..Len(t)
           f == [k \in S |-> CHOOSE j \in T : t[j] = s[k]]
<1>1. Len(s) \in Nat /\ Len(t) \in Nat /\ DOMAIN s = S
  OBVIOUS
<1>2. SUFFICES ASSUME Len(t) < Len(s) PROVE FALSE
  BY <1>1
<1>3. IsFiniteSet(S) /\ IsFiniteSet(T) /\ Cardinality(S) = Len(s) /\ Cardinality(T) = Len(t)
  <2>1. ASSUME NEW n \in Nat PROVE IsFiniteSet(1..n) /\ Cardinality(1..n) = n
    <3>1. 1 \in Int /\ n \in Int
      OBVIOUS
    <3>2. IsFiniteSet(1..n) /\ Cardinality(1..n) = IF 1 > n THEN 0 ELSE n - 1 + 1
      BY <3>1, FS_Interval
    <3> QED BY <3>2
  <2> QED BY <1>1, <2>1
<1>4. \A k \in S : f[k] \in T /\ t[f[k]] = s[k]
  BY <1>1 DEF Contains
<1>5. f \in [S -> T]
  BY <1>4
<1> HIDE DEF f
<1>6. PICK j \in S, k \in S : j # k /\ f[j] = f[k]
  <2> HIDE DEF S, T
  <2>1. \E j, k \in S : j # k /\ f[j] = f[k]
    BY <1>2, <1>3, <1>5, FS_PigeonHole
  <2> QED BY <2>1
<1> QED BY <1>1, <1>4, <1>6 DEF Distinct

\* c is the copy of b in the container of width w, as far as the loop has come.
Copying(c, b, w) ==
    /\ Sound(c) /\ c.width = w /\ c.bits = b.width + 1 /\ c.cap = Pow2[w]
    /\ \A k \in DOMAIN c.values : Contains(b.values, c.values[k])

\* One turn of the copying loop.
LEMMA CopyStep ==
  ASSUME config \in Configs, NEW b, Sound(b), ~IsGlobal(b), \A i \in Cell : Points(b, i),
         NEW w, w = Width(b.width + 1), NEW c, Copying(c, b, w), NEW i \in Cell
  PROVE  /\ HasRoom(c, Get(b, i)) /\ Get(b, i) \in State
         /\ HasEntered(Entered(c, i, Get(b, i)), c, i, Get(b, i))
         /\ Copying(Entered(c, i, Get(b, i)), b, w)
<1>1. b.width \in Nat /\ b.width < w /\ w \in Nat
  <2>1. b.width \in Nat /\ b.width <= config.max /\ config.max \in Nat
    BY WidthFacts DEF Sound, IsGlobal
  <2>2. b.width + 1 \in Nat
    BY <2>1
  <2>3. CASE b.width + 1 <= config.max
    BY <2>1, <2>2, <2>3, WidthFacts
  <2>4. CASE b.width + 1 > config.max
    BY <2>1, <2>2, <2>4, WidthFacts
  <2> QED BY <2>1, <2>2, <2>3, <2>4
<1>2. Get(b, i) \in State /\ Contains(b.values, Get(b, i))
  BY GetIn
<1>3. b.values \in Seq(State) /\ c.values \in Seq(State) /\ Len(b.values) \in Nat /\ Len(c.values) \in Nat
  BY DEF Sound, Copying, Containers
<1>4. ~IsGlobal(c) => Len(c.values) < c.cap
  <2>1. SUFFICES ASSUME ~IsGlobal(c) PROVE Len(c.values) < c.cap
    OBVIOUS
  <2>2. Len(c.values) <= Len(b.values)
    <3>1. Distinct(c.values)
      BY <2>1 DEF Copying, Sound
    <3> QED BY <1>3, <3>1, NoLonger DEF Copying
  <2>3. Len(b.values) <= b.cap /\ b.cap <= Pow2[b.width] /\ b.cap \in Nat
    BY DEF Sound, Containers
  <2>4. Pow2[b.width] < Pow2[w] /\ Pow2[b.width] \in Nat /\ Pow2[w] \in Nat
    BY <1>1, Pow2Grows, Pow2Facts
  <2> QED BY <1>3, <2>2, <2>3, <2>4 DEF Copying
<1>5. HasRoom(c, Get(b, i))
  BY <1>4 DEF HasRoom
<1>6. HasEntered(Entered(c, i, Get(b, i)), c, i, Get(b, i))
  BY <1>2, <1>5, EnteredKeeps DEF Copying
<1> DEFINE e == Entered(c, i, Get(b, i))
<1> HIDE DEF e
<1>7. HasEntered(e, c, i, Get(b, i))
  BY <1>6 DEF e
<1>8. \A k \in DOMAIN e.values : Contains(b.values, e.values[k])
  <2> TAKE k \in DOMAIN e.values
  <2>1. e.values[k] = Get(b, i) \/ Contains(c.values, e.values[k])
    BY <1>7 DEF HasEntered
  <2>2. CASE Contains(c.values, e.values[k])
    <3>1. PICK j \in 1..Len(c.values) : c.values[j] = e.values[k]
      BY <2>2 DEF Contains
    <3>2. j \in DOMAIN c.values
      BY <1>3, <3>1
    <3> QED BY <3>1, <3>2 DEF Copying
  <2> QED BY <1>2, <2>1, <2>2
<1>9. Copying(e, b, w)
  BY <1>7, <1>8 DEF Copying, HasEntered
<1> QED BY <1>2, <1>5, <1>6, <1>9 DEF e

LEMMA EmptyStarts ==
  ASSUME config \in Configs, NEW b, Sound(b), ~IsGlobal(b)
  PROVE  Copying(Empty(b.width + 1), b, Width(b.width + 1))
<1> DEFINE w == Width(b.width + 1)
           e == Empty(b.width + 1)
<1>1. b.width + 1 \in Nat
  BY DEF Sound
<1>2. w \in Nat /\ w <= LongBits /\ (w > config.max => w = config.global)
  BY <1>1, WidthFacts
<1>3. Pow2[w] \in Nat \ {0}
  BY <1>2, Pow2Facts
<1> HIDE DEF w
<1>4. e = [bits |-> b.width + 1, width |-> w, values |-> <<>>, cap |-> Pow2[w],
           longs |-> [k \in 1..Longs(w) |-> 0]]
  BY DEF Empty, w
<1> HIDE DEF e
<1>5. <<>> \in Seq(State) /\ Len(<<>>) = 0 /\ DOMAIN <<>> = {}
  BY EmptySeq
<1>6. e \in Containers(w)
  BY <1>1, <1>3, <1>4, <1>5 DEF Containers
<1>7. e.width = w /\ e.bits = b.width + 1 /\ e.cap = Pow2[w] /\ e.values = <<>>
  BY <1>4
<1>8. Sound(e)
  BY <1>2, <1>3, <1>5, <1>6, <1>7 DEF Sound, Distinct
<1> QED BY <1>5, <1>7, <1>8 DEF Copying, e, w

\* Resized copies every cell, and the palette lists no value that b does not.
LEMMA ResizedKeeps ==
  ASSUME config \in Configs, NEW b, Sound(b), ~IsGlobal(b), \A i \in Cell : Points(b, i)
  PROVE  /\ Copying(Resized(b), b, Width(b.width + 1))
         /\ \A i \in Cell : Points(Resized(b), i) /\ Get(Resized(b), i) = Get(b, i)
<1> DEFINE w == Width(b.width + 1)
           N == 0..Length
           V == {c \in Containers(w) : Copying(c, b, w)}
           zero == Empty(b.width + 1)
           step == [n \in N |-> [c \in V |-> IF n = 0 THEN c ELSE Entered(c, n, Get(b, n))]]
           Is(f) == f = [i \in 0..Length |->
                           IF i = 0 THEN Empty(b.width + 1) ELSE Entered(f[i - 1], i, Get(b, i))]
<1>0. Length \in Nat \ {0} /\ \A n \in N : n # 0 => n \in Cell /\ n - 1 \in N
  BY LengthAssumption DEF Cell
<1>1. \A c : Copying(c, b, w) => c \in V
  BY DEF Copying, Sound
<1>2. zero \in V
  BY <1>1, EmptyStarts
<1>3. step \in [N -> [V -> V]]
  <2>1. ASSUME NEW n \in N, n # 0, NEW c \in V PROVE Entered(c, n, Get(b, n)) \in V
    <3>1. n \in Cell /\ Copying(c, b, w)
      BY <1>0, <2>1
    <3>2. Copying(Entered(c, n, Get(b, n)), b, w)
      <4> HIDE DEF w
      <4>1. w = Width(b.width + 1)
        BY DEF w
      <4> QED BY <3>1, <4>1, CopyStep
    <3> QED BY <1>1, <3>2
  <2> QED BY <2>1
<1>4. FromZero(N)
  BY <1>0 DEF FromZero
<1>5. \E g \in [N -> V] : Counts(g, N, zero, step)
  <2> HIDE DEF N, V, zero, step
  <2> QED BY <1>2, <1>3, <1>4, CountingUp
<1>6. PICK g \in [N -> V] : Counts(g, N, zero, step)
  BY <1>5
<1>7. \A n \in N : g[n] = IF n = 0 THEN zero ELSE Entered(g[n - 1], n, Get(b, n))
  <2> TAKE n \in N
  <2>1. g[n] = IF n = 0 THEN zero ELSE step[n][g[n - 1]]
    BY <1>6 DEF Counts
  <2>2. n # 0 => g[n - 1] \in V
    BY <1>0, <1>6
  <2>3. n # 0 => step[n][g[n - 1]] = Entered(g[n - 1], n, Get(b, n))
    BY <2>2
  <2> QED BY <2>1, <2>3
<1>8. Is(g)
  BY <1>7
<1> DEFINE h == CHOOSE f : Is(f)
<1>9. Is(h)
  <2>1. \E f : Is(f)
    BY <1>8
  <2> HIDE DEF Is
  <2> QED BY <2>1
<1>10. Resized(b) = h[Length]
  BY DEF Resized
<1> HIDE DEF h
<1>11. h[0] = zero /\ \A n \in Cell : n - 1 \in N /\ h[n] = Entered(h[n - 1], n, Get(b, n))
  <2>1. \A n \in N : h[n] = IF n = 0 THEN zero ELSE Entered(h[n - 1], n, Get(b, n))
    BY <1>9
  <2>2. 0 \in N /\ \A n \in Cell : n \in N /\ n # 0 /\ n - 1 \in N
    BY <1>0 DEF Cell
  <2> QED BY <2>1, <2>2
<1> DEFINE Done(n) == /\ Copying(h[n], b, w)
                      /\ \A j \in 1..n : Points(h[n], j) /\ Get(h[n], j) = Get(b, j)
<1>12. \A n \in N : Done(n)
  <2> DEFINE S == {n \in N : ~Done(n)}
  <2>1. SUFFICES ASSUME S # {} PROVE FALSE
    OBVIOUS
  <2>2. S \in SUBSET Nat
    BY <1>0
  <2>3. PICK n \in S : \A j \in S : n <= j
    BY <2>1, <2>2, LeastOf
  <2>4. n \in N /\ ~Done(n)
    BY <2>3
  <2>5. CASE n = 0
    <3>1. Copying(h[0], b, w)
      BY <1>2, <1>11
    <3>2. 1..0 = {}
      OBVIOUS
    <3> QED BY <2>4, <2>5, <3>1, <3>2
  <2>6. CASE n # 0
    <3>1. n \in Cell /\ n - 1 \in N /\ n \in Nat
      BY <1>0, <2>4, <2>6
    <3>2. Done(n - 1)
      BY <2>3, <3>1
    <3> DEFINE c == h[n - 1]
    <3>3. h[n] = Entered(c, n, Get(b, n))
      BY <1>11, <3>1
    <3> HIDE DEF c, w
    <3>4. w = Width(b.width + 1)
      BY DEF w
    <3>5. Copying(c, b, w)
      BY <3>2 DEF c
    <3>6. /\ HasEntered(Entered(c, n, Get(b, n)), c, n, Get(b, n))
          /\ Copying(Entered(c, n, Get(b, n)), b, w)
      BY <3>1, <3>4, <3>5, CopyStep
    <3>7. ASSUME NEW j \in 1..n PROVE Points(h[n], j) /\ Get(h[n], j) = Get(b, j)
      <4>1. j = n \/ j \in 1..(n - 1)
        BY <3>1
      <4>2. j \in Cell
        BY <1>0, <3>1 DEF Cell
      <4>3. CASE j = n
        BY <3>3, <3>6, <4>3 DEF HasEntered
      <4>4. CASE j # n
        <5>1. Points(c, j) /\ Get(c, j) = Get(b, j)
          BY <3>2, <4>1, <4>4 DEF c
        <5> QED BY <3>3, <3>6, <4>2, <4>4, <5>1 DEF HasEntered
      <4> QED BY <4>3, <4>4
    <3>8. Copying(h[n], b, w)
      BY <3>3, <3>6
    <3> QED BY <2>4, <3>7, <3>8
  <2> QED BY <2>5, <2>6
<1>13. Done(Length)
  BY <1>0, <1>12
<1> QED BY <1>10, <1>13 DEF Cell

\* Of a container whose longs were cut where they were packed.
InStep ==
    /\ Sound(box) /\ box.width = Width(box.bits)
    /\ \A i \in Cell : Points(box, i) /\ Get(box, i) = contents[i]

\* The inductive invariant: a container is sound, and its cells read what was
\* last set. ContentsMatch alone does not say that indexes stay inside the palette.
PaletteInv ==
    /\ config \in Configs /\ contents \in [Cell -> State]
    /\ ~misread => InStep

\* One lemma for each action.
LEMMA SingleValue ==
  ASSUME config \in Configs, NEW v \in State, NEW b, b = [Empty(0) EXCEPT !.values = <<v>>]
  PROVE  Sound(b) /\ b.width = Width(b.bits) /\ \A i \in Cell : Points(b, i) /\ Get(b, i) = v
<1>1. Width(0) = 0 /\ Longs(0) = 0 /\ Pow2[0] = 1 /\ config.max \in Nat
  BY WidthFacts, Pow2Facts DEF Longs
<1>2. b = [bits |-> 0, width |-> 0, values |-> <<v>>, cap |-> 1, longs |-> [k \in 1..0 |-> 0]]
  BY <1>1 DEF Empty
<1>3. <<v>> \in Seq(State) /\ Len(<<v>>) = 1 /\ DOMAIN <<v>> = {1} /\ <<v>>[1] = v
  OBVIOUS
<1>4. b.width = 0 /\ b.bits = 0 /\ b.values = <<v>> /\ b.cap = 1
  BY <1>2
<1>5. b \in Containers(0)
  <2>1. [k \in 1..0 |-> 0] \in [1..Longs(0) -> Int]
    BY <1>1
  <2> DEFINE l == [k \in 1..0 |-> 0]
             s == <<v>>
  <2>3. s \in Seq(State) /\ l \in [1..Longs(0) -> Int]
        /\ b = [bits |-> 0, width |-> 0, values |-> s, cap |-> 1, longs |-> l]
    BY <1>2, <1>3, <2>1
  <2> HIDE DEF l, s
  <2> QED BY <2>3 DEF Containers
<1>6. ~IsGlobal(b)
  BY <1>1, <1>4 DEF IsGlobal
<1>7. Sound(b)
  BY <1>1, <1>3, <1>4, <1>5, <1>6, LongBitsAssumption DEF Sound, Distinct
<1>8. \A i \in Cell : Stored(b, i) = 0
  BY <1>4 DEF Stored
<1>9. \A i \in Cell : Points(b, i) /\ Get(b, i) = v
  BY <1>3, <1>4, <1>6, <1>8 DEF Points, Get
<1> QED BY <1>1, <1>4, <1>7, <1>9

LEMMA NewContainerKeeps ==
  ASSUME config \in Configs, NEW v \in State, config' = config,
         box' = [Empty(0) EXCEPT !.values = <<v>>], contents' = [i \in Cell |-> v]
  PROVE  PaletteInv'
<1>1. Sound(box') /\ box'.width = Width(box'.bits) /\ \A i \in Cell : Points(box', i) /\ Get(box', i) = v
  BY SingleValue
<1>2. InStep'
  BY <1>1 DEF InStep, Sound, Points, Get, IsGlobal, Width, Containers, Stored, Longs, PerLong, Cell
<1> QED BY <1>2 DEF PaletteInv

LEMMA SetKeeps ==
  ASSUME PaletteInv, NEW i \in Cell, NEW v \in State, Set(i, v)
  PROVE  PaletteInv'
<1>1. ~misread /\ InStep /\ config \in Configs /\ config' = config /\ contents \in [Cell -> State]
  BY DEF Set, PaletteInv
<1> DEFINE from == IF HasRoom(box, v) THEN box ELSE Resized(box)
           to == Entered(from, i, v)
<1>2. box' = to /\ contents' = [contents EXCEPT ![i] = v]
  BY DEF Set
<1>3. /\ Sound(from) /\ HasRoom(from, v) /\ from.width = Width(from.bits)
      /\ \A j \in Cell : Points(from, j) /\ Get(from, j) = contents[j]
  <2>1. CASE HasRoom(box, v)
    BY <1>1, <2>1 DEF InStep
  <2>2. CASE ~HasRoom(box, v)
    <3> DEFINE r == Resized(box)
    <3>1. from = r /\ ~IsGlobal(box) /\ Sound(box) /\ \A j \in Cell : Points(box, j) /\ Get(box, j) = contents[j]
      BY <1>1, <2>2 DEF InStep, HasRoom
    <3>2. Copying(r, box, Width(box.width + 1)) /\ \A j \in Cell : Points(r, j) /\ Get(r, j) = Get(box, j)
      BY <1>1, <3>1, ResizedKeeps
    <3> HIDE DEF r, from
    <3>3. box.width \in Nat /\ box.width + 1 \in Nat /\ box.width <= config.max /\ config.max \in Nat
      BY <1>1, <3>1, WidthFacts DEF Sound, IsGlobal
    <3>4. /\ Sound(r) /\ r.width = Width(box.width + 1) /\ r.bits = box.width + 1
          /\ r.cap = Pow2[r.width] /\ \A k \in DOMAIN r.values : Contains(box.values, r.values[k])
      BY <3>2 DEF Copying
    <3>5. r.values \in Seq(State) /\ box.values \in Seq(State) /\ box.cap \in Nat /\ r.width \in Nat
      BY <3>1, <3>4 DEF Sound, Containers
    <3>6. HasRoom(r, v)
      <4>1. SUFFICES ASSUME ~IsGlobal(r) PROVE Len(r.values) < r.cap
        BY DEF HasRoom
      <4>2. Len(r.values) <= Len(box.values)
        <5>1. Distinct(r.values)
          BY <3>4, <4>1 DEF Sound
        <5> QED BY <3>4, <3>5, <5>1, NoLonger
      <4>3. Len(box.values) <= Pow2[box.width] /\ Pow2[box.width] \in Nat
        <5>1. Len(box.values) <= box.cap /\ box.cap <= Pow2[box.width]
          BY <3>1 DEF Sound
        <5>2. Pow2[box.width] \in Nat
          BY <3>3, Pow2Facts
        <5> QED BY <3>5, <5>1, <5>2
      <4>4. box.width < r.width
        <5>1. CASE box.width + 1 <= config.max
          BY <1>1, <3>3, <3>4, <3>5, <5>1, WidthFacts
        <5>2. CASE box.width + 1 > config.max
          BY <1>1, <3>3, <3>4, <3>5, <5>2, WidthFacts
        <5> QED BY <3>3, <5>1, <5>2
      <4>5. Pow2[box.width] < Pow2[r.width] /\ Pow2[r.width] \in Nat
        BY <3>3, <3>5, <4>4, Pow2Grows, Pow2Facts
      <4> QED BY <3>4, <3>5, <4>2, <4>3, <4>5
    <3> QED BY <3>1, <3>2, <3>4, <3>6
  <2> QED BY <2>1, <2>2
<1> HIDE DEF from
<1>4. HasEntered(to, from, i, v)
  BY <1>1, <1>3, EnteredKeeps
<1> HIDE DEF to
<1>5. Sound(to) /\ to.width = Width(to.bits)
  BY <1>3, <1>4 DEF HasEntered
<1>6. \A j \in Cell : Points(to, j) /\ Get(to, j) = contents'[j]
  BY <1>1, <1>2, <1>3, <1>4 DEF HasEntered
<1>7. InStep'
  BY <1>1, <1>2, <1>5, <1>6
     DEF InStep, Sound, Points, Get, IsGlobal, Width, Containers, Stored, Longs, PerLong, Cell
<1> QED BY <1>1, <1>2, <1>7 DEF PaletteInv

\* What a transfer and a file leave of a container: all but the bits it
\* announces and the capacity of the palette.
LEMMA RebuiltKeeps ==
  ASSUME PaletteInv, ~misread, config' = config, contents' = contents,
         NEW bits \in Nat, Width(bits) = box.width, NEW cap \in Nat,
         ~IsGlobal(box) => Len(box.values) <= cap /\ cap <= Pow2[box.width],
         box' = [box EXCEPT !.bits = bits, !.width = box.width, !.cap = cap]
  PROVE  PaletteInv'
<1>1. InStep /\ Sound(box) /\ box.width \in Nat /\ box \in Containers(box.width)
  BY DEF PaletteInv, InStep, Sound
<1>2. /\ box' \in Containers(box.width) /\ box'.bits = bits /\ box'.width = box.width /\ box'.cap = cap
      /\ box'.values = box.values /\ box'.longs = box.longs
  BY <1>1 DEF Containers
<1>3. /\ IsGlobal(box') <=> IsGlobal(box)
      /\ \A i \in Cell : Stored(box', i) = Stored(box, i)
  BY <1>2 DEF IsGlobal, Stored
<1>4. \A i \in Cell : Points(box', i) /\ Get(box', i) = contents[i]
  BY <1>1, <1>2, <1>3 DEF InStep, Points, Get
<1>5. Sound(box') /\ box'.width = Width(box'.bits)
  BY <1>1, <1>2, <1>3 DEF Sound
<1>6. InStep'
  BY <1>4, <1>5
     DEF InStep, Sound, Points, Get, IsGlobal, Width, Containers, Stored, Longs, PerLong, Cell
<1> QED BY <1>6 DEF PaletteInv

LEMMA TransferKeeps ==
  ASSUME PaletteInv, Transfer
  PROVE  PaletteInv'
<1> DEFINE w == Width(box.bits)
<1>1. ~misread /\ config' = config /\ contents' = contents /\ Sound(box) /\ box.width = w /\ config \in Configs
  BY DEF Transfer, PaletteInv, InStep
<1>2. box.bits \in Nat /\ Width(w) = box.width /\ w \in Nat
  BY <1>1, WidthFacts DEF Sound, Containers
<1>3. box' = [box EXCEPT !.bits = w, !.width = w, !.cap = Pow2[w]]
  BY DEF Transfer, Received
<1>4. box' = [box EXCEPT !.bits = w, !.width = box.width, !.cap = Pow2[w]]
  BY <1>1, <1>3
<1>5. Pow2[w] \in Nat /\ (~IsGlobal(box) => Len(box.values) <= Pow2[w] /\ Pow2[w] <= Pow2[box.width])
  <2>1. Pow2[w] \in Nat
    BY <1>2, Pow2Facts
  <2>2. box.cap \in Nat /\ box.values \in Seq(State)
    BY <1>1 DEF Sound, Containers
  <2> QED BY <1>1, <2>1, <2>2 DEF Sound
<1> HIDE DEF w
<1> QED BY <1>1, <1>2, <1>4, <1>5, RebuiltKeeps

LEMMA ReloadKeeps ==
  ASSUME PaletteInv, Reload
  PROVE  PaletteInv'
<1> DEFINE bits == BitsPerValue(Len(box.longs))
           w == IF bits <= config.max THEN Width(bits) ELSE bits
<1>1. ~misread /\ config' = config /\ contents' = contents /\ Sound(box) /\ config \in Configs
      /\ box.width = Width(box.bits)
  BY DEF Reload, PaletteInv, InStep
<1>2. box' = [box EXCEPT !.bits = w, !.width = w, !.cap = Len(box.values)] /\ misread' = (box'.width # box.width)
  BY DEF Reload, Loaded
<1> HIDE DEF w
<1>3. CASE misread'
  BY <1>1, <1>3 DEF PaletteInv, Cell
<1>4. CASE ~misread'
  <2>1. box \in Containers(box.width) /\ box.bits \in Nat /\ box.values \in Seq(State) /\ box.cap \in Nat
        /\ box.width \in Nat
    BY <1>1 DEF Sound, Containers
  <2>2. w = box.width
    <3>1. box'.width = w
      BY <1>2, <2>1 DEF Containers
    <3> QED BY <1>2, <1>4, <3>1
  <2>3. Width(box.width) = box.width
    BY <1>1, <2>1, WidthFacts
  <2>4. Len(box.values) \in Nat
        /\ (~IsGlobal(box) => Len(box.values) <= Len(box.values) /\ Len(box.values) <= Pow2[box.width])
    <3>1. Pow2[box.width] \in Nat
      BY <2>1, Pow2Facts
    <3> QED BY <1>1, <2>1, <3>1 DEF Sound
  <2>5. box' = [box EXCEPT !.bits = box.width, !.width = box.width, !.cap = Len(box.values)]
    BY <1>2, <2>2
  <2> QED BY <1>1, <2>1, <2>3, <2>4, <2>5, RebuiltKeeps
<1> QED BY <1>3, <1>4

LEMMA PaletteInvariant == PaletteSpec => []PaletteInv
<1>1. PaletteInit => PaletteInv
  <2> SUFFICES ASSUME PaletteInit PROVE PaletteInv
    OBVIOUS
  <2>1. config \in Configs
    BY DEF PaletteInit
  <2>2. PICK v \in State : box = [Empty(0) EXCEPT !.values = <<v>>] /\ contents = [i \in Cell |-> v]
    BY DEF PaletteInit
  <2>3. Sound(box) /\ box.width = Width(box.bits) /\ \A i \in Cell : Points(box, i) /\ Get(box, i) = v
    BY <2>1, <2>2, SingleValue
  <2> QED BY <2>1, <2>2, <2>3 DEF PaletteInv, InStep
<1>2. PaletteInv /\ [PaletteNext]_paletteVars => PaletteInv'
  <2> SUFFICES ASSUME PaletteInv, [PaletteNext]_paletteVars PROVE PaletteInv'
    OBVIOUS
  <2>1. ASSUME NEW v \in State, NewContainer(v) PROVE PaletteInv'
    <3>1. config \in Configs /\ config' = config /\ box' = [Empty(0) EXCEPT !.values = <<v>>]
          /\ contents' = [i \in Cell |-> v]
      BY <2>1 DEF NewContainer, PaletteInv
    <3> QED BY <3>1, NewContainerKeeps
  <2>2. ASSUME NEW i \in Cell, NEW v \in State, Set(i, v) PROVE PaletteInv'
    BY <2>2, SetKeeps
  <2>3. CASE Transfer
    BY <2>3, TransferKeeps
  <2>4. CASE Reload
    BY <2>4, ReloadKeeps
  <2>5. CASE UNCHANGED paletteVars
    BY <2>5 DEF paletteVars, PaletteInv, InStep, Sound, Points, Get, IsGlobal, Width, Containers, Stored,
                Longs, PerLong, Cell
  <2> QED BY <2>1, <2>2, <2>3, <2>4, <2>5 DEF PaletteNext
<1> QED BY <1>1, <1>2, PTL DEF PaletteSpec

\* For any length, any width of a long and any configuration whose global width
\* holds the states: every cell reads what was last set in it, through palettes
\* that grow, become direct and are sent, and through files for as long as no
\* load has guessed another width than the one the longs were packed with: of
\* those it guesses wrong nothing is said (level/palette.go, bitstorage.go).
THEOREM PaletteContentsMatch == PaletteSpec => []ContentsMatch
<1>1. PaletteInv => ContentsMatch
  BY DEF PaletteInv, InStep, ContentsMatch
<1> QED BY <1>1, PaletteInvariant, PTL

\* And no palette lists a value twice or more than its width can index, and no
\* cell points behind the palette: the panics of level/palette.go and
\* bitstorage.go stay out of reach.
THEOREM PaletteStaysInBounds == PaletteSpec => []PaletteFits
<1>1. PaletteInv => PaletteFits
  <2> SUFFICES ASSUME PaletteInv, ~misread, ~IsGlobal(box) PROVE PaletteFits
    BY DEF PaletteFits
  <2>1. Sound(box) /\ \A i \in Cell : Points(box, i)
    BY DEF PaletteInv, InStep
  <2>2. box.width \in Nat /\ box.values \in Seq(State) /\ box.cap \in Nat
    BY <2>1 DEF Sound, Containers
  <2>3. Pow2[box.width] \in Nat
    BY <2>2, Pow2Facts
  <2> QED BY <2>1, <2>2, <2>3 DEF Sound, Distinct, Points, PaletteFits
<1> QED BY <1>1, PaletteInvariant, PTL

-----------------------------------------------------------------------------
(* CFB8                                                                      *)

\* A block is a sequence.
LEMMA BlockLen ==
  ASSUME NEW n \in Nat, NEW e \in [1..n -> Byte]
  PROVE  Len(e) = n /\ e \in Seq(Byte) /\ DOMAIN e = 1..n
OBVIOUS

\* What Put and Slice write and read.
LEMMA PutIs ==
  ASSUME NEW K \in Nat, NEW m \in [1..K -> Byte], NEW n \in Nat, NEW e \in [1..n -> Byte], NEW at \in Nat
  PROVE  /\ Put(m, at, e) \in [1..K -> Byte]
         /\ \A p \in 1..K : p < at \/ at + n <= p => Put(m, at, e)[p] = m[p]
         /\ \A i \in 1..n : at + i - 1 \in 1..K => Put(m, at, e)[at + i - 1] = e[i]
<1>1. Len(e) = n
  BY BlockLen
<1>2. Put(m, at, e) = [i \in 1..K |-> IF i \in at..(at + n - 1) THEN e[i - at + 1] ELSE m[i]]
  BY <1>1 DEF Put
<1>3. ASSUME NEW i \in 1..K, i \in at..(at + n - 1) PROVE i - at + 1 \in 1..n
  BY <1>3
<1>4. Put(m, at, e) \in [1..K -> Byte]
  BY <1>2, <1>3
<1>5. ASSUME NEW i \in 1..n, at + i - 1 \in 1..K PROVE Put(m, at, e)[at + i - 1] = e[i]
  <2>1. at + i - 1 \in at..(at + n - 1) /\ (at + i - 1) - at + 1 = i
    OBVIOUS
  <2> QED BY <1>2, <1>5, <2>1
<1> QED BY <1>2, <1>4, <1>5

LEMMA SliceIs ==
  ASSUME NEW K \in Nat, NEW m \in [1..K -> Byte], NEW n \in Nat, NEW at \in Nat \ {0}, at + n - 1 <= K
  PROVE  /\ Slice(m, at, n) \in [1..n -> Byte]
         /\ \A i \in 1..n : at + i - 1 \in 1..K /\ Slice(m, at, n)[i] = m[at + i - 1]
<1>1. \A i \in 1..n : at + i - 1 \in 1..K
  OBVIOUS
<1> QED BY <1>1 DEF Slice

\* The memory of a call, the ring of three blocks and the places of its window.
Memory(M) == [1..M -> Byte]

Ring == [1..(3 * BlockSize) -> Byte]

Positions == 0..(2 * BlockSize)

\* A call in progress over a memory of M bytes, with dst at d and src at c.
Calls(M, d, c) ==
    [mem : Memory(M), dst : {d}, src : {c}, iv : Ring, ivPos : 0..(2 * BlockSize)]

\* The block the next byte is encrypted with, and what is shifted in behind it.
Window(s) == BlockAt(s.iv, s.ivPos + 1)

Fed(in, out) == IF decrypts THEN in ELSE out

Shifted(w, x) == [i \in 1..BlockSize |-> IF i = BlockSize THEN x ELSE w[i + 1]]

LEMMA BlockRead ==
  ASSUME NEW M \in Nat, NEW m \in Memory(M), NEW at \in Nat \ {0}, at + BlockSize - 1 <= M
  PROVE  BlockAt(m, at) \in Block /\ \A i \in 1..BlockSize : BlockAt(m, at)[i] = m[at + i - 1]
<1>1. m \in [1..M -> Byte] /\ BlockSize \in Nat
  BY BlockAssumption DEF Memory
<1> QED BY <1>1, SliceIs DEF BlockAt, Block

LEMMA CallIs ==
  ASSUME NEW M, NEW d, NEW c, NEW s \in Calls(M, d, c)
  PROVE  /\ s.mem \in Memory(M) /\ s.dst = d /\ s.src = c /\ s.iv \in Ring /\ s.ivPos \in Positions
         /\ s = [mem |-> s.mem, dst |-> d, src |-> c, iv |-> s.iv, ivPos |-> s.ivPos]
BY DEF Calls, Positions

LEMMA WindowType ==
  ASSUME NEW M, NEW d, NEW c, NEW s \in Calls(M, d, c)
  PROVE  /\ Window(s) \in Block /\ Encrypt(Window(s)) \in Block /\ Encrypt(Window(s))[1] \in Byte
         /\ \A i \in 1..BlockSize : s.ivPos + i \in 1..(3 * BlockSize) /\ Window(s)[i] = s.iv[s.ivPos + i]
<1> DEFINE K == 3 * BlockSize
           at == s.ivPos + 1
<1>1. BlockSize \in Nat \ {0} /\ BlockSize \in Nat /\ K \in Nat
  BY BlockAssumption
<1>2. s.iv \in [1..K -> Byte] /\ s.ivPos \in 0..(2 * BlockSize)
  BY DEF Calls, Ring, Memory
<1>3. at \in Nat \ {0} /\ at + BlockSize - 1 <= K
  BY <1>1, <1>2
<1>4. /\ Window(s) \in [1..BlockSize -> Byte]
      /\ \A i \in 1..BlockSize : at + i - 1 \in 1..K /\ Window(s)[i] = s.iv[at + i - 1]
  <2> DEFINE r == s.iv
             w == Slice(r, at, BlockSize)
  <2>1. Window(s) = w
    BY DEF Window, BlockAt
  <2>2. r \in [1..K -> Byte]
    BY <1>2
  <2>3. w \in [1..BlockSize -> Byte] /\ \A i \in 1..BlockSize : at + i - 1 \in 1..K /\ w[i] = r[at + i - 1]
    <3> HIDE DEF K, at, r
    <3> QED BY ONLY <1>1, <2>2, <1>3, SliceIs
  <2> QED BY <2>1, <2>3
<1>5. \A i \in 1..BlockSize : at + i - 1 = s.ivPos + i
  BY <1>1, <1>2
<1>6. Encrypt(Window(s)) \in [1..BlockSize -> Byte]
  BY <1>4, BlockAssumption
<1>7. 1 \in 1..BlockSize
  BY <1>1
<1> QED BY <1>4, <1>5, <1>6, <1>7 DEF Block

\* The encrypted block is written beside the window.
LEMMA BesideIs ==
  ASSUME NEW r \in Ring, NEW a \in Positions, NEW e \in Block,
         NEW at, at = (a + BlockSize) % (2 * BlockSize)
  PROVE  /\ at \in Nat /\ Put(r, at + 1, e) \in Ring /\ Put(r, at + 1, e)[at + 1] = e[1]
         /\ \A i \in 1..BlockSize : a + i \in 1..(3 * BlockSize) /\ Put(r, at + 1, e)[a + i] = r[a + i]
<1>b. BlockSize \in Nat \ {0}
  BY BlockAssumption
<1> USE <1>b DEF Ring, Positions, Block
<1>a. ASSUME NEW x \in Int, NEW D \in Nat \ {0}, NEW q \in Int, NEW r0 \in Int, 0 <= r0, r0 < D, x = D * q + r0
      PROVE  x % D = r0
  BY <1>a, DivUnique
<1>1. /\ at \in Nat /\ at + BlockSize <= 3 * BlockSize
      /\ at + BlockSize <= a \/ a + BlockSize <= at
  <2> DEFINE x == a + BlockSize
             D == 2 * BlockSize
  <2>1. x \in Int /\ D \in Nat \ {0} /\ a \in Nat
    OBVIOUS
  <2>2. CASE a < BlockSize
    <3>1. x = D * 0 + x /\ 0 <= x /\ x < D
      BY <2>1, <2>2
    <3>2. x % D = x
      <4> HIDE DEF x, D
      <4> QED BY <2>1, <3>1, <1>a
    <3> QED BY <2>1, <2>2, <3>2
  <2>3. CASE BlockSize <= a /\ a < 2 * BlockSize
    <3> DEFINE y == a - BlockSize
    <3>1. x = D * 1 + y /\ 0 <= y /\ y < D /\ y \in Int
      BY <2>1, <2>3
    <3>2. x % D = y
      <4> HIDE DEF x, D, y
      <4> QED BY <2>1, <3>1, <1>a
    <3> QED BY <2>1, <2>3, <3>2
  <2>4. CASE a = 2 * BlockSize
    <3>1. x = D * 1 + BlockSize /\ 0 <= BlockSize /\ BlockSize < D /\ BlockSize \in Int
      BY <2>1, <2>4
    <3>2. x % D = BlockSize
      <4> HIDE DEF x, D
      <4> QED BY <2>1, <3>1, <1>a
    <3> QED BY <2>1, <2>4, <3>2
  <2> QED BY <2>1, <2>2, <2>3, <2>4
<1>2. at + 1 \in Nat /\ 3 * BlockSize \in Nat /\ BlockSize \in Nat
  BY <1>1
<1> DEFINE ring == Put(r, at + 1, e)
<1>3. /\ ring \in [1..(3 * BlockSize) -> Byte]
      /\ \A p \in 1..(3 * BlockSize) : p < at + 1 \/ (at + 1) + BlockSize <= p => ring[p] = r[p]
      /\ \A i \in 1..BlockSize : (at + 1) + i - 1 \in 1..(3 * BlockSize) => ring[(at + 1) + i - 1] = e[i]
  BY <1>2, PutIs
<1> HIDE DEF ring
<1>4. 1 \in 1..BlockSize /\ (at + 1) + 1 - 1 = at + 1 /\ at + 1 \in 1..(3 * BlockSize)
  BY <1>1
<1>5. \A i \in 1..BlockSize : a + i \in 1..(3 * BlockSize) /\ (a + i < at + 1 \/ (at + 1) + BlockSize <= a + i)
  BY <1>1
<1> QED BY <1>1, <1>3, <1>4, <1>5 DEF ring

\* The window moves on by one, or is copied to the front of the ring.
TurnedRing(ring, a, x) ==
    IF a = 2 * BlockSize THEN [Put(ring, 1, Slice(ring, a + 2, BlockSize - 1)) EXCEPT ![BlockSize] = x]
    ELSE [ring EXCEPT ![a + BlockSize + 1] = x]

TurnedPos(a) == IF a = 2 * BlockSize THEN 0 ELSE a + 1

\* The new window is the old one shifted, wrapped or not.
LEMMA TurnedIs ==
  ASSUME NEW ring \in Ring, NEW a \in Positions, NEW x \in Byte
  PROVE  /\ TurnedRing(ring, a, x) \in Ring /\ TurnedPos(a) \in Positions
         /\ \A i \in 1..BlockSize : TurnedRing(ring, a, x)[TurnedPos(a) + i]
                              = IF i = BlockSize THEN x ELSE ring[a + (i + 1)]
<1>b. BlockSize \in Nat \ {0}
  BY BlockAssumption
<1> USE <1>b DEF Ring, Positions, Block
<1>1. CASE a = 2 * BlockSize
  <2> DEFINE part == Slice(ring, a + 2, BlockSize - 1)
             moved == Put(ring, 1, part)
             ring2 == [moved EXCEPT ![BlockSize] = x]
  <2>1. /\ part \in [1..(BlockSize - 1) -> Byte]
        /\ \A i \in 1..(BlockSize - 1) : part[i] = ring[(a + 2) + i - 1]
    <3>1. a + 2 \in Nat \ {0} /\ (a + 2) + (BlockSize - 1) - 1 <= 3 * BlockSize /\ BlockSize - 1 \in Nat /\ 3 * BlockSize \in Nat
      BY <1>1
    <3> QED BY <3>1, SliceIs
  <2> HIDE DEF part
  <2>2. /\ moved \in [1..(3 * BlockSize) -> Byte]
        /\ \A i \in 1..(BlockSize - 1) : 1 + i - 1 \in 1..(3 * BlockSize) => moved[1 + i - 1] = part[i]
    <3>1. BlockSize - 1 \in Nat /\ 3 * BlockSize \in Nat /\ 1 \in Nat
      OBVIOUS
    <3> QED BY <2>1, <3>1, PutIs
  <2> HIDE DEF moved
  <2>3. \A i \in 1..(BlockSize - 1) : moved[i] = ring[a + (i + 1)]
    <3> TAKE i \in 1..(BlockSize - 1)
    <3>1. 1 + i - 1 = i /\ i \in 1..(3 * BlockSize) /\ (a + 2) + i - 1 = a + (i + 1)
      OBVIOUS
    <3> QED BY <2>1, <2>2, <3>1
  <2>4. ring2 \in [1..(3 * BlockSize) -> Byte] /\ ring2[BlockSize] = x /\ \A i \in 1..(BlockSize - 1) : ring2[i] = moved[i]
    <3>1. BlockSize \in 1..(3 * BlockSize) /\ \A i \in 1..(BlockSize - 1) : i # BlockSize /\ i \in 1..(3 * BlockSize)
      OBVIOUS
    <3> QED BY <2>2, <3>1
  <2>5. TurnedRing(ring, a, x) = ring2 /\ TurnedPos(a) = 0
    BY <1>1 DEF TurnedRing, TurnedPos, moved, part
  <2> HIDE DEF ring2
  <2>6. \A i \in 1..BlockSize : ring2[0 + i] = IF i = BlockSize THEN x ELSE ring[a + (i + 1)]
    <3> TAKE i \in 1..BlockSize
    <3>1. 0 + i = i /\ (i # BlockSize => i \in 1..(BlockSize - 1))
      OBVIOUS
    <3> QED BY <2>3, <2>4, <3>1
  <2> QED BY <2>4, <2>5, <2>6
<1>2. CASE a # 2 * BlockSize
  <2> DEFINE ring2 == [ring EXCEPT ![a + BlockSize + 1] = x]
  <2>1. a + BlockSize + 1 \in 1..(3 * BlockSize) /\ a + 1 \in 0..(2 * BlockSize)
    BY <1>2
  <2>2. ring2 \in [1..(3 * BlockSize) -> Byte]
        /\ \A p \in 1..(3 * BlockSize) : ring2[p] = IF p = a + BlockSize + 1 THEN x ELSE ring[p]
    BY <2>1
  <2>3. TurnedRing(ring, a, x) = ring2 /\ TurnedPos(a) = a + 1
    BY <1>2 DEF TurnedRing, TurnedPos
  <2> HIDE DEF ring2
  <2>4. \A i \in 1..BlockSize : ring2[(a + 1) + i] = IF i = BlockSize THEN x ELSE ring[a + (i + 1)]
    <3> TAKE i \in 1..BlockSize
    <3>1. (a + 1) + i = a + (i + 1) /\ (a + 1) + i \in 1..(3 * BlockSize) /\ ((a + 1) + i = a + BlockSize + 1 <=> i = BlockSize)
      BY <1>2
    <3> QED BY <2>2, <3>1
  <2> QED BY <2>1, <2>2, <2>3, <2>4
<1> QED BY <1>1, <1>2

\* The byte a turn writes.
Written(s, k) == Xor(s.mem[s.src + k], Encrypt(Window(s))[1])

\* One byte: the window moves by one, and the encrypted block beside it is in
\* its way neither before nor after the wrap.
LEMMA ByteDoneIs ==
  ASSUME NEW M \in Nat, NEW d \in Nat, NEW c \in Nat, NEW s \in Calls(M, d, c), NEW k \in Nat,
         c + k \in 1..M, d + k \in 1..M
  PROVE  /\ ByteDone(s, k) \in Calls(M, d, c) /\ Written(s, k) \in Byte
         /\ Fed(s.mem[c + k], Written(s, k)) \in Byte
         /\ ByteDone(s, k).mem = [s.mem EXCEPT ![d + k] = Written(s, k)]
         /\ Window(ByteDone(s, k)) = Shifted(Window(s), Fed(s.mem[c + k], Written(s, k)))
<1> DEFINE a == s.ivPos
           at == (a + BlockSize) % (2 * BlockSize)
           e == Encrypt(Window(s))
           ring == Put(s.iv, at + 1, e)
           out == Written(s, k)
           fed == Fed(s.mem[c + k], out)
           t == ByteDone(s, k)
           w == Window(s)
           ring2 == TurnedRing(ring, a, fed)
           pos == TurnedPos(a)
<1>1. BlockSize \in Nat \ {0}
  BY BlockAssumption
<1>2. /\ s.iv \in [1..(3 * BlockSize) -> Byte] /\ a \in 0..(2 * BlockSize) /\ s.mem \in [1..M -> Byte]
      /\ s.dst = d /\ s.src = c
  BY DEF Calls, Ring, Memory
<1>3. /\ e \in [1..BlockSize -> Byte] /\ e[1] \in Byte
      /\ w \in [1..BlockSize -> Byte] /\ \A i \in 1..BlockSize : w[i] = s.iv[a + i]
  BY WindowType DEF Block
<1>4. out = Xor(s.mem[c + k], e[1])
  BY <1>2 DEF Written
<1>5. s.mem[c + k] \in Byte
  BY <1>2
<1>6. out \in Byte
  <2> HIDE DEF out, e
  <2> QED BY <1>3, <1>4, <1>5, ByteAssumption
<1>7. fed \in Byte
  BY <1>5, <1>6 DEF Fed
<1>8. /\ at \in Nat /\ ring \in [1..(3 * BlockSize) -> Byte] /\ ring[at + 1] = e[1]
      /\ \A i \in 1..BlockSize : a + i \in 1..(3 * BlockSize) /\ ring[a + i] = s.iv[a + i]
  <2> DEFINE r == s.iv
  <2>1. at = (a + BlockSize) % (2 * BlockSize) /\ r \in Ring
    BY <1>2 DEF Ring
  <2>2. a \in Positions /\ e \in Block /\ ring = Put(r, at + 1, e)
    BY <1>2, <1>3 DEF Positions, Block
  <2>3. /\ at \in Nat /\ Put(r, at + 1, e) \in Ring /\ Put(r, at + 1, e)[at + 1] = e[1]
        /\ \A i \in 1..BlockSize : a + i \in 1..(3 * BlockSize) /\ Put(r, at + 1, e)[a + i] = r[a + i]
    <3> HIDE DEF e, a, at, r
    <3> QED BY ONLY <1>1, <2>1, <2>2, BesideIs
  <2> QED BY <2>2, <2>3 DEF Ring
<1>9. /\ ring2 \in [1..(3 * BlockSize) -> Byte] /\ pos \in 0..(2 * BlockSize)
      /\ \A i \in 1..BlockSize : ring2[pos + i] = IF i = BlockSize THEN fed ELSE ring[a + (i + 1)]
  <2>1. fed \in Byte /\ a \in Positions /\ ring \in Ring
    BY <1>2, <1>7, <1>8 DEF Ring, Positions
  <2>2. ring2 = TurnedRing(ring, a, fed) /\ pos = TurnedPos(a)
    OBVIOUS
  <2>3. /\ ring2 \in Ring /\ pos \in Positions
        /\ \A i \in 1..BlockSize : ring2[pos + i] = IF i = BlockSize THEN fed ELSE ring[a + (i + 1)]
    <3> HIDE DEF ring, fed, a, ring2, pos
    <3> QED BY ONLY <2>1, <2>2, TurnedIs
  <2> QED BY <2>3 DEF Ring, Positions
<1>10. out = Xor(s.mem[s.src + k], ring[at + 1])
  BY <1>2, <1>4, <1>8
<1>11. t = [s EXCEPT !.iv = ring2, !.ivPos = pos, !.mem[s.dst + k] = out]
  <2>1. CASE a = 2 * BlockSize
    <3>1. ring2 = [Put(ring, 1, Slice(ring, a + 2, BlockSize - 1)) EXCEPT ![BlockSize] = fed] /\ pos = 0
      BY <2>1 DEF TurnedRing, TurnedPos
    <3> HIDE DEF ring2, pos
    <3>2. t = [s EXCEPT !.iv = [Put(ring, 1, Slice(ring, a + 2, BlockSize - 1)) EXCEPT ![BlockSize] = fed],
                        !.ivPos = 0, !.mem[s.dst + k] = out]
      BY <1>2, <1>10, <2>1 DEF ByteDone, Fed, Window
    <3> QED BY <3>1, <3>2
  <2>2. CASE a # 2 * BlockSize
    <3>1. ring2 = [ring EXCEPT ![a + BlockSize + 1] = fed] /\ pos = a + 1
      BY <2>2 DEF TurnedRing, TurnedPos
    <3> HIDE DEF ring2, pos
    <3>2. t = [s EXCEPT !.iv = [ring EXCEPT ![a + BlockSize + 1] = fed],
                        !.ivPos = a + 1, !.mem[s.dst + k] = out]
      BY <1>2, <1>10, <2>2 DEF ByteDone, Fed, Window
    <3> QED BY <3>1, <3>2
  <2> QED BY <2>1, <2>2
<1> HIDE DEF a, at, e, ring, out, fed, t, w, ring2, pos
<1>12. /\ t \in Calls(M, d, c) /\ t.mem = [s.mem EXCEPT ![d + k] = out]
       /\ t.iv = ring2 /\ t.ivPos = pos
  BY <1>2, <1>6, <1>9, <1>11 DEF Calls, Ring, Memory
<1>13. Window(t) \in [1..BlockSize -> Byte] /\ \A i \in 1..BlockSize : Window(t)[i] = ring2[pos + i]
  BY <1>12, WindowType DEF Block
<1>14. \A i \in 1..BlockSize : i # BlockSize => w[i + 1] = ring[a + (i + 1)]
  <2> TAKE i \in 1..BlockSize
  <2>1. i # BlockSize => i + 1 \in 1..BlockSize
    BY <1>1
  <2> QED BY <1>3, <1>8, <2>1
<1>15. Window(t) = [i \in 1..BlockSize |-> IF i = BlockSize THEN fed ELSE w[i + 1]]
  BY <1>9, <1>13, <1>14
<1>16. Window(t) = Shifted(w, fed)
  BY <1>15 DEF Shifted
<1> QED BY <1>6, <1>7, <1>12, <1>16 DEF t, out, fed, w

\* A loop whose turns step from V to V: its states.
Turns(n, V) == [0..n -> [V -> V]]

Passes(g, n, s, step) == \A k \in 0..n : g[k] = IF k = 0 THEN s ELSE step[k][g[k - 1]]

LEMMA Looping ==
  ASSUME NEW n \in Nat, NEW V, NEW s \in V, NEW step \in Turns(n, V)
  PROVE  \E g \in [0..n -> V] : Passes(g, n, s, step)
<1>1. FromZero(0..n)
  BY DEF FromZero
<1>2. \E g \in [0..n -> V] : Counts(g, 0..n, s, step)
  BY <1>1, CountingUp DEF Turns
<1> QED BY <1>2 DEF Counts, Passes

\* What stays in V from turn to turn is there.
LEMMA Staying ==
  ASSUME NEW n \in Nat, NEW V, NEW g, g[0] \in V, \A k \in 1..n : g[k - 1] \in V => g[k] \in V
  PROVE  \A k \in 0..n : g[k] \in V
<1> DEFINE S == {k \in 0..n : g[k] \in V}
<1>1. S \in SUBSET (0..n) /\ 0 \in S
  OBVIOUS
<1>2. ASSUME NEW k \in 1..n, k - 1 \in S PROVE k \in S
  BY <1>2
<1>3. \A k \in 0..n : k \in S
  <2> HIDE DEF S
  <2> QED BY <1>1, <1>2, Upwards
<1> QED BY <1>3

\* The reference's register, as a function of its places.
LEMMA AppendTail ==
  ASSUME NEW w \in Block, NEW x \in Byte
  PROVE  Append(Tail(w), x) = Shifted(w, x) /\ Shifted(w, x) \in Block
<1>1. BlockSize \in Nat \ {0}
  BY BlockAssumption
<1>2. Len(w) = BlockSize /\ w \in Seq(Byte) /\ DOMAIN w = 1..BlockSize
  BY <1>1, BlockLen DEF Block
<1>3. Tail(w) \in Seq(Byte) /\ Len(Tail(w)) = BlockSize - 1 /\ \A i \in 1..(BlockSize - 1) : Tail(w)[i] = w[i + 1]
  BY <1>1, <1>2
<1>4. /\ Append(Tail(w), x) \in Seq(Byte) /\ Len(Append(Tail(w), x)) = BlockSize
      /\ \A i \in 1..BlockSize : Append(Tail(w), x)[i] = IF i = BlockSize THEN x ELSE Tail(w)[i]
  BY <1>1, <1>3
<1>5. Append(Tail(w), x) = [i \in 1..BlockSize |-> Append(Tail(w), x)[i]]
  <2> DEFINE e == Append(Tail(w), x)
  <2>1. e \in Seq(Byte) /\ Len(e) = BlockSize
    BY <1>4
  <2> HIDE DEF e
  <2>2. e \in [1..BlockSize -> Byte]
    BY <2>1, LenProperties
  <2> QED BY <2>2 DEF e
<1>6. \A i \in 1..BlockSize : Append(Tail(w), x)[i] = Shifted(w, x)[i]
  BY <1>1, <1>3, <1>4 DEF Shifted
<1>7. Shifted(w, x) \in [1..BlockSize -> Byte]
  <2>1. \A i \in 1..BlockSize : i # BlockSize => w[i + 1] \in Byte
    BY <1>1 DEF Block
  <2> QED BY <2>1 DEF Shifted
<1>8. Append(Tail(w), x) = Shifted(w, x)
  BY <1>5, <1>6, <1>7
<1> QED BY <1>7, <1>8 DEF Block

\* R are the registers and O the output of the definition of the mode, byte for
\* byte.
Streams(bytes, len, R, O) ==
    /\ len \in Nat /\ bytes \in [1..len -> Byte]
    /\ R \in [0..len -> Block] /\ O \in [0..(len - 1) -> Byte] /\ R[0] = register
    /\ \A k \in 0..(len - 1) : /\ O[k] = Xor(bytes[k + 1], Encrypt(R[k])[1])
                               /\ R[k + 1] = Shifted(R[k], Fed(bytes[k + 1], O[k]))

\* A turn of the reference.
Refs == [register : Block, out : Seq(Byte)]

RefOut(bytes, r, k) == Xor(bytes[k + 1], Encrypt(r.register)[1])

RefTurn(bytes, r, k) ==
    [register |-> Append(Tail(r.register), IF decrypts THEN bytes[k + 1] ELSE RefOut(bytes, r, k)),
     out |-> Append(r.out, RefOut(bytes, r, k))]

LEMMA RefTurnIs ==
  ASSUME NEW len \in Nat, NEW bytes \in [1..len -> Byte], NEW r \in Refs, NEW k \in 0..(len - 1)
  PROVE  /\ RefOut(bytes, r, k) \in Byte /\ RefTurn(bytes, r, k) \in Refs
         /\ RefTurn(bytes, r, k).register = Shifted(r.register, Fed(bytes[k + 1], RefOut(bytes, r, k)))
         /\ Len(RefTurn(bytes, r, k).out) = Len(r.out) + 1
         /\ RefTurn(bytes, r, k).out[Len(r.out) + 1] = RefOut(bytes, r, k)
         /\ \A i \in 1..Len(r.out) : RefTurn(bytes, r, k).out[i] = r.out[i]
<1> DEFINE x == RefOut(bytes, r, k)
           f == Fed(bytes[k + 1], x)
<1>1. r.register \in Block /\ r.out \in Seq(Byte)
  BY DEF Refs
<1>2. Encrypt(r.register)[1] \in Byte
  <2>1. Encrypt(r.register) \in [1..BlockSize -> Byte] /\ 1 \in 1..BlockSize
    BY <1>1, BlockAssumption DEF Block
  <2> QED BY <2>1
<1>3. bytes[k + 1] \in Byte
  <2>1. k + 1 \in 1..len
    OBVIOUS
  <2> QED BY <2>1
<1>4. x \in Byte
  BY <1>2, <1>3, ByteAssumption DEF RefOut
<1>5. f \in Byte
  BY <1>3, <1>4 DEF Fed
<1>6. RefTurn(bytes, r, k) = [register |-> Append(Tail(r.register), f), out |-> Append(r.out, x)]
  BY DEF RefTurn, Fed
<1> HIDE DEF x, f
<1>7. Append(Tail(r.register), f) = Shifted(r.register, f) /\ Shifted(r.register, f) \in Block
  BY <1>1, <1>5, AppendTail
<1>8. /\ Append(r.out, x) \in Seq(Byte) /\ Len(Append(r.out, x)) = Len(r.out) + 1
      /\ Append(r.out, x)[Len(r.out) + 1] = x
      /\ \A i \in 1..Len(r.out) : Append(r.out, x)[i] = r.out[i]
  BY <1>1, <1>4
<1> DEFINE t == RefTurn(bytes, r, k)
<1>9. t.register = Append(Tail(r.register), f) /\ t.out = Append(r.out, x)
  BY <1>6
<1>10. t \in Refs
  <2> DEFINE y == Append(Tail(r.register), f)
             z == Append(r.out, x)
  <2>1. y \in Block /\ z \in Seq(Byte) /\ t = [register |-> y, out |-> z]
    BY <1>6, <1>7, <1>8
  <2> HIDE DEF y, z, t
  <2> QED BY <2>1 DEF Refs
<1> HIDE DEF t
<1>11. /\ t.register = Shifted(r.register, f) /\ Len(t.out) = Len(r.out) + 1 /\ t.out[Len(r.out) + 1] = x
       /\ \A i \in 1..Len(r.out) : t.out[i] = r.out[i]
  BY <1>7, <1>8, <1>9
<1> QED BY <1>4, <1>10, <1>11 DEF x, f, t

\* The reference of the module computes them.
Refers(bytes, len, R, O) ==
    /\ Streams(bytes, len, R, O)
    /\ Reference(bytes).register = R[len]
    /\ Reference(bytes).out = [i \in 1..len |-> O[i - 1]]

LEMMA ReferenceIs ==
  ASSUME NEW len \in Nat, NEW bytes \in [1..len -> Byte], register \in Block
  PROVE  \E R \in [0..len -> Block] : \E O \in [0..(len - 1) -> Byte] : Refers(bytes, len, R, O)
<1> DEFINE r0 == [register |-> register, out |-> <<>>]
           Is(f) == f = [k \in 0..len |-> IF k = 0 THEN r0 ELSE RefTurn(bytes, f[k - 1], k - 1)]
           step == [k \in 0..len |-> [r \in Refs |-> IF k = 0 THEN r ELSE RefTurn(bytes, r, k - 1)]]
           g == CHOOSE f : Is(f)
<1>1. r0 \in Refs
  BY DEF Refs
<1>2. step \in [0..len -> [Refs -> Refs]]
  <2>1. ASSUME NEW k \in 0..len, k # 0, NEW r \in Refs PROVE RefTurn(bytes, r, k - 1) \in Refs
    <3>1. k - 1 \in 0..(len - 1)
      BY <2>1
    <3> QED BY <3>1, RefTurnIs
  <2> QED BY <2>1
<1>3. Is(g)
  <2>a. \E h \in [0..len -> Refs] : Passes(h, len, r0, step)
    <3>1. step \in Turns(len, Refs)
      BY <1>2 DEF Turns
    <3> HIDE DEF step, r0
    <3> QED BY <1>1, <3>1, Looping
  <2>1. PICK h \in [0..len -> Refs] : Passes(h, len, r0, step)
    BY <2>a
  <2>2. \A k \in 0..len : h[k] = IF k = 0 THEN r0 ELSE RefTurn(bytes, h[k - 1], k - 1)
    <3> TAKE k \in 0..len
    <3>1. h[k] = IF k = 0 THEN r0 ELSE step[k][h[k - 1]]
      BY <2>1 DEF Passes
    <3>2. k # 0 => k - 1 \in 0..len /\ h[k - 1] \in Refs
      BY <2>1
    <3> HIDE DEF r0
    <3> QED BY <3>1, <3>2
  <2>3. Is(h)
    <3> HIDE DEF r0
    <3> QED BY <2>1, <2>2
  <2>4. \E f : Is(f)
    BY <2>3
  <2> HIDE DEF Is
  <2> QED BY <2>4
<1>4. Reference(bytes) = g[len]
  <2>1. Len(bytes) = len
    BY BlockLen
  <2> QED BY <2>1 DEF Reference, Repeated, RefTurn, RefOut
<1> HIDE DEF g, step
<1>5. g[0] = r0 /\ \A k \in 1..len : g[k] = RefTurn(bytes, g[k - 1], k - 1)
  <2> HIDE DEF r0
  <2> QED BY <1>3
<1>6. \A k \in 0..len : g[k] \in Refs
  <2>1. ASSUME NEW k \in 1..len, g[k - 1] \in Refs PROVE g[k] \in Refs
    <3>1. k - 1 \in 0..(len - 1)
      BY <2>1
    <3> QED BY <1>5, <2>1, <3>1, RefTurnIs
  <2> HIDE DEF r0
  <2> QED BY <1>1, <1>5, <2>1, Staying
<1> DEFINE R == [k \in 0..len |-> g[k].register]
           O == [k \in 0..(len - 1) |-> RefOut(bytes, g[k], k)]
<1>7. ASSUME NEW k \in 0..(len - 1)
      PROVE  /\ O[k] \in Byte /\ O[k] = Xor(bytes[k + 1], Encrypt(R[k])[1])
             /\ R[k + 1] = Shifted(R[k], Fed(bytes[k + 1], O[k]))
             /\ Len(g[k + 1].out) = Len(g[k].out) + 1 /\ g[k + 1].out[Len(g[k].out) + 1] = O[k]
             /\ \A i \in 1..Len(g[k].out) : g[k + 1].out[i] = g[k].out[i]
  <2>1. k \in 0..len /\ k + 1 \in 1..len /\ k + 1 \in 0..len /\ (k + 1) - 1 = k
    OBVIOUS
  <2>2. g[k + 1] = RefTurn(bytes, g[k], k)
    BY <1>5, <2>1
  <2>3. /\ RefOut(bytes, g[k], k) \in Byte
        /\ g[k + 1].register = Shifted(g[k].register, Fed(bytes[k + 1], RefOut(bytes, g[k], k)))
        /\ Len(g[k + 1].out) = Len(g[k].out) + 1
        /\ g[k + 1].out[Len(g[k].out) + 1] = RefOut(bytes, g[k], k)
        /\ \A i \in 1..Len(g[k].out) : g[k + 1].out[i] = g[k].out[i]
    BY <1>6, <2>1, <2>2, RefTurnIs
  <2>4. O[k] = RefOut(bytes, g[k], k) /\ R[k] = g[k].register /\ R[k + 1] = g[k + 1].register
    BY <2>1
  <2>5. RefOut(bytes, g[k], k) = Xor(bytes[k + 1], Encrypt(R[k])[1])
    BY <2>4 DEF RefOut
  <2> HIDE DEF O, R
  <2> QED BY <2>3, <2>4, <2>5
<1>8. R \in [0..len -> Block] /\ O \in [0..(len - 1) -> Byte] /\ R[0] = register
  <2>1. R \in [0..len -> Block]
    BY <1>6 DEF Refs
  <2>2. O \in [0..(len - 1) -> Byte]
    BY <1>7
  <2>3. R[0] = register
    BY <1>5
  <2> QED BY <2>1, <2>2, <2>3
<1>a. R[len] = g[len].register /\ len \in 0..len
  OBVIOUS
<1> HIDE DEF R, O
<1>9. Streams(bytes, len, R, O)
  BY <1>7, <1>8 DEF Streams
<1> DEFINE Good(k) == Len(g[k].out) = k /\ \A i \in 1..k : g[k].out[i] = O[i - 1]
           S == {k \in 0..len : Good(k)}
<1>10. 0 \in S
  <2>1. g[0].out = <<>>
    BY <1>5
  <2> QED BY <2>1
<1>11. ASSUME NEW k \in 1..len, k - 1 \in S PROVE k \in S
  <2>1. k - 1 \in 0..(len - 1) /\ (k - 1) + 1 = k /\ k \in 0..len
    OBVIOUS
  <2>2. Len(g[k - 1].out) = k - 1 /\ \A i \in 1..(k - 1) : g[k - 1].out[i] = O[i - 1]
    BY <1>11
  <2>3. /\ Len(g[k].out) = Len(g[k - 1].out) + 1 /\ g[k].out[Len(g[k - 1].out) + 1] = O[k - 1]
        /\ \A i \in 1..Len(g[k - 1].out) : g[k].out[i] = g[k - 1].out[i]
    BY <1>7, <2>1
  <2>4. Len(g[k].out) = k /\ g[k].out[k] = O[k - 1] /\ \A i \in 1..(k - 1) : g[k].out[i] = O[i - 1]
    BY <2>1, <2>2, <2>3
  <2>5. \A i \in 1..k : i = k \/ i \in 1..(k - 1)
    OBVIOUS
  <2> QED BY <2>1, <2>4, <2>5
<1>12. Good(len)
  <2>1. S \in SUBSET (0..len)
    OBVIOUS
  <2>2. \A k \in 0..len : k \in S
    <3> HIDE DEF S
    <3> QED BY <1>10, <1>11, <2>1, Upwards
  <2> QED BY <1>a, <2>2
<1>13. g[len].out = [i \in 1..len |-> O[i - 1]]
  <2> DEFINE e == g[len].out
  <2>1. e \in Seq(Byte) /\ Len(e) = len /\ \A i \in 1..len : e[i] = O[i - 1]
    BY <1>6, <1>12, <1>a DEF Refs
  <2> HIDE DEF e
  <2>2. e \in [1..len -> Byte]
    BY <2>1, LenProperties
  <2>3. e = [i \in 1..len |-> O[i - 1]]
    BY <2>1, <2>2
  <2> QED BY <2>3 DEF e
<1>14. Refers(bytes, len, R, O)
  BY <1>4, <1>9, <1>13, <1>a DEF Refers
<1> QED BY <1>8, <1>14

\* The ciphertext of the call, byte for byte.
Cipher(bytes, O, j) == Fed(bytes[j + 1], O[j])

\* From the first block on, a register holds the ciphertext before it.
LEMMA RegisterIsCiphertext ==
  ASSUME NEW len, NEW bytes, NEW R, NEW O, Streams(bytes, len, R, O), NEW j \in Nat, j + BlockSize <= len
  PROVE  \A i \in 1..BlockSize : R[j + BlockSize][i] = Cipher(bytes, O, j + i - 1)
<1> DEFINE Good(k) == \A i \in 1..BlockSize : i + k > BlockSize => R[k][i] = Cipher(bytes, O, k + i - BlockSize - 1)
           S == {k \in 0..len : Good(k)}
<1>1. /\ BlockSize \in Nat \ {0} /\ len \in Nat /\ S \in SUBSET (0..len)
      /\ \A k \in 0..(len - 1) : R[k + 1] = Shifted(R[k], Cipher(bytes, O, k))
  BY BlockAssumption DEF Streams, Cipher
<1>2. 0 \in S
  BY <1>1
<1>3. ASSUME NEW k \in 1..len, k - 1 \in S PROVE k \in S
  <2>1. k - 1 \in 0..(len - 1) /\ (k - 1) + 1 = k /\ k \in 0..len
    BY <1>1
  <2>2. R[k] = Shifted(R[k - 1], Cipher(bytes, O, k - 1))
    BY <1>1, <2>1
  <2>3. ASSUME NEW i \in 1..BlockSize, i + k > BlockSize
        PROVE  R[k][i] = Cipher(bytes, O, k + i - BlockSize - 1)
    <3>1. CASE i = BlockSize
      <4>1. R[k][i] = Cipher(bytes, O, k - 1)
        BY <2>2, <3>1 DEF Shifted
      <4>2. k + i - BlockSize - 1 = k - 1
        BY <1>1, <3>1
      <4> QED BY <4>1, <4>2
    <3>2. CASE i # BlockSize
      <4>1. R[k][i] = R[k - 1][i + 1]
        BY <2>2, <3>2 DEF Shifted
      <4>2. /\ i + 1 \in 1..BlockSize /\ (i + 1) + (k - 1) > BlockSize
            /\ (k - 1) + (i + 1) - BlockSize - 1 = k + i - BlockSize - 1
        BY <1>1, <2>3, <3>2
      <4>3. R[k - 1][i + 1] = Cipher(bytes, O, (k - 1) + (i + 1) - BlockSize - 1)
        BY <1>3, <4>2
      <4> QED BY <4>1, <4>2, <4>3
    <3> QED BY <3>1, <3>2
  <2> QED BY <2>1, <2>3
<1>4. \A k \in 0..len : k \in S
  <2> HIDE DEF S
  <2> QED BY <1>1, <1>2, <1>3, Upwards
<1>5. j + BlockSize \in S
  BY <1>1, <1>4
<1> TAKE i \in 1..BlockSize
<1>6. i + (j + BlockSize) > BlockSize /\ (j + BlockSize) + i - BlockSize - 1 = j + i - 1
  BY <1>1
<1> QED BY <1>5, <1>6

\* Where a call's slices lie in a memory of M bytes: src at c holds the bytes,
\* and is not before dst at d unless it ends there.
Laid(M, d, c, len, bytes, m0) ==
    /\ M \in Nat /\ d \in Nat \ {0} /\ c \in Nat \ {0} /\ len \in Nat /\ bytes \in [1..len -> Byte]
    /\ d + len <= M + 1 /\ c + len <= M + 1
    /\ d <= c \/ c + len <= d
    /\ m0 \in Memory(M)
    /\ \A j \in 0..(len - 1) : m0[c + j] = bytes[j + 1]

\* The first n bytes of dst are written, the rest of the memory is as before.
Wrote(m, m0, d, n, O) ==
    /\ \A j \in 0..(n - 1) : m[d + j] = O[j]
    /\ \A p \in DOMAIN m0 : p < d \/ d + n <= p => m[p] = m0[p]

LEMMA WroteOne ==
  ASSUME NEW M \in Nat, NEW m \in Memory(M), NEW m0 \in Memory(M), NEW d \in Nat \ {0}, NEW n \in Nat,
         NEW O, Wrote(m, m0, d, n, O), d + n \in 1..M, NEW x, x = O[n]
  PROVE  Wrote([m EXCEPT ![d + n] = x], m0, d, n + 1, O)
<1> DEFINE t == [m EXCEPT ![d + n] = x]
<1>1. t[d + n] = x /\ DOMAIN m0 = 1..M /\ \A p \in 1..M : p # d + n => t[p] = m[p]
  BY DEF Memory
<1> HIDE DEF t
<1>2. ASSUME NEW j \in 0..((n + 1) - 1) PROVE t[d + j] = O[j]
  <2>1. CASE j = n
    BY <1>1, <2>1
  <2>2. CASE j # n
    <3>1. j \in 0..(n - 1) /\ d + j # d + n /\ (d + j \in 1..M)
      BY <2>2
    <3> QED BY <1>1, <3>1 DEF Wrote
  <2> QED BY <2>1, <2>2
<1>3. ASSUME NEW p \in DOMAIN m0, p < d \/ d + (n + 1) <= p PROVE t[p] = m0[p]
  <2>1. p \in 1..M /\ p # d + n /\ (p < d \/ d + n <= p)
    BY <1>1, <1>3
  <2> QED BY <1>1, <2>1 DEF Wrote
<1> QED BY <1>2, <1>3 DEF Wrote, t

\* What a call reads of src it has not yet written to.
LEMMA Unread ==
  ASSUME NEW M, NEW d, NEW c, NEW len, NEW bytes, NEW m0, Laid(M, d, c, len, bytes, m0),
         NEW n \in Nat, NEW O, NEW m, Wrote(m, m0, d, n, O), NEW j \in Nat, j < len, c + j < d \/ d + n <= c + j
  PROVE  m[c + j] = bytes[j + 1]
<1>1. c + j \in 1..M /\ j \in 0..(len - 1) /\ DOMAIN m0 = 1..M
  BY DEF Laid, Memory
<1>2. m0[c + j] = bytes[j + 1] /\ m[c + j] = m0[c + j]
  BY <1>1 DEF Laid, Wrote
<1> QED BY <1>2

\* Byte after byte through the ring.
InRing(s, k, d, m0, R, O) == Window(s) = R[k] /\ Wrote(s.mem, m0, d, k, O)

LEMMA SlowStep ==
  ASSUME NEW M, NEW d, NEW c, NEW len, NEW bytes, NEW m0, Laid(M, d, c, len, bytes, m0),
         NEW R, NEW O, Streams(bytes, len, R, O),
         NEW k \in Nat, k < len, NEW s \in Calls(M, d, c), InRing(s, k, d, m0, R, O)
  PROVE  InRing(ByteDone(s, k), k + 1, d, m0, R, O)
<1>1. /\ M \in Nat /\ d \in Nat /\ c \in Nat /\ d \in Nat \ {0} /\ c + k \in 1..M /\ d + k \in 1..M /\ k \in 0..(len - 1)
      /\ m0 \in Memory(M)
      /\ c + k < d \/ d + k <= c + k
  BY DEF Laid
<1>2. s.mem[c + k] = bytes[k + 1]
  BY <1>1, Unread DEF InRing
<1>3. s.mem \in Memory(M) /\ s.src = c /\ m0 \in Memory(M)
  <2>1. m0 \in Memory(M)
    BY <1>1
  <2> QED BY <2>1, CallIs
<1>4. Written(s, k) = O[k] /\ R[k + 1] = Shifted(R[k], Fed(bytes[k + 1], O[k]))
  BY <1>1, <1>2, <1>3 DEF Streams, Written, InRing
<1>5. /\ ByteDone(s, k).mem = [s.mem EXCEPT ![d + k] = Written(s, k)]
      /\ Window(ByteDone(s, k)) = Shifted(Window(s), Fed(s.mem[c + k], Written(s, k)))
  <2>1. M \in Nat /\ d \in Nat /\ c \in Nat /\ k \in Nat /\ c + k \in 1..M /\ d + k \in 1..M
    BY <1>1
  <2>2. s \in Calls(M, d, c)
    OBVIOUS
  <2> QED BY ONLY <2>1, <2>2, ByteDoneIs
<1>6. Window(ByteDone(s, k)) = R[k + 1]
  BY <1>2, <1>4, <1>5 DEF InRing
<1>7. Wrote([s.mem EXCEPT ![d + k] = Written(s, k)], m0, d, k + 1, O)
  <2> DEFINE m == s.mem
             x == Written(s, k)
  <2>1. m \in Memory(M) /\ m0 \in Memory(M) /\ Wrote(m, m0, d, k, O) /\ x = O[k]
    BY <1>3, <1>4 DEF InRing
  <2>2. M \in Nat /\ k \in Nat /\ d \in Nat \ {0} /\ d + k \in 1..M
    BY <1>1
  <2>3. Wrote([m EXCEPT ![d + k] = x], m0, d, k + 1, O)
    <3> HIDE DEF m, x
    <3> QED BY ONLY <2>1, <2>2, WroteOne
  <2> QED BY <2>3
<1> QED BY <1>5, <1>6, <1>7 DEF InRing

\* Through the ring.
ClosedSlow(V, n) == \A k \in 0..(n - 1) : \A v \in V : ByteDone(v, k) \in V

SlowTurns(s, n) == Repeated(ByteDone, s, n)

\* The states such a loop goes through.
LEMMA SlowLoop ==
  ASSUME NEW n \in Nat, NEW V, NEW s \in V, ClosedSlow(V, n)
  PROVE  \E g \in [0..n -> V] : g[0] = s /\ g[n] = SlowTurns(s, n) /\ \A k \in 1..n : g[k] = ByteDone(g[k - 1], k - 1)
<1> DEFINE Is(f) == f = [k \in 0..n |-> IF k = 0 THEN s ELSE ByteDone(f[k - 1], k - 1)]
           step == [k \in 0..n |-> [v \in V |-> IF k = 0 THEN v ELSE ByteDone(v, k - 1)]]
           g == CHOOSE f : Is(f)
<1>1. ASSUME NEW k \in 1..n, NEW v \in V PROVE ByteDone(v, k - 1) \in V
  <2>1. k - 1 \in 0..(n - 1)
    OBVIOUS
  <2> QED BY <2>1 DEF ClosedSlow
<1>2. step \in Turns(n, V)
  BY <1>1 DEF Turns
<1>3. Is(g)
  <2>a. \E h \in [0..n -> V] : Passes(h, n, s, step)
    <3> HIDE DEF step
    <3> QED BY <1>2, Looping
  <2>1. PICK h \in [0..n -> V] : Passes(h, n, s, step)
    BY <2>a
  <2>2. \A k \in 0..n : h[k] = IF k = 0 THEN s ELSE ByteDone(h[k - 1], k - 1)
    <3> TAKE k \in 0..n
    <3>1. h[k] = IF k = 0 THEN s ELSE step[k][h[k - 1]]
      BY <2>1 DEF Passes
    <3>2. k # 0 => k - 1 \in 0..n /\ h[k - 1] \in V
      BY <2>1
    <3> QED BY <3>1, <3>2
  <2>3. Is(h)
    BY <2>1, <2>2
  <2>4. \E f : Is(f)
    BY <2>3
  <2> HIDE DEF Is
  <2> QED BY <2>4
<1>4. SlowTurns(s, n) = g[n]
  BY DEF SlowTurns, Repeated
<1> HIDE DEF g, step
<1>5. g[0] = s /\ \A k \in 1..n : g[k] = ByteDone(g[k - 1], k - 1)
  BY <1>3
<1>6. \A k \in 0..n : g[k] \in V
  <2>1. ASSUME NEW k \in 1..n, g[k - 1] \in V PROVE g[k] \in V
    BY <1>1, <1>5, <2>1
  <2>2. g[0] \in V
    BY <1>5
  <2> HIDE DEF Is
  <2> QED BY <2>1, <2>2, Staying
<1>7. g \in [0..n -> V]
  <2>1. g = [k \in 0..n |-> g[k]]
    BY <1>3
  <2> HIDE DEF Is
  <2> QED BY <1>6, <2>1
<1> HIDE DEF Is
<1> QED BY <1>4, <1>5, <1>7

\* Along the ciphertext.
ClosedFast(V, n) == \A k \in 0..(n - 1) : \A v \in V : FromCiphertext(v, k) \in V

FastTurns(s, n) == Repeated(FromCiphertext, s, n)

LEMMA FastLoop ==
  ASSUME NEW n \in Nat, NEW V, NEW s \in V, ClosedFast(V, n)
  PROVE  \E g \in [0..n -> V] : g[0] = s /\ g[n] = FastTurns(s, n) /\ \A k \in 1..n : g[k] = FromCiphertext(g[k - 1], k - 1)
<1> DEFINE Is(f) == f = [k \in 0..n |-> IF k = 0 THEN s ELSE FromCiphertext(f[k - 1], k - 1)]
           step == [k \in 0..n |-> [v \in V |-> IF k = 0 THEN v ELSE FromCiphertext(v, k - 1)]]
           g == CHOOSE f : Is(f)
<1>1. ASSUME NEW k \in 1..n, NEW v \in V PROVE FromCiphertext(v, k - 1) \in V
  <2>1. k - 1 \in 0..(n - 1)
    OBVIOUS
  <2> QED BY <2>1 DEF ClosedFast
<1>2. step \in Turns(n, V)
  BY <1>1 DEF Turns
<1>3. Is(g)
  <2>a. \E h \in [0..n -> V] : Passes(h, n, s, step)
    <3> HIDE DEF step
    <3> QED BY <1>2, Looping
  <2>1. PICK h \in [0..n -> V] : Passes(h, n, s, step)
    BY <2>a
  <2>2. \A k \in 0..n : h[k] = IF k = 0 THEN s ELSE FromCiphertext(h[k - 1], k - 1)
    <3> TAKE k \in 0..n
    <3>1. h[k] = IF k = 0 THEN s ELSE step[k][h[k - 1]]
      BY <2>1 DEF Passes
    <3>2. k # 0 => k - 1 \in 0..n /\ h[k - 1] \in V
      BY <2>1
    <3> QED BY <3>1, <3>2
  <2>3. Is(h)
    BY <2>1, <2>2
  <2>4. \E f : Is(f)
    BY <2>3
  <2> HIDE DEF Is
  <2> QED BY <2>4
<1>4. FastTurns(s, n) = g[n]
  BY DEF FastTurns, Repeated
<1> HIDE DEF g, step
<1>5. g[0] = s /\ \A k \in 1..n : g[k] = FromCiphertext(g[k - 1], k - 1)
  BY <1>3
<1>6. \A k \in 0..n : g[k] \in V
  <2>1. ASSUME NEW k \in 1..n, g[k - 1] \in V PROVE g[k] \in V
    BY <1>1, <1>5, <2>1
  <2>2. g[0] \in V
    BY <1>5
  <2> HIDE DEF Is
  <2> QED BY <2>1, <2>2, Staying
<1>7. g \in [0..n -> V]
  <2>1. g = [k \in 0..n |-> g[k]]
    BY <1>3
  <2> HIDE DEF Is
  <2> QED BY <1>6, <2>1
<1> HIDE DEF Is
<1> QED BY <1>4, <1>5, <1>7

\* Block by block into dst.
ClosedBlock(V, n) == \A k \in 0..(n - 1) : \A v \in V : IntoDst(v, k) \in V

BlockTurns(s, n) == Repeated(IntoDst, s, n)

LEMMA BlockLoop ==
  ASSUME NEW n \in Nat, NEW V, NEW s \in V, ClosedBlock(V, n)
  PROVE  \E g \in [0..n -> V] : g[0] = s /\ g[n] = BlockTurns(s, n) /\ \A k \in 1..n : g[k] = IntoDst(g[k - 1], k - 1)
<1> DEFINE Is(f) == f = [k \in 0..n |-> IF k = 0 THEN s ELSE IntoDst(f[k - 1], k - 1)]
           step == [k \in 0..n |-> [v \in V |-> IF k = 0 THEN v ELSE IntoDst(v, k - 1)]]
           g == CHOOSE f : Is(f)
<1>1. ASSUME NEW k \in 1..n, NEW v \in V PROVE IntoDst(v, k - 1) \in V
  <2>1. k - 1 \in 0..(n - 1)
    OBVIOUS
  <2> QED BY <2>1 DEF ClosedBlock
<1>2. step \in Turns(n, V)
  BY <1>1 DEF Turns
<1>3. Is(g)
  <2>a. \E h \in [0..n -> V] : Passes(h, n, s, step)
    <3> HIDE DEF step
    <3> QED BY <1>2, Looping
  <2>1. PICK h \in [0..n -> V] : Passes(h, n, s, step)
    BY <2>a
  <2>2. \A k \in 0..n : h[k] = IF k = 0 THEN s ELSE IntoDst(h[k - 1], k - 1)
    <3> TAKE k \in 0..n
    <3>1. h[k] = IF k = 0 THEN s ELSE step[k][h[k - 1]]
      BY <2>1 DEF Passes
    <3>2. k # 0 => k - 1 \in 0..n /\ h[k - 1] \in V
      BY <2>1
    <3> QED BY <3>1, <3>2
  <2>3. Is(h)
    BY <2>1, <2>2
  <2>4. \E f : Is(f)
    BY <2>3
  <2> HIDE DEF Is
  <2> QED BY <2>4
<1>4. BlockTurns(s, n) = g[n]
  BY DEF BlockTurns, Repeated
<1> HIDE DEF g, step
<1>5. g[0] = s /\ \A k \in 1..n : g[k] = IntoDst(g[k - 1], k - 1)
  BY <1>3
<1>6. \A k \in 0..n : g[k] \in V
  <2>1. ASSUME NEW k \in 1..n, g[k - 1] \in V PROVE g[k] \in V
    BY <1>1, <1>5, <2>1
  <2>2. g[0] \in V
    BY <1>5
  <2> HIDE DEF Is
  <2> QED BY <2>1, <2>2, Staying
<1>7. g \in [0..n -> V]
  <2>1. g = [k \in 0..n |-> g[k]]
    BY <1>3
  <2> HIDE DEF Is
  <2> QED BY <1>6, <2>1
<1> HIDE DEF Is
<1> QED BY <1>4, <1>5, <1>7

\* Along the ciphertext, the last block.
ClosedLate(V, n, m) == \A k \in 0..(n - 1) : \A v \in V : FromCiphertext(v, m - BlockSize + k) \in V

LateTurns(s, n, m) == LET tail(r, i) == FromCiphertext(r, m - BlockSize + i) IN Repeated(tail, s, n)

LatePasses(g, n, m) == \A k \in 1..n : g[k] = FromCiphertext(g[k - 1], m - BlockSize + (k - 1))

LEMMA LateLoop ==
  ASSUME NEW n \in Nat, NEW V, NEW s \in V, NEW m, ClosedLate(V, n, m)
  PROVE  \E g \in [0..n -> V] : g[0] = s /\ g[n] = LateTurns(s, n, m) /\ LatePasses(g, n, m)
<1> DEFINE Is(f) == f = [k \in 0..n |-> IF k = 0 THEN s ELSE FromCiphertext(f[k - 1], m - BlockSize + (k - 1))]
           step == [k \in 0..n |-> [v \in V |-> IF k = 0 THEN v ELSE FromCiphertext(v, m - BlockSize + (k - 1))]]
           g == CHOOSE f : Is(f)
<1>1. ASSUME NEW k \in 1..n, NEW v \in V PROVE FromCiphertext(v, m - BlockSize + (k - 1)) \in V
  <2>1. k - 1 \in 0..(n - 1)
    OBVIOUS
  <2> QED BY <2>1 DEF ClosedLate
<1>2. step \in Turns(n, V)
  BY <1>1 DEF Turns
<1>3. Is(g)
  <2>a. \E h \in [0..n -> V] : Passes(h, n, s, step)
    <3> HIDE DEF step
    <3> QED BY <1>2, Looping
  <2>1. PICK h \in [0..n -> V] : Passes(h, n, s, step)
    BY <2>a
  <2>2. \A k \in 0..n : h[k] = IF k = 0 THEN s ELSE FromCiphertext(h[k - 1], m - BlockSize + (k - 1))
    <3> TAKE k \in 0..n
    <3>1. h[k] = IF k = 0 THEN s ELSE step[k][h[k - 1]]
      BY <2>1 DEF Passes
    <3>2. k # 0 => k - 1 \in 0..n /\ h[k - 1] \in V
      BY <2>1
    <3> QED BY <3>1, <3>2
  <2>3. Is(h)
    BY <2>1, <2>2
  <2>4. \E f : Is(f)
    BY <2>3
  <2> HIDE DEF Is
  <2> QED BY <2>4
<1>4. LateTurns(s, n, m) = g[n]
  BY DEF LateTurns, Repeated
<1> HIDE DEF g, step
<1>5. g[0] = s /\ \A k \in 1..n : g[k] = FromCiphertext(g[k - 1], m - BlockSize + (k - 1))
  BY <1>3
<1>6. \A k \in 0..n : g[k] \in V
  <2>1. ASSUME NEW k \in 1..n, g[k - 1] \in V PROVE g[k] \in V
    BY <1>1, <1>5, <2>1
  <2>2. g[0] \in V
    BY <1>5
  <2> HIDE DEF Is
  <2> QED BY <2>1, <2>2, Staying
<1>7. g \in [0..n -> V]
  <2>1. g = [k \in 0..n |-> g[k]]
    BY <1>3
  <2> HIDE DEF Is
  <2> QED BY <1>6, <2>1
<1> HIDE DEF Is
<1> QED BY <1>4, <1>5, <1>7 DEF LatePasses

\* The slow way, all n bytes of it.
LEMMA SlowRuns ==
  ASSUME NEW M, NEW d, NEW c, NEW len, NEW bytes, NEW m0, Laid(M, d, c, len, bytes, m0),
         NEW R, NEW O, Streams(bytes, len, R, O),
         NEW s \in Calls(M, d, c), InRing(s, 0, d, m0, R, O), NEW n \in Nat, n <= len
  PROVE  Slowly(s, n) \in Calls(M, d, c) /\ InRing(Slowly(s, n), n, d, m0, R, O)
<1>0. M \in Nat /\ d \in Nat /\ c \in Nat /\ d \in Nat \ {0} /\ c \in Nat \ {0} /\ len \in Nat
      /\ d + len <= M + 1 /\ c + len <= M + 1
  BY DEF Laid
<1> DEFINE V == Calls(M, d, c)
<1>1. ClosedSlow(V, n)
  <2>1. ASSUME NEW k \in 0..(n - 1), NEW v \in V PROVE ByteDone(v, k) \in V
    <3>1. k \in Nat /\ c + k \in 1..M /\ d + k \in 1..M
      BY <1>0
    <3> QED BY <1>0, <3>1, ByteDoneIs
  <2> QED BY <2>1 DEF ClosedSlow
<1>a. \E g \in [0..n -> V] : g[0] = s /\ g[n] = SlowTurns(s, n) /\ \A k \in 1..n : g[k] = ByteDone(g[k - 1], k - 1)
  <2> HIDE DEF V
  <2>1. s \in V
    BY DEF V
  <2> QED BY <1>1, <2>1, SlowLoop
<1>2. PICK g \in [0..n -> V] : g[0] = s /\ g[n] = SlowTurns(s, n) /\ \A k \in 1..n : g[k] = ByteDone(g[k - 1], k - 1)
  BY <1>a
<1> DEFINE S == {k \in 0..n : InRing(g[k], k, d, m0, R, O)}
<1>3. S \in SUBSET (0..n) /\ 0 \in S
  BY <1>2
<1>4. ASSUME NEW k \in 1..n, k - 1 \in S PROVE k \in S
  <2> DEFINE i == k - 1
             v == g[k - 1]
  <2>1. i \in Nat /\ i < len /\ i + 1 = k /\ v \in V
    BY <1>0, <1>2, <1>4
  <2>2. InRing(v, i, d, m0, R, O) /\ g[k] = ByteDone(v, i)
    BY <1>2, <1>4
  <2>3. InRing(ByteDone(v, i), i + 1, d, m0, R, O)
    <3> HIDE DEF i, v
    <3> QED BY <2>1, <2>2, SlowStep
  <2> QED BY <2>1, <2>2, <2>3
<1>5. \A k \in 0..n : k \in S
  <2> HIDE DEF S
  <2> QED BY <1>3, <1>4, Upwards
<1>6. n \in 0..n /\ SlowTurns(s, n) = Slowly(s, n)
  BY DEF SlowTurns, Slowly
<1> QED BY <1>2, <1>5, <1>6

\* The fast way's places: src and dst a block apart, or dst behind src.
Apart(d, c, len) == d + BlockSize <= c \/ c + len <= d

\* Where its ciphertext lies.
Behind(d, c) == IF decrypts THEN c ELSE d

\* A block of ciphertext in memory is a register.
LEMMA CipherRead ==
  ASSUME NEW M, NEW d, NEW c, NEW len, NEW bytes, NEW m0, Laid(M, d, c, len, bytes, m0),
         NEW R, NEW O, Streams(bytes, len, R, O), Apart(d, c, len),
         NEW m \in Memory(M), NEW j \in Nat, NEW k \in Nat, k = j + BlockSize, k <= len, Wrote(m, m0, d, k, O)
  PROVE  BlockAt(m, Behind(d, c) + j) = R[k] /\ R[k] \in Block /\ Behind(d, c) + j \in Nat \ {0}
<1>0. /\ M \in Nat /\ d \in Nat \ {0} /\ c \in Nat \ {0} /\ len \in Nat /\ BlockSize \in Nat \ {0}
      /\ d + len <= M + 1 /\ c + len <= M + 1 /\ R \in [0..len -> Block]
      /\ d <= c \/ c + len <= d
  BY BlockAssumption DEF Laid, Streams
<1> DEFINE at == Behind(d, c) + j
<1>1. Behind(d, c) = IF decrypts THEN c ELSE d
  BY DEF Behind
<1>2. at \in Nat \ {0} /\ at + BlockSize - 1 <= M
  BY <1>0, <1>1
<1>3. Slice(m, at, BlockSize) \in [1..BlockSize -> Byte] /\ \A i \in 1..BlockSize : Slice(m, at, BlockSize)[i] = m[at + i - 1]
  <2>1. M \in Nat
    BY <1>0
  <2> HIDE DEF at
  <2> QED BY ONLY <1>2, <2>1, BlockRead DEF BlockAt, Block
<1>4. R[k] \in [1..BlockSize -> Byte]
  BY <1>0 DEF Block
<1>5. ASSUME NEW i \in 1..BlockSize PROVE m[at + i - 1] = R[k][i]
  <2> DEFINE q == j + i - 1
  <2>1. q \in 0..(len - 1) /\ q \in Nat /\ q < len /\ q < k
    BY <1>0
  <2>2. R[k][i] = Cipher(bytes, O, q)
    <3>1. j + BlockSize <= len
      OBVIOUS
    <3> QED BY <3>1, RegisterIsCiphertext
  <2>3. CASE decrypts
    <3>1. at + i - 1 = c + q /\ (c + q < d \/ d + k <= c + q)
      BY <1>0, <1>1, <2>3 DEF Apart
    <3>2. m[c + q] = bytes[q + 1]
      <4> HIDE DEF q
      <4> QED BY <2>1, <3>1, Unread
    <3>3. Cipher(bytes, O, q) = bytes[q + 1]
      BY <2>3 DEF Cipher, Fed
    <3> QED BY <2>2, <3>1, <3>2, <3>3
  <2>4. CASE ~decrypts
    <3>1. at + i - 1 = d + q /\ q \in 0..(k - 1)
      BY <1>0, <1>1, <2>1, <2>4
    <3>2. m[d + q] = O[q]
      BY <3>1 DEF Wrote
    <3>3. Cipher(bytes, O, q) = O[q]
      BY <2>4 DEF Cipher, Fed
    <3> QED BY <2>2, <3>1, <3>2, <3>3
  <2> QED BY <2>3, <2>4
<1>6. Slice(m, at, BlockSize) = R[k]
  <2> DEFINE w == Slice(m, at, BlockSize)
             r == R[k]
  <2>1. w \in [1..BlockSize -> Byte] /\ r \in [1..BlockSize -> Byte] /\ \A i \in 1..BlockSize : w[i] = r[i]
    BY <1>3, <1>4, <1>5
  <2> HIDE DEF w, r
  <2>2. w = [i \in 1..BlockSize |-> w[i]] /\ r = [i \in 1..BlockSize |-> r[i]]
    BY <2>1
  <2>3. w = r
    BY <2>1, <2>2
  <2> QED BY <2>3 DEF w, r
<1> QED BY <1>2, <1>4, <1>6 DEF BlockAt, Block

\* A block put at the front of the ring is the window at 0.
LEMMA FirstBlock ==
  ASSUME NEW r \in Ring, NEW e \in Block
  PROVE  Put(r, 1, e) \in Ring /\ BlockAt(Put(r, 1, e), 1) = e
<1> DEFINE K == 3 * BlockSize
           t == Put(r, 1, e)
<1>1. BlockSize \in Nat \ {0} /\ BlockSize \in Nat /\ K \in Nat /\ 1 \in Nat
  BY BlockAssumption
<1>2. r \in [1..K -> Byte] /\ e \in [1..BlockSize -> Byte]
  BY DEF Ring, Block
<1>3. t \in [1..K -> Byte] /\ \A i \in 1..BlockSize : 1 + i - 1 \in 1..K => t[1 + i - 1] = e[i]
  <2> HIDE DEF K
  <2> QED BY ONLY <1>1, <1>2, PutIs
<1> HIDE DEF t
<1>4. \A i \in 1..BlockSize : 1 + i - 1 = i /\ i \in 1..K
  BY <1>1
<1>5. \A i \in 1..BlockSize : t[i] = e[i]
  BY <1>3, <1>4
<1>6. Slice(t, 1, BlockSize) = [i \in 1..BlockSize |-> t[1 + i - 1]]
  BY DEF Slice
<1>7. e = [i \in 1..BlockSize |-> e[i]]
  BY <1>2
<1>8. Slice(t, 1, BlockSize) = e
  BY <1>4, <1>5, <1>6, <1>7
<1> QED BY <1>3, <1>8 DEF t, Ring, BlockAt

\* One byte of the fast way.
Sent(s, i) == Xor(s.mem[s.src + BlockSize + i], Encrypt(BlockAt(s.mem, Ciphertext(s) + i))[1])

LEMMA FastIs ==
  ASSUME NEW M, NEW d, NEW c, NEW len, NEW bytes, NEW m0, Laid(M, d, c, len, bytes, m0),
         NEW i \in Nat, i + BlockSize < len, NEW s \in Calls(M, d, c)
  PROVE  /\ FromCiphertext(s, i) \in Calls(M, d, c) /\ Sent(s, i) \in Byte
         /\ FromCiphertext(s, i).mem = [s.mem EXCEPT ![d + (BlockSize + i)] = Sent(s, i)]
<1>0. /\ M \in Nat /\ d \in Nat \ {0} /\ c \in Nat \ {0} /\ len \in Nat /\ BlockSize \in Nat \ {0}
      /\ d + len <= M + 1 /\ c + len <= M + 1
  BY BlockAssumption DEF Laid
<1> DEFINE at == Ciphertext(s) + i
           m == s.mem
           e == Encrypt(BlockAt(m, at))
           x == Sent(s, i)
           iv2 == Put(s.iv, 1, e)
           m2 == [m EXCEPT ![d + (BlockSize + i)] = x]
           t == FromCiphertext(s, i)
<1>1. /\ m \in Memory(M) /\ s.dst = d /\ s.src = c /\ s.iv \in Ring /\ s.ivPos \in Positions
      /\ s = [mem |-> m, dst |-> d, src |-> c, iv |-> s.iv, ivPos |-> s.ivPos]
  BY CallIs
<1>2. Ciphertext(s) = IF decrypts THEN c ELSE d
  BY <1>1 DEF Ciphertext
<1>3. at \in Nat \ {0} /\ at + BlockSize - 1 <= M
  BY <1>0, <1>2
<1>4. BlockAt(m, at) \in Block
  <2> HIDE DEF m, at
  <2> QED BY <1>0, <1>1, <1>3, BlockRead
<1>5. e \in Block /\ e[1] \in Byte
  <2>1. e \in [1..BlockSize -> Byte] /\ 1 \in 1..BlockSize
    BY <1>0, <1>4, BlockAssumption DEF Block
  <2> QED BY <2>1 DEF Block
<1>6. s.src + BlockSize + i \in 1..M /\ d + (BlockSize + i) \in 1..M /\ s.dst + BlockSize + i = d + (BlockSize + i)
  BY <1>0, <1>1
<1>7. x \in Byte
  <2>1. m[s.src + BlockSize + i] \in Byte
    BY <1>1, <1>6 DEF Memory
  <2>2. x = Xor(m[s.src + BlockSize + i], e[1])
    BY DEF Sent
  <2> HIDE DEF x, e
  <2> QED BY <1>5, <2>1, <2>2, ByteAssumption
<1>8. iv2 \in Ring
  BY <1>1, <1>5, FirstBlock
<1>9. m2 \in Memory(M)
  BY <1>1, <1>6, <1>7 DEF Memory
<1>10. t = [s EXCEPT !.iv = iv2, !.mem = m2]
  <2>1. t = [s EXCEPT !.iv = iv2, !.mem[s.dst + BlockSize + i] = x]
    BY DEF FromCiphertext, Sent
  <2> HIDE DEF t, iv2, x
  <2> QED BY <1>1, <1>6, <2>1
<1> HIDE DEF t, iv2, m2, x, m
<1>11. t = [mem |-> m2, dst |-> d, src |-> c, iv |-> iv2, ivPos |-> s.ivPos]
  BY <1>1, <1>10
<1>12. t \in Calls(M, d, c) /\ t.mem = m2
  BY <1>1, <1>8, <1>9, <1>11 DEF Calls, Positions
<1> QED BY <1>7, <1>12 DEF t, x, m2, m

\* It writes what the reference does.
LEMMA FastStep ==
  ASSUME NEW M, NEW d, NEW c, NEW len, NEW bytes, NEW m0, Laid(M, d, c, len, bytes, m0),
         NEW R, NEW O, Streams(bytes, len, R, O), Apart(d, c, len),
         NEW i \in Nat, i + BlockSize < len, NEW s \in Calls(M, d, c), Wrote(s.mem, m0, d, BlockSize + i, O)
  PROVE  Wrote(FromCiphertext(s, i).mem, m0, d, BlockSize + i + 1, O)
<1>0. /\ M \in Nat /\ d \in Nat \ {0} /\ c \in Nat \ {0} /\ len \in Nat /\ BlockSize \in Nat \ {0}
      /\ d + len <= M + 1 /\ c + len <= M + 1 /\ m0 \in Memory(M)
      /\ d <= c \/ c + len <= d
  BY BlockAssumption DEF Laid
<1> DEFINE k == BlockSize + i
           m == s.mem
           x == Sent(s, i)
<1>1. m \in Memory(M) /\ s.src = c /\ s.dst = d
  BY CallIs
<1>2. k \in Nat /\ k = i + BlockSize /\ k <= len /\ k < len /\ k \in 0..(len - 1)
  BY <1>0
<1>3. Wrote(m, m0, d, k, O)
  OBVIOUS
<1>4. BlockAt(m, Behind(d, c) + i) = R[k]
  <2> HIDE DEF m, k
  <2> QED BY <1>1, <1>2, <1>3, CipherRead
<1>5. m[c + k] = bytes[k + 1]
  <2>1. c + k < d \/ d + k <= c + k
    BY <1>0, <1>2
  <2> HIDE DEF m, k
  <2> QED BY <1>2, <1>3, <2>1, Unread
<1>6. x = O[k]
  <2>1. Ciphertext(s) = Behind(d, c) /\ s.src + BlockSize + i = c + k
    BY <1>0, <1>1 DEF Ciphertext, Behind
  <2>2. x = Xor(bytes[k + 1], Encrypt(R[k])[1])
    BY <1>4, <1>5, <2>1 DEF Sent
  <2> HIDE DEF k, x
  <2> QED BY <1>2, <2>2 DEF Streams
<1>7. FromCiphertext(s, i).mem = [m EXCEPT ![d + k] = x]
  BY FastIs
<1>8. d + k \in 1..M
  BY <1>0, <1>2
<1>9. Wrote([m EXCEPT ![d + k] = x], m0, d, k + 1, O)
  <2> HIDE DEF m, k, x
  <2> QED BY ONLY <1>0, <1>1, <1>2, <1>3, <1>6, <1>8, WroteOne
<1> QED BY <1>7, <1>9

\* The fast way, all of it.
LEMMA FastRuns ==
  ASSUME NEW M, NEW d, NEW c, NEW len, NEW bytes, NEW m0, Laid(M, d, c, len, bytes, m0),
         NEW R, NEW O, Streams(bytes, len, R, O), Apart(d, c, len),
         NEW s \in Calls(M, d, c), Wrote(s.mem, m0, d, BlockSize, O), NEW n \in Nat, n + BlockSize = len
  PROVE  FastTurns(s, n) \in Calls(M, d, c) /\ Wrote(FastTurns(s, n).mem, m0, d, len, O)
<1>0. BlockSize \in Nat \ {0} /\ len \in Nat
  BY BlockAssumption DEF Laid
<1> DEFINE V == Calls(M, d, c)
<1>1. ClosedFast(V, n)
  <2>1. ASSUME NEW k \in 0..(n - 1), NEW v \in V PROVE FromCiphertext(v, k) \in V
    <3>1. k \in Nat /\ k + BlockSize < len
      BY <1>0
    <3> QED BY <3>1, FastIs
  <2> QED BY <2>1 DEF ClosedFast
<1>a. \E g \in [0..n -> V] : g[0] = s /\ g[n] = FastTurns(s, n) /\ \A k \in 1..n : g[k] = FromCiphertext(g[k - 1], k - 1)
  <2> HIDE DEF V
  <2>1. s \in V
    BY DEF V
  <2> QED BY <1>1, <2>1, FastLoop
<1>2. PICK g \in [0..n -> V] :
         g[0] = s /\ g[n] = FastTurns(s, n) /\ \A k \in 1..n : g[k] = FromCiphertext(g[k - 1], k - 1)
  BY <1>a
<1> DEFINE S == {k \in 0..n : Wrote(g[k].mem, m0, d, BlockSize + k, O)}
<1>3. S \in SUBSET (0..n) /\ 0 \in S
  <2>1. BlockSize + 0 = BlockSize
    BY <1>0
  <2> QED BY <1>2, <2>1
<1>4. ASSUME NEW k \in 1..n, k - 1 \in S PROVE k \in S
  <2> DEFINE i == k - 1
             v == g[k - 1]
  <2>1. i \in Nat /\ i + BlockSize < len /\ BlockSize + i + 1 = BlockSize + k /\ v \in V
    BY <1>0, <1>2
  <2>2. Wrote(v.mem, m0, d, BlockSize + i, O) /\ g[k] = FromCiphertext(v, i)
    BY <1>2, <1>4
  <2>3. Wrote(FromCiphertext(v, i).mem, m0, d, BlockSize + i + 1, O)
    <3> HIDE DEF i, v
    <3> QED BY <2>1, <2>2, FastStep
  <2> QED BY <2>1, <2>2, <2>3
<1>5. \A k \in 0..n : k \in S
  <2> HIDE DEF S
  <2> QED BY <1>3, <1>4, Upwards
<1>6. n \in 0..n /\ BlockSize + n = len
  BY <1>0
<1> QED BY <1>2, <1>5, <1>6

\* Behind dst, where the last block of src lies when the slices overlap, a call
\* writes nothing.
Kept(M, d, c, len, m0) == {s \in Calls(M, d, c) : \A p \in 1..M : d + len <= p => s.mem[p] = m0[p]}

LEMMA KeptFrom ==
  ASSUME NEW M, NEW d, NEW c, NEW len, NEW bytes, NEW m0, Laid(M, d, c, len, bytes, m0),
         NEW s \in Calls(M, d, c), NEW O, Wrote(s.mem, m0, d, BlockSize, O), BlockSize <= len
  PROVE  s \in Kept(M, d, c, len, m0)
<1>1. d \in Nat /\ len \in Nat /\ BlockSize \in Nat /\ DOMAIN m0 = 1..M
  BY BlockAssumption DEF Laid, Memory
<1>2. \A p \in 1..M : d + len <= p => d + BlockSize <= p
  BY <1>1
<1> QED BY <1>1, <1>2 DEF Kept, Wrote

LEMMA FastKept ==
  ASSUME NEW M, NEW d, NEW c, NEW len, NEW bytes, NEW m0, Laid(M, d, c, len, bytes, m0),
         NEW i \in Nat, i + BlockSize < len, NEW s \in Kept(M, d, c, len, m0)
  PROVE  FromCiphertext(s, i) \in Kept(M, d, c, len, m0)
<1>1. s \in Calls(M, d, c) /\ \A p \in 1..M : d + len <= p => s.mem[p] = m0[p]
  BY DEF Kept
<1>2. M \in Nat /\ d \in Nat /\ len \in Nat /\ BlockSize \in Nat
  BY BlockAssumption DEF Laid
<1> DEFINE t == FromCiphertext(s, i)
           x == Sent(s, i)
<1>3. t \in Calls(M, d, c) /\ t.mem = [s.mem EXCEPT ![d + (BlockSize + i)] = x]
  BY <1>1, FastIs
<1> HIDE DEF t, x
<1>4. s.mem \in [1..M -> Byte]
  BY <1>1, CallIs DEF Memory
<1>5. \A p \in 1..M : d + len <= p => p # d + (BlockSize + i) /\ t.mem[p] = s.mem[p]
  BY <1>2, <1>3, <1>4
<1> QED BY <1>1, <1>3, <1>5 DEF Kept, t

LEMMA BlockPut ==
  ASSUME NEW M \in Nat, NEW m \in Memory(M), NEW at \in Nat, NEW e \in Block
  PROVE  Put(m, at, e) \in Memory(M) /\ \A p \in 1..M : p < at \/ at + BlockSize <= p => Put(m, at, e)[p] = m[p]
<1>1. m \in [1..M -> Byte] /\ BlockSize \in Nat /\ e \in [1..BlockSize -> Byte]
  BY BlockAssumption DEF Memory, Block
<1> QED BY <1>1, PutIs DEF Memory

LEMMA BlockKept ==
  ASSUME NEW M, NEW d, NEW c, NEW len, NEW bytes, NEW m0, Laid(M, d, c, len, bytes, m0),
         NEW i \in Nat, i + 2 * BlockSize <= len, NEW s \in Kept(M, d, c, len, m0)
  PROVE  IntoDst(s, i) \in Kept(M, d, c, len, m0)
<1>0. /\ M \in Nat /\ d \in Nat \ {0} /\ c \in Nat \ {0} /\ len \in Nat /\ BlockSize \in Nat \ {0}
      /\ d + len <= M + 1 /\ c + len <= M + 1
  BY BlockAssumption DEF Laid
<1>1. s \in Calls(M, d, c) /\ \A p \in 1..M : d + len <= p => s.mem[p] = m0[p]
  BY DEF Kept
<1> DEFINE at == Ciphertext(s) + i
           m == s.mem
           e == Encrypt(BlockAt(m, at))
           to == d + BlockSize + i
           m2 == Put(m, to, e)
           t == IntoDst(s, i)
<1>2. /\ m \in Memory(M) /\ s.dst = d /\ s.src = c /\ s.iv \in Ring /\ s.ivPos \in Positions
      /\ s = [mem |-> m, dst |-> d, src |-> c, iv |-> s.iv, ivPos |-> s.ivPos]
  BY <1>1, CallIs
<1>3. Ciphertext(s) = IF decrypts THEN c ELSE d
  BY <1>2 DEF Ciphertext
<1>4. at \in Nat \ {0} /\ at + BlockSize - 1 <= M /\ to \in Nat /\ to + BlockSize <= d + len
  BY <1>0, <1>3
<1>5. BlockAt(m, at) \in Block
  <2> HIDE DEF m, at
  <2> QED BY <1>0, <1>2, <1>4, BlockRead
<1>6. e \in Block
  BY <1>5, BlockAssumption DEF Block
<1>7. m2 \in Memory(M) /\ \A p \in 1..M : p < to \/ to + BlockSize <= p => m2[p] = m[p]
  <2> HIDE DEF m, to, e
  <2> QED BY <1>0, <1>2, <1>4, <1>6, BlockPut
<1>8. t = [s EXCEPT !.mem = m2]
  BY <1>2 DEF IntoDst
<1> HIDE DEF t, m2, m, to
<1>9. t = [mem |-> m2, dst |-> d, src |-> c, iv |-> s.iv, ivPos |-> s.ivPos]
  BY <1>2, <1>8
<1>10. t \in Calls(M, d, c) /\ t.mem = m2
  BY <1>2, <1>7, <1>9 DEF Calls, Positions
<1>11. \A p \in 1..M : d + len <= p => t.mem[p] = m0[p]
  <2> TAKE p \in 1..M
  <2>1. d + len <= p => to + BlockSize <= p
    BY <1>0, <1>4
  <2> QED BY <1>1, <1>7, <1>10, <2>1 DEF m
<1> QED BY <1>10, <1>11 DEF Kept, t

LEMMA XorKept ==
  ASSUME NEW M, NEW d, NEW c, NEW len, NEW bytes, NEW m0, Laid(M, d, c, len, bytes, m0),
         NEW n \in Nat, n + BlockSize <= len, NEW s \in Kept(M, d, c, len, m0)
  PROVE  XoredInDst(s, n) \in Kept(M, d, c, len, m0)
<1>0. /\ M \in Nat /\ d \in Nat \ {0} /\ c \in Nat \ {0} /\ len \in Nat /\ BlockSize \in Nat \ {0}
      /\ d + len <= M + 1 /\ c + len <= M + 1
  BY BlockAssumption DEF Laid
<1>1. s \in Calls(M, d, c) /\ \A p \in 1..M : d + len <= p => s.mem[p] = m0[p]
  BY DEF Kept
<1> DEFINE m == s.mem
           In(p) == p - d - BlockSize \in 0..(n - 1)
           m2 == [p \in 1..M |-> IF In(p) THEN Xor(m[c + (p - d)], m[p]) ELSE m[p]]
           t == XoredInDst(s, n)
<1>2. /\ m \in Memory(M) /\ s.dst = d /\ s.src = c /\ s.iv \in Ring /\ s.ivPos \in Positions
      /\ s = [mem |-> m, dst |-> d, src |-> c, iv |-> s.iv, ivPos |-> s.ivPos]
  BY <1>1, CallIs
<1>3. m \in [1..M -> Byte]
  BY <1>2 DEF Memory
<1>4. t = [s EXCEPT !.mem = m2]
  BY <1>2, <1>3 DEF XoredInDst
<1>5. m2 \in Memory(M)
  <2>1. ASSUME NEW p \in 1..M, In(p) PROVE Xor(m[c + (p - d)], m[p]) \in Byte
    <3>1. c + (p - d) \in 1..M
      BY <1>0, <2>1
    <3>2. m[c + (p - d)] \in Byte /\ m[p] \in Byte
      BY <1>3, <3>1
    <3> QED BY <3>2, ByteAssumption
  <2>2. \A p \in 1..M : m[p] \in Byte
    BY <1>3
  <2> HIDE DEF In, m
  <2> QED BY <2>1, <2>2 DEF Memory
<1>6. \A p \in 1..M : d + len <= p => m2[p] = m[p]
  <2> TAKE p \in 1..M
  <2>1. d + len <= p => ~In(p)
    BY <1>0
  <2> HIDE DEF In
  <2> QED BY <2>1
<1> HIDE DEF t, m2, m
<1>7. t = [mem |-> m2, dst |-> d, src |-> c, iv |-> s.iv, ivPos |-> s.ivPos]
  BY <1>2, <1>4
<1>8. t \in Calls(M, d, c) /\ t.mem = m2
  BY <1>2, <1>5, <1>7 DEF Calls, Positions
<1>9. \A p \in 1..M : d + len <= p => t.mem[p] = m0[p]
  BY <1>1, <1>6, <1>8 DEF m
<1> QED BY <1>8, <1>9 DEF Kept, t

\* The blocks in dst, the exclusive or and the last block: none writes there.
LEMMA LastKept ==
  ASSUME NEW M, NEW d, NEW c, NEW len, NEW bytes, NEW m0, Laid(M, d, c, len, bytes, m0),
         NEW s \in Kept(M, d, c, len, m0), NEW n \in Nat, n + BlockSize = len, BlockSize <= n
  PROVE  LateTurns(XoredInDst(BlockTurns(s, n - BlockSize), n - BlockSize), BlockSize, n) \in Kept(M, d, c, len, m0)
<1> DEFINE V == Kept(M, d, c, len, m0)
           b == n - BlockSize
           whole == BlockTurns(s, b)
           xored == XoredInDst(whole, b)
<1>0. BlockSize \in Nat \ {0} /\ BlockSize \in Nat /\ len \in Nat /\ b \in Nat /\ b + BlockSize <= len
  BY BlockAssumption DEF Laid
<1>1. ClosedBlock(V, b)
  <2>1. ASSUME NEW k \in 0..(b - 1), NEW v \in V PROVE IntoDst(v, k) \in V
    <3>1. k \in Nat /\ k + 2 * BlockSize <= len
      BY <1>0
    <3> QED BY <3>1, BlockKept
  <2> HIDE DEF b, V
  <2> QED BY <2>1 DEF ClosedBlock
<1>2. whole \in V
  <2>1. \E g \in [0..b -> V] : g[0] = s /\ g[b] = whole /\ \A k \in 1..b : g[k] = IntoDst(g[k - 1], k - 1)
    <3>1. s \in V
      OBVIOUS
    <3> HIDE DEF V, b
    <3> QED BY <1>0, <1>1, <3>1, BlockLoop
  <2> HIDE DEF V, b, whole
  <2>2. b \in 0..b
    BY <1>0
  <2> QED BY <2>1, <2>2
<1>3. xored \in V
  <2> HIDE DEF whole, b
  <2> QED BY <1>0, <1>2, XorKept
<1>4. ClosedLate(V, BlockSize, n)
  <2>1. ASSUME NEW k \in 0..(BlockSize - 1), NEW v \in V PROVE FromCiphertext(v, n - BlockSize + k) \in V
    <3> DEFINE i == n - BlockSize + k
    <3>1. i \in Nat /\ i + BlockSize < len
      BY <1>0
    <3> HIDE DEF i
    <3>2. FromCiphertext(v, i) \in V
      BY <3>1, FastKept
    <3> QED BY <3>2 DEF i
  <2> HIDE DEF V
  <2> QED BY <2>1 DEF ClosedLate
<1> DEFINE late == LateTurns(xored, BlockSize, n)
<1>5. late \in V
  <2>1. \E g \in [0..BlockSize -> V] :
           g[0] = xored /\ g[BlockSize] = late /\ LatePasses(g, BlockSize, n)
    <3> HIDE DEF V, xored
    <3> QED BY <1>0, <1>3, <1>4, LateLoop
  <2> HIDE DEF V, late, xored
  <2>2. BlockSize \in 0..BlockSize
    BY <1>0
  <2> QED BY <2>1, <2>2
<1> QED BY <1>5

\* The bytes a call does not write it can decrypt the next call with.
LEMMA EndRead ==
  ASSUME NEW M, NEW d, NEW c, NEW len, NEW bytes, NEW m0, Laid(M, d, c, len, bytes, m0),
         NEW R, NEW O, Streams(bytes, len, R, O), decrypts, d + BlockSize <= c,
         NEW s \in Kept(M, d, c, len, m0), NEW n \in Nat, n + BlockSize = len
  PROVE  BlockAt(s.mem, c + n) = R[len] /\ R[len] \in Block
<1>0. /\ M \in Nat /\ d \in Nat \ {0} /\ c \in Nat \ {0} /\ len \in Nat /\ BlockSize \in Nat \ {0}
      /\ d + len <= M + 1 /\ c + len <= M + 1
  BY BlockAssumption DEF Laid
<1>a. R \in [0..len -> Block] /\ \A j \in 0..(len - 1) : m0[c + j] = bytes[j + 1]
  BY DEF Laid, Streams
<1> DEFINE m == s.mem
           at == c + n
<1>1. m \in Memory(M) /\ \A p \in 1..M : d + len <= p => m[p] = m0[p]
  <2>1. s \in Calls(M, d, c)
    BY DEF Kept
  <2> QED BY <2>1, CallIs DEF Kept
<1> HIDE DEF m
<1>2. at \in Nat \ {0} /\ at + BlockSize - 1 <= M
  BY <1>0
<1>3. BlockAt(m, at) \in [1..BlockSize -> Byte] /\ \A i \in 1..BlockSize : BlockAt(m, at)[i] = m[at + i - 1]
  <2> HIDE DEF at
  <2> QED BY <1>0, <1>1, <1>2, BlockRead DEF Block
<1>4. R[len] \in [1..BlockSize -> Byte]
  BY <1>0, <1>a DEF Block
<1>5. ASSUME NEW i \in 1..BlockSize PROVE m[at + i - 1] = R[len][i]
  <2> DEFINE q == n + i - 1
  <2>1. q \in 0..(len - 1) /\ at + i - 1 = c + q /\ c + q \in 1..M /\ d + len <= c + q
    BY <1>0
  <2>2. R[n + BlockSize][i] = Cipher(bytes, O, q)
    <3>1. n + BlockSize <= len
      BY <1>0
    <3> QED BY <3>1, RegisterIsCiphertext
  <2>3. Cipher(bytes, O, q) = bytes[q + 1]
    BY DEF Cipher, Fed
  <2>4. m[c + q] = m0[c + q] /\ m0[c + q] = bytes[q + 1]
    <3> HIDE DEF q
    <3> QED BY <1>a, <1>1, <2>1
  <2> QED BY <2>1, <2>2, <2>3, <2>4
<1>6. BlockAt(m, at) = R[len]
  <2> DEFINE w == BlockAt(m, at)
             r == R[len]
  <2>1. w \in [1..BlockSize -> Byte] /\ r \in [1..BlockSize -> Byte] /\ \A i \in 1..BlockSize : w[i] = r[i]
    BY <1>3, <1>4, <1>5
  <2> HIDE DEF w, r
  <2>2. w = [i \in 1..BlockSize |-> w[i]] /\ r = [i \in 1..BlockSize |-> r[i]]
    BY <2>1
  <2>3. w = r
    BY <2>1, <2>2
  <2> QED BY <2>3 DEF w, r
<1> QED BY <1>0, <1>a, <1>6 DEF m

\* The end of the fast way: the window is at the front.
Ended(s, w) == [s EXCEPT !.iv = Put(@, 1, w), !.ivPos = 0]

LEMMA QuickEnd ==
  ASSUME NEW M, NEW d, NEW c, NEW s \in Calls(M, d, c), NEW w \in Block, 0 \in Positions
  PROVE  Ended(s, w) \in Calls(M, d, c) /\ Ended(s, w).mem = s.mem /\ Window(Ended(s, w)) = w
<1> DEFINE iv2 == Put(s.iv, 1, w)
           end == Ended(s, w)
<1>1. /\ s.mem \in Memory(M) /\ s.iv \in Ring
      /\ s = [mem |-> s.mem, dst |-> d, src |-> c, iv |-> s.iv, ivPos |-> s.ivPos]
  BY CallIs
<1>2. iv2 \in Ring /\ BlockAt(iv2, 1) = w
  BY <1>1, FirstBlock
<1>3. end = [s EXCEPT !.iv = iv2, !.ivPos = 0]
  BY <1>1 DEF Ended
<1> HIDE DEF end, iv2
<1>4. end = [mem |-> s.mem, dst |-> d, src |-> c, iv |-> iv2, ivPos |-> 0]
  <2> DEFINE m == s.mem
             r == s.iv
             pos == s.ivPos
  <2>1. s = [mem |-> m, dst |-> d, src |-> c, iv |-> r, ivPos |-> pos]
    BY <1>1
  <2>2. end = [mem |-> m, dst |-> d, src |-> c, iv |-> iv2, ivPos |-> 0]
    <3> HIDE DEF m, r, pos
    <3> QED BY ONLY <1>3, <2>1
  <2> QED BY <2>2
<1>5. end \in Calls(M, d, c) /\ end.mem = s.mem /\ end.iv = iv2 /\ end.ivPos = 0
  BY <1>1, <1>2, <1>4 DEF Calls, Positions
<1>6. Window(end) = w
  BY <1>2, <1>5 DEF Window
<1> QED BY <1>5, <1>6 DEF end

\* The fast way, in the layouts the code takes it for.
LEMMA QuickRuns ==
  ASSUME NEW M, NEW d, NEW c, NEW len, NEW bytes, NEW m0, Laid(M, d, c, len, bytes, m0),
         NEW R, NEW O, Streams(bytes, len, R, O),
         NEW s \in Calls(M, d, c), InRing(s, 0, d, m0, R, O), len > 2 * BlockSize, Apart(d, c, len)
  PROVE  /\ Quickly(s, len) \in Calls(M, d, c) /\ Window(Quickly(s, len)) = R[len]
         /\ ~(decrypts /\ Overlap(s, len - BlockSize)) => Wrote(Quickly(s, len).mem, m0, d, len, O)
<1> DEFINE n == len - BlockSize
           first == Slowly(s, BlockSize)
           late == LateTurns(XoredInDst(BlockTurns(first, n - BlockSize), n - BlockSize), BlockSize, n)
           fast == FastTurns(first, n)
           done == IF decrypts /\ Overlap(s, n) THEN late ELSE fast
           end == [done EXCEPT !.iv = Put(@, 1, BlockAt(done.mem, Ciphertext(s) + n)), !.ivPos = 0]
<1>0. /\ d \in Nat /\ c \in Nat /\ len \in Nat /\ BlockSize \in Nat \ {0} /\ BlockSize \in Nat /\ BlockSize <= len
      /\ n \in Nat /\ n + BlockSize = len /\ BlockSize <= n
  BY BlockAssumption DEF Laid
<1>1. Quickly(s, len) = end
  BY DEF Quickly, BlockTurns, LateTurns, FastTurns
<1>2. s.dst = d /\ s.src = c /\ Ciphertext(s) = Behind(d, c)
  BY CallIs DEF Ciphertext, Behind
<1>3. first \in Calls(M, d, c) /\ Wrote(first.mem, m0, d, BlockSize, O)
  <2>1. first \in Calls(M, d, c) /\ InRing(first, BlockSize, d, m0, R, O)
    BY <1>0, SlowRuns
  <2> QED BY <2>1 DEF InRing
<1> HIDE DEF first
<1>4. done \in Calls(M, d, c) /\ BlockAt(done.mem, Ciphertext(s) + n) = R[len] /\ R[len] \in Block
      /\ (~(decrypts /\ Overlap(s, n)) => Wrote(done.mem, m0, d, len, O))
  <2>1. CASE decrypts /\ Overlap(s, n)
    <3>1. d + BlockSize <= c /\ Behind(d, c) = c
      <4>1. d <= c + n - 1
        BY <1>2, <2>1 DEF Overlap
      <4>2. ~(c + len <= d)
        BY <1>0, <4>1
      <4> QED BY <2>1, <4>2 DEF Apart, Behind
    <3>2. first \in Kept(M, d, c, len, m0)
      BY <1>0, <1>3, KeptFrom
    <3>3. late \in Kept(M, d, c, len, m0)
      <4> HIDE DEF n
      <4> QED BY <1>0, <3>2, LastKept
    <3> HIDE DEF late, n
    <3>4. BlockAt(late.mem, c + n) = R[len] /\ R[len] \in Block
      BY <1>0, <2>1, <3>1, <3>3, EndRead
    <3>5. late \in Calls(M, d, c)
      BY <3>3 DEF Kept
    <3> QED BY <1>2, <2>1, <3>1, <3>4, <3>5
  <2>2. CASE ~(decrypts /\ Overlap(s, n))
    <3> HIDE DEF n
    <3>1. fast \in Calls(M, d, c) /\ Wrote(fast.mem, m0, d, len, O)
      BY <1>0, <1>3, FastRuns
    <3> DEFINE m == fast.mem
    <3>2. m \in Memory(M)
      BY <3>1, CallIs
    <3>3. Wrote(m, m0, d, len, O) /\ len = n + BlockSize /\ len <= len /\ done = fast
      BY <1>0, <2>2, <3>1
    <3> HIDE DEF fast, m, done
    <3>4. BlockAt(m, Behind(d, c) + n) = R[len] /\ R[len] \in Block
      BY <1>0, <3>2, <3>3, CipherRead
    <3> QED BY <1>2, <3>1, <3>3, <3>4 DEF m
  <2> QED BY <2>1, <2>2
<1>5. 0 \in Positions
  BY <1>0 DEF Positions
<1> HIDE DEF done
<1>6. end \in Calls(M, d, c) /\ end.mem = done.mem /\ Window(end) = R[len]
  <2> DEFINE w == R[len]
  <2>1. end = Ended(done, w)
    BY <1>4 DEF Ended
  <2>2. w \in Block
    BY <1>4
  <2> HIDE DEF w, end
  <2>3. Ended(done, w) \in Calls(M, d, c) /\ Ended(done, w).mem = done.mem /\ Window(Ended(done, w)) = w
    BY <1>4, <1>5, <2>2, QuickEnd
  <2> QED BY <2>1, <2>3 DEF w
<1> HIDE DEF end
<1> QED BY <1>1, <1>4, <1>6

\* A call, either way.
Over(end, s, len, d, R, O) ==
    /\ end.iv \in Ring /\ end.ivPos \in Positions /\ Window(end) = R[len]
    /\ ~(decrypts /\ IsLong(s, len) /\ Overlap(s, len - BlockSize))
          => Slice(end.mem, d, len) = [i \in 1..len |-> O[i - 1]]

LEMMA Called ==
  ASSUME NEW M, NEW d, NEW c, NEW len, NEW bytes, NEW m0, Laid(M, d, c, len, bytes, m0),
         NEW R, NEW O, Streams(bytes, len, R, O),
         NEW s \in Calls(M, d, c), s.mem = m0, Window(s) = R[0],
         NEW end, end = IF IsLong(s, len) THEN Quickly(s, len) ELSE Slowly(s, len)
  PROVE  Over(end, s, len, d, R, O)
<1>0. M \in Nat /\ d \in Nat \ {0} /\ len \in Nat /\ d + len <= M + 1 /\ m0 \in Memory(M)
  BY DEF Laid
<1>1. InRing(s, 0, d, m0, R, O)
  <2>1. Wrote(m0, m0, d, 0, O)
    BY DEF Wrote
  <2> QED BY <2>1 DEF InRing
<1>2. s.dst = d /\ s.src = c
  BY CallIs
<1>3. /\ end \in Calls(M, d, c) /\ Window(end) = R[len]
      /\ ~(decrypts /\ IsLong(s, len) /\ Overlap(s, len - BlockSize)) => Wrote(end.mem, m0, d, len, O)
  <2>1. CASE IsLong(s, len)
    <3>1. len > 2 * BlockSize /\ Apart(d, c, len)
      BY <1>2, <2>1 DEF IsLong, Apart
    <3>2. /\ Quickly(s, len) \in Calls(M, d, c) /\ Window(Quickly(s, len)) = R[len]
          /\ ~(decrypts /\ Overlap(s, len - BlockSize)) => Wrote(Quickly(s, len).mem, m0, d, len, O)
      BY <1>1, <3>1, QuickRuns
    <3> QED BY <2>1, <3>2
  <2>2. CASE ~IsLong(s, len)
    <3>1. len <= len
      BY <1>0
    <3>2. Slowly(s, len) \in Calls(M, d, c) /\ InRing(Slowly(s, len), len, d, m0, R, O)
      BY <1>0, <1>1, <3>1, SlowRuns
    <3> QED BY <2>2, <3>2 DEF InRing
  <2> QED BY <2>1, <2>2
<1>4. end.iv \in Ring /\ end.ivPos \in Positions
  BY <1>3, CallIs
<1>5. ASSUME Wrote(end.mem, m0, d, len, O) PROVE Slice(end.mem, d, len) = [i \in 1..len |-> O[i - 1]]
  <2>1. ASSUME NEW i \in 1..len PROVE end.mem[d + i - 1] = O[i - 1]
    <3>1. i - 1 \in 0..(len - 1) /\ d + (i - 1) = d + i - 1
      BY <1>0
    <3>2. end.mem[d + (i - 1)] = O[i - 1]
      BY <1>5, <3>1 DEF Wrote
    <3> QED BY <3>1, <3>2
  <2> QED BY <2>1 DEF Slice
<1> QED BY <1>3, <1>4, <1>5 DEF Over

\* The inductive invariant is the two properties and the types: between two calls
\* nothing else is left of how they went.
CipherInv ==
    iv \in Ring /\ ivPos \in Positions /\ register \in Block /\ WindowIsRegister /\ StreamIsReference

LEMMA CipherStarts == CFBInit => CipherInv
<1> SUFFICES ASSUME CFBInit PROVE CipherInv
  OBVIOUS
<1>1. BlockSize \in Nat \ {0} /\ 0 \in Byte
  BY BlockAssumption, ByteAssumption
<1>2. /\ register \in Block /\ ivPos = 0 /\ lastCall.right
      /\ iv = [i \in 1..(3 * BlockSize) |-> IF i <= BlockSize THEN register[i] ELSE 0]
  BY DEF CFBInit
<1>3. \A i \in 1..BlockSize : register[i] \in Byte
  BY <1>2 DEF Block
<1>4. \A i \in 1..(3 * BlockSize) : i <= BlockSize => i \in 1..BlockSize
  BY <1>1
<1>5. iv \in Ring
  BY <1>1, <1>2, <1>3, <1>4 DEF Ring
<1>6. ivPos \in Positions
  BY <1>1, <1>2 DEF Positions
<1>7. BlockAt(iv, 1) = register
  <2>1. \A i \in 1..BlockSize : iv[1 + i - 1] = register[i]
    <3> TAKE i \in 1..BlockSize
    <3>1. 1 + i - 1 = i /\ i \in 1..(3 * BlockSize) /\ i <= BlockSize
      BY <1>1
    <3> QED BY <1>2, <3>1
  <2>2. register = [i \in 1..BlockSize |-> register[i]]
    BY <1>2 DEF Block
  <2>3. BlockAt(iv, 1) = [i \in 1..BlockSize |-> iv[1 + i - 1]]
    BY DEF BlockAt, Slice
  <2> QED BY <2>1, <2>2, <2>3
<1> QED BY <1>2, <1>5, <1>6, <1>7 DEF CipherInv, WindowIsRegister, StreamIsReference

LEMMA CipherSteps == CipherInv /\ [CFBNext]_cfbVars => CipherInv'
<1> SUFFICES ASSUME CipherInv, [CFBNext]_cfbVars PROVE CipherInv'
  OBVIOUS
<1>1. ASSUME NEW len \in CallLengths, NEW bytes \in [1..len -> Byte], NEW shift \in {-len} \cup 0..len,
             XORKeyStream(bytes, shift)
      PROVE  CipherInv'
  <2> DEFINE d == IF shift < 0 THEN 1 - shift ELSE 1
             c == d + shift
             M == 2 * len
             m0 == Put([i \in 1..(2 * len) |-> 0], c, bytes)
             s == [mem |-> m0, dst |-> d, src |-> c, iv |-> iv, ivPos |-> ivPos]
             end == IF IsLong(s, len) THEN Quickly(s, len) ELSE Slowly(s, len)
  <2>0. BlockSize \in Nat \ {0} /\ len \in Nat /\ Len(bytes) = len
    BY CallLengthsAssumption, BlockAssumption, BlockLen
  <2>1. /\ iv' = end.iv /\ ivPos' = end.ivPos /\ register' = Reference(bytes).register
        /\ lastCall' = [inPlaceOrApart |-> shift \in {-len, 0, len},
                        right |-> Slice(end.mem, d, len) = Reference(bytes).out]
        /\ decrypts' = decrypts
    BY <1>1, <2>0 DEF XORKeyStream
  <2>2. /\ M \in Nat /\ d \in Nat \ {0} /\ c \in Nat \ {0} /\ d + len <= M + 1 /\ c + len <= M + 1
        /\ d <= c \/ c + len <= d
    BY <2>0
  <2>3. m0 \in Memory(M) /\ \A j \in 0..(len - 1) : m0[c + j] = bytes[j + 1]
    <3> DEFINE z == [i \in 1..M |-> 0]
    <3>1. z \in [1..M -> Byte] /\ m0 = Put(z, c, bytes)
      BY ByteAssumption
    <3> HIDE DEF z, m0, M, c
    <3>2. m0 \in [1..M -> Byte] /\ \A i \in 1..len : c + i - 1 \in 1..M => m0[c + i - 1] = bytes[i]
      BY <2>0, <2>2, <3>1, PutIs
    <3>3. ASSUME NEW j \in 0..(len - 1) PROVE m0[c + j] = bytes[j + 1]
      <4>1. j + 1 \in 1..len /\ c + (j + 1) - 1 = c + j /\ c + j \in 1..M
        BY <2>0, <2>2
      <4> QED BY <3>2, <4>1
    <3> QED BY <3>2, <3>3 DEF Memory
  <2>4. Laid(M, d, c, len, bytes, m0)
    <3> HIDE DEF M, d, c, m0
    <3> QED BY <2>0, <2>2, <2>3 DEF Laid
  <2>5. iv \in Ring /\ ivPos \in Positions /\ register \in Block /\ BlockAt(iv, ivPos + 1) = register
    BY DEF CipherInv, WindowIsRegister
  <2>6. s \in Calls(M, d, c) /\ s.mem = m0 /\ Window(s) = register /\ s.dst = d /\ s.src = c
    <3> HIDE DEF M, d, c, m0
    <3> QED BY <2>3, <2>5 DEF Calls, Positions, Window
  <2>a. PICK R \in [0..len -> Block] : \E O \in [0..(len - 1) -> Byte] : Refers(bytes, len, R, O)
    <3> HIDE DEF M, d, c, m0, s, end
    <3> QED BY <2>0, <2>5, ReferenceIs
  <2>b. PICK O \in [0..(len - 1) -> Byte] : Refers(bytes, len, R, O)
    BY <2>a
  <2>7. /\ Streams(bytes, len, R, O) /\ Reference(bytes).register = R[len]
        /\ Reference(bytes).out = [i \in 1..len |-> O[i - 1]]
    BY <2>b DEF Refers
  <2>8. R[0] = register /\ R[len] \in Block
    BY <2>0, <2>7 DEF Streams
  <2>9. /\ end.iv \in Ring /\ end.ivPos \in Positions /\ Window(end) = R[len]
        /\ ~(decrypts /\ IsLong(s, len) /\ Overlap(s, len - BlockSize))
              => Slice(end.mem, d, len) = [i \in 1..len |-> O[i - 1]]
    <3> DEFINE e == end
    <3>1. e = IF IsLong(s, len) THEN Quickly(s, len) ELSE Slowly(s, len)
      OBVIOUS
    <3>2. s.mem = m0 /\ Window(s) = R[0]
      BY <2>6, <2>8
    <3>3. Over(e, s, len, d, R, O)
      <4> HIDE DEF M, d, c, m0, s, e
      <4> QED BY ONLY <2>4, <2>6, <2>7, <3>1, <3>2, Called
    <3> QED BY <3>3 DEF Over
  <2>10. shift \in {-len, 0, len} => ~(IsLong(s, len) /\ Overlap(s, len - BlockSize))
    BY <2>0, <2>2, <2>6 DEF IsLong, Overlap
  <2> HIDE DEF end, s, M, m0, c, d
  <2>11. WindowIsRegister'
    BY <2>1, <2>7, <2>9 DEF WindowIsRegister, Window
  <2>12. StreamIsReference'
    BY <2>1, <2>7, <2>9, <2>10 DEF StreamIsReference
  <2> QED BY <2>1, <2>7, <2>8, <2>9, <2>11, <2>12 DEF CipherInv, Ring, Positions, Block
<1>2. CASE UNCHANGED cfbVars
  BY <1>2 DEF CipherInv, cfbVars, WindowIsRegister, StreamIsReference, Ring, Positions, Block
<1>3. CASE CFBNext
  BY <1>1, <1>3 DEF CFBNext
<1> QED BY <1>2, <1>3

\* For any block cipher on blocks of any size, any bytes and lengths of the calls,
\* with dst in the place of src, before it by up to the length of the call, or right
\* behind it (the layouts of CFBNext): after each call the window of iv is the last
\* block of ciphertext, which the next call starts from, slow or fast
\* (net/CFB8/cfb8.go, XORKeyStream).
THEOREM CipherWindowIsRegister == CFBSpec => []WindowIsRegister
<1>1. CipherInv => WindowIsRegister
  BY DEF CipherInv
<1> QED BY CipherStarts, CipherSteps, <1>1, PTL DEF CFBSpec

\* For any such calls, what a call writes is what the definition of the mode gives:
\* encrypting in any of these layouts, decrypting in place or with slices that do
\* not overlap (with dst before src and overlapping it, CipherOverlap refutes it).
THEOREM CipherStreamIsReference == CFBSpec => []StreamIsReference
<1>1. CipherInv => StreamIsReference
  BY DEF CipherInv
<1> QED BY CipherStarts, CipherSteps, <1>1, PTL DEF CFBSpec
=============================================================================
