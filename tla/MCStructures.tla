---------------------------- MODULE MCStructures ----------------------------
(* BVH, PaletteContainer, SignatureCache and CFB8 for TLC, in one run: they   *)
(* share nothing, and structure says whose behaviours a behaviour shows.      *)
EXTENDS BVH, PaletteContainer, SignatureCache, CFB8

VARIABLE structure

vars == <<structure, bvhVars, paletteVars, cacheVars, cfbVars>>

View(x, y, x2, y2) == [lo |-> <<x, y, 0>>, hi |-> <<x2, y2, 1>>]
MCBox == {View(0, 0, 1, 1), View(1, 0, 2, 1), View(4, 0, 6, 1), View(0, 3, 1, 5)}

\* One step to a wider palette and then to the states themselves; and a width
\* that is rounded up.
MCConfigs == {[min |-> 1, max |-> 2, global |-> 3], [min |-> 2, max |-> 2, global |-> 3]}

MCXor(a, b) == (a + b) % 2

\* A permutation in which both bits of a block decide over the first of its image.
MCEncrypt(b) == <<IF b[1] = b[2] THEN 1 ELSE 0, b[1]>>

\* Only the structure that runs has more than one initial state.
Init ==
    /\ structure \in {"tree", "container", "signatures", "cipher"}
    /\ BVHInit /\ PaletteInit /\ CacheInit /\ CFBInit
    /\ structure # "container" =>
         /\ config = CHOOSE c \in Configs : TRUE
         /\ contents[1] = CHOOSE v \in State : TRUE
    /\ structure # "cipher" => ~decrypts /\ register = [i \in 1..BlockSize |-> 0]

Next ==
    /\ \/ structure = "tree" /\ BVHNext /\ UNCHANGED <<paletteVars, cacheVars, cfbVars>>
       \/ structure = "container" /\ PaletteNext /\ UNCHANGED <<bvhVars, cacheVars, cfbVars>>
       \/ structure = "signatures" /\ CacheNext /\ UNCHANGED <<bvhVars, paletteVars, cfbVars>>
       \/ structure = "cipher" /\ CFBNext /\ UNCHANGED <<bvhVars, paletteVars, cacheVars>>
    /\ UNCHANGED structure

Spec == Init /\ [][Next]_vars

CipherSpec == Init /\ structure = "cipher" /\ [][Next]_vars

=============================================================================
