-------------------------------- MODULE BVH --------------------------------
(***************************************************************************)
(* The bounding volume tree that holds the players' view boxes             *)
(* (world/internal/bvh): nodes linked by parent and child pointers, Insert *)
(* with its branch-and-bound search for a sibling, Delete, and the         *)
(* rotations both make while they refit the boxes on the way up.  The      *)
(* loops of Insert and Delete are steps, one per turn; World.tickLock      *)
(* keeps two calls from overlapping.  A node is an identity, a pointer a   *)
(* node or Nil; unreachable nodes are collected when the call ends.        *)
(***************************************************************************)
EXTENDS Integers, FiniteSets

CONSTANTS
    Box,       \* the boxes inserted: [lo |-> <<x, y, z>>, hi |-> <<x, y, z>>]
    MaxLeaves, \* bound: leaves in the tree at once
    Nil

ASSUME BoxAssumption == Box \subseteq [lo : [1..3 -> Int], hi : [1..3 -> Int]]
ASSUME MaxLeavesAssumption == MaxLeaves \in Nat \ {0}
ASSUME NilAssumption == Nil \notin Nat

VARIABLES
    tree,    \* the allocated nodes
    root,    \* Tree.root
    held,    \* the boxes inserted and not deleted, by leaf: what Find is asked for
    call,    \* "none", "search", "insert" or "delete": the loop that is running
    cursor,  \* the node the refitting loop is at, or the leaf being inserted
    queue,   \* the search heap
    best     \* the cheapest sibling so far

bvhVars == <<tree, root, held, call, cursor, queue, best>>

Node == 1..(2 * MaxLeaves)
Nodes == DOMAIN tree
Fresh == CHOOSE n \in Node \ Nodes : \A m \in Node \ Nodes : n <= m

-----------------------------------------------------------------------------
Lower(a, b) == IF a < b THEN a ELSE b
Upper(a, b) == IF a > b THEN a ELSE b

(* AABB.Union *)
Joined(a, b) == [lo |-> [k \in 1..3 |-> Lower(a.lo[k], b.lo[k])],
                 hi |-> [k \in 1..3 |-> Upper(a.hi[k], b.hi[k])]]

(* Vec3.Sum leaves the third coordinate out, as Less and More do. *)
Surface(b) == 2 * ((b.hi[1] - b.lo[1]) + (b.hi[2] - b.lo[2]))

Merged(n, box) == Surface(Joined(tree[n].box, box))
Growth(n, box) == Merged(n, box) - Surface(tree[n].box)

Leaf(box) == [box |-> box, parent |-> Nil, kids |-> <<Nil, Nil>>]
IsLeaf(n) == tree[n].kids[1] = Nil

-----------------------------------------------------------------------------
BVHInit ==
    /\ tree = <<>> /\ root = Nil /\ held = <<>>
    /\ call = "none" /\ cursor = Nil /\ queue = {} /\ best = Nil

With(t, n, node) == [m \in DOMAIN t \cup {n} |-> IF m = n THEN node ELSE t[m]]
Without(t, dead) == [m \in DOMAIN t \ dead |-> t[m]]

InsertFirst(box) ==
    /\ call = "none" /\ root = Nil
    /\ root' = Fresh
    /\ tree' = With(tree, Fresh, Leaf(box))
    /\ held' = With(held, Fresh, box)
    /\ UNCHANGED <<call, cursor, queue, best>>

InsertBegins(box) ==
    /\ call = "none" /\ root # Nil /\ Cardinality(DOMAIN held) < MaxLeaves
    /\ tree' = With(tree, Fresh, Leaf(box))
    /\ held' = With(held, Fresh, box)
    /\ cursor' = Fresh
    /\ queue' = {[at |-> root, inherited |-> 0]}
    /\ best' = [at |-> root, cost |-> Merged(root, box)]
    /\ call' = "search"
    /\ UNCHANGED root

(* Mutant: the whole cost of a node is passed on to its children. *)
MutantBound(p, box) == p.inherited + Merged(p.at, box)

(* The part of the cost that all below p.at share. *)
Bound(p, box) == p.inherited + Growth(p.at, box)

(* Stage 1: the heap yields a node of least inherited cost; ties are open. *)
SearchStep ==
    LET box == tree[cursor].box IN
    /\ call = "search"
    /\ \E p \in queue :
         /\ \A q \in queue : p.inherited <= q.inherited
         /\ LET cost == p.inherited + Merged(p.at, box)
                better == IF cost <= best.cost THEN [at |-> p.at, cost |-> cost] ELSE best
                explore == ~IsLeaf(p.at) /\ Bound(p, box) + Surface(box) < better.cost
            IN /\ best' = better
               /\ queue' = (queue \ {p}) \cup
                    IF explore
                    THEN {[at |-> tree[p.at].kids[k], inherited |-> Bound(p, box)] : k \in 1..2}
                    ELSE {}
    /\ UNCHANGED <<tree, root, held, call, cursor>>

Replaced(kids, old, new) == [k \in 1..2 |-> IF kids[k] = old THEN new ELSE kids[k]]
Other(t, p, n) == IF t[p].kids[1] = n THEN t[p].kids[2] ELSE t[p].kids[1]

(* Stage 2: a new parent for the sibling found and the leaf. *)
InsertLinks ==
    LET s == best.at
        up == tree[s].parent
        new == [box |-> Joined(tree[s].box, tree[cursor].box), parent |-> up, kids |-> <<s, cursor>>]
        linked == [With(tree, Fresh, new) EXCEPT ![s].parent = Fresh, ![cursor].parent = Fresh]
    IN
    /\ call = "search" /\ queue = {}
    /\ tree' = IF up = Nil THEN linked
               ELSE [linked EXCEPT ![up].kids = Replaced(@, s, Fresh)]
    /\ root' = IF up = Nil THEN Fresh ELSE root
    /\ cursor' = Fresh
    /\ call' = "insert" /\ best' = Nil
    /\ UNCHANGED <<held, queue>>

(* Mutant: the child moved up keeps its old parent. *)
MutantSwapped(t, n, out, stay) ==
    LET p == t[n].parent
        s == Other(t, p, n)
    IN [t EXCEPT ![p].kids = <<n, out>>, ![s].parent = n,
                 ![n].kids = <<s, stay>>, ![n].box = Joined(t[s].box, t[stay].box)]

(* n's child "out" changes places with n's sibling. *)
Swapped(t, n, out, stay) ==
    LET p == t[n].parent
        s == Other(t, p, n)
    IN [t EXCEPT ![p].kids = <<n, out>>, ![out].parent = p, ![s].parent = n,
                 ![n].kids = <<s, stay>>, ![n].box = Joined(t[s].box, t[stay].box)]

Rotated(t, n) ==
    LET p == t[n].parent
        gains(k) == Surface(Joined(t[t[n].kids[k]].box, t[Other(t, p, n)].box)) < Surface(t[n].box)
    IN CASE p = Nil -> t
         [] p # Nil /\ gains(2) -> Swapped(t, n, t[n].kids[1], t[n].kids[2])
         [] p # Nil /\ ~gains(2) /\ gains(1) -> Swapped(t, n, t[n].kids[2], t[n].kids[1])
         [] OTHER -> t

(* Mutant: a rotation changes the boxes, but nothing is refitted. *)
MutantRefitted(n) == tree

Refitted(n) ==
    LET kids == tree[n].kids IN
    [tree EXCEPT ![n].box = Joined(tree[kids[1]].box, tree[kids[2]].box)]

(* Stage 3: one turn of the way up, the root included. *)
InsertRefits ==
    /\ call = "insert"
    /\ tree' = Rotated(Refitted(cursor), cursor)
    /\ cursor' = tree[cursor].parent
    /\ call' = IF cursor' = Nil THEN "none" ELSE call
    /\ UNCHANGED <<root, held, queue, best>>

(* Delete: the sibling takes the parent's place. *)
Delete(n) ==
    LET p == tree[n].parent
        s == Other(tree, p, n)
        grand == tree[p].parent
        cut == Without(tree, {n, p})
    IN
    /\ call = "none" /\ n \in DOMAIN held
    /\ held' = Without(held, {n})
    /\ CASE p = Nil -> tree' = Without(tree, {n}) /\ root' = Nil /\ UNCHANGED <<call, cursor>>
         [] p # Nil /\ grand = Nil ->
              tree' = [cut EXCEPT ![s].parent = Nil] /\ root' = s /\ UNCHANGED <<call, cursor>>
         [] OTHER ->
              /\ tree' = [cut EXCEPT ![s].parent = grand, ![grand].kids = Replaced(@, p, s)]
              /\ call' = "delete" /\ cursor' = grand
              /\ UNCHANGED root
    /\ UNCHANGED <<queue, best>>

(* The way up ends below the root, whose box is left as it was. *)
DeleteRefits ==
    /\ call = "delete"
    /\ IF tree[cursor].parent = Nil
       THEN /\ call' = "none" /\ cursor' = Nil
            /\ UNCHANGED tree
       ELSE /\ tree' = Rotated(Refitted(cursor), cursor)
            /\ cursor' = tree[cursor].parent
            /\ UNCHANGED call
    /\ UNCHANGED <<root, held, queue, best>>

BVHNext ==
    \/ \E box \in Box : InsertFirst(box) \/ InsertBegins(box)
    \/ SearchStep \/ InsertLinks \/ InsertRefits
    \/ \E n \in DOMAIN held : Delete(n)
    \/ DeleteRefits

BVHSpec == BVHInit /\ [][BVHNext]_bvhVars

-----------------------------------------------------------------------------
(* each: what Find visits, the root and the children of whatever is visited *)
Visited ==
    {n \in Nodes : \A S \in SUBSET Nodes :
        root \in S /\ (\A m \in S : {tree[m].kids[1], tree[m].kids[2]} \subseteq S \cup {Nil}) => n \in S}

(* Between calls the pointers form one binary tree: every node but the root *)
(* is a child of its parent, every child knows its parent, and Find visits  *)
(* exactly the boxes inserted and not deleted.  Rotations move subtrees     *)
(* across three pointers in one assignment; "unreachable" is the panic of   *)
(* findAnotherChild and findChildPointer when that goes wrong.              *)
TreeLinked ==
    call = "none" =>
      /\ Visited = Nodes
      /\ {n \in Nodes : IsLeaf(n)} = DOMAIN held
      /\ \A n \in DOMAIN held : tree[n].box = held[n]
      /\ \A n \in Nodes :
           /\ IF n = root THEN tree[n].parent = Nil
              ELSE tree[n].parent \in Nodes /\ \E k \in 1..2 : tree[tree[n].parent].kids[k] = n
           /\ ~IsLeaf(n) => tree[n].kids[1] # tree[n].kids[2]
                            /\ \A k \in 1..2 : tree[tree[n].kids[k]].parent = n

(* Between calls the box of an inner node contains its children's.  It may  *)
(* be larger: Delete leaves the root's box, and a later Insert can push     *)
(* that root down the tree with it.                                         *)
BoxesCover ==
    call = "none" =>
      \A n \in Nodes : \A k \in 1..2 :
         ~IsLeaf(n) => Joined(tree[n].box, tree[tree[n].kids[k]].box) = tree[n].box

(* The cost of putting a leaf next to n: the merged surface, and what every  *)
(* ancestor grows by.                                                        *)
CostAt(n, box) ==
    LET grown[m \in Nodes] ==
          LET p == tree[m].parent IN IF p = Nil THEN 0 ELSE grown[p] + Growth(p, box)
    IN grown[n] + Merged(n, box)

(* The search leaves out subtrees by a lower bound and still ends at a       *)
(* sibling that no node of the tree beats, oversized boxes or not.           *)
SearchFindsBest ==
    call = "search" /\ queue = {} =>
      \A n \in Nodes \ {cursor} : CostAt(best.at, tree[cursor].box) <= CostAt(n, tree[cursor].box)
=============================================================================
