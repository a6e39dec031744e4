--------------------------- MODULE EligibilityTree ---------------------------
(***************************************************************************)
(* The eligibility tree of a distribution, as testnet_claims_run.sh        *)
(* (tree_data) commits to it: the leaf list is padded with its last leaf   *)
(* to the tree's width and hashed pairwise up to one root.  The tree is    *)
(* defined here top-down, node by node; TreeData models the loops of the   *)
(* script that build it bottom-up.                                         *)
(*                                                                         *)
(* A list is a sequence of [account_id, allocation] records.               *)
(***************************************************************************)
EXTENDS Naturals, Sequences, AirdropHash

(* Sibling index `idx ^ 1`.                                                *)
Sibling(i) == IF i % 2 = 0 THEN i + 1 ELSE i - 1

(* The leaf at index i (from 0), padding included.                         *)
Leaf(list, i) ==
    LET entry == list[IF i < Len(list) THEN i + 1 ELSE Len(list)]
    IN  LeafHash(entry.account_id, entry.allocation)

(* Tree(list, depth)[k][i]: node i (from 0) of level k, level 0 the leaves *)
(* of a tree of 2^depth leaves.                                            *)
Tree(list, depth) ==
    LET level[k \in 0 .. depth] ==
          [ i \in 0 .. 2^(depth - k) - 1 |->
              IF k = 0 THEN Leaf(list, i)
              ELSE NodeHash(level[k - 1][2 * i], level[k - 1][2 * i + 1]) ]
    IN  level

Root(list, depth) == Tree(list, depth)[depth][0]

(* The sibling of leaf i's ancestor on every level below the root.         *)
Path(list, depth, i) ==
    [ k \in 1 .. depth |-> Tree(list, depth)[k - 1][Sibling(i \div 2^(k - 1))] ]

(* The pairs a tree commits to.                                            *)
Pairs(list) == {<<list[i].account_id, list[i].allocation>> : i \in DOMAIN list}
=============================================================================
