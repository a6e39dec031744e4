----------------------------- MODULE MerklePath -----------------------------
(***************************************************************************)
(* The Merkle walk that the claim circuit and the offline guest make with  *)
(* a claimant's leaf, index and path.                                      *)
(***************************************************************************)
EXTENDS Naturals, SequencesExt, AirdropHash

(* Deviation: the walk ignores the index and always hashes on the left.    *)
MerkleWalkLeftOnly(leaf, leaf_index, merkle_path) ==
    FoldLeft(NodeHash, leaf, merkle_path)

(* Hash up the path; the low bit of the index says on which side.          *)
MerkleWalk(leaf, leaf_index, merkle_path) ==
    LET Up(at, sibling) ==
            [ node  |-> IF at.index % 2 = 0 THEN NodeHash(at.node, sibling)
                                            ELSE NodeHash(sibling, at.node),
              index |-> at.index \div 2 ]
    IN  FoldLeft(Up, [node |-> leaf, index |-> leaf_index], merkle_path).node
=============================================================================
