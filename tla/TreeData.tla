------------------------------ MODULE TreeData ------------------------------
(***************************************************************************)
(* tree_data of testnet_claims_run.sh, loop iteration by loop iteration:   *)
(* pad the leaves with the last one, hash level after level until one node *)
(* is left, then print each claimant's line with its Merkle path.  The     *)
(* reference is EligibilityTree, which defines the same tree top-down.     *)
(***************************************************************************)
EXTENDS EligibilityTree, MerklePath, FiniteSets

CONSTANTS
    Lists,      \* eligibility lists the script may be run for
    Width       \* leaves the list is padded to (16)

VARIABLES
    pc,         \* "pad", "hash", "print", "done" or "failed" (an IndexError)
    list,       \* the claimants
    levels,     \* the levels built so far, leaves first
    lines       \* the claimants' lines printed so far

vars == <<pc, list, levels, lines>>

ASSUME ListsAssumption ==
    \A l \in Lists : l \in Seq(Range(l)) /\ \A i \in DOMAIN l : l[i].allocation \in Nat

(* The width, 16 in the script, is a power of two.                         *)
ASSUME TreeWidthAssumption == \E n \in 0 .. Width : Width = 2^n

Init ==
    /\ pc = "pad"
    /\ list \in Lists
    /\ levels = << [i \in DOMAIN list |-> LeafHash(list[i].account_id, list[i].allocation)] >>
    /\ lines = <<>>

Top == levels[Len(levels)]

Fail ==
    /\ pc' = "failed"
    /\ UNCHANGED <<list, levels, lines>>

(* Deviation: a short list is padded with its first leaf.                  *)
PadWithFirst ==
    /\ pc = "pad" /\ Len(Top) < Width /\ Top # <<>>
    /\ levels' = <<Append(Top, Top[1])>>
    /\ UNCHANGED <<pc, list, lines>>

(* leaves.append(leaves[-1]) while there are fewer than Width.             *)
Pad ==
    /\ pc = "pad" /\ Len(Top) < Width /\ Top # <<>>
    /\ levels' = <<Append(Top, Last(Top))>>
    /\ UNCHANGED <<pc, list, lines>>

(* leaves[-1] of no leaves at all.                                         *)
PadNothing == pc = "pad" /\ Len(Top) < Width /\ Top = <<>> /\ Fail

(* Deviation: the list is not padded.                                      *)
PaddedAtOnce ==
    /\ pc = "pad" /\ Len(Top) >= 1
    /\ pc' = "hash"
    /\ UNCHANGED <<list, levels, lines>>

Padded ==
    /\ pc = "pad" /\ Len(Top) >= Width
    /\ pc' = "hash"
    /\ UNCHANGED <<list, levels, lines>>

(* The next level up, of the pairs of the top one.                         *)
HashLevel ==
    /\ pc = "hash" /\ Len(Top) > 1 /\ Len(Top) % 2 = 0
    /\ levels' = Append(levels, [i \in 1 .. Len(Top) \div 2 |->
                                    NodeHash(Top[2 * i - 1], Top[2 * i])])
    /\ UNCHANGED <<pc, list, lines>>

(* cur[i+1] past the end of an odd level.                                  *)
HashOddLevel == pc = "hash" /\ Len(Top) > 1 /\ Len(Top) % 2 = 1 /\ Fail

RootFound ==
    /\ pc = "hash" /\ Len(Top) = 1
    /\ pc' = "print"
    /\ UNCHANGED <<list, levels, lines>>

(* The siblings on every level but the last: idx ^ 1, then idx >>= 1.      *)
PathFromLevels(i) ==
    [k \in 1 .. Len(levels) - 1 |-> levels[k][Sibling(i \div 2^(k - 1)) + 1]]

PrintLine ==
    /\ pc = "print" /\ Len(lines) < Len(list)
    /\ LET i == Len(lines)
           e == list[i + 1]
       IN  lines' = Append(lines, [ leaf_index  |-> i,
                                    account_id  |-> e.account_id,
                                    allocation  |-> e.allocation,
                                    merkle_path |-> PathFromLevels(i) ])
    /\ UNCHANGED <<pc, list, levels>>

Finish ==
    /\ pc = "print" /\ Len(lines) = Len(list)
    /\ pc' = "done"
    /\ UNCHANGED <<list, levels, lines>>

Ended == pc \in {"done", "failed"} /\ UNCHANGED vars

Next ==
    \/ Pad \/ PadNothing \/ Padded
    \/ HashLevel \/ HashOddLevel \/ RootFound
    \/ PrintLine \/ Finish \/ Ended

Spec == Init /\ [][Next]_vars

-----------------------------------------------------------------------------
RootOf == Top[1]

Walk(line) == MerkleWalk(LeafHash(line.account_id, line.allocation),
                         line.leaf_index, line.merkle_path)

(* Every line the script prints is one the claim circuit accepts: its path *)
(* walks from the claimant's leaf to the root the distribution is          *)
(* initialized with.                                                       *)
PrintedPathsProve == \A i \in DOMAIN lines : Walk(lines[i]) = RootOf

(* No path the script prints proves anything but what the list says, with  *)
(* whatever account and amount of the list, and at whatever index from 0   *)
(* to 2 * Width, it is used.                                               *)
PrintedPathsProveNothingElse ==
    \A i \in DOMAIN lines, a \in {list[k].account_id : k \in DOMAIN list},
       v \in {list[k].allocation : k \in DOMAIN list}, x \in 0 .. 2 * Width :
          Walk([lines[i] EXCEPT !.account_id = a, !.allocation = v, !.leaf_index = x]) = RootOf
            => <<a, v>> \in Pairs(list)

(* Built bottom-up, the tree is the one EligibilityTree defines top-down.  *)
AgreesWithReference ==
    pc \in {"print", "done"} =>
        LET depth == Len(levels) - 1
        IN  /\ Len(levels[1]) = 2^depth
            /\ RootOf = Root(list, depth)
            /\ \A i \in DOMAIN lines : lines[i].merkle_path = Path(list, depth, i - 1)

(* The script fails on no list that fits the padded tree.                  *)
FailsOnlyOnMisfits == pc = "failed" => list = <<>> \/ Len(list) > Width
=============================================================================
