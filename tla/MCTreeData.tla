----------------------------- MODULE MCTreeData -----------------------------
(* Lists of up to seven claimants, in a tree padded to four leaves.        *)
EXTENDS TreeData

CONSTANTS a1, a2, a3

Entries == {[account_id |-> a, allocation |-> v] : a \in {a1, a2}, v \in 1 .. 2}

MCLists ==
    UNION {[1 .. n -> Entries] : n \in 0 .. 3}
      \cup {[i \in 1 .. n |-> [account_id |-> IF i = 5 THEN a3 ELSE a1, allocation |-> i]] :
                n \in 4 .. 8}
=============================================================================
