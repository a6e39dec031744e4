------------------------ MODULE MCPersistentClaimants ------------------------
(* Claimants of one list, each with a client of its own.                   *)
EXTENDS PersistentClaimants, MCAirdropChain

CONSTANTS c1, c2

OwnTwo == [c \in {c1, c2} |-> Honest(circuit, d1, Two, IF c = c1 THEN 0 ELSE 1)]
OwnRequests == {OwnTwo[c] : c \in {c1, c2}}
OwnOffers == {Offer(Two, circuit, 3)}
=============================================================================
