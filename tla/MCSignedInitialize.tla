------------------------- MODULE MCSignedInitialize -------------------------
(* A distributor who corrects the list, or the program id, and signs again. *)
EXTENDS SignedInitialize, MCAirdropChain

SignedOffers == {Offer(Three, circuit, 6), Offer(Two, circuit, 3)}
SignedRequests == {Honest(circuit, d1, Two, 0)}
=============================================================================
