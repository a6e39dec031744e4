---------------------------- MODULE MCEvidenceRun ----------------------------
(* The script alone with its distribution, and next to another claimant.   *)
EXTENDS EvidenceRun, MCAirdropChain

CONSTANT script     \* the script's client process

RunOfferThree == Offer(Three, circuit, 9)
RunOffers == {RunOfferThree}
ClaimsThree == [i \in 1 .. 3 |-> Honest(circuit, d1, Three, i - 1)]
RequestsThree == {ClaimsThree[i] : i \in DOMAIN ClaimsThree}
=============================================================================
