------------------------------ MODULE MCDemoRun ------------------------------
(* One claimant, who has the leaf of a tree twice, in two shells.          *)
EXTENDS DemoRun, MCAirdropChain

CONSTANT demo       \* the script's client process

Alone == <<Entry(a1, 2)>>
DemoCommitted == [root \in {Root(Alone, 1)} |-> Pairs(Alone)]
DemoOfferAlone ==
    [merkle_root |-> Root(Alone, 1), claim_circuit_program_id |-> circuit, total_supply |-> 9]
DemoOffers == {DemoOfferAlone}
AloneAt(i) ==
    [circuit |-> circuit, airdrop_program_id |-> airdrop, dist |-> d1, account_id |-> a1,
     allocation |-> 2, leaf_index |-> i, merkle_path |-> Path(Alone, 1, i),
     recipient_note |-> note]
DemoClaimAlone == AloneAt(0)
DemoRequests == {AloneAt(0), AloneAt(1)}
=============================================================================
