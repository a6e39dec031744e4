-------------------------- MODULE MCOfflineReceipt --------------------------
(* Receipts for a distribution of two accounts, before, while and after    *)
(* they claim on chain.                                                    *)
EXTENDS OfflineReceipt, MCAirdropChain

CONSTANT otherNote

(* The arguments of `prove` for leaf i of a list.                          *)
Offline(list, i, v) ==
    [ dist |-> d1, account_id |-> list[i + 1].account_id, allocation |-> v,
      leaf_index |-> i, merkle_path |-> Path(list, Depth, i), recipient_note |-> note,
      merkle_root |-> Root(list, Depth) ]

(* Each account's own receipt, one of another tree of the same account,    *)
(* one for more than the leaf says.                                        *)
MCOfflineRequests ==
    {Offline(Two, i, Two[i + 1].allocation) : i \in 0 .. 1}
      \cup {Offline(Three, 0, 1), Offline(Two, 1, 2)}

MCNotes == {note, otherNote}
Receipts == {ClaimAttestation(q) : q \in MCOfflineRequests}
ReceiptClaims == {[journal |-> r, note |-> n] : r \in Receipts, n \in MCNotes}
ReceiptOffers == {Offer(Two, circuit, 3), Offer(Three, circuit, 6)}
ReceiptRequests ==
    {Honest(circuit, d1, Two, i) : i \in 0 .. 1} \cup {Honest(circuit, d1, Three, 0)}
=============================================================================
