--------------------------- MODULE MCAirdropChain ---------------------------
(***************************************************************************)
(* Instances of AirdropChain for TLC: eligibility lists, the requests a    *)
(* claimant may make of them, the offers a distributor may send.           *)
(***************************************************************************)
EXTENDS AirdropRefinement, EligibilityTree

CONSTANTS d1, d2, a1, a2, a3, circuit, oldBuild, unknown, airdrop, otherAirdrop, note, stray

Entry(a, v) == [account_id |-> a, allocation |-> v]

Depth == 2
Three == <<Entry(a1, 1), Entry(a2, 2), Entry(a3, 3)>>
Two == <<Entry(a1, 2), Entry(a2, 1)>>
Twice == <<Entry(a1, 2), Entry(a2, 1), Entry(a1, 1)>>     \* a1 has two leaves

Lists == {Three, Two, Twice}
MCCommitted == [root \in {Root(l, Depth) : l \in Lists} |->
                    Pairs(CHOOSE l \in Lists : Root(l, Depth) = root)]

Offer(list, program, supply) ==
    [merkle_root |-> Root(list, Depth), claim_circuit_program_id |-> program,
     total_supply |-> supply]

(* A request with the path of leaf i of the list, for the account and the  *)
(* amount given.                                                           *)
Request(program, d, list, i, a, v) ==
    [circuit |-> program, airdrop_program_id |-> airdrop, dist |-> d, account_id |-> a,
     allocation |-> v, leaf_index |-> i, merkle_path |-> Path(list, Depth, i),
     recipient_note |-> note]

(* The request of the account at leaf i, padding leaves included.          *)
Honest(program, d, list, i) ==
    LET e == list[IF i < Len(list) THEN i + 1 ELSE Len(list)]
    IN  Request(program, d, list, i, e.account_id, e.allocation)

ForeignJournal(d, list, n, v) ==
    [journal |-> [merkle_root |-> Root(list, Depth), nullifier |-> n, distributor_id |-> d,
                  allocation |-> v, recipient_note_hash |-> NoteHash(note)],
     note |-> note]

-----------------------------------------------------------------------------
(* One distribution, of an account with room for two claims.  Of three     *)
(* accounts a3 knows two paths (its own leaf and the padding); the supply  *)
(* may just cover the list, which the account then has no room for, or     *)
(* fall short of it; one request asks for more than its leaf says.  In     *)
(* another list a1 has two leaves; the last one is covered in every way.   *)
RaceOffers == {Offer(Three, circuit, 6), Offer(Three, circuit, 4),
               Offer(Twice, circuit, 4), Offer(Two, circuit, 3)}
RaceRequests ==
    {Honest(circuit, d1, Three, i) : i \in 0 .. 3}
      \cup {Honest(circuit, d1, Twice, i) : i \in {0, 2}}
      \cup {Honest(circuit, d1, Two, i) : i \in 0 .. 1}
      \cup {Request(circuit, d1, Three, 0, a1, 2)}
RaceForeignClaims == {ForeignJournal(d1, Three, Nullifier(a1, d1), 1)}

(* An amount close to the width of u128: 3 + 6 is more than it holds.      *)
Wide == <<Entry(a1, 3), Entry(a2, 6)>>
WideCommitted == [root \in {Root(Wide, 1)} |-> Pairs(Wide)]
WideOffers == {[merkle_root |-> Root(Wide, 1), claim_circuit_program_id |-> circuit,
                total_supply |-> 6]}
WideRequests ==
    {[Request(circuit, d1, Wide, i, Wide[i + 1].account_id, Wide[i + 1].allocation)
        EXCEPT !.merkle_path = Path(Wide, 1, i)] : i \in 0 .. 1}

(* Two distributions of one list.  Either may register the build claimants *)
(* run, another build of the same source, or a program of its own, which   *)
(* passes journals nobody proved and one that does not decode.             *)
TwoOffers == {Offer(Two, circuit, 3), Offer(Two, oldBuild, 3), Offer(Two, stray, 3)}
TwoRequests ==
    {Honest(circuit, d, Two, i) : d \in {d1, d2}, i \in 0 .. 1}
      \cup {Honest(oldBuild, d1, Two, 0),
            [Honest(circuit, d1, Two, 1) EXCEPT !.airdrop_program_id = otherAirdrop]}
TwoForeignClaims ==
    {ForeignJournal(d1, Two, Nullifier(a1, d1), 1), ForeignJournal(d1, Two, stray, 1),
     ForeignJournal(d1, Two, note, 1), [journal |-> Garbage, note |-> note]}

ClientSymmetry == Permutations(Clients)
=============================================================================
