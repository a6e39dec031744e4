---------------------------- MODULE AirdropLedger ----------------------------
(***************************************************************************)
(* What an airdrop promises, with no snapshot, proof or mempool in sight:  *)
(* a distribution is opened once, on terms that stay; then, one at a time  *)
(* and in one step each, entitled accounts are paid their allocation, no   *)
(* account twice, while the supply lasts.                                  *)
(*                                                                         *)
(* What is paid is recorded under a nullifier, so that the record does not *)
(* name the account.                                                       *)
(***************************************************************************)
EXTENDS Naturals, AirdropHash

CONSTANTS
    Distributions,  \* the distributions
    Offers,         \* terms: merkle_root, claim_circuit_program_id, total_supply
    NoTerms,        \* the terms of a distribution that is not open
    CircuitBuilds,  \* program ids whose claims prove entitlement
    Committed,      \* Committed[root]: the <<account_id, allocation>> pairs of a tree
    Nullifiers      \* every nullifier a payment can be recorded under

VARIABLES
    terms,      \* the terms each distribution was opened on
    paid,       \* nullifiers of the payments made
    claimed     \* what they amount to

vars == <<terms, paid, claimed>>

Init ==
    /\ terms = [d \in Distributions |-> NoTerms]
    /\ paid = [d \in Distributions |-> {}]
    /\ claimed = [d \in Distributions |-> 0]

Open(d) ==
    /\ terms[d] = NoTerms
    /\ \E o \in Offers : terms' = [terms EXCEPT ![d] = o]
    /\ UNCHANGED <<paid, claimed>>

(* A distribution that registered anything but a build of the claim        *)
(* circuit leaves entitlement to the program it registered.                *)
EntitledTo(d, nullifier, amount) ==
    terms[d].claim_circuit_program_id \in CircuitBuilds =>
        \E p \in Committed[terms[d].merkle_root] :
            nullifier = Nullifier(p[1], d) /\ amount = p[2]

Pay(d, nullifier, amount) ==
    /\ terms[d] # NoTerms
    /\ nullifier \notin paid[d]
    /\ EntitledTo(d, nullifier, amount)
    /\ claimed[d] + amount <= terms[d].total_supply
    /\ paid' = [paid EXCEPT ![d] = @ \cup {nullifier}]
    /\ claimed' = [claimed EXCEPT ![d] = @ + amount]
    /\ UNCHANGED terms

Next ==
    \E d \in Distributions :
        \/ Open(d)
        \/ /\ terms[d] # NoTerms
           /\ \E n \in Nullifiers, v \in 0 .. terms[d].total_supply : Pay(d, n, v)

Spec == Init /\ [][Next]_vars
=============================================================================
