-------------------------- MODULE AirdropRefinement --------------------------
(***************************************************************************)
(* AirdropChain implements AirdropLedger: the minutes between reading a    *)
(* distribution and landing on it, and everything in between, come down to *)
(* one atomic payment at the moment the sequencer includes the claim.      *)
(***************************************************************************)
EXTENDS AirdropChain

TermsOf(d) ==
    IF account[d] = NoState THEN NoState
    ELSE [ merkle_root              |-> account[d].merkle_root,
           claim_circuit_program_id |-> account[d].claim_circuit_program_id,
           total_supply             |-> account[d].total_supply ]

PaidOn(d) ==
    IF account[d] = NoState THEN {} ELSE {n \in Nullifiers : Spent(account[d], n)}

ClaimedOn(d) == IF account[d] = NoState THEN 0 ELSE account[d].claimed

Ledger == INSTANCE AirdropLedger
            WITH NoTerms <- NoState,
                 terms   <- [d \in Distributions |-> TermsOf(d)],
                 paid    <- [d \in Distributions |-> PaidOn(d)],
                 claimed <- [d \in Distributions |-> ClaimedOn(d)]

(* Every behaviour of the chain is one of the ledger: a distribution opens *)
(* once, and each landing of a claim is one payment that is entitled, new  *)
(* and covered at that moment (apply_claim's checks, made on a snapshot).  *)
ImplementsLedger == Ledger!Spec
=============================================================================
