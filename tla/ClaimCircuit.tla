---------------------------- MODULE ClaimCircuit ----------------------------
(***************************************************************************)
(* The claim-circuit program, programs/claim_circuit: it runs on the       *)
(* claimant's machine as the initial call of a privacy-preserving          *)
(* transaction, on account data the client fetched, and declares a chained *)
(* call into the airdrop program.  Execute is the whole private execution: *)
(* this call and the chained one, as execute_and_prove runs them.          *)
(*                                                                         *)
(* A request is the argument list of `chain claim`:                        *)
(*   circuit            program id of the claim-circuit binary being run   *)
(*   airdrop_program_id the program the chained call is addressed to       *)
(*   dist, account_id, allocation, leaf_index, merkle_path, recipient_note *)
(***************************************************************************)
EXTENDS AirdropProgram, MerklePath

CONSTANT AirdropId      \* program id of the airdrop binary the client loads

UNKNOWN_PROGRAM == 2    \* the chained call names a program that is not loaded

-----------------------------------------------------------------------------
(* Whether a request's private inputs walk up to the given root.           *)
ProvesInclusion(request, merkle_root) ==
    MerkleWalk(LeafHash(request.account_id, request.allocation),
               request.leaf_index, request.merkle_path) = merkle_root

(* Deviation: the nullifier hashes its two inputs in the other order.      *)
JournalSwapped(request, data) ==
    [ merkle_root         |-> data.merkle_root,
      nullifier           |-> Nullifier(request.dist, request.account_id),
      distributor_id      |-> request.dist,
      allocation          |-> request.allocation,
      recipient_note_hash |-> NoteHash(request.recipient_note) ]

(* The public outputs, from the private inputs and the account's root.     *)
JournalOf(request, data) ==
    [ merkle_root         |-> data.merkle_root,
      nullifier           |-> Nullifier(request.account_id, request.dist),
      distributor_id      |-> request.dist,
      allocation          |-> request.allocation,
      recipient_note_hash |-> NoteHash(request.recipient_note) ]

(* Deviation: the root the walk ends in is not compared.                   *)
SubmitClaimUnchecked(request, data) ==
    IF data = NoState THEN PROOF_INVALID ELSE OK

(* submit_claim: an error code, or OK and then the chained call follows.   *)
SubmitClaim(request, data) ==
    IF data = NoState THEN PROOF_INVALID
    ELSE IF ~ProvesInclusion(request, data.merkle_root) THEN ROOT_MISMATCH
    ELSE OK

-----------------------------------------------------------------------------
(* Both programs on the same account data: submit_claim leaves it alone    *)
(* and hands it on, claim runs with the claim circuit as its caller.       *)
Execute(request, data) ==
    LET code == SubmitClaim(request, data)
    IN  IF code # OK THEN Result(code, data)
        ELSE IF request.airdrop_program_id # AirdropId THEN Result(UNKNOWN_PROGRAM, data)
        ELSE Claim(request.circuit, data, request.dist,
                   JournalOf(request, data), request.recipient_note)
=============================================================================
