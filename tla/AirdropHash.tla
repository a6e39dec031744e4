----------------------------- MODULE AirdropHash -----------------------------
(***************************************************************************)
(* SHA-256 as the programs use it, symbolically: a digest is the tuple of  *)
(* what was hashed, so two digests are equal exactly when their inputs     *)
(* are.  The real inputs have 49 bytes (leaf), 65 (node) and 64            *)
(* (nullifier), so that no two of these share an input; the tag byte is    *)
(* kept where the code hashes one.  A note has any length (7 bytes in      *)
(* testnet_claims_run.sh:117, 8 in demo.sh:58); its hash is only ever      *)
(* compared with the hash of a note (airdrop/src/lib.rs:84).               *)
(***************************************************************************)

(* Deviations, used only to show that the properties notice them.          *)
NullifierWithoutDistributor(account_id, distributor_id) == <<account_id>>
LeafHashWithoutAllocation(account_id, allocation) == <<0, account_id>>

(* SHA256(0x00 || account_id || allocation_le).                            *)
LeafHash(account_id, allocation) == <<0, account_id, allocation>>

(* SHA256(0x01 || left || right).                                          *)
NodeHash(left, right) == <<1, left, right>>

(* SHA256(account_id || distributor_id): one per account and distribution. *)
Nullifier(account_id, distributor_id) == <<account_id, distributor_id>>

(* SHA256(recipient_note).                                                 *)
NoteHash(recipient_note) == <<recipient_note>>
=============================================================================
