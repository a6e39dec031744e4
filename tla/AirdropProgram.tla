--------------------------- MODULE AirdropProgram ---------------------------
(***************************************************************************)
(* The on-chain airdrop program, programs/airdrop: what `initialize` and   *)
(* `claim` compute from the account data they are given.  Both are pure:   *)
(* the zkVM guest either returns the new account data or an error code, in *)
(* which case the account is left as it was.                               *)
(*                                                                         *)
(* Account data is a DistributionState record, or NoState for the empty    *)
(* data of an account nobody has initialized.                              *)
(***************************************************************************)
EXTENDS Naturals, Sequences, AirdropHash

CONSTANTS
    U128,           \* u128 arithmetic is modulo this number (2^128)
    DataMaxLength,  \* bytes an account's Data may hold
    NoState,        \* the empty data of an uninitialized account
    Garbage         \* journal bytes that do not decode

(* An account's Data has room for a new distribution (100 bytes).          *)
ASSUME WidthAssumption ==
    U128 \in Nat \ {0} /\ DataMaxLength \in Nat /\ DataMaxLength >= 100

OK == 0
PROOF_INVALID == 7001
DISTRIBUTOR_MISMATCH == 7002
ROOT_MISMATCH == 7003
NULLIFIER_SPENT == 7004
DISTRIBUTION_EXHAUSTED == 7005
RECIPIENT_MISMATCH == 7006
UNAUTHORIZED_CALLER == 7007
STATE_TOO_LARGE == 1    \* SpelError::SerializationError, which has no number

Amounts == 0 .. U128 - 1

(* `+` on u128 in a release build, which has no overflow checks.           *)
Add128(x, y) == (x + y) % U128

NeverSpent(state, nullifier) == FALSE     \* Deviation: no look at the nullifiers

Spent(state, nullifier) ==
    \E i \in DOMAIN state.spent_nullifiers : state.spent_nullifiers[i] = nullifier

(* borsh: 32 (root) + 32 (program id) + 16 + 16 + 4 (count) + 32 each.     *)
EncodedLength(state) == 100 + 32 * Len(state.spent_nullifiers)

-----------------------------------------------------------------------------
InitialState(merkle_root, claim_circuit_program_id, total_supply) ==
    [ merkle_root              |-> merkle_root,
      claim_circuit_program_id |-> claim_circuit_program_id,
      total_supply             |-> total_supply,
      claimed                  |-> 0,
      spent_nullifiers         |-> <<>> ]

-----------------------------------------------------------------------------
(* Deviations: `claimed` looked at before the addition; a supply that may  *)
(* not be used up; a note nobody compares.                                 *)
ExhaustedBefore(state, allocation) == state.claimed > state.total_supply
ExhaustedAtSupply(state, allocation) == Add128(state.claimed, allocation) >= state.total_supply
AnyNote(journal, recipient_note) == TRUE

Exhausted(state, allocation) == Add128(state.claimed, allocation) > state.total_supply

(* The journal binds the claim to one note.                                *)
BindsNote(journal, recipient_note) == NoteHash(recipient_note) = journal.recipient_note_hash

(* The checks of apply_claim in the order the code makes them.             *)
CheckClaim(state, journal, distributor_id, recipient_note) ==
    IF journal.distributor_id # distributor_id THEN DISTRIBUTOR_MISMATCH
    ELSE IF journal.merkle_root # state.merkle_root THEN ROOT_MISMATCH
    ELSE IF ~BindsNote(journal, recipient_note) THEN RECIPIENT_MISMATCH
    ELSE IF Spent(state, journal.nullifier) THEN NULLIFIER_SPENT
    ELSE IF Exhausted(state, journal.allocation) THEN DISTRIBUTION_EXHAUSTED
    ELSE OK

(* Deviations: `claimed` not advanced; only the last nullifier kept.       *)
RecordNullifierOnly(state, journal) ==
    [state EXCEPT !.spent_nullifiers = Append(@, journal.nullifier)]

RecordLatestOnly(state, journal) ==
    [state EXCEPT !.spent_nullifiers = <<journal.nullifier>>,
                  !.claimed = Add128(@, journal.allocation)]

(* What apply_claim writes once every check has passed.                    *)
RecordClaim(state, journal) ==
    [state EXCEPT !.spent_nullifiers = Append(@, journal.nullifier),
                  !.claimed = Add128(@, journal.allocation)]

-----------------------------------------------------------------------------
Result(code, data) == [code |-> code, data |-> data]

(* The `claim` instruction: deserialize, check the caller, decode the      *)
(* journal, apply it, and write the account only if the new state fits.    *)
Claim(caller_program_id, data, distributor_id, journal, recipient_note) ==
    IF data = NoState THEN Result(PROOF_INVALID, data)
    ELSE IF caller_program_id # data.claim_circuit_program_id
         THEN Result(UNAUTHORIZED_CALLER, data)
    ELSE IF journal = Garbage THEN Result(PROOF_INVALID, data)
    ELSE LET code  == CheckClaim(data, journal, distributor_id, recipient_note)
             after == RecordClaim(data, journal)
         IN  IF code # OK THEN Result(code, data)
             ELSE IF EncodedLength(after) > DataMaxLength THEN Result(STATE_TOO_LARGE, data)
             ELSE Result(OK, after)
=============================================================================
