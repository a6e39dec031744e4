--------------------------- MODULE OfflineReceipt ---------------------------
(***************************************************************************)
(* Offline claim receipts, next to the chain of AirdropChain: `airdrop-    *)
(* claim prove` runs circuit/guest on private inputs and writes a receipt  *)
(* to a file, `airdrop-claim verify` checks one against a distributor, a   *)
(* root and a note, and whoever has the file may pass its journal to the   *)
(* `claim` instruction, as the Basecamp app tells claimants to do.         *)
(*                                                                         *)
(* Neither command sees the chain.  A receipt is its journal: the proof    *)
(* system makes a file that is no receipt of the guest fail to verify.     *)
(*                                                                         *)
(* The guest has copies of its own of the hashes and of the Merkle walk;   *)
(* they are declared here as it has them, not taken from the claim circuit.*)
(***************************************************************************)
EXTENDS AirdropChain

CONSTANTS
    OfflineRequests,    \* arguments of `prove`: a request's, and the root
    Notes,              \* notes a receipt is submitted or verified with
    Public              \* the caller id of a public transaction

VARIABLES
    receipts,   \* receipts written so far
    refused,    \* requests the guest panicked on
    answers     \* what came of the receipts submitted

receiptVars == <<vars, receipts, refused, answers>>

GuestLeafHash(account_id, allocation) == <<0, account_id, allocation>>
GuestNodeHash(left, right) == <<1, left, right>>

(* Deviations: the index is shifted before its bit is looked at; the       *)
(* nullifier leaves the distributor out.                                   *)
GuestWalkShifted(leaf_hash, leaf_index, merkle_path) ==
    LET Level(at, sibling) ==
            [ node  |-> IF (at.index \div 2) % 2 = 0 THEN GuestNodeHash(at.node, sibling)
                                                    ELSE GuestNodeHash(sibling, at.node),
              index |-> at.index \div 2 ]
    IN  FoldLeft(Level, [node |-> leaf_hash, index |-> leaf_index], merkle_path).node
GuestNullifierForAll(account_id, distributor_id) == <<account_id>>

(* The guest's loop over the path.                                         *)
GuestWalk(leaf_hash, leaf_index, merkle_path) ==
    LET Level(at, sibling) ==
            [ node  |-> IF at.index % 2 = 0 THEN GuestNodeHash(at.node, sibling)
                                            ELSE GuestNodeHash(sibling, at.node),
              index |-> at.index \div 2 ]
    IN  FoldLeft(Level, [node |-> leaf_hash, index |-> leaf_index], merkle_path).node

(* The guest's assertion.                                                  *)
GuestProves(request) ==
    GuestWalk(GuestLeafHash(request.account_id, request.allocation),
              request.leaf_index, request.merkle_path) = request.merkle_root

GuestNullifier(account_id, distributor_id) == <<account_id, distributor_id>>

ClaimAttestation(request) ==
    [ merkle_root         |-> request.merkle_root,
      nullifier           |-> GuestNullifier(request.account_id, request.dist),
      distributor_id      |-> request.dist,
      allocation          |-> request.allocation,
      recipient_note_hash |-> NoteHash(request.recipient_note) ]

Attestations == {ClaimAttestation(q) : q \in OfflineRequests}

(* As in AirdropChain, of the requests made offline.                       *)
ASSUME OfflineAssumption ==
    /\ \A q \in OfflineRequests :
          /\ q.dist \in Distributions
          /\ q.merkle_root \in Roots
          /\ ProvesInclusion(q, q.merkle_root)
                => <<q.account_id, q.allocation>> \in Committed[q.merkle_root]
    /\ Public \in ForeignCallers
    /\ \A r \in Attestations, n \in Notes : [journal |-> r, note |-> n] \in ForeignClaims

ReceiptInit ==
    /\ Init
    /\ receipts = {}
    /\ refused = {}
    /\ answers = {}

-----------------------------------------------------------------------------
(* Deviation: a receipt takes the place of those written before.           *)
ProveReceiptOver(q) ==
    /\ GuestProves(q)
    /\ receipts' = {ClaimAttestation(q)}
    /\ UNCHANGED <<vars, refused, answers>>

(* Deviation: the guest does not compare the root it computed.             *)
ProveReceiptUnchecked(q) ==
    /\ receipts' = receipts \cup {ClaimAttestation(q)}
    /\ UNCHANGED <<vars, refused, answers>>

(* The guest asserts that the path walks up to the root it was given.      *)
ProveReceipt(q) ==
    /\ GuestProves(q)
    /\ receipts' = receipts \cup {ClaimAttestation(q)}
    /\ UNCHANGED <<vars, refused, answers>>

(* If it does not, `prove` fails and there is no receipt.                  *)
RefuseReceipt(q) ==
    /\ ~GuestProves(q)
    /\ refused' = refused \cup {q}
    /\ UNCHANGED <<vars, receipts, answers>>

(* What `verify` accepts.                                                  *)
Verify(receipt, distributor_id, merkle_root, recipient_note) ==
    /\ receipt.distributor_id = distributor_id
    /\ receipt.merkle_root = merkle_root
    /\ receipt.recipient_note_hash = NoteHash(recipient_note)

(* What the app's README asks of a receipt for its submission to be paid:  *)
(* the proof is right, the nullifier unspent, the note the one it names.   *)
Acceptable(receipt, recipient_note) ==
    LET d == receipt.distributor_id
    IN  /\ Live(d)
        /\ Verify(receipt, d, account[d].merkle_root, recipient_note)
        /\ ~Spent(account[d], receipt.nullifier)
        /\ Add128(account[d].claimed, receipt.allocation) <= account[d].total_supply

(* A public transaction with the receipt's journal and a note.             *)
SubmitReceipt(receipt, note) ==
    LET d == receipt.distributor_id
    IN  /\ ForeignClaim(d, Public, [journal |-> receipt, note |-> note])
        /\ answers' = answers \cup
              {[ receipt    |-> receipt,
                 acceptable |-> Acceptable(receipt, note),
                 code       |-> Claim(Public, account[d], d, receipt, note).code ]}
        /\ UNCHANGED <<receipts, refused>>

ReceiptNext ==
    \/ \E q \in OfflineRequests : ProveReceipt(q) \/ RefuseReceipt(q)
    \/ \E r \in receipts, n \in Notes : SubmitReceipt(r, n)
    \/ Next /\ UNCHANGED <<receipts, refused, answers>>

ReceiptSpec == ReceiptInit /\ [][ReceiptNext]_receiptVars

-----------------------------------------------------------------------------
ReceiptTypeOK ==
    /\ receipts \subseteq Attestations
    /\ refused \subseteq OfflineRequests
    /\ answers \subseteq [receipt : receipts, acceptable : BOOLEAN, code : Codes]

(* A receipt that verifies against a distribution's root on chain was made *)
(* by an account of its list for that account's allocation, although the   *)
(* guest was given the root and the distributor by the claimant.           *)
VerifiedReceiptsAreEntitled ==
    \A r \in receipts, d \in Distributions, n \in Notes :
        Live(d) /\ Verify(r, d, account[d].merkle_root, n) =>
            \E p \in Entitled(d) :
                r.nullifier = Nullifier(p[1], d) /\ r.allocation = p[2]

(* The guest and the claim circuit agree on who claims what: when the      *)
(* nullifier of a receipt is spent on chain, it is for the amount the      *)
(* receipt says, whichever came first and whatever was submitted.          *)
ReceiptsAgreeWithLandings ==
    [][\A d \in Distributions, r \in receipts :
          /\ Genuine(d) /\ OneLeafPerAccount(d)
          /\ r.distributor_id = d /\ r.merkle_root = account[d].merkle_root
          /\ ~Spent(account[d], r.nullifier) /\ Spent(account'[d], r.nullifier)
          => account'[d].claimed = Add128(account[d].claimed, r.allocation)]_receiptVars

(* Nor do they part over who is in the tree: what the guest refused        *)
(* against the root of a live distribution, the claim circuit refuses on   *)
(* its account, and nobody finds offline that a claim of theirs is no good *)
(* which would land.                                                       *)
RefusedOfflineIsRefusedOnChain ==
    \A q \in refused :
        Live(q.dist) /\ account[q.dist].merkle_root = q.merkle_root =>
            SubmitClaim(q, account[q.dist]) = ROOT_MISMATCH

(* Submitting an acceptable receipt to `claim` claims                      *)
(* (basecamp-app/README.md:17).                                            *)
SubmittedReceiptsClaim == \A a \in answers : a.acceptable => a.code = OK
=============================================================================
