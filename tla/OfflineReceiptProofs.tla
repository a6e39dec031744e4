------------------------ MODULE OfflineReceiptProofs ------------------------
(***************************************************************************)
(* Proofs about OfflineReceipt.  Receipts change nothing that a foreign    *)
(* caller of `claim` could not, so that a run with receipts is a run of    *)
(* AirdropChain and all that is proved of it holds; and what the guest     *)
(* checked is about a root, whose tree never changes, rather than about a  *)
(* state of the chain, so that it stays true.                              *)
(***************************************************************************)
EXTENDS OfflineReceipt, AirdropChainProofs

(* The guest's copies of the walk and of the nullifier are the circuit's.  *)
LEMMA CopiesOfTheGuest ==
    ASSUME NEW q
    PROVE  /\ GuestProves(q) <=> ProvesInclusion(q, q.merkle_root)
           /\ GuestNullifier(q.account_id, q.dist) = Nullifier(q.account_id, q.dist)
<1>1. GuestWalk(GuestLeafHash(q.account_id, q.allocation), q.leaf_index, q.merkle_path)
        = MerkleWalk(LeafHash(q.account_id, q.allocation), q.leaf_index, q.merkle_path)
  BY DEF GuestWalk, GuestNodeHash, GuestLeafHash, MerkleWalk, NodeHash, LeafHash, FoldLeft,
         MapThenFoldSet
<1> QED
  BY <1>1, Zenon DEF GuestProves, ProvesInclusion, GuestNullifier, Nullifier

(* What the guest's assertion leaves: receipts of pairs in their trees.    *)
ReceiptsProve ==
    \A r \in receipts :
        \E q \in OfflineRequests :
            r = ClaimAttestation(q) /\ ProvesInclusion(q, q.merkle_root)

LEMMA ReceiptsAreAttestations ==
    ASSUME ReceiptsProve
    PROVE  receipts \subseteq Attestations
BY DEF ReceiptsProve, Attestations

LEMMA ReceiptEntitled ==
    ASSUME ReceiptsProve, NEW r \in receipts
    PROVE  \E p \in Committed[r.merkle_root] :
              r.nullifier = Nullifier(p[1], r.distributor_id) /\ r.allocation = p[2]
<1> PICK q \in OfflineRequests :
        r = ClaimAttestation(q) /\ ProvesInclusion(q, q.merkle_root)
  BY DEF ReceiptsProve
<1> DEFINE p == <<q.account_id, q.allocation>>
<1>1. p \in Committed[q.merkle_root]
  BY OfflineAssumption
<1>2. /\ r.merkle_root = q.merkle_root
      /\ r.distributor_id = q.dist
      /\ r.nullifier = Nullifier(p[1], q.dist)
      /\ r.allocation = p[2]
  BY CopiesOfTheGuest DEF ClaimAttestation
<1> QED
  BY <1>1, <1>2

LEMMA ReceiptsProveKept ==
    ASSUME ReceiptsProve, [ReceiptNext]_receiptVars
    PROVE  ReceiptsProve'
<1>1. ASSUME NEW q \in OfflineRequests, ProveReceipt(q) PROVE ReceiptsProve'
  BY <1>1, CopiesOfTheGuest DEF ProveReceipt, ReceiptsProve
<1>2. CASE UNCHANGED receipts
  BY <1>2 DEF ReceiptsProve
<1> QED
  BY <1>1, <1>2 DEF ReceiptNext, RefuseReceipt, SubmitReceipt, receiptVars

(* A step with receipts is a step of the chain, or none.                   *)
LEMMA ReceiptStep ==
    ASSUME ReceiptsProve, [ReceiptNext]_receiptVars
    PROVE  [Next]_vars
<1>1. ASSUME NEW q \in OfflineRequests, ProveReceipt(q) \/ RefuseReceipt(q)
      PROVE  UNCHANGED vars
  BY <1>1 DEF ProveReceipt, RefuseReceipt
<1>2. ASSUME NEW r \in receipts, NEW n \in Notes, SubmitReceipt(r, n) PROVE Next
  <2>1. PICK q \in OfflineRequests : r = ClaimAttestation(q)
    BY DEF ReceiptsProve
  <2>2. r.distributor_id \in Distributions
    BY <2>1, OfflineAssumption DEF ClaimAttestation
  <2>3. [journal |-> r, note |-> n] \in ForeignClaims /\ Public \in ForeignCallers
    BY ReceiptsAreAttestations, OfflineAssumption
  <2> QED
    BY <1>2, <2>2, <2>3 DEF SubmitReceipt, Next
<1> QED
  BY <1>1, <1>2 DEF ReceiptNext, receiptVars

(* Every run with offline receipts is a run of AirdropChain: proving and   *)
(* submitting receipts changes nothing that its theorems depend on.        *)
THEOREM ReceiptsKeepToTheChain == ReceiptSpec => Spec /\ []ReceiptsProve
<1>1. ReceiptInit => Init /\ ReceiptsProve
  BY DEF ReceiptInit, ReceiptsProve
<1>2. ReceiptsProve /\ [ReceiptNext]_receiptVars => ReceiptsProve'
  BY ReceiptsProveKept
<1>3. ReceiptsProve /\ [ReceiptNext]_receiptVars => [Next]_vars
  BY ReceiptStep
<1> QED
  BY <1>1, <1>2, <1>3, PTL DEF ReceiptSpec, Spec

-----------------------------------------------------------------------------
LEMMA ClaimAnswers ==
    ASSUME NEW caller, NEW pre, NEW d, NEW journal, NEW note
    PROVE  Claim(caller, pre, d, journal, note).code \in Codes
BY DEF Claim, CheckClaim, Exhausted, BindsNote, Result, Codes, OK, UNKNOWN_PROGRAM,
       STATE_TOO_LARGE, PROOF_INVALID, UNAUTHORIZED_CALLER, DISTRIBUTOR_MISMATCH,
       NULLIFIER_SPENT, DISTRIBUTION_EXHAUSTED, RECIPIENT_MISMATCH, ROOT_MISMATCH

LEMMA ReceiptTypeKept ==
    ASSUME ReceiptsProve, ReceiptTypeOK, [ReceiptNext]_receiptVars
    PROVE  ReceiptTypeOK'
<1>1. receipts' \subseteq Attestations
  BY ReceiptsProveKept DEF ReceiptsProve, Attestations
<1>2. receipts \subseteq receipts'
  BY DEF ReceiptNext, ProveReceipt, RefuseReceipt, SubmitReceipt, receiptVars
<1>3. answers' \subseteq [receipt : receipts, acceptable : BOOLEAN, code : Codes]
  <2>1. ASSUME NEW r \in receipts, NEW n \in Notes, SubmitReceipt(r, n)
        PROVE  answers' \subseteq [receipt : receipts, acceptable : BOOLEAN, code : Codes]
    <3> DEFINE d == r.distributor_id
    <3>1. Claim(Public, account[d], d, r, n).code \in Codes
      BY ClaimAnswers
    <3>2. Acceptable(r, n) \in BOOLEAN
      BY DEF Acceptable
    <3> QED
      BY <2>1, <3>1, <3>2 DEF SubmitReceipt, ReceiptTypeOK
  <2>2. CASE UNCHANGED answers
    BY <2>2 DEF ReceiptTypeOK
  <2> QED
    BY <2>1, <2>2 DEF ReceiptNext, ProveReceipt, RefuseReceipt, receiptVars
<1>4. refused' \subseteq OfflineRequests
  BY DEF ReceiptNext, ProveReceipt, RefuseReceipt, SubmitReceipt, receiptVars, ReceiptTypeOK
<1> QED
  BY <1>1, <1>2, <1>3, <1>4 DEF ReceiptTypeOK

(* The receipts are what the guest can have written, and every answer is   *)
(* about one of them.                                                      *)
THEOREM ReceiptTypeCorrect == ReceiptSpec => []ReceiptTypeOK
<1>1. ReceiptInit => ReceiptTypeOK
  BY DEF ReceiptInit, ReceiptTypeOK
<1>2. ReceiptsProve /\ ReceiptTypeOK /\ [ReceiptNext]_receiptVars => ReceiptTypeOK'
  BY ReceiptTypeKept
<1>3. ReceiptSpec => []ReceiptsProve
  BY ReceiptsKeepToTheChain, PTL
<1> QED
  BY <1>1, <1>2, <1>3, PTL DEF ReceiptSpec

-----------------------------------------------------------------------------
(* A receipt that verifies against the root on chain is of an account of   *)
(* the list, for its allocation.                                           *)
THEOREM VerifiedMeansEntitled == ReceiptSpec => []VerifiedReceiptsAreEntitled
<1>1. ASSUME ReceiptsProve PROVE VerifiedReceiptsAreEntitled
  <2> SUFFICES ASSUME NEW r \in receipts, NEW d \in Distributions, NEW n \in Notes,
                      Live(d), Verify(r, d, account[d].merkle_root, n)
               PROVE  \E p \in Entitled(d) :
                          r.nullifier = Nullifier(p[1], d) /\ r.allocation = p[2]
    BY DEF VerifiedReceiptsAreEntitled
  <2>1. r.distributor_id = d /\ r.merkle_root = account[d].merkle_root
    BY DEF Verify
  <2> QED
    BY <1>1, <2>1, ReceiptEntitled DEF Entitled
<1> QED
  BY <1>1, ReceiptsKeepToTheChain, PTL

(* When a receipt's nullifier is spent on chain, it is for the amount the  *)
(* receipt says: two leaves of one account aside, guest and claim circuit  *)
(* cannot disagree.                                                        *)
THEOREM GuestAndCircuitAgree == ReceiptSpec => ReceiptsAgreeWithLandings
<1> DEFINE Agree ==
        \A d \in Distributions, r \in receipts :
          /\ Genuine(d) /\ OneLeafPerAccount(d)
          /\ r.distributor_id = d /\ r.merkle_root = account[d].merkle_root
          /\ ~Spent(account[d], r.nullifier) /\ Spent(account'[d], r.nullifier)
          => account'[d].claimed = Add128(account[d].claimed, r.allocation)
<1>1. ASSUME IInv, ReceiptsProve, [Next]_vars PROVE Agree
  <2> SUFFICES ASSUME NEW d \in Distributions, NEW r \in receipts,
                      Genuine(d), OneLeafPerAccount(d),
                      r.distributor_id = d, r.merkle_root = account[d].merkle_root,
                      ~Spent(account[d], r.nullifier), Spent(account'[d], r.nullifier)
               PROVE  account'[d].claimed = Add128(account[d].claimed, r.allocation)
    OBVIOUS
  <2>1. account[d] # NoState /\ account[d].claim_circuit_program_id \in CircuitBuilds
    BY DEF Genuine, Live
  <2>2. account[d] \in DistributionState
    BY <1>1, <2>1 DEF IInv, TypeOK
  <2>3. Landing(d, account[d], account'[d])
    BY <1>1, <2>1, AccountStep
  <2>4. PICK n \in Nullifiers, v \in Allocations : Step(d, account[d], account'[d], n, v)
    BY <2>3 DEF Landing
  <2>5. account[d].spent_nullifiers \in Seq(Nullifiers)
    BY <2>2 DEF DistributionState
  <2>6. /\ account'[d].spent_nullifiers = Append(account[d].spent_nullifiers, n)
        /\ account'[d].claimed = Add128(account[d].claimed, v)
    BY <2>2, <2>4 DEF Step, DistributionState
  <2>7. r.nullifier = n
    <3>1. PICK i \in DOMAIN account'[d].spent_nullifiers :
              account'[d].spent_nullifiers[i] = r.nullifier
      BY DEF Spent
    <3>2. i \in DOMAIN account[d].spent_nullifiers =>
              account'[d].spent_nullifiers[i] = account[d].spent_nullifiers[i]
      BY <2>5, <2>6
    <3>3. i \notin DOMAIN account[d].spent_nullifiers =>
              account'[d].spent_nullifiers[i] = n
      BY <2>5, <2>6
    <3> QED
      BY <3>1, <3>2, <3>3 DEF Spent
  <2>8. PICK p \in Committed[account[d].merkle_root] : n = Nullifier(p[1], d) /\ v = p[2]
    BY <2>1, <2>4 DEF Step
  <2>9. PICK s \in Committed[account[d].merkle_root] :
            r.nullifier = Nullifier(s[1], d) /\ r.allocation = s[2]
    BY <1>1, ReceiptEntitled
  <2>10. p[1] = s[1]
    BY <2>7, <2>8, <2>9 DEF Nullifier
  <2>11. p = s
    BY <2>10 DEF OneLeafPerAccount, Entitled
  <2> QED
    BY <2>6, <2>8, <2>9, <2>11
<1>2. ASSUME IInv, ReceiptsProve, [ReceiptNext]_receiptVars PROVE Agree
  BY <1>1, <1>2, ReceiptStep
<1>3. ReceiptSpec => []IInv /\ []ReceiptsProve
  BY ReceiptsKeepToTheChain, Soundness, PTL
<1>4. IInv /\ ReceiptsProve /\ [ReceiptNext]_receiptVars => [Agree]_receiptVars
  BY <1>2
<1> QED
  BY <1>3, <1>4, PTL DEF ReceiptSpec, ReceiptsAgreeWithLandings

(* Whom the guest refuses against a distribution's root, the claim circuit *)
(* refuses on its account: their copies of the walk agree on every path.   *)
THEOREM GuestRefusesNobodyElse == ReceiptSpec => []RefusedOfflineIsRefusedOnChain
<1> DEFINE Misfits == \A q \in refused : ~ProvesInclusion(q, q.merkle_root)
<1>1. ReceiptInit => Misfits
  BY DEF ReceiptInit
<1>2. Misfits /\ [ReceiptNext]_receiptVars => Misfits'
  <2> SUFFICES ASSUME Misfits, [ReceiptNext]_receiptVars PROVE Misfits'
    OBVIOUS
  <2>1. ASSUME NEW q \in OfflineRequests, RefuseReceipt(q) PROVE Misfits'
    BY <2>1, CopiesOfTheGuest DEF RefuseReceipt
  <2>2. CASE UNCHANGED refused
    BY <2>2
  <2> QED
    BY <2>1, <2>2 DEF ReceiptNext, ProveReceipt, SubmitReceipt, receiptVars
<1>3. Misfits => RefusedOfflineIsRefusedOnChain
  BY DEF RefusedOfflineIsRefusedOnChain, SubmitClaim, Live
<1> QED
  BY <1>1, <1>2, <1>3, PTL DEF ReceiptSpec
=============================================================================
