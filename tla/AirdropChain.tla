---------------------------- MODULE AirdropChain ----------------------------
(***************************************************************************)
(* Claims on a live chain.  Every claimant runs `airdrop-claim chain       *)
(* claim`: it fetches the distribution account, executes and proves both   *)
(* programs on that snapshot (minutes of proving), and sends the proven    *)
(* transaction.  The sequencer includes a privacy-preserving transaction   *)
(* only while the pre-state the proof is about is still the live state of  *)
(* the account, and then writes the post-state the proof computed.         *)
(*                                                                         *)
(* What was sent stays in `mempool` for ever: the sequencer may include it *)
(* at any later time, before what was sent earlier, never, or try it again *)
(* after a landing.  So loss, delay, reordering and duplication need no    *)
(* actions of their own.                                                   *)
(***************************************************************************)
EXTENDS ClaimCircuit, FiniteSets

CONSTANTS
    Distributions,  \* distribution accounts (the distributor ids)
    Clients,        \* processes that may run `chain claim`
    ProgramIds,     \* program ids a distribution may register
    CircuitBuilds,  \* the ones that are builds of programs/claim_circuit
    ForeignCallers, \* callers of `claim` that are not builds of it
    ForeignClaims,  \* journal and note pairs those callers pass
    Offers,         \* arguments of `chain initialize`
    Requests,       \* arguments of `chain claim`
    Committed,      \* Committed[root]: the <<account_id, allocation>> pairs of a tree
    MaxSends        \* bound: privacy-preserving transactions ever sent

VARIABLES
    account,    \* live data of each distribution account
    mempool,    \* proven claim transactions sent
    client      \* what each client process holds

vars == <<account, mempool, client>>

Roots == DOMAIN Committed

(* Every nullifier a caller of `claim` can name.                           *)
Nullifiers == {Nullifier(q.account_id, q.dist) : q \in Requests}
                \cup {f.journal.nullifier : f \in {g \in ForeignClaims : g.journal # Garbage}}

(* Every allocation such a caller can name.                                *)
Allocations == {q.allocation : q \in Requests}
                \cup {f.journal.allocation : f \in {g \in ForeignClaims : g.journal # Garbage}}

DistributionState ==
    [ merkle_root : Roots, claim_circuit_program_id : ProgramIds,
      total_supply : Amounts, claimed : Amounts, spent_nullifiers : Seq(Nullifiers) ]

(* A proven transaction shows the account it is about, the data it read    *)
(* and the data it writes; the request behind it never leaves the client.  *)
PPETx == [dist : Distributions, pre : DistributionState, post : DistributionState]

Codes == {OK, STATE_TOO_LARGE, UNKNOWN_PROGRAM} \cup PROOF_INVALID .. UNAUTHORIZED_CALLER

ASSUME OffersAssumption ==
    Offers \subseteq [ merkle_root : Roots, claim_circuit_program_id : ProgramIds,
                       total_supply : Amounts ]

ASSUME RequestsAssumption ==
    \A q \in Requests : q.dist \in Distributions /\ q.allocation \in Amounts

ASSUME ForeignAssumption ==
    /\ \A f \in ForeignClaims : f.journal # Garbage => f.journal.allocation \in Amounts
    /\ ForeignCallers \cap CircuitBuilds = {}

(* What SHA-256 gives the tree: whatever path a request comes with, only a *)
(* pair in the tree walks up to the tree's root.                           *)
ASSUME MerkleAssumption ==
    \A q \in Requests, root \in Roots :
        ProvesInclusion(q, root) => <<q.account_id, q.allocation>> \in Committed[root]

(* A list is finite, and its allocations are u128.                         *)
ASSUME CommittedAssumption ==
    \A root \in Roots :
        IsFiniteSet(Committed[root]) /\ \A p \in Committed[root] : p[2] \in Amounts

(* What the claim circuit commits to decodes.                              *)
ASSUME JournalAssumption ==
    \A q \in Requests, root \in Roots : JournalOf(q, [merkle_root |-> root]) # Garbage

ASSUME NoStateAssumption == NoState \notin DistributionState \cup Offers

-----------------------------------------------------------------------------
(* A client process keeps nothing across runs: it is idle, or holds the    *)
(* snapshot it fetched, or the transaction it proved, or has printed why   *)
(* it failed.                                                              *)
Idle == [phase |-> "idle"]
Fetched(request, data) == [phase |-> "fetched", request |-> request, data |-> data]
Proved(tx) == [phase |-> "proved", tx |-> tx]
Failed(request, code) == [phase |-> "failed", request |-> request, code |-> code]

ClientState ==
    {Idle}
      \cup [phase : {"fetched"}, request : Requests, data : DistributionState \cup {NoState}]
      \cup [phase : {"proved"}, tx : PPETx]
      \cup [phase : {"failed"}, request : Requests, code : Codes]

TypeOK ==
    /\ account \in [Distributions -> DistributionState \cup {NoState}]
    /\ mempool \subseteq PPETx
    /\ client \in [Clients -> ClientState]

Init ==
    /\ account = [d \in Distributions |-> NoState]
    /\ mempool = {}
    /\ client = [c \in Clients |-> Idle]

-----------------------------------------------------------------------------
(* Deviation: an initialized account may be initialized again.             *)
InitializeAlways(d, offer) ==
    /\ account' = [account EXCEPT ![d] =
           InitialState(offer.merkle_root, offer.claim_circuit_program_id, offer.total_supply)]
    /\ UNCHANGED <<mempool, client>>

(* The sequencer runs an initialize that `chain initialize` signed and     *)
(* sent some time ago.  The distributor may have run the command more than *)
(* once, with the same arguments or others; #[account(init)] demands an    *)
(* untouched account.                                                      *)
Initialize(d, offer) ==
    /\ account[d] = NoState
    /\ account' = [account EXCEPT ![d] =
           InitialState(offer.merkle_root, offer.claim_circuit_program_id, offer.total_supply)]
    /\ UNCHANGED <<mempool, client>>

(* `claim` reached by any other road than a build of the claim circuit: a  *)
(* public transaction or another program's chained call.  It runs on the   *)
(* live state; an error leaves the account as it was.                      *)
ForeignClaim(d, caller, f) ==
    /\ account' = [account EXCEPT ![d] = Claim(caller, @, d, f.journal, f.note).data]
    /\ UNCHANGED <<mempool, client>>

-----------------------------------------------------------------------------
(* send_claim_ppe up to the first await: the snapshot is read.             *)
Fetch(c, request) ==
    /\ client[c] = Idle
    /\ client' = [client EXCEPT ![c] = Fetched(request, account[request.dist])]
    /\ UNCHANGED <<account, mempool>>

(* execute_and_prove on the snapshot, whatever the chain is now.           *)
Prove(c) ==
    /\ client[c].phase = "fetched"
    /\ LET request == client[c].request
           data    == client[c].data
           result  == Execute(request, data)
       IN  client' = [client EXCEPT ![c] =
               IF result.code = OK
               THEN Proved([dist |-> request.dist, pre |-> data, post |-> result.data])
               ELSE Failed(request, result.code)]
    /\ UNCHANGED <<account, mempool>>

(* send_transaction: it reaches the sequencer, whether or not the client   *)
(* sees the answer; either way the process ends.                           *)
Send(c) ==
    /\ client[c].phase = "proved"
    /\ Cardinality(mempool \cup {client[c].tx}) <= MaxSends
    /\ mempool' = mempool \cup {client[c].tx}
    /\ client' = [client EXCEPT ![c] = Idle]
    /\ UNCHANGED account

(* The process ends at any other point: a crash, a call that fails before  *)
(* the sequencer has the transaction, or the claimant giving up.           *)
Quit(c) ==
    /\ client[c] # Idle
    /\ client' = [client EXCEPT ![c] = Idle]
    /\ UNCHANGED <<account, mempool>>

(* Deviation: the live state may differ from the proof's pre-state.        *)
IncludeStaleClaim(tx) ==
    /\ tx \in mempool
    /\ account[tx.dist] # NoState
    /\ account' = [account EXCEPT ![tx.dist] = tx.post]
    /\ UNCHANGED <<mempool, client>>

(* The sequencer includes a proven claim: the pre-state it commits to must *)
(* be the live state.                                                      *)
IncludeClaim(tx) ==
    /\ tx \in mempool
    /\ account[tx.dist] = tx.pre
    /\ account' = [account EXCEPT ![tx.dist] = tx.post]
    /\ UNCHANGED <<mempool, client>>

Next ==
    \/ \E d \in Distributions, o \in Offers : Initialize(d, o)
    \/ \E d \in Distributions, p \in ForeignCallers, f \in ForeignClaims : ForeignClaim(d, p, f)
    \/ \E c \in Clients : \/ \E q \in Requests : Fetch(c, q)
                          \/ Prove(c) \/ Send(c) \/ Quit(c)
    \/ \E tx \in mempool : IncludeClaim(tx)

(* The sequencer cuts a block every few seconds and keeps offering what is *)
(* in its mempool; nothing obliges a client or a distributor to go on.     *)
Fairness ==
    \A d \in Distributions : WF_vars(\E tx \in mempool : tx.dist = d /\ IncludeClaim(tx))

Spec == Init /\ [][Next]_vars
FairSpec == Spec /\ Fairness

-----------------------------------------------------------------------------
Live(d) == account[d] # NoState

(* The registered caller is a build of the claim circuit.                  *)
Genuine(d) == Live(d) /\ account[d].claim_circuit_program_id \in CircuitBuilds

(* u128 is wide enough: no supply and allocation add up to 2^128.          *)
AllocationsFit == \A o \in Offers, v \in Allocations : o.total_supply + v < U128

Landed(d) == IF Live(d) THEN Len(account[d].spent_nullifiers) ELSE 0

Entitled(d) == Committed[account[d].merkle_root]

OneLeafPerAccount(d) == \A p, r \in Entitled(d) : p[1] = r[1] => p = r

Paid(d) == {p \in Entitled(d) : Spent(account[d], Nullifier(p[1], d))}

TotalOf(pairs) == MapThenSumSet(LAMBDA p : p[2], pairs)

(* No nullifier is spent twice: however claims race, are retried or sent   *)
(* again, an account claims once per distribution.  The contains check of  *)
(* apply_claim ran minutes before the landing, on the client's snapshot.   *)
NoDoubleClaim ==
    \A d \in Distributions : Live(d) =>
        \A i, j \in DOMAIN account[d].spent_nullifiers :
            account[d].spent_nullifiers[i] = account[d].spent_nullifiers[j] => i = j

(* The distribution never pays out more than its supply, although the      *)
(* check against total_supply is made on a snapshot.                       *)
WithinSupply ==
    \A d \in Distributions : Live(d) => account[d].claimed <= account[d].total_supply

(* Only accounts in the committed tree spend nullifiers, whoever calls     *)
(* `claim`, as long as the distributor registered a build of the claim     *)
(* circuit.  What they are paid is the matter of ClaimedIsSumOfPaid.       *)
OnlyEligible ==
    \A d \in Distributions : Genuine(d) =>
        \A i \in DOMAIN account[d].spent_nullifiers :
            \E p \in Entitled(d) : account[d].spent_nullifiers[i] = Nullifier(p[1], d)

(* `claimed` is the sum of the allocations of those who claimed (as        *)
(* docs/TESTNET_EVIDENCE.md reads it) when no account has two leaves.      *)
ClaimedIsSumOfPaid ==
    \A d \in Distributions : Genuine(d) /\ OneLeafPerAccount(d) =>
        account[d].claimed = TotalOf(Paid(d))

(* The supply and the account have room for everybody on the list.         *)
Covered(d) ==
    /\ OneLeafPerAccount(d)
    /\ TotalOf(Entitled(d)) <= account[d].total_supply
    /\ 100 + 32 * Cardinality(Entitled(d)) <= DataMaxLength

(* A request for a leaf of a list the distribution covers, not yet claimed. *)
MayClaim(q) ==
    /\ Genuine(q.dist) /\ Covered(q.dist)
    /\ q.circuit = account[q.dist].claim_circuit_program_id
    /\ q.airdrop_program_id = AirdropId
    /\ <<q.account_id, q.allocation>> \in Entitled(q.dist)
    /\ ProvesInclusion(q, account[q.dist].merkle_root)
    /\ ~Spent(account[q.dist], Nullifier(q.account_id, q.dist))

(* A claimant whose allocation the distribution can cover is never locked  *)
(* out by what others did: proving against the live state succeeds until   *)
(* this account has claimed.                                               *)
NoClaimantLockedOut ==
    \A q \in Requests : MayClaim(q) => Execute(q, account[q.dist]).code = OK

(* Spent nullifiers of two distributions have nothing in common, even for  *)
(* an account that claims in both: nothing links its claims.               *)
Unlinkable ==
    \A d, e \in Distributions : d # e /\ Genuine(d) /\ Genuine(e) =>
        \A i \in DOMAIN account[d].spent_nullifiers,
           j \in DOMAIN account[e].spent_nullifiers :
              account[d].spent_nullifiers[i] # account[e].spent_nullifiers[j]

(* A rejection computed on a stale snapshot is still right on the live     *)
(* state: but for an uninitialized account, nothing that happens meanwhile *)
(* makes the failed request succeed, so a claimant need not try again.     *)
RejectionsAreFinal ==
    \A c \in Clients :
        client[c].phase = "failed" /\ client[c].code # PROOF_INVALID =>
            Execute(client[c].request, account[client[c].request.dist]).code # OK

(* Once initialized, a distribution keeps its root, circuit and supply,    *)
(* and its nullifiers only grow at the end: nothing un-claims.             *)
AppendOnly ==
    [][\A d \in Distributions : Live(d) =>
          /\ account'[d].merkle_root = account[d].merkle_root
          /\ account'[d].claim_circuit_program_id = account[d].claim_circuit_program_id
          /\ account'[d].total_supply = account[d].total_supply
          /\ IsPrefix(account[d].spent_nullifiers, account'[d].spent_nullifiers)]_vars

(* A proof that another landing overtook stays dead: the account never     *)
(* returns to a state the proof could be included in.                      *)
OvertakenStaysOut ==
    [][\A tx \in mempool : account[tx.dist] # tx.pre => account'[tx.dist] # tx.pre]_vars

(* When a sent proof is about the live state, some claim lands: proofs     *)
(* that race for one snapshot may all but one be lost, never all.          *)
RaceHasAWinner ==
    \A d \in Distributions, n \in 0 .. MaxSends :
        (Landed(d) = n /\ \E tx \in mempool : tx.dist = d /\ tx.pre = account[d])
        ~> (Landed(d) > n)
=============================================================================
