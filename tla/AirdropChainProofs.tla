------------------------- MODULE AirdropChainProofs -------------------------
(***************************************************************************)
(* Proofs about AirdropChain, for any number of distributions, clients,    *)
(* requests and offers.                                                    *)
(*                                                                         *)
(* The argument: whatever the road, a claim that succeeds turns account    *)
(* data `pre` into `post` by one Landing, a relation between the two that  *)
(* carries all the checks of apply_claim.  A proven transaction therefore  *)
(* holds a Landing from the moment it is proved, and as the sequencer      *)
(* includes it only on its pre-state, the checks made minutes ago on a     *)
(* snapshot are checks of the state it lands on.                           *)
(*                                                                         *)
(* In the second part: what relates a state to an earlier one; in the      *)
(* third, that AirdropChain implements AirdropLedger when allocations fit  *)
(* u128: an initialize that runs is Open, a claim that lands is Pay, every *)
(* other step is a stutter.                                                *)
(***************************************************************************)
EXTENDS AirdropRefinement, DataLemmas

Proven == mempool \cup {client[c].tx : c \in {b \in Clients : client[b].phase = "proved"}}

(* A claim of nullifier n for v tokens takes pre to post on distribution d. *)
Step(d, pre, post, n, v) ==
    /\ ~Spent(pre, n)
    /\ Add128(pre.claimed, v) <= pre.total_supply
    /\ pre.claim_circuit_program_id \in CircuitBuilds =>
          \E p \in Committed[pre.merkle_root] : n = Nullifier(p[1], d) /\ v = p[2]
    /\ post = [pre EXCEPT !.spent_nullifiers = Append(@, n), !.claimed = Add128(@, v)]

Landing(d, pre, post) ==
    \E n \in Nullifiers, v \in Allocations : Step(d, pre, post, n, v)

(* The terms a distribution was initialized on.                            *)
Terms(data) ==
    [ merkle_root              |-> data.merkle_root,
      claim_circuit_program_id |-> data.claim_circuit_program_id,
      total_supply             |-> data.total_supply ]

(* Data of an account on which nothing went wrong so far.                  *)
Sound(d, data) ==
    /\ Terms(data) \in Offers
    /\ \A i, j \in DOMAIN data.spent_nullifiers :
          data.spent_nullifiers[i] = data.spent_nullifiers[j] => i = j
    /\ data.claimed <= data.total_supply
    /\ data.claim_circuit_program_id \in CircuitBuilds =>
          \A i \in DOMAIN data.spent_nullifiers :
              \E p \in Committed[data.merkle_root] :
                  data.spent_nullifiers[i] = Nullifier(p[1], d)

AccountsSound == \A d \in Distributions : Live(d) => Sound(d, account[d])
ProvenLands == \A tx \in Proven : Landing(tx.dist, tx.pre, tx.post)

IInv == TypeOK /\ AccountsSound /\ ProvenLands

-----------------------------------------------------------------------------
LEMMA AddInRange ==
    ASSUME NEW x \in Amounts, NEW y \in Amounts
    PROVE  Add128(x, y) \in Amounts
BY WidthAssumption DEF Add128, Amounts

LEMMA AddWithoutWrap ==
    ASSUME NEW x \in Nat, NEW y \in Nat, x + y < U128
    PROVE  Add128(x, y) = x + y
BY WidthAssumption DEF Add128

LEMMA AmountsAreNumbers == \A v \in Amounts : v \in Nat
BY WidthAssumption DEF Amounts

LEMMA AllocationsAreAmounts == Allocations \subseteq Amounts
BY RequestsAssumption, ForeignAssumption DEF Allocations

LEMMA StepType ==
    ASSUME NEW d, NEW pre \in DistributionState, NEW post,
           NEW n \in Nullifiers, NEW v \in Amounts, Step(d, pre, post, n, v)
    PROVE  post \in DistributionState
<1>1. Append(pre.spent_nullifiers, n) \in Seq(Nullifiers)
  BY DEF DistributionState
<1>2. Add128(pre.claimed, v) \in Amounts
  BY AddInRange DEF DistributionState
<1> QED
  BY <1>1, <1>2 DEF Step, DistributionState

LEMMA LandingType ==
    ASSUME NEW d, NEW pre \in DistributionState, NEW post, Landing(d, pre, post)
    PROVE  post \in DistributionState
BY StepType, AllocationsAreAmounts DEF Landing

LEMMA LandingSound ==
    ASSUME NEW d, NEW pre \in DistributionState, NEW post, Landing(d, pre, post),
           Sound(d, pre)
    PROVE  Sound(d, post)
<1> PICK n \in Nullifiers, v \in Allocations : Step(d, pre, post, n, v)
  BY DEF Landing
<1> DEFINE s == pre.spent_nullifiers
           t == post.spent_nullifiers
<1>0. v \in Amounts
  BY AllocationsAreAmounts
<1>1. /\ s \in Seq(Nullifiers)
      /\ t = Append(s, n)
      /\ post.claimed = Add128(pre.claimed, v)
      /\ post.total_supply = pre.total_supply
      /\ post.merkle_root = pre.merkle_root
      /\ post.claim_circuit_program_id = pre.claim_circuit_program_id
  BY DEF Step, DistributionState
<1>2. /\ DOMAIN t = 1 .. Len(s) + 1
      /\ DOMAIN s = 1 .. Len(s)
      /\ Len(s) \in Nat
      /\ \A i \in DOMAIN s : t[i] = s[i]
      /\ t[Len(s) + 1] = n
  BY <1>1
<1>3. \A i \in DOMAIN s : s[i] # n
  BY DEF Step, Spent
<1>4. ASSUME NEW i \in DOMAIN t, NEW j \in DOMAIN t, t[i] = t[j]
      PROVE  i = j
  <2>1. CASE i \in DOMAIN s /\ j \in DOMAIN s
    BY <2>1, <1>2, <1>4 DEF Sound
  <2>2. CASE i \notin DOMAIN s \/ j \notin DOMAIN s
    BY <2>2, <1>2, <1>3, <1>4
  <2> QED
    BY <2>1, <2>2
<1>5. post.claimed <= post.total_supply
  BY <1>1 DEF Step
<1>6. ASSUME post.claim_circuit_program_id \in CircuitBuilds, NEW i \in DOMAIN t
      PROVE  \E p \in Committed[post.merkle_root] : t[i] = Nullifier(p[1], d)
  <2>1. CASE i \in DOMAIN s
    BY <2>1, <1>1, <1>2, <1>6 DEF Sound
  <2>2. CASE i = Len(s) + 1
    BY <2>2, <1>1, <1>2, <1>6 DEF Step
  <2> QED
    BY <2>1, <2>2, <1>2
<1>7. Terms(post) \in Offers
  BY <1>1 DEF Sound, Terms
<1> QED
  BY <1>4, <1>5, <1>6, <1>7 DEF Sound
-----------------------------------------------------------------------------
(* A successful `claim` is a Landing, if its journal is one the caller may *)
(* deliver: proven by the claim circuit, or any at all from a program that *)
(* is no build of it.                                                      *)
LEMMA ClaimLands ==
    ASSUME NEW d, NEW caller, NEW data, NEW journal, NEW recipient_note,
           data # NoState => data \in DistributionState,
           journal # Garbage => journal.nullifier \in Nullifiers /\ journal.allocation \in Allocations,
           caller \in CircuitBuilds /\ journal.merkle_root = data.merkle_root =>
               \E p \in Committed[journal.merkle_root] :
                   journal.nullifier = Nullifier(p[1], d) /\ journal.allocation = p[2],
           Claim(caller, data, d, journal, recipient_note).code = OK
    PROVE  /\ data \in DistributionState
           /\ Landing(d, data, Claim(caller, data, d, journal, recipient_note).data)
<1> DEFINE r == Claim(caller, data, d, journal, recipient_note)
<1>1. /\ data # NoState
      /\ caller = data.claim_circuit_program_id
      /\ journal # Garbage
      /\ CheckClaim(data, journal, d, recipient_note) = OK
      /\ r.data = RecordClaim(data, journal)
  BY DEF Claim, Result, OK, PROOF_INVALID, UNAUTHORIZED_CALLER, STATE_TOO_LARGE
<1>2. /\ journal.merkle_root = data.merkle_root
      /\ ~Spent(data, journal.nullifier)
      /\ ~(Add128(data.claimed, journal.allocation) > data.total_supply)
  BY <1>1 DEF CheckClaim, Exhausted, BindsNote, OK, DISTRIBUTOR_MISMATCH, ROOT_MISMATCH, RECIPIENT_MISMATCH,
              NULLIFIER_SPENT, DISTRIBUTION_EXHAUSTED
<1>3. data \in DistributionState
  BY <1>1
<1>4. Add128(data.claimed, journal.allocation) \in Amounts /\ data.total_supply \in Amounts
  BY <1>1, <1>3, AddInRange, AllocationsAreAmounts DEF DistributionState
<1>5. Add128(data.claimed, journal.allocation) <= data.total_supply
  BY <1>2, <1>4, WidthAssumption DEF Amounts
<1>6. Step(d, data, r.data, journal.nullifier, journal.allocation)
  BY <1>1, <1>2, <1>5 DEF Step, RecordClaim
<1> QED
  BY <1>1, <1>3, <1>6 DEF Landing

(* An unsuccessful `claim` leaves the data as it was.                      *)
LEMMA ClaimFailureKeepsData ==
    ASSUME NEW d, NEW caller, NEW data, NEW journal, NEW recipient_note,
           Claim(caller, data, d, journal, recipient_note).code # OK
    PROVE  Claim(caller, data, d, journal, recipient_note).data = data
BY DEF Claim, Result, OK

(* A private execution that succeeds is a Landing.                         *)
LEMMA ExecuteLands ==
    ASSUME NEW request \in Requests, NEW data,
           data # NoState => data \in DistributionState,
           Execute(request, data).code = OK
    PROVE  /\ data \in DistributionState
           /\ Landing(request.dist, data, Execute(request, data).data)
<1> DEFINE journal == JournalOf(request, data)
<1>1. /\ SubmitClaim(request, data) = OK
      /\ Execute(request, data) =
            Claim(request.circuit, data, request.dist, journal, request.recipient_note)
  BY DEF Execute, Result, OK, UNKNOWN_PROGRAM
<1>2. data # NoState /\ ProvesInclusion(request, data.merkle_root)
  BY <1>1 DEF SubmitClaim, OK, PROOF_INVALID, ROOT_MISMATCH
<1>3. data \in DistributionState /\ data.merkle_root \in Roots
  BY <1>2 DEF DistributionState
<1>4. <<request.account_id, request.allocation>> \in Committed[data.merkle_root]
  BY <1>2, <1>3, MerkleAssumption
<1>5. /\ journal.merkle_root = data.merkle_root
      /\ journal.nullifier = Nullifier(request.account_id, request.dist)
      /\ journal.allocation = request.allocation
  BY DEF JournalOf
<1>6. journal.nullifier \in Nullifiers /\ journal.allocation \in Allocations
  BY <1>5 DEF Nullifiers, Allocations
<1>7. \E p \in Committed[journal.merkle_root] :
          journal.nullifier = Nullifier(p[1], request.dist) /\ journal.allocation = p[2]
  BY <1>4, <1>5
<1> HIDE DEF journal
<1> QED
  BY <1>1, <1>3, <1>6, <1>7, ClaimLands

-----------------------------------------------------------------------------
LEMMA InitSound == Init => IInv
<1> SUFFICES ASSUME Init PROVE IInv
  OBVIOUS
<1>1. TypeOK
  BY DEF Init, TypeOK, ClientState, Idle
<1>2. AccountsSound
  BY DEF Init, AccountsSound, Live
<1>3. ProvenLands
  BY DEF Init, ProvenLands, Proven, Idle
<1> QED
  BY <1>1, <1>2, <1>3 DEF IInv
(* Each action keeps the account types, what the accounts promise and what *)
(* the proven transactions promise.                                        *)
LEMMA InitializeKeeps ==
    ASSUME IInv, NEW d \in Distributions, NEW o \in Offers, Initialize(d, o)
    PROVE  IInv'
<1> DEFINE s0 == InitialState(o.merkle_root, o.claim_circuit_program_id, o.total_supply)
<1>1. /\ s0 \in DistributionState
      /\ s0.spent_nullifiers = <<>>
      /\ s0.claimed = 0
      /\ s0.total_supply \in Nat
      /\ Terms(s0) = o
  BY OffersAssumption, WidthAssumption DEF InitialState, DistributionState, Amounts, Terms
<1>2. Sound(d, s0)
  BY <1>1 DEF Sound
<1> HIDE DEF s0
<1>3. /\ account' = [account EXCEPT ![d] = s0]
      /\ UNCHANGED <<mempool, client>>
  BY DEF Initialize, s0
<1>4. TypeOK'
  BY <1>1, <1>3 DEF IInv, TypeOK
<1>5. AccountsSound'
  BY <1>2, <1>3 DEF IInv, TypeOK, AccountsSound, Live
<1>6. ProvenLands'
  BY <1>3 DEF IInv, ProvenLands, Proven
<1> QED
  BY <1>4, <1>5, <1>6 DEF IInv

(* Writing the outcome of a Landing to a sound account.                    *)
LEMMA WritingKeeps ==
    ASSUME IInv, NEW d \in Distributions, NEW post,
           account[d] \in DistributionState, Landing(d, account[d], post),
           account' = [account EXCEPT ![d] = post], UNCHANGED <<mempool, client>>
    PROVE  IInv'
<1>1. post \in DistributionState
  BY LandingType
<1>2. Sound(d, post)
  BY LandingSound, NoStateAssumption DEF IInv, AccountsSound, Live
<1>3. TypeOK'
  BY <1>1 DEF IInv, TypeOK
<1>4. AccountsSound'
  BY <1>2 DEF IInv, TypeOK, AccountsSound, Live
<1>5. ProvenLands'
  BY DEF IInv, ProvenLands, Proven
<1> QED
  BY <1>3, <1>4, <1>5 DEF IInv

LEMMA ForeignClaimKeeps ==
    ASSUME IInv, NEW d \in Distributions, NEW caller \in ForeignCallers,
           NEW f \in ForeignClaims, ForeignClaim(d, caller, f)
    PROVE  IInv'
<1> DEFINE r == Claim(caller, account[d], d, f.journal, f.note)
<1>1. /\ account' = [account EXCEPT ![d] = r.data]
      /\ UNCHANGED <<mempool, client>>
  BY DEF ForeignClaim, IInv, TypeOK
<1>2. account[d] # NoState => account[d] \in DistributionState
  BY DEF IInv, TypeOK
<1>3. f.journal # Garbage => f.journal.nullifier \in Nullifiers /\ f.journal.allocation \in Allocations
  BY DEF Nullifiers, Allocations
<1>4. caller \notin CircuitBuilds
  BY ForeignAssumption
<1>5. CASE r.code = OK
  <2>1. account[d] \in DistributionState /\ Landing(d, account[d], r.data)
    BY <1>2, <1>3, <1>4, <1>5, ClaimLands
  <2> HIDE DEF r
  <2> QED
    BY <1>1, <2>1, WritingKeeps
<1>6. CASE r.code # OK
  <2>1. r.data = account[d]
    BY <1>6, ClaimFailureKeepsData
  <2> HIDE DEF r
  <2>2. account' = account
    BY <1>1, <2>1 DEF IInv, TypeOK
  <2> QED
    BY <1>1, <2>2 DEF IInv, TypeOK, AccountsSound, Live, ProvenLands, Proven
<1> QED
  BY <1>5, <1>6

LEMMA IncludeClaimKeeps ==
    ASSUME IInv, NEW tx \in mempool, IncludeClaim(tx)
    PROVE  IInv'
<1>1. tx.dist \in Distributions /\ tx.pre \in DistributionState
  BY DEF IInv, TypeOK, PPETx
<1>2. Landing(tx.dist, tx.pre, tx.post)
  BY DEF IInv, ProvenLands, Proven
<1>3. /\ account[tx.dist] = tx.pre
      /\ account' = [account EXCEPT ![tx.dist] = tx.post]
      /\ UNCHANGED <<mempool, client>>
  BY DEF IncludeClaim
<1> QED
  BY <1>1, <1>2, <1>3, WritingKeeps

(* A client step leaves the accounts alone.                                *)
LEMMA FetchKeeps ==
    ASSUME IInv, NEW c \in Clients, NEW q \in Requests, Fetch(c, q)
    PROVE  IInv'
<1>1. account[q.dist] \in DistributionState \cup {NoState}
  BY RequestsAssumption DEF IInv, TypeOK
<1>2. TypeOK'
  BY <1>1 DEF IInv, TypeOK, Fetch, ClientState, Fetched
<1>3. AccountsSound'
  BY DEF IInv, AccountsSound, Live, Fetch
<1>4. ProvenLands'
  BY DEF IInv, TypeOK, ProvenLands, Proven, Fetch, Fetched
<1> QED
  BY <1>2, <1>3, <1>4 DEF IInv

LEMMA ProveKeeps ==
    ASSUME IInv, NEW c \in Clients, Prove(c)
    PROVE  IInv'
<1> DEFINE q == client[c].request
           data == client[c].data
           r == Execute(q, data)
           tx == [dist |-> q.dist, pre |-> data, post |-> r.data]
<1>1. q \in Requests /\ data \in DistributionState \cup {NoState}
  BY DEF IInv, TypeOK, ClientState, Prove, Idle
<1>2. AccountsSound'
  BY DEF IInv, AccountsSound, Live, Prove
<1>3. CASE r.code = OK
  <2>1. data \in DistributionState /\ Landing(q.dist, data, r.data)
    BY <1>1, <1>3, ExecuteLands
  <2>2. tx \in PPETx /\ Landing(tx.dist, tx.pre, tx.post)
    BY <1>1, <2>1, LandingType, RequestsAssumption DEF PPETx
  <2>3. client' = [client EXCEPT ![c] = Proved(tx)] /\ UNCHANGED <<account, mempool>>
    BY <1>3 DEF Prove
  <2> HIDE DEF tx
  <2>4. TypeOK'
    BY <2>2, <2>3 DEF IInv, TypeOK, ClientState, Proved
  <2>5. ProvenLands'
    BY <2>2, <2>3 DEF IInv, TypeOK, ProvenLands, Proven, Proved
  <2> QED
    BY <1>2, <2>4, <2>5 DEF IInv
<1>4. CASE r.code # OK
  <2>1. client' = [client EXCEPT ![c] = Failed(q, r.code)] /\ UNCHANGED <<account, mempool>>
    BY <1>4 DEF Prove
  <2>2. r.code \in Codes
    BY DEF Execute, SubmitClaim, Claim, CheckClaim, Exhausted, BindsNote, Result, Codes, OK, UNKNOWN_PROGRAM,
           STATE_TOO_LARGE, PROOF_INVALID, DISTRIBUTOR_MISMATCH, ROOT_MISMATCH,
           NULLIFIER_SPENT, DISTRIBUTION_EXHAUSTED, RECIPIENT_MISMATCH, UNAUTHORIZED_CALLER
  <2> HIDE DEF r
  <2>3. TypeOK'
    BY <1>1, <2>1, <2>2 DEF IInv, TypeOK, ClientState, Failed
  <2>4. ProvenLands'
    BY <2>1 DEF IInv, TypeOK, ProvenLands, Proven, Failed
  <2> QED
    BY <1>2, <2>3, <2>4 DEF IInv
<1> QED
  BY <1>3, <1>4

LEMMA SendKeeps ==
    ASSUME IInv, NEW c \in Clients, Send(c)
    PROVE  IInv'
<1>1. client[c].tx \in PPETx
  BY DEF IInv, TypeOK, ClientState, Send, Idle
<1>2. TypeOK'
  BY <1>1 DEF IInv, TypeOK, Send, ClientState
<1>3. AccountsSound'
  BY DEF IInv, AccountsSound, Live, Send
<1>4. Proven' \subseteq Proven
  BY DEF IInv, TypeOK, Proven, Send, Idle
<1>5. ProvenLands'
  BY <1>4 DEF IInv, ProvenLands, Landing, Step
<1> QED
  BY <1>2, <1>3, <1>5 DEF IInv

LEMMA QuitKeeps ==
    ASSUME IInv, NEW c \in Clients, Quit(c)
    PROVE  IInv'
<1>1. TypeOK'
  BY DEF IInv, TypeOK, Quit, ClientState
<1>2. AccountsSound'
  BY DEF IInv, AccountsSound, Live, Quit
<1>3. ProvenLands'
  BY DEF IInv, TypeOK, ProvenLands, Proven, Quit, Idle
<1> QED
  BY <1>1, <1>2, <1>3 DEF IInv

LEMMA NextSound == IInv /\ [Next]_vars => IInv'
<1> SUFFICES ASSUME IInv, [Next]_vars PROVE IInv'
  OBVIOUS
<1>1. ASSUME NEW d \in Distributions, NEW o \in Offers, Initialize(d, o) PROVE IInv'
  BY <1>1, InitializeKeeps
<1>2. ASSUME NEW d \in Distributions, NEW p \in ForeignCallers, NEW f \in ForeignClaims,
             ForeignClaim(d, p, f)
      PROVE  IInv'
  BY <1>2, ForeignClaimKeeps
<1>3. ASSUME NEW c \in Clients, NEW q \in Requests, Fetch(c, q) PROVE IInv'
  BY <1>3, FetchKeeps
<1>4. ASSUME NEW c \in Clients, Prove(c) PROVE IInv'
  BY <1>4, ProveKeeps
<1>5. ASSUME NEW c \in Clients, Send(c) PROVE IInv'
  BY <1>5, SendKeeps
<1>6. ASSUME NEW c \in Clients, Quit(c) PROVE IInv'
  BY <1>6, QuitKeeps
<1>7. ASSUME NEW tx \in mempool, IncludeClaim(tx) PROVE IInv'
  BY <1>7, IncludeClaimKeeps
<1>8. CASE UNCHANGED vars
  BY <1>8 DEF vars, IInv, TypeOK, AccountsSound, Live, ProvenLands, Proven
<1> QED
  BY <1>1, <1>2, <1>3, <1>4, <1>5, <1>6, <1>7, <1>8 DEF Next

(* The inductive invariant holds in every reachable state.                 *)
THEOREM Soundness == Spec => []IInv
BY InitSound, NextSound, PTL DEF Spec

(* Accounts, proven transactions and clients hold what they should.        *)
THEOREM TypeCorrect == Spec => []TypeOK
<1>1. IInv => TypeOK
  BY DEF IInv
<1> QED
  BY <1>1, Soundness, PTL

(* However claims race, stall, are retried or sent again, no distribution  *)
(* accepts one nullifier twice.                                            *)
THEOREM DoubleClaimImpossible == Spec => []NoDoubleClaim
<1>1. IInv => NoDoubleClaim
  BY DEF IInv, AccountsSound, Sound, NoDoubleClaim
<1> QED
  BY <1>1, Soundness, PTL

(* `claimed` never exceeds the supply, even where its addition wraps.      *)
THEOREM SupplyRespected == Spec => []WithinSupply
<1>1. IInv => WithinSupply
  BY DEF IInv, AccountsSound, Sound, WithinSupply
<1> QED
  BY <1>1, Soundness, PTL

(* A distribution that registered a build of the claim circuit accepts     *)
(* nullifiers of accounts in its committed tree only.                      *)
THEOREM OnlyEligiblePaid == Spec => []OnlyEligible
<1>1. IInv => OnlyEligible
  BY DEF IInv, AccountsSound, Sound, OnlyEligible, Genuine, Entitled
<1> QED
  BY <1>1, Soundness, PTL

(* Whatever accounts claim in several distributions, the nullifiers these  *)
(* show have nothing in common.                                            *)
THEOREM NothingLinksClaims == Spec => []Unlinkable
<1>1. ASSUME OnlyEligible PROVE Unlinkable
  <2> SUFFICES ASSUME NEW d \in Distributions, NEW e \in Distributions, d # e,
                      Genuine(d), Genuine(e),
                      NEW i \in DOMAIN account[d].spent_nullifiers,
                      NEW j \in DOMAIN account[e].spent_nullifiers
               PROVE  account[d].spent_nullifiers[i] # account[e].spent_nullifiers[j]
    BY DEF Unlinkable
  <2>1. PICK p \in Entitled(d) : account[d].spent_nullifiers[i] = Nullifier(p[1], d)
    BY <1>1 DEF OnlyEligible
  <2>2. PICK r \in Entitled(e) : account[e].spent_nullifiers[j] = Nullifier(r[1], e)
    BY <1>1 DEF OnlyEligible
  <2> QED
    BY <2>1, <2>2 DEF Nullifier
<1> QED
  BY <1>1, OnlyEligiblePaid, PTL

-----------------------------------------------------------------------------
(* What one step can do to the data of an account.                         *)
LEMMA AccountStep ==
    ASSUME IInv, [Next]_vars, NEW d \in Distributions
    PROVE  \/ account'[d] = account[d]
           \/ /\ account[d] = NoState
              /\ \E o \in Offers : account'[d] =
                    InitialState(o.merkle_root, o.claim_circuit_program_id, o.total_supply)
           \/ /\ account[d] \in DistributionState
              /\ Landing(d, account[d], account'[d])
<1>1. ASSUME NEW e \in Distributions, NEW o \in Offers, Initialize(e, o)
      PROVE  \/ account'[d] = account[d]
             \/ account[d] = NoState /\ account'[d] =
                    InitialState(o.merkle_root, o.claim_circuit_program_id, o.total_supply)
  BY <1>1 DEF Initialize, IInv, TypeOK
<1>2. ASSUME NEW e \in Distributions, NEW p \in ForeignCallers, NEW f \in ForeignClaims,
             ForeignClaim(e, p, f)
      PROVE  \/ account'[d] = account[d]
             \/ account[d] \in DistributionState /\ Landing(d, account[d], account'[d])
  <2> DEFINE r == Claim(p, account[d], d, f.journal, f.note)
  <2>1. CASE e # d
    BY <1>2, <2>1 DEF ForeignClaim, IInv, TypeOK
  <2>2. CASE e = d /\ r.code = OK
    <3>1. account'[d] = r.data
      BY <1>2, <2>2 DEF ForeignClaim, IInv, TypeOK
    <3>2. account[d] # NoState => account[d] \in DistributionState
      BY DEF IInv, TypeOK
    <3>3. f.journal # Garbage =>
             f.journal.nullifier \in Nullifiers /\ f.journal.allocation \in Allocations
      BY DEF Nullifiers, Allocations
    <3>4. p \notin CircuitBuilds
      BY ForeignAssumption
    <3>5. account[d] \in DistributionState /\ Landing(d, account[d], r.data)
      BY <2>2, <3>2, <3>3, <3>4, ClaimLands
    <3> HIDE DEF r
    <3> QED
      BY <3>1, <3>5
  <2>3. CASE e = d /\ r.code # OK
    <3>1. account'[d] = r.data
      BY <1>2, <2>3 DEF ForeignClaim, IInv, TypeOK
    <3>2. r.data = account[d]
      BY <2>3, ClaimFailureKeepsData
    <3> QED
      BY <3>1, <3>2
  <2> QED
    BY <2>1, <2>2, <2>3
<1>3. ASSUME NEW c \in Clients, NEW q \in Requests, Fetch(c, q) PROVE account'[d] = account[d]
  BY <1>3 DEF Fetch
<1>4. ASSUME NEW c \in Clients, Prove(c) \/ Send(c) \/ Quit(c) PROVE account'[d] = account[d]
  BY <1>4 DEF Prove, Send, Quit
<1>5. ASSUME NEW tx \in mempool, IncludeClaim(tx)
      PROVE  \/ account'[d] = account[d]
             \/ account[d] \in DistributionState /\ Landing(d, account[d], account'[d])
  <2>1. Landing(tx.dist, tx.pre, tx.post) /\ tx.pre \in DistributionState
    BY DEF IInv, TypeOK, PPETx, ProvenLands, Proven
  <2> QED
    BY <1>5, <2>1 DEF IncludeClaim, IInv, TypeOK
<1>6. CASE UNCHANGED vars
  BY <1>6 DEF vars
<1> QED
  BY <1>1, <1>2, <1>3, <1>4, <1>5, <1>6 DEF Next

-----------------------------------------------------------------------------
(* What was paid, from the nullifiers alone: the argument for the sum and  *)
(* for the room that is left.                                              *)
PaidIn(d, data) ==
    {p \in Committed[data.merkle_root] : Spent(data, Nullifier(p[1], d))}

(* Where every account has one leaf, each landing pays one more pair of    *)
(* the list: the pairs paid are as many as the nullifiers, and `claimed`   *)
(* is what they sum up to in u128 arithmetic.                              *)
Accounted(d, data) ==
    data.claim_circuit_program_id \in CircuitBuilds
      /\ (\A p, r \in Committed[data.merkle_root] : p[1] = r[1] => p = r) =>
        /\ data.claimed = TotalOf(PaidIn(d, data)) % U128
        /\ Cardinality(PaidIn(d, data)) = Len(data.spent_nullifiers)

AccountsAccounted == \A d \in Distributions : Live(d) => Accounted(d, account[d])

AInv == IInv /\ AccountsAccounted

LEMMA TotalIsSum == ASSUME NEW S PROVE TotalOf(S) = SumOfSeconds(S)
BY DEF TotalOf, SumOfSeconds

LEMMA ListsAmount ==
    ASSUME NEW root \in Roots, NEW S \in SUBSET Committed[root]
    PROVE  Amounting(S) /\ TotalOf(S) \in Nat /\ TotalOf(S) <= TotalOf(Committed[root])
<1>1. Amounting(Committed[root])
  BY CommittedAssumption, WidthAssumption DEF Amounting, Amounts
<1>2. Amounting(S)
  BY <1>1, FS_Subset DEF Amounting
<1> QED
  BY <1>1, <1>2, TotalIsSum, SumIsNumber, SumOfPart

LEMMA NothingPaidYet ==
    ASSUME NEW d, NEW o \in Offers
    PROVE  Accounted(d, InitialState(o.merkle_root, o.claim_circuit_program_id, o.total_supply))
<1> DEFINE s0 == InitialState(o.merkle_root, o.claim_circuit_program_id, o.total_supply)
<1>1. s0.spent_nullifiers = <<>> /\ s0.claimed = 0
  BY DEF InitialState
<1>2. PaidIn(d, s0) = {}
  BY <1>1 DEF PaidIn, Spent
<1>3. TotalOf({}) = 0
  BY TotalIsSum, SumOfNone
<1>4. 0 % U128 = 0
  BY WidthAssumption
<1>5. Cardinality({}) = 0 /\ Len(<<>>) = 0
  BY FS_EmptySet
<1> QED
  BY <1>1, <1>2, <1>3, <1>4, <1>5 DEF Accounted

LEMMA LandingAccounted ==
    ASSUME NEW d, NEW pre \in DistributionState, NEW post, Landing(d, pre, post),
           Accounted(d, pre)
    PROVE  Accounted(d, post)
<1> PICK n \in Nullifiers, v \in Allocations : Step(d, pre, post, n, v)
  BY DEF Landing
<1>1. /\ pre.spent_nullifiers \in Seq(Nullifiers)
      /\ pre.merkle_root \in Roots
      /\ post.spent_nullifiers = Append(pre.spent_nullifiers, n)
      /\ post.claimed = Add128(pre.claimed, v)
      /\ post.merkle_root = pre.merkle_root
      /\ post.claim_circuit_program_id = pre.claim_circuit_program_id
      /\ ~Spent(pre, n)
  BY DEF Step, DistributionState
<1> SUFFICES ASSUME pre.claim_circuit_program_id \in CircuitBuilds,
                    \A p, r \in Committed[pre.merkle_root] : p[1] = r[1] => p = r
             PROVE  /\ post.claimed = TotalOf(PaidIn(d, post)) % U128
                    /\ Cardinality(PaidIn(d, post)) = Len(post.spent_nullifiers)
  BY <1>1 DEF Accounted
<1>2. PICK p \in Committed[pre.merkle_root] : n = Nullifier(p[1], d) /\ v = p[2]
  BY DEF Step
<1> DEFINE before == PaidIn(d, pre)
<1>3. before \in SUBSET Committed[pre.merkle_root] /\ p \notin before
  BY <1>1, <1>2 DEF PaidIn
<1>4. \A m : Spent(post, m) <=> Spent(pre, m) \/ m = n
  BY <1>1 DEF Spent
<1>5. PaidIn(d, post) = before \cup {p}
  <2>1. \A r \in Committed[pre.merkle_root] : Nullifier(r[1], d) = n => r = p
    BY <1>2 DEF Nullifier
  <2> QED
    BY <1>1, <1>2, <1>4, <2>1 DEF PaidIn
<1>6. Amounting(before) /\ TotalOf(before) \in Nat /\ p[2] \in Nat
  BY <1>1, <1>3, ListsAmount, CommittedAssumption, WidthAssumption DEF Amounts
<1>7. TotalOf(before \cup {p}) = TotalOf(before) + p[2]
  BY <1>3, <1>6, SumWith, TotalIsSum
<1>8. /\ pre.claimed = TotalOf(before) % U128
      /\ Cardinality(before) = Len(pre.spent_nullifiers)
  BY DEF Accounted
<1>9. Cardinality(before \cup {p}) = Cardinality(before) + 1
  BY <1>3, <1>6, FS_AddElement DEF Amounting
<1>10. Len(post.spent_nullifiers) = Len(pre.spent_nullifiers) + 1
  BY <1>1
<1> HIDE DEF before
<1>11. post.claimed = ((TotalOf(before) % U128) + p[2]) % U128
  BY <1>1, <1>2, <1>8 DEF Add128
<1>12. post.claimed = (TotalOf(before) + p[2]) % U128
  BY <1>6, <1>11, ModuloStep, WidthAssumption
<1> QED
  BY <1>5, <1>7, <1>8, <1>9, <1>10, <1>12

LEMMA NextAccounted == AInv /\ [Next]_vars => AInv'
<1> SUFFICES ASSUME AInv, [Next]_vars PROVE AInv'
  OBVIOUS
<1>1. IInv'
  BY NextSound DEF AInv
<1>2. ASSUME NEW d \in Distributions, Live(d)' PROVE Accounted(d, account'[d])
  <2>1. IInv /\ [Next]_vars
    BY DEF AInv
  <2>2. CASE account'[d] = account[d]
    BY <1>2, <2>2 DEF AInv, AccountsAccounted, Live
  <2>3. CASE \E o \in Offers : account'[d] =
                InitialState(o.merkle_root, o.claim_circuit_program_id, o.total_supply)
    BY <2>3, NothingPaidYet
  <2>4. CASE account[d] \in DistributionState /\ Landing(d, account[d], account'[d])
    <3>1. Accounted(d, account[d])
      BY <2>4, NoStateAssumption DEF AInv, AccountsAccounted, Live
    <3> QED
      BY <2>4, <3>1, LandingAccounted
  <2>5. \/ account'[d] = account[d]
        \/ \E o \in Offers : account'[d] =
                InitialState(o.merkle_root, o.claim_circuit_program_id, o.total_supply)
        \/ account[d] \in DistributionState /\ Landing(d, account[d], account'[d])
    BY <2>1, AccountStep
  <2> QED
    BY <2>2, <2>3, <2>4, <2>5
<1>3. AccountsAccounted'
  BY <1>2 DEF AccountsAccounted
<1> QED
  BY <1>1, <1>3 DEF AInv

LEMMA AInvHolds == Spec => []AInv
<1>1. Init => AInv
  BY InitSound DEF AInv, AccountsAccounted, Init, Live
<1> QED
  BY <1>1, NextAccounted, PTL DEF Spec

(* Where every account has one leaf, `claimed` is what the paid pairs sum  *)
(* up to, as u128 counts, and there is one nullifier for each of them.     *)
THEOREM PaymentsAreAccounted == Spec => []AccountsAccounted
<1>1. AInv => AccountsAccounted
  BY DEF AInv
<1> QED
  BY <1>1, AInvHolds, PTL

(* No list promises more than a u128 holds.                                *)
ListsFit == \A root \in Roots : TotalOf(Committed[root]) < U128

(* Then `claimed` is the plain sum of what was paid.                       *)
THEOREM ClaimedIsSum == ASSUME ListsFit PROVE Spec => []ClaimedIsSumOfPaid
<1>1. ASSUME AInv, NEW d \in Distributions, Genuine(d), OneLeafPerAccount(d)
      PROVE  account[d].claimed = TotalOf(Paid(d))
  <2>1. account[d] \in DistributionState /\ Accounted(d, account[d])
    BY <1>1 DEF AInv, AccountsAccounted, IInv, TypeOK, Genuine, Live
  <2>2. account[d].claimed = TotalOf(PaidIn(d, account[d])) % U128
    BY <1>1, <2>1 DEF Accounted, Genuine, OneLeafPerAccount, Entitled
  <2>3. Paid(d) = PaidIn(d, account[d])
    BY DEF Paid, PaidIn, Entitled
  <2>4. account[d].merkle_root \in Roots /\ Paid(d) \in SUBSET Committed[account[d].merkle_root]
    BY <2>1 DEF DistributionState, Paid, Entitled
  <2>5. TotalOf(Paid(d)) \in Nat /\ TotalOf(Paid(d)) <= TotalOf(Committed[account[d].merkle_root])
    BY <2>4, ListsAmount
  <2>6. TotalOf(Committed[account[d].merkle_root]) \in Nat
    BY <2>4, ListsAmount
  <2>7. TotalOf(Paid(d)) < U128
    BY <2>4, <2>5, <2>6, WidthAssumption DEF ListsFit
  <2>8. TotalOf(Paid(d)) % U128 = TotalOf(Paid(d))
    BY <2>5, <2>7, WidthAssumption
  <2> QED
    BY <2>2, <2>3, <2>8
<1>2. AInv => ClaimedIsSumOfPaid
  BY <1>1 DEF ClaimedIsSumOfPaid
<1>3. Spec => []AInv
  BY AInvHolds
<1> QED
  BY <1>2, <1>3, PTL

LEMMA CoveredClaimSucceeds ==
    ASSUME AInv, NEW q \in Requests, MayClaim(q)
    PROVE  Execute(q, account[q.dist]).code = OK
<1> DEFINE d == q.dist
           data == account[d]
           root == data.merkle_root
           pair == <<q.account_id, q.allocation>>
           journal == JournalOf(q, data)
           after == RecordClaim(data, journal)
<1>1. /\ data \in DistributionState /\ data # NoState
      /\ data.claim_circuit_program_id = q.circuit
      /\ d \in Distributions
  BY RequestsAssumption DEF AInv, IInv, TypeOK, MayClaim, Genuine, Live
<1>2. /\ root \in Roots
      /\ data.total_supply \in Nat /\ data.total_supply < U128
      /\ data.spent_nullifiers \in Seq(Nullifiers)
  BY <1>1, WidthAssumption DEF DistributionState, Amounts
<1>3. /\ data.claimed = TotalOf(PaidIn(d, data)) % U128
      /\ Cardinality(PaidIn(d, data)) = Len(data.spent_nullifiers)
  BY <1>1 DEF AInv, AccountsAccounted, Accounted, MayClaim, Genuine, Covered,
              OneLeafPerAccount, Entitled
<1>4. pair \in Committed[root] /\ pair \notin PaidIn(d, data) /\ pair[2] = q.allocation
  BY DEF MayClaim, Entitled, PaidIn
<1> DEFINE paid == PaidIn(d, data)
<1>5. paid \in SUBSET Committed[root] /\ paid \cup {pair} \in SUBSET Committed[root]
  BY <1>4 DEF PaidIn
<1>6. q.allocation \in Nat
  BY RequestsAssumption, WidthAssumption DEF Amounts
<1>7. TotalOf(paid) + q.allocation <= data.total_supply /\ TotalOf(paid) \in Nat
  <2>1. Amounting(paid) /\ TotalOf(paid) \in Nat
    BY <1>2, <1>5, ListsAmount
  <2>2. TotalOf(paid \cup {pair}) = TotalOf(paid) + q.allocation
    BY <1>4, <1>6, <2>1, SumWith, TotalIsSum
  <2>3. TotalOf(paid \cup {pair}) <= TotalOf(Committed[root]) /\ TotalOf(Committed[root]) \in Nat
    BY <1>2, <1>5, ListsAmount
  <2>4. TotalOf(Committed[root]) <= data.total_supply
    BY DEF MayClaim, Covered, Entitled
  <2> HIDE DEF paid, pair, root, data
  <2> QED
    BY <1>2, <1>6, <2>1, <2>2, <2>3, <2>4
<1>8. Add128(data.claimed, q.allocation) <= data.total_supply
  <2>1. data.claimed = TotalOf(paid)
    <3> HIDE DEF paid, data
    <3>1. TotalOf(paid) < U128
      BY <1>2, <1>6, <1>7, WidthAssumption
    <3>2. TotalOf(paid) % U128 = TotalOf(paid)
      BY <1>7, <3>1, WidthAssumption
    <3> QED
      BY <1>3, <3>2 DEF paid
  <2>2. Add128(data.claimed, q.allocation) = data.claimed + q.allocation
    BY <1>2, <1>6, <1>7, <2>1, AddWithoutWrap, WidthAssumption
  <2> QED
    BY <1>7, <2>1, <2>2
<1>9. EncodedLength(after) <= DataMaxLength
  <2>1. Len(after.spent_nullifiers) = Len(data.spent_nullifiers) + 1
    BY <1>1, <1>2 DEF RecordClaim, DistributionState
  <2>2. IsFiniteSet(Committed[root])
    BY <1>2, CommittedAssumption
  <2>3. Cardinality(paid \cup {pair}) = Cardinality(paid) + 1
    BY <1>4, <1>5, <2>2, FS_Subset, FS_AddElement
  <2>4. Cardinality(paid \cup {pair}) <= Cardinality(Committed[root])
    BY <1>5, <2>2, FS_Subset
  <2>5. 100 + 32 * Cardinality(Committed[root]) <= DataMaxLength
    BY DEF MayClaim, Covered, Entitled
  <2>6. Cardinality(Committed[root]) \in Nat /\ Len(data.spent_nullifiers) \in Nat
    BY <1>2, <2>2, FS_CardinalityType
  <2> HIDE DEF paid, pair, root, data, after
  <2> QED
    BY <1>3, <2>1, <2>3, <2>4, <2>5, <2>6, WidthAssumption DEF EncodedLength, paid
<1>10. journal # Garbage
  <2>1. journal = JournalOf(q, [merkle_root |-> root])
    BY DEF JournalOf
  <2> QED
    BY <1>2, <2>1, JournalAssumption
<1>11. SubmitClaim(q, data) = OK
  BY <1>1 DEF SubmitClaim, MayClaim
<1>12. CheckClaim(data, journal, d, q.recipient_note) = OK
  <2>1. ~Exhausted(data, q.allocation)
    <3>1. data.claimed \in Amounts /\ q.allocation \in Amounts
      BY <1>1, RequestsAssumption DEF DistributionState
    <3>2. Add128(data.claimed, q.allocation) \in Nat
      BY <3>1, AddInRange, AmountsAreNumbers, Zenon
    <3> QED
      BY <1>2, <1>8, <3>2 DEF Exhausted
  <2>2. ~Spent(data, Nullifier(q.account_id, d))
    BY DEF MayClaim
  <2> QED
    BY <2>1, <2>2 DEF CheckClaim, JournalOf, BindsNote
<1>13. ~(EncodedLength(after) > DataMaxLength)
  <2>1. EncodedLength(after) \in Nat
    BY <1>1, <1>2 DEF EncodedLength, RecordClaim, DistributionState
  <2> QED
    BY <1>9, <2>1, WidthAssumption
<1>14. Execute(q, data) = Claim(q.circuit, data, d, journal, q.recipient_note)
  BY <1>11 DEF Execute, MayClaim
<1>15. Claim(q.circuit, data, d, journal, q.recipient_note) = Result(OK, after)
  BY <1>1, <1>10, <1>12, <1>13 DEF Claim
<1> QED
  BY <1>14, <1>15 DEF Result

(* Nobody is locked out: on a distribution whose supply and account have   *)
(* room for its whole list, proving for an account that has not claimed    *)
(* succeeds whatever the others did.                                       *)
THEOREM NobodyIsLockedOut == Spec => []NoClaimantLockedOut
<1>1. AInv => NoClaimantLockedOut
  BY CoveredClaimSucceeds DEF NoClaimantLockedOut
<1> QED
  BY <1>1, AInvHolds, PTL
-----------------------------------------------------------------------------
(* What relates a state to an earlier one: what a client read, or a proof  *)
(* is about, was the live data once, and the live data only grows from     *)
(* there.  So what was overtaken stays overtaken, and what was rejected    *)
(* stays rejected.                                                         *)

(* `old` was the live data of an account that now holds `new`.             *)
Past(old, new) ==
    /\ old \in DistributionState
    /\ new \in DistributionState
    /\ Terms(old) = Terms(new)
    /\ Len(old.spent_nullifiers) <= Len(new.spent_nullifiers)
    /\ \A i \in DOMAIN old.spent_nullifiers :
          old.spent_nullifiers[i] = new.spent_nullifiers[i]
    /\ AllocationsFit => old.claimed <= new.claimed
    /\ old = new \/ Len(old.spent_nullifiers) < Len(new.spent_nullifiers)

FetchedIsPast ==
    \A c \in Clients :
        client[c].phase = "fetched" /\ client[c].data # NoState =>
            Past(client[c].data, account[client[c].request.dist])

ProvenIsPast == \A tx \in Proven : Past(tx.pre, account[tx.dist])

HInv == IInv /\ FetchedIsPast /\ ProvenIsPast

-----------------------------------------------------------------------------
LEMMA PastReflexive ==
    ASSUME NEW data \in DistributionState
    PROVE  Past(data, data)
<1>1. data.claimed \in Nat /\ Len(data.spent_nullifiers) \in Nat
  BY WidthAssumption DEF DistributionState, Amounts
<1> QED
  BY <1>1 DEF Past

(* A landing makes the live data longer and, without wrap, claimed larger. *)
LEMMA LandingGrows ==
    ASSUME NEW d, NEW pre \in DistributionState, NEW post, Landing(d, pre, post), Sound(d, pre)
    PROVE  /\ post \in DistributionState
           /\ Terms(post) = Terms(pre)
           /\ Len(post.spent_nullifiers) = Len(pre.spent_nullifiers) + 1
           /\ \A i \in DOMAIN pre.spent_nullifiers :
                 post.spent_nullifiers[i] = pre.spent_nullifiers[i]
           /\ AllocationsFit => pre.claimed <= post.claimed
<1> PICK n \in Nullifiers, v \in Allocations : Step(d, pre, post, n, v)
  BY DEF Landing
<1>1. v \in Amounts
  BY AllocationsAreAmounts
<1>2. /\ pre.spent_nullifiers \in Seq(Nullifiers)
      /\ post.spent_nullifiers = Append(pre.spent_nullifiers, n)
      /\ post.claimed = Add128(pre.claimed, v)
      /\ Terms(post) = Terms(pre)
  BY DEF Step, DistributionState, Terms
<1>3. post \in DistributionState
  BY LandingType
<1>4. ASSUME AllocationsFit
      PROVE  pre.claimed <= post.claimed
  <2>1. Terms(pre) \in Offers /\ pre.claimed <= pre.total_supply
    BY DEF Sound
  <2>2. pre.total_supply + v < U128
    BY <1>4, <2>1 DEF AllocationsFit, Terms
  <2>3. pre.claimed \in Nat /\ pre.total_supply \in Nat /\ v \in Nat /\ U128 \in Nat
    BY <1>1, WidthAssumption DEF DistributionState, Amounts
  <2>4. pre.claimed + v < U128
    BY <2>1, <2>2, <2>3
  <2>5. Add128(pre.claimed, v) = pre.claimed + v
    BY <2>3, <2>4, AddWithoutWrap
  <2> QED
    BY <1>2, <2>3, <2>5
<1> QED
  BY <1>2, <1>3, <1>4

LEMMA LandingPast ==
    ASSUME NEW d, NEW old, NEW pre, NEW post, Past(old, pre),
           Landing(d, pre, post), Sound(d, pre)
    PROVE  Past(old, post)
<1>1. pre \in DistributionState
  BY DEF Past
<1>2. /\ post \in DistributionState
      /\ Terms(post) = Terms(pre)
      /\ Len(post.spent_nullifiers) = Len(pre.spent_nullifiers) + 1
      /\ \A i \in DOMAIN pre.spent_nullifiers :
            post.spent_nullifiers[i] = pre.spent_nullifiers[i]
      /\ AllocationsFit => pre.claimed <= post.claimed
  BY <1>1, LandingGrows
<1>3. /\ old.spent_nullifiers \in Seq(Nullifiers)
      /\ pre.spent_nullifiers \in Seq(Nullifiers)
      /\ old.claimed \in Nat /\ pre.claimed \in Nat /\ post.claimed \in Nat
  BY <1>1, <1>2, WidthAssumption DEF Past, DistributionState, Amounts
<1>4. DOMAIN old.spent_nullifiers \subseteq DOMAIN pre.spent_nullifiers
  BY <1>3 DEF Past
<1>5. /\ Len(old.spent_nullifiers) < Len(post.spent_nullifiers)
      /\ Len(old.spent_nullifiers) <= Len(post.spent_nullifiers)
  BY <1>2, <1>3 DEF Past
<1>6. \A i \in DOMAIN old.spent_nullifiers : old.spent_nullifiers[i] = post.spent_nullifiers[i]
  BY <1>2, <1>4 DEF Past
<1>7. AllocationsFit => old.claimed <= post.claimed
  BY <1>2, <1>3 DEF Past
<1> QED
  BY <1>2, <1>5, <1>6, <1>7 DEF Past

(* Past data stays past, whatever the step.                                *)
LEMMA PastStays ==
    ASSUME IInv, [Next]_vars, NEW d \in Distributions, NEW old, Past(old, account[d])
    PROVE  Past(old, account'[d])
<1>1. account[d] \in DistributionState /\ account[d] # NoState
  BY NoStateAssumption DEF Past
<1>2. Sound(d, account[d])
  BY <1>1 DEF IInv, AccountsSound, Live
<1> QED
  BY <1>1, <1>2, AccountStep, LandingPast
-----------------------------------------------------------------------------
LEMMA FetchedStep ==
    ASSUME IInv, [Next]_vars, NEW c \in Clients, client'[c].phase = "fetched"
    PROVE  \/ client'[c] = client[c]
           \/ \E q \in Requests : client'[c] = Fetched(q, account[q.dist]) /\ account' = account
<1>1. ASSUME NEW b \in Clients, NEW q \in Requests, Fetch(b, q)
      PROVE  client'[c] = client[c] \/ client'[c] = Fetched(q, account[q.dist])
  BY <1>1 DEF Fetch, IInv, TypeOK
<1>2. ASSUME NEW b \in Clients, Prove(b) \/ Send(b) \/ Quit(b)
      PROVE  client'[c] = client[c]
  BY <1>2 DEF Prove, Send, Quit, IInv, TypeOK, Proved, Failed, Idle
<1>3. ASSUME NEW b \in Clients, NEW q \in Requests, Fetch(b, q)
      PROVE  account' = account
  BY <1>3 DEF Fetch
<1> QED
  BY <1>1, <1>2, <1>3 DEF Next, Initialize, ForeignClaim, IncludeClaim, vars

LEMMA ProvenStep ==
    ASSUME IInv, [Next]_vars, NEW tx \in Proven'
    PROVE  \/ tx \in Proven
           \/ /\ account' = account
              /\ \E c \in Clients : /\ client[c].phase = "fetched"
                                    /\ client[c].data # NoState
                                    /\ tx.pre = client[c].data
                                    /\ tx.dist = client[c].request.dist
<1>1. ASSUME NEW c \in Clients, NEW q \in Requests, Fetch(c, q) PROVE tx \in Proven
  BY <1>1 DEF Fetch, Fetched, Proven, IInv, TypeOK
<1>2. ASSUME NEW c \in Clients, Prove(c), tx \notin Proven
      PROVE  /\ client[c].phase = "fetched"
             /\ client[c].data # NoState
             /\ tx.pre = client[c].data
             /\ tx.dist = client[c].request.dist
  <2> DEFINE q == client[c].request
             data == client[c].data
             r == Execute(q, data)
             new == [dist |-> q.dist, pre |-> data, post |-> r.data]
  <2>1. client[c].phase = "fetched" /\ mempool' = mempool
    BY <1>2 DEF Prove
  <2>2. r.code = OK
    BY <1>2 DEF Prove, Proven, Failed, IInv, TypeOK
  <2>3. client' = [client EXCEPT ![c] = Proved(new)]
    BY <1>2, <2>2 DEF Prove
  <2>4. q \in Requests /\ data \in DistributionState \cup {NoState}
    BY <2>1 DEF IInv, TypeOK, ClientState, Idle
  <2>5. data # NoState
    BY <2>2, <2>4, ExecuteLands, NoStateAssumption
  <2>6. tx = new
    <3> HIDE DEF new
    <3> QED
      BY <1>2, <2>1, <2>3 DEF Proven, Proved, IInv, TypeOK
  <2> QED
    BY <2>1, <2>5, <2>6
<1>3. ASSUME NEW c \in Clients, Send(c) PROVE tx \in Proven
  BY <1>3 DEF Send, Proven, IInv, TypeOK, Idle
<1>4. ASSUME NEW c \in Clients, Quit(c) PROVE tx \in Proven
  BY <1>4 DEF Quit, Proven, IInv, TypeOK, Idle
<1>5. ASSUME NEW c \in Clients, Prove(c) PROVE account' = account
  BY <1>5 DEF Prove
<1>6. ASSUME UNCHANGED <<mempool, client>> PROVE tx \in Proven
  BY <1>6 DEF Proven
<1>7. CASE \E c \in Clients : Prove(c)
  BY <1>2, <1>5, <1>7
<1> QED
  BY <1>1, <1>3, <1>4, <1>6, <1>7 DEF Next, Initialize, ForeignClaim, IncludeClaim, vars

LEMMA InitHistory == Init => HInv
BY InitSound DEF Init, HInv, FetchedIsPast, ProvenIsPast, Proven, Idle

LEMMA NextHistory == HInv /\ [Next]_vars => HInv'
<1> SUFFICES ASSUME HInv, [Next]_vars PROVE HInv'
  OBVIOUS
<1> USE DEF HInv
<1>1. IInv'
  BY NextSound
<1>2. FetchedIsPast'
  <2> SUFFICES ASSUME NEW c \in Clients, client'[c].phase = "fetched",
                      client'[c].data # NoState
               PROVE  Past(client'[c].data, account'[client'[c].request.dist])
    BY DEF FetchedIsPast
  <2>1. CASE client'[c] = client[c]
    <3>1. Past(client[c].data, account[client[c].request.dist])
      BY <2>1 DEF FetchedIsPast
    <3>2. client[c].request.dist \in Distributions
      BY <2>1, RequestsAssumption DEF IInv, TypeOK, ClientState, Idle
    <3> QED
      BY <2>1, <3>1, <3>2, PastStays
  <2>2. ASSUME NEW q \in Requests, client'[c] = Fetched(q, account[q.dist]), account' = account
        PROVE  Past(client'[c].data, account'[client'[c].request.dist])
    <3>1. account[q.dist] \in DistributionState
      BY <2>2, RequestsAssumption DEF Fetched, IInv, TypeOK
    <3> QED
      BY <2>2, <3>1, PastReflexive DEF Fetched
  <2> QED
    BY <2>1, <2>2, FetchedStep
<1>3. ProvenIsPast'
  <2> SUFFICES ASSUME NEW tx \in Proven' PROVE Past(tx.pre, account'[tx.dist])
    BY DEF ProvenIsPast
  <2>1. CASE tx \in Proven
    <3>1. tx.dist \in Distributions
      BY <2>1 DEF Proven, IInv, TypeOK, ClientState, PPETx, Idle
    <3> QED
      BY <2>1, <3>1, PastStays DEF ProvenIsPast
  <2>2. CASE tx \notin Proven
    BY <2>2, ProvenStep DEF FetchedIsPast
  <2> QED
    BY <2>1, <2>2
<1> QED
  BY <1>1, <1>2, <1>3

(* What clients read and proofs are about is the past of the live data.    *)
THEOREM History == Spec => []HInv
BY InitHistory, NextHistory, PTL DEF Spec

-----------------------------------------------------------------------------
LEMMA PrefixByElements ==
    ASSUME NEW S, NEW s \in Seq(S), NEW t \in Seq(S), Len(s) <= Len(t),
           \A i \in DOMAIN s : s[i] = t[i]
    PROVE  IsPrefix(s, t)
<1>1. SubSeq(s, 1, Len(s)) = SubSeq(t, 1, Len(s))
  OBVIOUS
<1> QED
  BY <1>1 DEF IsPrefix

(* A distribution keeps its terms and only ever adds nullifiers.           *)
THEOREM DistributionsAppendOnly == Spec => AppendOnly
<1> DEFINE Grows(d) ==
      Live(d) =>
        /\ account'[d].merkle_root = account[d].merkle_root
        /\ account'[d].claim_circuit_program_id = account[d].claim_circuit_program_id
        /\ account'[d].total_supply = account[d].total_supply
        /\ IsPrefix(account[d].spent_nullifiers, account'[d].spent_nullifiers)
<1>1. ASSUME IInv, [Next]_vars, NEW d \in Distributions, Live(d) PROVE Grows(d)
  <2>1. account[d] \in DistributionState
    BY <1>1 DEF IInv, TypeOK, Live
  <2>2. Past(account[d], account'[d])
    BY <1>1, <2>1, PastReflexive, PastStays
  <2>3. /\ account[d].spent_nullifiers \in Seq(Nullifiers)
        /\ account'[d].spent_nullifiers \in Seq(Nullifiers)
    BY <2>2 DEF Past, DistributionState
  <2>4. IsPrefix(account[d].spent_nullifiers, account'[d].spent_nullifiers)
    BY <2>2, <2>3, PrefixByElements DEF Past
  <2> QED
    BY <2>2, <2>4 DEF Past, Terms
<1>2. IInv /\ [Next]_vars => [\A d \in Distributions : Grows(d)]_vars
  BY <1>1
<1> QED
  BY <1>2, Soundness, PTL DEF Spec, AppendOnly

(* A proof that some other landing overtook can never be included again.   *)
THEOREM OvertakenProofsAreDead == Spec => OvertakenStaysOut
<1> DEFINE Dead == \A tx \in mempool : account[tx.dist] # tx.pre => account'[tx.dist] # tx.pre
<1>1. ASSUME HInv, [Next]_vars PROVE Dead
  <2> SUFFICES ASSUME NEW tx \in mempool, account[tx.dist] # tx.pre
               PROVE  account'[tx.dist] # tx.pre
    OBVIOUS
  <2> DEFINE d == tx.dist
  <2>1. d \in Distributions
    BY <1>1 DEF HInv, IInv, TypeOK, PPETx
  <2>2. Past(tx.pre, account[d])
    BY <1>1 DEF HInv, ProvenIsPast, Proven
  <2>3. account[d] \in DistributionState /\ Past(account[d], account'[d])
    BY <1>1, <2>1, <2>2, PastReflexive, PastStays DEF HInv, Past
  <2>4. Len(tx.pre.spent_nullifiers) < Len(account[d].spent_nullifiers)
    BY <2>2 DEF Past
  <2>5. Len(account[d].spent_nullifiers) <= Len(account'[d].spent_nullifiers)
    BY <2>3 DEF Past
  <2>6. /\ Len(tx.pre.spent_nullifiers) \in Nat
        /\ Len(account[d].spent_nullifiers) \in Nat
        /\ Len(account'[d].spent_nullifiers) \in Nat
    BY <2>2, <2>3 DEF Past, DistributionState
  <2> QED
    BY <2>4, <2>5, <2>6
<1>2. HInv /\ [Next]_vars => [Dead]_vars
  BY <1>1
<1> QED
  BY <1>2, History, PTL DEF Spec, OvertakenStaysOut
-----------------------------------------------------------------------------
(* What succeeds on the live data would have succeeded on any past data:   *)
(* every check of the two programs only gets harder to pass.               *)
LEMMA SuccessHadSucceeded ==
    ASSUME AllocationsFit, NEW q \in Requests, NEW old, NEW new, Past(old, new),
           Terms(new) \in Offers, new.claimed <= new.total_supply,
           Execute(q, new).code = OK
    PROVE  Execute(q, old).code = OK
<1> DEFINE j == JournalOf(q, new)
<1>1. /\ old \in DistributionState /\ new \in DistributionState
      /\ old # NoState /\ new # NoState
      /\ old.merkle_root = new.merkle_root
      /\ old.claim_circuit_program_id = new.claim_circuit_program_id
      /\ old.total_supply = new.total_supply
  BY NoStateAssumption DEF Past, Terms
<1>2. JournalOf(q, old) = j
  BY <1>1 DEF JournalOf
<1>3. /\ SubmitClaim(q, new) = OK
      /\ q.airdrop_program_id = AirdropId
      /\ Claim(q.circuit, new, q.dist, j, q.recipient_note).code = OK
  BY DEF Execute, Result, OK, UNKNOWN_PROGRAM
<1>4. SubmitClaim(q, old) = OK
  BY <1>1, <1>3 DEF SubmitClaim, OK, PROOF_INVALID, ROOT_MISMATCH
<1>5. /\ q.circuit = new.claim_circuit_program_id
      /\ j # Garbage
      /\ CheckClaim(new, j, q.dist, q.recipient_note) = OK
      /\ ~(EncodedLength(RecordClaim(new, j)) > DataMaxLength)
  BY <1>3 DEF Claim, Result, OK, PROOF_INVALID, UNAUTHORIZED_CALLER, STATE_TOO_LARGE
<1>6. /\ j.distributor_id = q.dist
      /\ j.merkle_root = new.merkle_root
      /\ NoteHash(q.recipient_note) = j.recipient_note_hash
      /\ ~Spent(new, j.nullifier)
      /\ ~(Add128(new.claimed, j.allocation) > new.total_supply)
  BY <1>5 DEF CheckClaim, Exhausted, BindsNote, OK, DISTRIBUTOR_MISMATCH, ROOT_MISMATCH, RECIPIENT_MISMATCH,
              NULLIFIER_SPENT, DISTRIBUTION_EXHAUSTED
<1>7. /\ old.spent_nullifiers \in Seq(Nullifiers) /\ new.spent_nullifiers \in Seq(Nullifiers)
      /\ old.claimed \in Nat /\ new.claimed \in Nat /\ new.total_supply \in Nat
      /\ U128 \in Nat /\ DataMaxLength \in Nat
  BY <1>1, WidthAssumption DEF DistributionState, Amounts
<1>8. ~Spent(old, j.nullifier)
  <2>1. DOMAIN old.spent_nullifiers \subseteq DOMAIN new.spent_nullifiers
    BY <1>7 DEF Past
  <2> QED
    BY <1>6, <2>1 DEF Spent, Past
<1>9. ~(Add128(old.claimed, j.allocation) > old.total_supply)
  <2>1. j.allocation \in Allocations /\ j.allocation \in Nat
    BY AllocationsAreAmounts DEF JournalOf, Allocations, Amounts
  <2>2. new.total_supply + j.allocation < U128
    BY <2>1 DEF AllocationsFit, Terms
  <2>3. old.claimed <= new.claimed
    BY DEF Past
  <2> HIDE DEF j
  <2>4. new.claimed + j.allocation < U128 /\ old.claimed + j.allocation < U128
    BY <1>7, <2>1, <2>2, <2>3
  <2>5. /\ Add128(new.claimed, j.allocation) = new.claimed + j.allocation
        /\ Add128(old.claimed, j.allocation) = old.claimed + j.allocation
    BY <1>7, <2>1, <2>4, AddWithoutWrap
  <2> QED
    BY <1>1, <1>6, <1>7, <2>1, <2>3, <2>5
<1>10. ~(EncodedLength(RecordClaim(old, j)) > DataMaxLength)
  <2>1. /\ RecordClaim(old, j).spent_nullifiers = Append(old.spent_nullifiers, j.nullifier)
        /\ RecordClaim(new, j).spent_nullifiers = Append(new.spent_nullifiers, j.nullifier)
    BY <1>1 DEF RecordClaim, DistributionState
  <2>2. /\ Len(Append(old.spent_nullifiers, j.nullifier)) = Len(old.spent_nullifiers) + 1
        /\ Len(Append(new.spent_nullifiers, j.nullifier)) = Len(new.spent_nullifiers) + 1
        /\ Len(old.spent_nullifiers) <= Len(new.spent_nullifiers)
        /\ Len(old.spent_nullifiers) \in Nat /\ Len(new.spent_nullifiers) \in Nat
    BY <1>7 DEF Past
  <2> HIDE DEF j
  <2> QED
    BY <1>5, <1>7, <2>1, <2>2 DEF EncodedLength
<1>11. CheckClaim(old, j, q.dist, q.recipient_note) = OK
  BY <1>1, <1>6, <1>8, <1>9 DEF CheckClaim, Exhausted, BindsNote
<1>12. Claim(q.circuit, old, q.dist, j, q.recipient_note).code = OK
  BY <1>1, <1>5, <1>10, <1>11 DEF Claim, Result
<1> HIDE DEF j
<1> QED
  BY <1>2, <1>3, <1>4, <1>12 DEF Execute

(* A request rejected for anything but an uninitialized account was        *)
(* rejected by an initialized one, and still would be.                     *)
Rejected(c) ==
    client[c].phase = "failed" /\ client[c].code # PROOF_INVALID

RejectionsHold ==
    \A c \in Clients : Rejected(c) =>
        /\ account[client[c].request.dist] \in DistributionState
        /\ Execute(client[c].request, account[client[c].request.dist]).code # OK

LEMMA RejectedStep ==
    ASSUME HInv, [Next]_vars, NEW c \in Clients, Rejected(c)'
    PROVE  \/ Rejected(c) /\ client'[c] = client[c]
           \/ /\ client[c].phase = "fetched" /\ account' = account
              /\ client'[c].request = client[c].request
              /\ client[c].data # NoState
              /\ Execute(client[c].request, client[c].data).code # OK
<1> USE DEF HInv
<1>1. ASSUME NEW b \in Clients, NEW q \in Requests, Fetch(b, q)
      PROVE  Rejected(c) /\ client'[c] = client[c]
  BY <1>1 DEF Fetch, Rejected, IInv, TypeOK, Fetched
<1>2. ASSUME NEW b \in Clients, Send(b) \/ Quit(b)
      PROVE  Rejected(c) /\ client'[c] = client[c]
  BY <1>2 DEF Send, Quit, Rejected, IInv, TypeOK, Idle
<1>3. ASSUME NEW b \in Clients, Prove(b), b # c
      PROVE  Rejected(c) /\ client'[c] = client[c]
  BY <1>3 DEF Prove, Rejected, IInv, TypeOK
<1>4. ASSUME Prove(c)
      PROVE  /\ client[c].phase = "fetched" /\ account' = account
             /\ client'[c].request = client[c].request
             /\ client[c].data # NoState
             /\ Execute(client[c].request, client[c].data).code # OK
  <2> DEFINE q == client[c].request
             data == client[c].data
             r == Execute(q, data)
  <2>1. r.code # OK
    BY <1>4 DEF Prove, Proved, Rejected, IInv, TypeOK
  <2>2. client' = [client EXCEPT ![c] = Failed(q, r.code)]
    BY <1>4, <2>1 DEF Prove
  <2>3. r.code # PROOF_INVALID
    <3> HIDE DEF r
    <3> QED
      BY <2>2 DEF Rejected, Failed, IInv, TypeOK
  <2>4. data # NoState
    BY <2>3 DEF Execute, SubmitClaim, Result, OK, PROOF_INVALID
  <2>5. client'[c].request = q
    <3> HIDE DEF r, q
    <3> QED
      BY <2>2 DEF Failed, IInv, TypeOK
  <2> QED
    BY <1>4, <2>1, <2>4, <2>5 DEF Prove
<1>5. ASSUME UNCHANGED client PROVE Rejected(c) /\ client'[c] = client[c]
  BY <1>5 DEF Rejected
<1> QED
  BY <1>1, <1>2, <1>3, <1>4, <1>5 DEF Next, Initialize, ForeignClaim, IncludeClaim, vars

LEMMA NextRejections ==
    ASSUME AllocationsFit, HInv, RejectionsHold, [Next]_vars
    PROVE  RejectionsHold'
<1> SUFFICES ASSUME NEW c \in Clients, Rejected(c)'
             PROVE  /\ account'[client'[c].request.dist] \in DistributionState
                    /\ Execute(client'[c].request, account'[client'[c].request.dist]).code # OK
  BY DEF RejectionsHold
<1> USE DEF HInv
<1> DEFINE q == client'[c].request
           old == IF Rejected(c) /\ client'[c] = client[c] THEN account[q.dist]
                                                           ELSE client[c].data
<1>1. HInv'
  BY NextHistory
<1>2. q \in Requests /\ q.dist \in Distributions
  BY <1>1, RequestsAssumption DEF IInv, TypeOK, ClientState, Rejected, Idle
<1>3. Past(old, account'[q.dist]) /\ Execute(q, old).code # OK
  <2>1. CASE Rejected(c) /\ client'[c] = client[c]
    <3>1. account[q.dist] \in DistributionState /\ Execute(q, account[q.dist]).code # OK
      BY <2>1 DEF RejectionsHold
    <3> QED
      BY <1>2, <2>1, <3>1, PastReflexive, PastStays
  <2>2. CASE ~(Rejected(c) /\ client'[c] = client[c])
    BY <2>2, RejectedStep DEF FetchedIsPast
  <2> QED
    BY <2>1, <2>2
<1>4. Sound(q.dist, account'[q.dist])
  BY <1>1, <1>2, <1>3, NoStateAssumption DEF IInv, AccountsSound, Live, Past
<1> HIDE DEF old, q
<1>5. Execute(q, account'[q.dist]).code # OK
  BY <1>2, <1>3, <1>4, SuccessHadSucceeded DEF Sound
<1> QED
  BY <1>3, <1>5 DEF Past, q

(* With allocations that fit u128, an error a claimant gets for an         *)
(* initialized distribution is final: trying again later cannot succeed.   *)
THEOREM RejectionsFinal ==
    ASSUME AllocationsFit
    PROVE  Spec => []RejectionsAreFinal
<1>1. Init => RejectionsHold
  BY DEF Init, RejectionsHold, Rejected, Idle
<1>2. HInv /\ RejectionsHold /\ [Next]_vars => RejectionsHold'
  BY NextRejections
<1>3. RejectionsHold => RejectionsAreFinal
  BY DEF RejectionsHold, Rejected, RejectionsAreFinal
<1> QED
  BY <1>1, <1>2, <1>3, History, PTL DEF Spec

-----------------------------------------------------------------------------
(* The ledger's variables, as the refinement has them.                     *)
TermsNow == [d \in Distributions |-> TermsOf(d)]
PaidNow == [d \in Distributions |-> PaidOn(d)]
ClaimedNow == [d \in Distributions |-> ClaimedOn(d)]

-----------------------------------------------------------------------------
(* A step changes at most one account.                                     *)
LEMMA OneAccountAtATime ==
    ASSUME IInv, [Next]_vars
    PROVE  \/ account' = account
           \/ \E d \in Distributions : account' = [account EXCEPT ![d] = account'[d]]
<1>1. ASSUME NEW d \in Distributions, NEW o \in Offers, Initialize(d, o)
      PROVE  account' = [account EXCEPT ![d] = account'[d]]
  BY <1>1 DEF Initialize, IInv, TypeOK
<1>2. ASSUME NEW d \in Distributions, NEW p, NEW f, ForeignClaim(d, p, f)
      PROVE  account' = [account EXCEPT ![d] = account'[d]]
  BY <1>2 DEF ForeignClaim, IInv, TypeOK
<1>3. ASSUME NEW tx \in mempool, IncludeClaim(tx)
      PROVE  \E d \in Distributions : account' = [account EXCEPT ![d] = account'[d]]
  <2>1. tx.dist \in Distributions
    BY DEF IInv, TypeOK, PPETx
  <2>2. account' = [account EXCEPT ![tx.dist] = account'[tx.dist]]
    BY <1>3, <2>1 DEF IncludeClaim, IInv, TypeOK
  <2> QED
    BY <2>1, <2>2
<1> QED
  BY <1>1, <1>2, <1>3 DEF Next, Fetch, Prove, Send, Quit, vars

LEMMA InitRefines == Init => Ledger!Init
BY DEF Init, Ledger!Init, TermsOf, PaidOn, ClaimedOn

LEMMA OpenRefines ==
    ASSUME IInv, IInv', NEW d \in Distributions, NEW o \in Offers,
           account[d] = NoState, account' = [account EXCEPT ![d] = account'[d]],
           account'[d] = InitialState(o.merkle_root, o.claim_circuit_program_id, o.total_supply)
    PROVE  Ledger!Open(d)
<1>0. InitialState(o.merkle_root, o.claim_circuit_program_id, o.total_supply)
        \in DistributionState
  BY OffersAssumption, WidthAssumption DEF InitialState, DistributionState, Amounts
<1>1. account'[d] \in DistributionState /\ account'[d] # NoState
  BY <1>0, NoStateAssumption
<1>2. \A e \in Distributions : e # d => account'[e] = account[e]
  BY DEF IInv, TypeOK
<1>3. TermsOf(d)' = o
  BY <1>1, OffersAssumption DEF TermsOf, InitialState
<1>4. PaidOn(d) = {} /\ PaidOn(d)' = {} /\ ClaimedOn(d) = 0 /\ ClaimedOn(d)' = 0
  BY <1>1 DEF PaidOn, ClaimedOn, Spent, InitialState
<1>5. \A e \in Distributions : e # d =>
         TermsOf(e)' = TermsOf(e) /\ PaidOn(e)' = PaidOn(e) /\ ClaimedOn(e)' = ClaimedOn(e)
  BY <1>2 DEF TermsOf, PaidOn, ClaimedOn
<1>6. TermsNow' = [TermsNow EXCEPT ![d] = o] /\ PaidNow' = PaidNow /\ ClaimedNow' = ClaimedNow
  BY <1>3, <1>4, <1>5 DEF TermsNow, PaidNow, ClaimedNow
<1>7. TermsNow[d] = NoState
  BY DEF TermsNow, TermsOf
<1> QED
  BY <1>6, <1>7 DEF Ledger!Open, TermsNow, PaidNow, ClaimedNow

(* The ledger's payment, by what a landing wrote.                          *)
LEMMA PayRefines ==
    ASSUME AllocationsFit, IInv, NEW d \in Distributions,
           account[d] \in DistributionState, Landing(d, account[d], account'[d]),
           account' = [account EXCEPT ![d] = account'[d]]
    PROVE  /\ TermsNow[d] # NoState
           /\ \E n \in Nullifiers, v \in 0 .. TermsNow[d].total_supply : Ledger!Pay(d, n, v)
<1> DEFINE pre == account[d]
           post == account'[d]
<1>1. Sound(d, pre) /\ pre # NoState
  BY NoStateAssumption DEF IInv, AccountsSound, Live
<1> PICK n \in Nullifiers, v \in Allocations : Step(d, pre, post, n, v)
  BY DEF Landing
<1>2. /\ post \in DistributionState /\ post # NoState
      /\ v \in Nat /\ pre.claimed \in Nat /\ pre.total_supply \in Nat
      /\ pre.spent_nullifiers \in Seq(Nullifiers)
  BY LandingType, AllocationsAreAmounts, NoStateAssumption, WidthAssumption
     DEF DistributionState, Amounts
<1>3. /\ post.spent_nullifiers = Append(pre.spent_nullifiers, n)
      /\ post.claimed = Add128(pre.claimed, v)
      /\ post.merkle_root = pre.merkle_root
      /\ post.claim_circuit_program_id = pre.claim_circuit_program_id
      /\ post.total_supply = pre.total_supply
      /\ ~Spent(pre, n)
      /\ Add128(pre.claimed, v) <= pre.total_supply
      /\ pre.claim_circuit_program_id \in CircuitBuilds =>
            \E p \in Committed[pre.merkle_root] : n = Nullifier(p[1], d) /\ v = p[2]
  BY DEF Step, DistributionState
<1>4. Add128(pre.claimed, v) = pre.claimed + v
  <2>1. pre.total_supply + v < U128
    BY <1>1 DEF Sound, Terms, AllocationsFit
  <2>2. pre.claimed + v < U128
    BY <1>1, <1>2, <2>1, WidthAssumption DEF Sound
  <2> QED
    BY <1>2, <2>2, AddWithoutWrap
<1>5. /\ TermsOf(d) = Terms(pre) /\ TermsOf(d)' = TermsOf(d)
      /\ ClaimedOn(d) = pre.claimed /\ ClaimedOn(d)' = pre.claimed + v
  BY <1>1, <1>2, <1>3, <1>4 DEF TermsOf, Terms, ClaimedOn
<1>6. n \notin PaidOn(d) /\ PaidOn(d)' = PaidOn(d) \cup {n}
  <2>1. \A m : Spent(post, m) <=> Spent(pre, m) \/ m = n
    <3> DEFINE s == pre.spent_nullifiers
               t == post.spent_nullifiers
    <3>1. /\ DOMAIN t = DOMAIN s \cup {Len(s) + 1}
          /\ \A i \in DOMAIN s : t[i] = s[i]
          /\ t[Len(s) + 1] = n
      BY <1>2, <1>3
    <3> HIDE DEF s, t
    <3>2. \A m : (\E i \in DOMAIN t : t[i] = m) <=> (\E i \in DOMAIN s : s[i] = m) \/ m = n
      BY <3>1
    <3> QED
      BY <3>2 DEF Spent, s, t
  <2> QED
    BY <1>1, <1>2, <1>3, <2>1 DEF PaidOn
<1>7. \A e \in Distributions : e # d =>
         TermsOf(e)' = TermsOf(e) /\ PaidOn(e)' = PaidOn(e) /\ ClaimedOn(e)' = ClaimedOn(e)
  BY DEF TermsOf, PaidOn, ClaimedOn, IInv, TypeOK
<1>8. /\ TermsNow' = TermsNow
      /\ PaidNow' = [PaidNow EXCEPT ![d] = @ \cup {n}]
      /\ ClaimedNow' = [ClaimedNow EXCEPT ![d] = @ + v]
  BY <1>5, <1>6, <1>7 DEF TermsNow, PaidNow, ClaimedNow
<1>9. /\ TermsNow[d] # NoState
      /\ TermsNow[d].total_supply = pre.total_supply
      /\ TermsNow[d].claim_circuit_program_id = pre.claim_circuit_program_id
      /\ TermsNow[d].merkle_root = pre.merkle_root
      /\ n \notin PaidNow[d]
      /\ ClaimedNow[d] + v <= TermsNow[d].total_supply
  <2>1. Terms(pre) # NoState
    BY <1>1, NoStateAssumption DEF Sound
  <2> QED
    BY <1>3, <1>4, <1>5, <1>6, <2>1 DEF TermsNow, PaidNow, ClaimedNow, Terms
<1>10. Ledger!EntitledTo(d, n, v)
  BY <1>3, <1>9 DEF Ledger!EntitledTo, Ledger!Nullifier, Nullifier, TermsNow
<1>11. Ledger!Pay(d, n, v)
  BY <1>8, <1>9, <1>10 DEF Ledger!Pay, TermsNow, PaidNow, ClaimedNow
<1>12. v \in 0 .. TermsNow[d].total_supply
  BY <1>2, <1>3, <1>4, <1>9
<1> QED
  BY <1>9, <1>11, <1>12

LEMMA StepRefines ==
    ASSUME AllocationsFit, IInv, IInv', [Next]_vars
    PROVE  [Ledger!Next]_<<TermsNow, PaidNow, ClaimedNow>>
<1>1. CASE account' = account
  BY <1>1 DEF TermsNow, PaidNow, ClaimedNow, TermsOf, PaidOn, ClaimedOn
<1>2. CASE account' # account
  <2>1. PICK d \in Distributions : account' = [account EXCEPT ![d] = account'[d]]
    BY <1>2, OneAccountAtATime
  <2>2. account'[d] # account[d]
    BY <1>2, <2>1 DEF IInv, TypeOK
  <2>3. CASE account[d] = NoState /\ \E o \in Offers : account'[d] =
                InitialState(o.merkle_root, o.claim_circuit_program_id, o.total_supply)
    <3>1. Ledger!Open(d)
      BY <2>1, <2>3, OpenRefines
    <3> QED
      BY <3>1 DEF Ledger!Next
  <2>4. CASE account[d] \in DistributionState /\ Landing(d, account[d], account'[d])
    <3>1. /\ TermsNow[d] # NoState
          /\ \E n \in Nullifiers, v \in 0 .. TermsNow[d].total_supply : Ledger!Pay(d, n, v)
      BY <2>1, <2>4, PayRefines
    <3> QED
      BY <3>1 DEF Ledger!Next, TermsNow
  <2> QED
    BY <2>2, <2>3, <2>4, AccountStep
<1> QED
  BY <1>1, <1>2

(* With allocations that fit u128, the chain implements the ledger: every  *)
(* landing is one payment that is entitled, new and covered.               *)
THEOREM ChainImplementsLedger ==
    ASSUME AllocationsFit
    PROVE  Spec => ImplementsLedger
<1>1. IInv /\ IInv' /\ [Next]_vars => [Ledger!Next]_Ledger!vars
  BY StepRefines DEF Ledger!vars, TermsNow, PaidNow, ClaimedNow
<1> QED
  BY <1>1, InitRefines, Soundness, PTL DEF Spec, ImplementsLedger, Ledger!Spec
=============================================================================
