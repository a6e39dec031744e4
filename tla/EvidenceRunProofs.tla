-------------------------- MODULE EvidenceRunProofs --------------------------
(***************************************************************************)
(* Proofs about EvidenceRun, for any list of claimants and any number of   *)
(* polls: what the evidence script writes down, and how far ahead of the   *)
(* chain it can get, when no poll is sure to tell it anything.             *)
(*                                                                         *)
(* The argument: every claim the script ever sent is about the data before *)
(* some row of the table.  As long as it waits for nothing, all of them    *)
(* are overtaken and the chain stands still; while it waits, or after it   *)
(* has stopped, one of them may land, and then the chain stands still.     *)
(***************************************************************************)
EXTENDS EvidenceRun, AirdropChainProofs, FiniteSetTheorems

OwnNullifier(i) == Nullifier(Claims[i].account_id, RunDist)

(* A claim of the list, proved when just those before it had landed.       *)
IsNextClaim(tx) ==
    LET n == Len(tx.pre.spent_nullifiers)
    IN  /\ tx.dist = RunDist
        /\ n + 1 \in DOMAIN Claims
        /\ tx.post.spent_nullifiers = Append(tx.pre.spent_nullifiers, OwnNullifier(n + 1))

RunShape ==
    /\ phase \in {"start", "initPoll", "initialized", "claim", "prove", "landPoll", "done", "exit"}
    /\ next \in 0 .. Len(Claims)
    /\ phase \in {"prove", "landPoll"} => next < Len(Claims)
    /\ phase = "done" => next = Len(Claims)
    /\ polls \in 0 .. InitPolls + LandPolls
    /\ evidence \in Seq(Requests)
    /\ company \in BOOLEAN
    /\ Len(evidence) = next
    /\ \A i \in 1 .. next : evidence[i] = Claims[i]

NeverAhead == next <= Landed(RunDist)

LandedInOrder ==
    Live(RunDist) =>
        \A i \in DOMAIN account[RunDist].spent_nullifiers :
            i \in DOMAIN Claims /\ account[RunDist].spent_nullifiers[i] = OwnNullifier(i)

SentInOrder == \A tx \in mempool : IsNextClaim(tx)

OthersIdle == \A c \in Clients \ {Runner} : client[c] = Idle

(* Nothing of the script's is under way.                                   *)
Settled ==
    /\ Landed(RunDist) = next
    /\ \A tx \in mempool : Len(tx.pre.spent_nullifiers) < next

Pending ==
    /\ Landed(RunDist) <= next + 1
    /\ \A tx \in mempool : Len(tx.pre.spent_nullifiers) <= next

(* Where the client of the claim that is being made can be.                *)
AtNextClaim(c) ==
    \/ /\ client[c].phase = "fetched"
       /\ client[c].request = Claims[next + 1]
       /\ client[c].data # NoState => Len(client[c].data.spent_nullifiers) = next
    \/ /\ client[c].phase = "proved"
       /\ IsNextClaim(client[c].tx)
       /\ Len(client[c].tx.pre.spent_nullifiers) = next
    \/ client[c].phase = "failed"

Place ==
    /\ phase \notin {"landPoll", "exit"} => Settled
    /\ phase \in {"landPoll", "exit"} => Pending
    /\ IF phase = "prove" THEN AtNextClaim(Runner) ELSE client[Runner] = Idle

Solo == LandedInOrder /\ SentInOrder /\ OthersIdle /\ Place

RInv == RunShape /\ NeverAhead /\ (~company => Solo)

-----------------------------------------------------------------------------
(* What a successful private execution adds to the account.                *)
LEMMA ExecuteAppends ==
    ASSUME NEW q, NEW data \in DistributionState \cup {NoState}, Execute(q, data).code = OK
    PROVE  /\ data # NoState
           /\ Execute(q, data).data.spent_nullifiers =
                 Append(data.spent_nullifiers, Nullifier(q.account_id, q.dist))
<1> DEFINE journal == JournalOf(q, data)
<1>1. /\ data # NoState
      /\ Execute(q, data) = Claim(q.circuit, data, q.dist, journal, q.recipient_note)
  BY DEF Execute, SubmitClaim, Result, OK, UNKNOWN_PROGRAM, PROOF_INVALID
<1>2. Execute(q, data).data = RecordClaim(data, journal)
  <2>1. Claim(q.circuit, data, q.dist, journal, q.recipient_note).code = OK
    BY <1>1
  <2> QED
    BY <1>1, <2>1 DEF Claim, Result, OK, PROOF_INVALID, UNAUTHORIZED_CALLER, STATE_TOO_LARGE
<1>3. data \in DistributionState
  BY <1>1
<1>4. journal.nullifier = Nullifier(q.account_id, q.dist)
  BY DEF JournalOf
<1> HIDE DEF journal
<1> QED
  BY <1>1, <1>2, <1>3, <1>4 DEF RecordClaim, DistributionState

LEMMA RunnerFacts ==
    /\ Runner \in Clients /\ RunDist \in Distributions /\ RunOffer \in Offers
    /\ Claims \in Seq(Requests) /\ Len(Claims) \in Nat
    /\ \A i \in DOMAIN Claims : Claims[i] \in Requests /\ Claims[i].dist = RunDist
    /\ InitPolls \in Nat /\ LandPolls \in Nat
BY RunAssumption

LEMMA RunInitSound == RunInit => RInv
<1> SUFFICES ASSUME RunInit PROVE RInv
  OBVIOUS
<1> USE RunnerFacts DEF RunInit, Init
<1>1. RunShape
  BY DEF RunShape
<1>2. Landed(RunDist) = 0 /\ ~Live(RunDist)
  BY DEF Landed, Live
<1>3. NeverAhead
  BY <1>2 DEF NeverAhead
<1>4. Solo
  BY <1>2 DEF Solo, LandedInOrder, SentInOrder, OthersIdle, Place, Settled
<1> QED
  BY <1>1, <1>3, <1>4 DEF RInv

(* On the chain every step of the script is one of AirdropChain, or none.  *)
LEMMA RunStep ==
    ASSUME RInv, [RunNext]_runVars
    PROVE  [Next]_vars
<1>1. CASE RunFetch
  <2>1. Claims[next + 1] \in Requests
    BY <1>1, RunnerFacts DEF RunFetch, RInv, RunShape
  <2> QED
    BY <1>1, <2>1, RunnerFacts DEF RunFetch, Next
<1>2. CASE RunProve \/ RunSend \/ RunQuit
  BY <1>2, RunnerFacts DEF RunProve, RunSend, RunQuit, Next
<1>3. CASE \/ StartRun \/ InitSeen \/ InitMissed \/ InitGivenUp \/ LogInitialized
           \/ LandSeen \/ LandMissed \/ LandGivenUpOn \/ Finished
  BY <1>3 DEF StartRun, InitSeen, InitMissed, InitGivenUp, LogInitialized,
              LandSeen, LandMissed, LandGivenUpOn, Finished
<1>4. CASE Chain
  BY <1>4, RunnerFacts DEF Chain, Next
<1> QED
  BY <1>1, <1>2, <1>3, <1>4 DEF RunNext, Script, runVars

Waiting ==
    \/ StartRun \/ InitSeen \/ InitMissed \/ InitGivenUp \/ LogInitialized
    \/ LandMissed \/ LandGivenUpOn \/ Finished

(* The steps that wait, log or stop.                                       *)
LEMMA WaitingStep ==
    ASSUME RunShape, Waiting
    PROVE  /\ UNCHANGED <<vars, next, evidence, company>>
           /\ polls' \in 0 .. InitPolls + LandPolls
           /\ \/ /\ phase \notin {"prove", "landPoll", "exit"}
                 /\ phase' \in {"initPoll", "initialized", "claim", "done"}
              \/ phase \notin {"prove", "exit"} /\ phase' = "exit"
              \/ phase = "landPoll" /\ phase' = "landPoll"
           /\ phase' = "done" => next = Len(Claims)
<1> USE RunnerFacts DEF RunShape, Goto, Stop
<1>1. CASE StartRun
  BY <1>1 DEF StartRun
<1>2. CASE InitSeen
  BY <1>2 DEF InitSeen
<1>3. CASE InitMissed
  BY <1>3 DEF InitMissed
<1>4. CASE InitGivenUp
  BY <1>4 DEF InitGivenUp
<1>5. CASE LogInitialized
  BY <1>5 DEF LogInitialized
<1>6. CASE LandMissed
  BY <1>6 DEF LandMissed
<1>7. CASE LandGivenUpOn
  BY <1>7 DEF LandGivenUpOn
<1>8. CASE Finished
  BY <1>8 DEF Finished
<1> QED
  BY <1>1, <1>2, <1>3, <1>4, <1>5, <1>6, <1>7, <1>8 DEF Waiting

(* The row of a claim that was seen to have landed.                        *)
LEMMA RowWritten ==
    ASSUME RunShape, LandSeen
    PROVE  RunShape' /\ next' = next + 1 /\ next < Len(Claims)
<1> USE RunnerFacts DEF RunShape, LandSeen
<1>1. next \in Nat /\ next < Len(Claims) /\ Claims[next + 1] \in Requests
  OBVIOUS
<1>2. /\ evidence' \in Seq(Requests)
      /\ Len(evidence') = next + 1
      /\ \A i \in 1 .. next : evidence'[i] = evidence[i]
      /\ evidence'[next + 1] = Claims[next + 1]
  BY <1>1
<1>3. \A i \in 1 .. next' : evidence'[i] = Claims[i]
  BY <1>1, <1>2
<1> QED
  BY <1>1, <1>2, <1>3

LEMMA ShapeKept ==
    ASSUME RunShape, [RunNext]_runVars
    PROVE  RunShape'
<1> USE RunnerFacts DEF RunShape
<1>1. CASE Waiting
  BY <1>1, WaitingStep
<1>2. CASE LandSeen
  BY <1>2, RowWritten
<1>3. CASE RunFetch
  BY <1>3 DEF RunFetch, Goto
<1>4. CASE RunProve \/ Chain \/ UNCHANGED runVars
  BY <1>4 DEF RunProve, Chain, scriptVars, runVars
<1>5. CASE RunSend \/ RunQuit
  BY <1>5 DEF RunSend, RunQuit, Goto, Stop
<1> QED
  BY <1>1, <1>2, <1>3, <1>4, <1>5 DEF RunNext, Script, Waiting

-----------------------------------------------------------------------------
LEMMA LandedIsNat ==
    ASSUME IInv
    PROVE  Landed(RunDist) \in Nat
BY RunnerFacts DEF IInv, TypeOK, Landed, Live, DistributionState

LEMMA LandedNatAfter ==
    ASSUME IInv, [Next]_vars
    PROVE  Landed(RunDist)' \in Nat
<1>1. IInv'
  BY NextSound
<1> QED
  BY <1>1, RunnerFacts DEF IInv, TypeOK, Landed, Live, DistributionState

LEMMA LandedGrows ==
    ASSUME IInv, [Next]_vars
    PROVE  Landed(RunDist) <= Landed(RunDist)'
<1>1. CASE Live(RunDist)
  <2>1. account[RunDist] \in DistributionState
    BY <1>1, RunnerFacts DEF IInv, TypeOK, Live
  <2>2. Past(account[RunDist], account'[RunDist])
    BY <2>1, RunnerFacts, PastReflexive, PastStays
  <2> QED
    BY <1>1, <2>2, NoStateAssumption DEF Past, Landed, Live
<1>2. CASE ~Live(RunDist)
  <2>1. Landed(RunDist) = 0 /\ Landed(RunDist)' \in Nat
    BY <1>2, LandedNatAfter DEF Landed
  <2> QED
    BY <2>1
<1> QED
  BY <1>1, <1>2

(* Whoever else claims, a row is written only when the count says so.      *)
LEMMA NeverAheadKept ==
    ASSUME IInv, RInv, [RunNext]_runVars
    PROVE  NeverAhead'
<1>1. Landed(RunDist) <= Landed(RunDist)' /\ Landed(RunDist) \in Nat /\ Landed(RunDist)' \in Nat
  BY RunStep, LandedGrows, LandedIsNat, LandedNatAfter
<1>2. CASE LandSeen
  BY <1>1, <1>2, RowWritten DEF LandSeen, NeverAhead, RInv
<1>3. CASE ~LandSeen
  <2>1. next' = next
    BY <1>3, WaitingStep DEF RInv, RunNext, Script, Waiting, RunFetch, RunProve, RunSend, RunQuit,
                             Chain, scriptVars, runVars, Goto, Stop
  <2> QED
    BY <1>1, <2>1 DEF NeverAhead, RInv, RunShape
<1> QED
  BY <1>2, <1>3

-----------------------------------------------------------------------------
(* Without other claimants: the steps of the script one by one.            *)
LEMMA ChainStands ==
    ASSUME Solo, UNCHANGED vars
    PROVE  LandedInOrder' /\ SentInOrder' /\ OthersIdle' /\ Landed(RunDist)' = Landed(RunDist)
BY DEF vars, Solo, LandedInOrder, SentInOrder, OthersIdle, Landed, Live, IsNextClaim

LEMMA SoloWaiting ==
    ASSUME IInv, RInv, Solo, Waiting
    PROVE  Solo'
<1>1. /\ UNCHANGED <<vars, next>>
      /\ Landed(RunDist)' = Landed(RunDist)
      /\ LandedInOrder' /\ SentInOrder' /\ OthersIdle'
  BY WaitingStep, ChainStands DEF RInv
<1>2. Settled => Pending
  BY LandedIsNat DEF Settled, Pending, RInv, RunShape, IInv, TypeOK, PPETx, DistributionState
<1>3. Settled => Settled'
  BY <1>1 DEF Settled, vars
<1>4. Pending => Pending'
  BY <1>1 DEF Pending, vars
<1>5. Place'
  BY <1>1, <1>2, <1>3, <1>4, WaitingStep DEF Place, Solo, RInv, vars
<1> QED
  BY <1>1, <1>5 DEF Solo

LEMMA SoloRow ==
    ASSUME IInv, RInv, Solo, LandSeen
    PROVE  Solo'
<1>1. /\ UNCHANGED vars
      /\ Landed(RunDist)' = Landed(RunDist)
      /\ LandedInOrder' /\ SentInOrder' /\ OthersIdle'
  BY ChainStands DEF LandSeen
<1>2. Pending /\ Landed(RunDist) = next + 1 /\ next' = next + 1 /\ phase' = "claim"
  BY DEF LandSeen, Solo, Place
<1>3. \A tx \in mempool : Len(tx.pre.spent_nullifiers) < next + 1
  BY <1>2 DEF Pending, IInv, TypeOK, PPETx, DistributionState, RInv, RunShape
<1>4. Settled'
  BY <1>1, <1>2, <1>3 DEF Settled, vars
<1>5. Place'
  BY <1>1, <1>2, <1>4 DEF Place, Solo, vars, LandSeen
<1> QED
  BY <1>1, <1>5 DEF Solo

LEMMA SoloFetch ==
    ASSUME IInv, RInv, Solo, RunFetch
    PROVE  Solo'
<1> DEFINE q == Claims[next + 1]
<1>1. /\ client' = [client EXCEPT ![Runner] = Fetched(q, account[RunDist])]
      /\ UNCHANGED <<account, mempool, next>> /\ phase = "claim" /\ phase' = "prove"
  <2>1. next + 1 \in DOMAIN Claims
    BY RunnerFacts DEF RunFetch, RInv, RunShape
  <2>2. q.dist = RunDist
    BY <2>1, RunnerFacts
  <2> QED
    BY <2>2 DEF RunFetch, Fetch, Goto
<1>2. client'[Runner] = Fetched(q, account[RunDist])
  BY <1>1, RunnerFacts DEF IInv, TypeOK
<1>3. LandedInOrder' /\ SentInOrder'
  BY <1>1 DEF Solo, LandedInOrder, SentInOrder, Live, IsNextClaim
<1>4. OthersIdle'
  BY <1>1, RunnerFacts DEF Solo, OthersIdle, IInv, TypeOK
<1>5. Settled /\ Settled'
  BY <1>1 DEF Solo, Place, Settled, Landed, Live
<1>6. AtNextClaim(Runner)'
  BY <1>1, <1>2, <1>5 DEF AtNextClaim, Fetched, Settled, Landed, Live
<1> QED
  BY <1>1, <1>3, <1>4, <1>5, <1>6 DEF Solo, Place

LEMMA SoloProve ==
    ASSUME IInv, RInv, Solo, RunProve
    PROVE  Solo'
<1> DEFINE q == Claims[next + 1]
           data == client[Runner].data
           r == Execute(q, data)
           tx == [dist |-> q.dist, pre |-> data, post |-> r.data]
<1>1. /\ phase = "prove" /\ client[Runner].phase = "fetched"
      /\ UNCHANGED <<account, mempool, next, phase>>
      /\ AtNextClaim(Runner)
  BY DEF RunProve, Prove, scriptVars, Solo, Place
<1>2. /\ client[Runner].request = q
      /\ data # NoState => Len(data.spent_nullifiers) = next
      /\ data \in DistributionState \cup {NoState}
  BY <1>1, RunnerFacts DEF AtNextClaim, IInv, TypeOK, ClientState, Idle
<1>3. next + 1 \in DOMAIN Claims /\ q.dist = RunDist
  BY <1>1, RunnerFacts DEF RInv, RunShape
<1>4. client'[Runner] = IF r.code = OK THEN Proved(tx) ELSE Failed(q, r.code)
  BY <1>2, RunnerFacts DEF RunProve, Prove, IInv, TypeOK
<1>5. r.code = OK => IsNextClaim(tx) /\ Len(tx.pre.spent_nullifiers) = next
  BY <1>2, <1>3, ExecuteAppends DEF IsNextClaim, OwnNullifier
<1>6. AtNextClaim(Runner)'
  <2>1. CASE r.code = OK
    <3> HIDE DEF tx
    <3>1. client'[Runner].phase = "proved" /\ client'[Runner].tx = tx
      BY <1>4, <2>1 DEF Proved
    <3> QED
      BY <1>1, <1>5, <2>1, <3>1 DEF AtNextClaim, IsNextClaim
  <2>2. CASE r.code # OK
    BY <1>4, <2>2 DEF AtNextClaim, Failed
  <2> QED
    BY <2>1, <2>2
<1>7. LandedInOrder' /\ SentInOrder' /\ Settled'
  BY <1>1 DEF Solo, LandedInOrder, SentInOrder, Live, IsNextClaim, Place, Settled, Landed
<1>8. OthersIdle'
  BY RunnerFacts DEF Solo, OthersIdle, IInv, TypeOK, RunProve, Prove
<1> QED
  BY <1>1, <1>6, <1>7, <1>8 DEF Solo, Place

LEMMA SoloSend ==
    ASSUME IInv, RInv, Solo, RunSend
    PROVE  Solo'
<1> DEFINE tx == client[Runner].tx
<1>1. /\ phase = "prove" /\ client[Runner].phase = "proved"
      /\ mempool' = mempool \cup {tx}
      /\ client' = [client EXCEPT ![Runner] = Idle]
      /\ UNCHANGED <<account, next>> /\ phase' \in {"landPoll", "exit"}
      /\ AtNextClaim(Runner) /\ Settled
  BY DEF RunSend, Send, Goto, Stop, Solo, Place
<1>2. IsNextClaim(tx) /\ Len(tx.pre.spent_nullifiers) = next
  BY <1>1 DEF AtNextClaim
<1>3. LandedInOrder' /\ Landed(RunDist)' = Landed(RunDist)
  BY <1>1 DEF Solo, LandedInOrder, Live, Landed
<1>4. SentInOrder'
  BY <1>1, <1>2 DEF Solo, SentInOrder, IsNextClaim
<1>5. OthersIdle' /\ client'[Runner] = Idle
  BY <1>1, RunnerFacts DEF Solo, OthersIdle, IInv, TypeOK
<1>6. Pending'
  BY <1>1, <1>2, <1>3, LandedIsNat
  DEF Settled, Pending, IInv, TypeOK, PPETx, DistributionState, RInv, RunShape
<1> QED
  BY <1>1, <1>3, <1>4, <1>5, <1>6 DEF Solo, Place

LEMMA SoloQuit ==
    ASSUME IInv, RInv, Solo, RunQuit
    PROVE  Solo'
<1>1. /\ phase = "prove" /\ phase' = "exit"
      /\ client' = [client EXCEPT ![Runner] = Idle]
      /\ UNCHANGED <<account, mempool, next>> /\ Settled
  BY DEF RunQuit, Quit, Goto, Stop, Solo, Place
<1>2. LandedInOrder' /\ SentInOrder' /\ Landed(RunDist)' = Landed(RunDist)
  BY <1>1 DEF Solo, LandedInOrder, SentInOrder, IsNextClaim, Live, Landed
<1>3. OthersIdle' /\ client'[Runner] = Idle
  BY <1>1, RunnerFacts DEF Solo, OthersIdle, IInv, TypeOK
<1>4. Pending'
  BY <1>1, <1>2, LandedIsNat
  DEF Settled, Pending, IInv, TypeOK, PPETx, DistributionState, RInv, RunShape
<1> QED
  BY <1>1, <1>2, <1>3, <1>4 DEF Solo, Place

(* The sequencer: one of the script's own transactions, and only the last. *)
LEMMA SoloLanding ==
    ASSUME IInv, RInv, Solo, UNCHANGED scriptVars, NEW tx \in mempool, IncludeClaim(tx)
    PROVE  Solo'
<1> DEFINE n == Len(tx.pre.spent_nullifiers)
<1>1. /\ tx.dist = RunDist /\ n + 1 \in DOMAIN Claims
      /\ tx.post.spent_nullifiers = Append(tx.pre.spent_nullifiers, OwnNullifier(n + 1))
  BY DEF Solo, SentInOrder, IsNextClaim
<1>2. /\ tx.pre \in DistributionState /\ tx.post \in DistributionState
      /\ tx.pre # NoState /\ tx.post # NoState
  BY NoStateAssumption DEF IInv, TypeOK, PPETx
<1>3. /\ account[RunDist] = tx.pre /\ account'[RunDist] = tx.post
      /\ UNCHANGED <<mempool, client, phase, next>>
  BY <1>1, RunnerFacts DEF IncludeClaim, IInv, TypeOK, scriptVars
<1>4. n \in Nat /\ Len(tx.post.spent_nullifiers) = n + 1
  BY <1>1, <1>2 DEF DistributionState
<1>5. Landed(RunDist) = n /\ Landed(RunDist)' = n + 1
  BY <1>2, <1>3, <1>4 DEF Landed, Live
<1>6. phase \in {"landPoll", "exit"} /\ Pending
  BY <1>4, <1>5 DEF Solo, Place, Settled, RInv, RunShape
<1>7. LandedInOrder'
  <2>1. \A i \in 1 .. n : i \in DOMAIN Claims /\ tx.pre.spent_nullifiers[i] = OwnNullifier(i)
    BY <1>2, <1>3 DEF Solo, LandedInOrder, Live, DistributionState
  <2>2. \A i \in 1 .. n : tx.post.spent_nullifiers[i] = tx.pre.spent_nullifiers[i]
    BY <1>1, <1>2 DEF DistributionState
  <2>3. tx.post.spent_nullifiers[n + 1] = OwnNullifier(n + 1)
    BY <1>1, <1>2 DEF DistributionState
  <2>4. DOMAIN tx.post.spent_nullifiers = 1 .. n + 1
    BY <1>2, <1>4 DEF DistributionState
  <2>5. \A i \in 1 .. n + 1 : i \in 1 .. n \/ i = n + 1
    BY <1>4
  <2> QED
    BY <1>1, <1>3, <2>1, <2>2, <2>3, <2>4, <2>5 DEF LandedInOrder, OwnNullifier
<1>8. SentInOrder' /\ OthersIdle'
  BY <1>3 DEF Solo, SentInOrder, OthersIdle, IsNextClaim
<1>9. Pending'
  BY <1>3, <1>4, <1>5, <1>6 DEF Pending, RInv, RunShape
<1> QED
  BY <1>3, <1>6, <1>7, <1>8, <1>9 DEF Solo, Place

LEMMA SoloOpening ==
    ASSUME IInv, RInv, Solo, UNCHANGED scriptVars, Initialize(RunDist, RunOffer)
    PROVE  Solo'
<1> DEFINE s0 == InitialState(RunOffer.merkle_root, RunOffer.claim_circuit_program_id,
                              RunOffer.total_supply)
<1>1. /\ account[RunDist] = NoState /\ account'[RunDist] = s0
      /\ UNCHANGED <<mempool, client, phase, next>>
  BY RunnerFacts DEF Initialize, IInv, TypeOK, scriptVars
<1>2. s0.spent_nullifiers = <<>>
  BY DEF InitialState
<1> HIDE DEF s0
<1>3. Landed(RunDist) = 0 /\ Landed(RunDist)' = 0
  BY <1>1, <1>2 DEF Landed, Live
<1>4. LandedInOrder'
  BY <1>1, <1>2 DEF LandedInOrder
<1>5. SentInOrder' /\ OthersIdle'
  BY <1>1 DEF Solo, SentInOrder, OthersIdle, IsNextClaim
<1>6. (Settled => Settled') /\ (Pending => Pending')
  BY <1>1, <1>3 DEF Settled, Pending
<1>7. AtNextClaim(Runner)' = AtNextClaim(Runner)
  BY <1>1 DEF AtNextClaim, IsNextClaim
<1> QED
  BY <1>1, <1>4, <1>5, <1>6, <1>7 DEF Solo, Place

LEMMA RunKeeps == IInv /\ RInv /\ [RunNext]_runVars => RInv'
<1> SUFFICES ASSUME IInv, RInv, [RunNext]_runVars PROVE RInv'
  OBVIOUS
<1>1. RunShape' /\ NeverAhead'
  BY ShapeKept, NeverAheadKept DEF RInv
<1>2. company' = company
  BY WaitingStep DEF RInv, RunNext, Script, Waiting, RunFetch, RunProve, RunSend, RunQuit, LandSeen,
                     Chain, scriptVars, runVars, Goto, Stop
<1>3. ASSUME ~company PROVE Solo'
  <2>1. Solo
    BY <1>3 DEF RInv
  <2>2. CASE Script
    BY <2>1, <2>2, SoloWaiting, SoloRow, SoloFetch, SoloProve, SoloSend, SoloQuit
    DEF Script, Waiting
  <2>3. CASE Chain
    BY <1>3, <2>1, <2>3, SoloOpening, SoloLanding DEF Chain
  <2>4. CASE UNCHANGED runVars
    BY <2>1, <2>4 DEF runVars, vars, scriptVars, Solo, LandedInOrder, SentInOrder, OthersIdle,
                      IsNextClaim, Place, Settled, Pending, AtNextClaim, Landed, Live
  <2> QED
    BY <2>2, <2>3, <2>4 DEF RunNext
<1> QED
  BY <1>1, <1>2, <1>3 DEF RInv

(* The script, others and the sequencer together keep to AirdropChain, and *)
(* the table is never ahead of the chain; alone with its distribution, the *)
(* script is in step with it.                                              *)
THEOREM RunSoundness == RunSpec => Spec /\ [](IInv /\ RInv)
<1>1. RunInit => Init /\ IInv /\ RInv
  BY InitSound, RunInitSound DEF RunInit
<1>2. IInv /\ RInv /\ [RunNext]_runVars => [Next]_vars /\ IInv' /\ RInv'
  BY RunStep, NextSound, RunKeeps
<1> QED
  BY <1>1, <1>2, PTL DEF RunSpec, Spec

(* Every loop counts its polls.                                            *)
LEMMA PollsCountedKept ==
    ASSUME RunShape, PollsCounted, [RunNext]_runVars
    PROVE  PollsCounted'
<1>1. InitPolls \in Nat \ {0} /\ LandPolls \in Nat \ {0} /\ polls \in Nat
  BY RunAssumption DEF RunShape
<1> QED
  BY <1>1
  DEF PollsCounted, RunNext, Script, Chain, StartRun, InitSeen, InitMissed, InitGivenUp,
      LogInitialized, RunFetch, RunProve, RunSend, RunQuit, LandSeen, LandMissed, LandGivenUpOn,
      Finished, Goto, Stop, scriptVars, runVars

LEMMA PollsAreCounted == RunSpec => []PollsCounted
<1>1. RunInit => PollsCounted
  BY DEF RunInit, PollsCounted
<1>2. RInv /\ PollsCounted /\ [RunNext]_runVars => PollsCounted'
  BY PollsCountedKept DEF RInv
<1> QED
  BY <1>1, <1>2, RunSoundness, PTL DEF RunSpec

(* The script's variables hold what they should, and each of its waits     *)
(* makes fewer polls than it may before it is left.                        *)
THEOREM RunTypeCorrect == RunSpec => []RunTypeOK
<1>1. IInv /\ RInv /\ PollsCounted => RunTypeOK
  BY RunnerFacts DEF IInv, RInv, RunShape, RunTypeOK
<1> QED
  BY <1>1, RunSoundness, PollsAreCounted, PTL

(* Whenever the script stops, whatever timed out and whatever still lands, *)
(* it has skipped nobody and at most one claim of its own is undecided.    *)
THEOREM AtMostOneInFlight == RunSpec => []OneClaimInFlight
<1>1. IInv /\ RInv => OneClaimInFlight
  <2> SUFFICES ASSUME IInv, RInv PROVE OneClaimInFlight
    OBVIOUS
  <2>1. next \in Nat
    BY DEF RInv, RunShape
  <2>2. ~company => Landed(RunDist) <= next + 1
    BY <2>1 DEF RInv, Solo, Place, Settled, Pending
  <2> QED
    BY <2>2 DEF RInv, NeverAhead, OneClaimInFlight
<1> QED
  BY <1>1, RunSoundness, PTL

(* Alone with its distribution the script writes down what happened: row i *)
(* is the i-th claim on chain.                                             *)
THEOREM EvidenceHolds == RunSpec => []EvidenceIsTrue
<1>1. IInv /\ RInv => EvidenceIsTrue
  <2> SUFFICES ASSUME IInv, RInv, ~company, NEW i \in DOMAIN evidence
               PROVE  /\ HasLanded(evidence[i])
                      /\ account[RunDist].spent_nullifiers[i] =
                            Nullifier(evidence[i].account_id, RunDist)
    BY DEF EvidenceIsTrue
  <2>1. i \in 1 .. next /\ evidence[i] = Claims[i] /\ next \in Nat
    BY DEF RInv, RunShape
  <2>2. i <= Landed(RunDist) /\ Landed(RunDist) \in Nat
    BY <2>1, LandedIsNat DEF RInv, NeverAhead
  <2>3. Live(RunDist) /\ i \in DOMAIN account[RunDist].spent_nullifiers
    BY <2>1, <2>2, RunnerFacts DEF Landed, IInv, TypeOK, Live, DistributionState
  <2>4. i \in DOMAIN Claims /\ account[RunDist].spent_nullifiers[i] = OwnNullifier(i)
    BY <2>3 DEF RInv, Solo, LandedInOrder
  <2>5. Claims[i].dist = RunDist
    BY <2>4, RunnerFacts
  <2> QED
    BY <2>1, <2>3, <2>4, <2>5 DEF HasLanded, OwnNullifier, Spent
<1> QED
  BY <1>1, RunSoundness, PTL

-----------------------------------------------------------------------------
(* With other claimants a row may be wrong when it is written.  But if the *)
(* script comes to its end, as many nullifiers are spent as there are on   *)
(* its list, no two the same and none that is not of the list.             *)
RunTerms ==
    Live(RunDist) =>
        /\ account[RunDist].merkle_root = RunOffer.merkle_root
        /\ account[RunDist].claim_circuit_program_id = RunOffer.claim_circuit_program_id

LEMMA RunTermsKept ==
    ASSUME IInv, RunTerms, RInv, [RunNext]_runVars
    PROVE  RunTerms'
<1>1. CASE Live(RunDist)
  <2>1. account[RunDist] \in DistributionState
    BY <1>1, RunnerFacts DEF IInv, TypeOK, Live
  <2>2. Past(account[RunDist], account'[RunDist])
    BY <2>1, RunnerFacts, PastReflexive, PastStays, RunStep
  <2> QED
    BY <1>1, <2>2 DEF Past, Terms, RunTerms
<1>2. CASE ~Live(RunDist)
  <2>1. CASE Initialize(RunDist, RunOffer)
    <3>1. account'[RunDist] = InitialState(RunOffer.merkle_root,
              RunOffer.claim_circuit_program_id, RunOffer.total_supply)
      BY <2>1, RunnerFacts DEF Initialize, IInv, TypeOK
    <3> QED
      BY <3>1 DEF RunTerms, InitialState
  <2>2. ASSUME NEW tx \in mempool, IncludeClaim(tx) PROVE ~Live(RunDist)'
    <3>1. tx.pre \in DistributionState
      BY DEF IInv, TypeOK, PPETx
    <3> QED
      BY <1>2, <2>2, <3>1, NoStateAssumption, RunnerFacts DEF IncludeClaim, Live, IInv, TypeOK
  <2>3. CASE UNCHANGED account
    BY <1>2, <2>3 DEF Live, RunTerms
  <2>4. CASE Script
    BY <2>3, <2>4, WaitingStep
    DEF RInv, Script, Waiting, RunFetch, RunProve, RunSend, RunQuit, LandSeen,
        Fetch, Prove, Send, Quit, vars
  <2>5. CASE Chain
    BY <2>1, <2>2, <2>3, <2>5 DEF Chain, Fetch, Prove, Send, Quit, RunTerms
  <2> QED
    BY <2>3, <2>4, <2>5 DEF RunNext, runVars, vars
<1> QED
  BY <1>1, <1>2

(* n or more different values, each one of f[1] .. f[n]: all of them.      *)
Distinct(s, m) == \A j, k \in 1 .. m : s[j] = s[k] => j = k
Among(s, m, f, n) == \A j \in 1 .. m : \E i \in 1 .. n : s[j] = f[i]

LEMMA EverybodyIsThere ==
    ASSUME NEW n \in Nat, NEW m \in Nat, n <= m, NEW f, NEW s,
           Distinct(s, m), Among(s, m, f, n)
    PROVE  Among(f, n, s, m)
<1> USE DEF Distinct, Among
<1> SUFFICES ASSUME NEW i \in 1 .. n, \A j \in 1 .. m : s[j] # f[i] PROVE FALSE
  OBVIOUS
<1> DEFINE rest == (1 .. n) \ {i}
           g == [j \in 1 .. m |-> CHOOSE k \in 1 .. n : s[j] = f[k]]
<1>1. \A j \in 1 .. m : g[j] \in 1 .. n /\ s[j] = f[g[j]]
  OBVIOUS
<1>2. g \in [1 .. m -> rest]
  BY <1>1
<1>3. /\ IsFiniteSet(1 .. m) /\ Cardinality(1 .. m) = m
      /\ IsFiniteSet(1 .. n) /\ Cardinality(1 .. n) = n
  <2>1. 1 \in Int /\ m \in Int /\ n \in Int
    OBVIOUS
  <2>2. /\ IsFiniteSet(1 .. m) /\ Cardinality(1 .. m) = IF 1 > m THEN 0 ELSE m - 1 + 1
        /\ IsFiniteSet(1 .. n) /\ Cardinality(1 .. n) = IF 1 > n THEN 0 ELSE n - 1 + 1
    BY <2>1, FS_Interval
  <2> QED
    BY <2>2
<1>4. IsFiniteSet(rest) /\ Cardinality(rest) = n - 1
  BY <1>3, FS_RemoveElement
<1> DEFINE places == 1 .. m
<1> HIDE DEF rest, g
<1>5. PICK j \in places, k \in places : j # k /\ g[j] = g[k]
  <2>1. Cardinality(rest) < Cardinality(places) /\ IsFiniteSet(places) /\ g \in [places -> rest]
    BY <1>2, <1>3, <1>4
  <2> HIDE DEF places
  <2> QED
    BY <1>4, <2>1, FS_PigeonHole
<1> QED
  BY <1>1, <1>5

(* If the distribution was offered for a build of the claim circuit and a  *)
(* tree of nobody but the script's claimants, then the script, whoever     *)
(* else claimed and whichever wait ended for the wrong reason, does not    *)
(* come to its end before every claimant of its list has claimed.          *)
THEOREM DoneIsDone ==
    ASSUME RunOffer.claim_circuit_program_id \in CircuitBuilds,
           \A p \in Committed[RunOffer.merkle_root] :
               \E i \in DOMAIN Claims : p[1] = Claims[i].account_id
    PROVE  RunSpec => []DoneMeansAllLanded
<1>1. RunInit => RunTerms
  BY RunnerFacts DEF RunInit, Init, RunTerms, Live
<1>2. IInv /\ RInv /\ RunTerms /\ [RunNext]_runVars => RunTerms'
  BY RunTermsKept
<1>3. IInv /\ RInv /\ RunTerms => DoneMeansAllLanded
  <2> SUFFICES ASSUME IInv, RInv, RunTerms, phase = "done", NEW i \in DOMAIN Claims
               PROVE  HasLanded(Claims[i])
    BY DEF DoneMeansAllLanded
  <2> DEFINE n == Len(Claims)
             m == Landed(RunDist)
             S == account[RunDist].spent_nullifiers
             s == [k \in 1 .. m |-> S[k]]
             f == [k \in 1 .. n |-> OwnNullifier(k)]
  <2>1. i \in 1 .. n /\ n \in Nat /\ m \in Nat /\ n <= m
    BY RunnerFacts, LandedIsNat DEF RInv, RunShape, NeverAhead
  <2>2. Live(RunDist) /\ DOMAIN S = 1 .. m
    BY <2>1, RunnerFacts DEF Landed, IInv, TypeOK, Live, DistributionState
  <2>3. Sound(RunDist, account[RunDist])
    BY <2>2, RunnerFacts DEF IInv, AccountsSound
  <2>4. \A j, k \in 1 .. m : s[j] = s[k] => j = k
    BY <2>2, <2>3 DEF Sound
  <2>5. \A j \in 1 .. m : \E k \in 1 .. n : s[j] = f[k]
    <3> SUFFICES ASSUME NEW j \in 1 .. m PROVE \E k \in 1 .. n : s[j] = f[k]
      OBVIOUS
    <3>1. PICK p \in Committed[RunOffer.merkle_root] : s[j] = Nullifier(p[1], RunDist)
      BY <2>2, <2>3 DEF Sound, RunTerms
    <3>2. PICK k \in DOMAIN Claims : p[1] = Claims[k].account_id
      OBVIOUS
    <3> QED
      BY <3>1, <3>2, RunnerFacts DEF OwnNullifier
  <2>6. Among(f, n, s, m)
    <3>1. Distinct(s, m) /\ Among(s, m, f, n)
      BY <2>4, <2>5 DEF Distinct, Among
    <3> HIDE DEF s, n, m, f, S
    <3> QED
      BY <2>1, <3>1, EverybodyIsThere
  <2>7. Spent(account[RunDist], OwnNullifier(i)) /\ Claims[i].dist = RunDist
    BY <2>1, <2>2, <2>6, RunnerFacts DEF Spent, Among
  <2> QED
    BY <2>2, <2>7 DEF HasLanded, OwnNullifier
<1> QED
  BY <1>1, <1>2, <1>3, RunSoundness, PTL DEF RunSpec

-----------------------------------------------------------------------------
(* Rows that are still to be written, and the steps they may take.         *)
Rows == Len(Claims) - next
RowSteps == Rows * (LandPolls + 3)

(* A wait has a poll left as long as it lasts.                             *)
(* A row's steps are enough for its claim and its wait.                    *)
LEMMA RowsTakeSteps ==
    ASSUME RunShape
    PROVE  /\ RowSteps \in Nat
           /\ next < Len(Claims) => RowSteps >= LandPolls + 3
           /\ next < Len(Claims) /\ next' = next + 1 => RowSteps' = RowSteps - (LandPolls + 3)
<1>1. next \in 0 .. Len(Claims) /\ Len(Claims) \in Nat /\ LandPolls \in Nat
  BY RunAssumption DEF RunShape
<1>2. Rows \in Nat
  BY <1>1 DEF Rows
<1> DEFINE B == LandPolls + 3
<1>3. B \in Nat
  BY <1>1
<1>4. RowSteps = Rows * B
  BY DEF RowSteps
<1> HIDE DEF B
<1>5. RowSteps \in Nat
  BY <1>2, <1>3, <1>4
<1>6. ASSUME next < Len(Claims) PROVE RowSteps >= B
  <2>1. PICK m \in Nat : Rows = m + 1
    <3>1. Rows - 1 \in Nat /\ Rows = (Rows - 1) + 1
      BY <1>1, <1>6 DEF Rows
    <3> QED
      BY <3>1
  <2>2. m * B \in Nat /\ (m + 1) * B = m * B + B
    BY <1>3
  <2> QED
    BY <1>3, <1>4, <2>1, <2>2
<1>7. ASSUME next' = next + 1 PROVE RowSteps' = RowSteps - B
  <2>1. Rows' = Rows - 1
    BY <1>1, <1>7 DEF Rows
  <2>2. RowSteps' = Rows' * B
    BY DEF RowSteps, B
  <2>3. (Rows - 1) * B = Rows * B - B
    BY <1>2, <1>3
  <2> QED
    BY <1>4, <2>1, <2>2, <2>3
<1> QED
  BY <1>5, <1>6, <1>7 DEF B

(* The steps left, phase by phase, now and after a step.                   *)
LEMMA StepsLeftIs ==
    /\ phase = "start"       => StepsLeft = RowSteps + InitPolls + 3
    /\ phase = "initPoll"    => StepsLeft = RowSteps + InitPolls - polls + 2
    /\ phase = "initialized" => StepsLeft = RowSteps + 2
    /\ phase = "claim"       => StepsLeft = RowSteps + 1
    /\ phase = "prove" /\ client[Runner].phase = "fetched" => StepsLeft = RowSteps
    /\ phase = "prove" /\ client[Runner].phase # "fetched" => StepsLeft = RowSteps - 1
    /\ phase = "landPoll"    => StepsLeft = RowSteps - polls - 2
    /\ phase = "done"        => StepsLeft = 0
    /\ phase = "exit"        => StepsLeft = 0
BY DEF StepsLeft, RowSteps, Rows

LEMMA StepsLeftBecomes ==
    /\ phase' = "start"       => StepsLeft' = RowSteps' + InitPolls + 3
    /\ phase' = "initPoll"    => StepsLeft' = RowSteps' + InitPolls - polls' + 2
    /\ phase' = "initialized" => StepsLeft' = RowSteps' + 2
    /\ phase' = "claim"       => StepsLeft' = RowSteps' + 1
    /\ phase' = "prove" /\ client'[Runner].phase = "fetched" => StepsLeft' = RowSteps'
    /\ phase' = "prove" /\ client'[Runner].phase # "fetched" => StepsLeft' = RowSteps' - 1
    /\ phase' = "landPoll"    => StepsLeft' = RowSteps' - polls' - 2
    /\ phase' = "done"        => StepsLeft' = 0
    /\ phase' = "exit"        => StepsLeft' = 0
BY DEF StepsLeft, RowSteps, Rows

(* The script never has less than no step left.                            *)
LEMMA StepsLeftIsNat ==
    ASSUME RunShape, PollsCounted
    PROVE  StepsLeft \in Nat
<1>1. /\ RowSteps \in Nat /\ (next < Len(Claims) => RowSteps >= LandPolls + 3)
      /\ InitPolls \in Nat /\ LandPolls \in Nat /\ polls \in Nat
  BY RowsTakeSteps, RunAssumption DEF RunShape
<1> QED
  BY <1>1, StepsLeftIs DEF RunShape, PollsCounted

(* Whatever a step of the script finds, fewer are left.                    *)
LEMMA ScriptTakesSteps ==
    ASSUME IInv, RunShape, PollsCounted, Script
    PROVE  StepsLeft' < StepsLeft
<1> USE RunAssumption
<1>1. /\ RowSteps \in Nat /\ (next < Len(Claims) => RowSteps >= LandPolls + 3)
      /\ InitPolls \in Nat /\ LandPolls \in Nat /\ polls \in Nat
  BY RowsTakeSteps DEF RunShape
<1>2. next' = next => RowSteps' = RowSteps
  BY DEF RowSteps, Rows
<1>3. CASE StartRun \/ InitSeen \/ InitMissed \/ InitGivenUp \/ LogInitialized \/ Finished
  BY <1>1, <1>2, <1>3, StepsLeftIs, StepsLeftBecomes
  DEF StartRun, InitSeen, InitMissed, InitGivenUp, LogInitialized, Finished, Goto, Stop,
      PollsCounted
<1>4. CASE RunFetch
  <2>1. client'[Runner].phase = "fetched"
    BY <1>4, RunnerFacts DEF RunFetch, Fetch, Fetched, IInv, TypeOK
  <2> QED
    BY <1>1, <1>2, <1>4, <2>1, StepsLeftIs, StepsLeftBecomes DEF RunFetch, Goto
<1>5. CASE RunProve
  <2>1. client[Runner].phase = "fetched" /\ client'[Runner].phase # "fetched"
    BY <1>5, RunnerFacts DEF RunProve, Prove, Proved, Failed, IInv, TypeOK
  <2> QED
    BY <1>1, <1>2, <1>5, <2>1, StepsLeftIs, StepsLeftBecomes DEF RunProve, scriptVars
<1>6. CASE RunSend
  <2>1. client[Runner].phase # "fetched" /\ next < Len(Claims)
    BY <1>6 DEF RunSend, Send, RunShape
  <2> QED
    BY <1>1, <1>2, <1>6, <2>1, StepsLeftIs, StepsLeftBecomes DEF RunSend, Goto, Stop
<1>7. CASE RunQuit
  <2>1. next < Len(Claims)
    BY <1>7 DEF RunQuit, RunShape
  <2> QED
    BY <1>1, <1>2, <1>7, <2>1, StepsLeftIs, StepsLeftBecomes DEF RunQuit, Goto, Stop
<1>8. CASE LandSeen
  <2>1. next < Len(Claims) /\ next' = next + 1
    BY <1>8 DEF LandSeen, RunShape
  <2>2. RowSteps' = RowSteps - (LandPolls + 3)
    BY <2>1, RowsTakeSteps
  <2> QED
    BY <1>1, <1>8, <2>1, <2>2, StepsLeftIs, StepsLeftBecomes DEF LandSeen, PollsCounted
<1>9. CASE LandMissed \/ LandGivenUpOn
  <2>1. next < Len(Claims)
    BY <1>9 DEF LandMissed, LandGivenUpOn, RunShape
  <2> QED
    BY <1>1, <1>2, <1>9, <2>1, StepsLeftIs, StepsLeftBecomes DEF LandMissed, LandGivenUpOn, Goto, Stop, PollsCounted
<1> QED
  BY <1>3, <1>4, <1>5, <1>6, <1>7, <1>8, <1>9 DEF Script

(* The sequencer and other claimants leave the script's steps alone.       *)
LEMMA ChainTakesNone ==
    ASSUME IInv, Chain
    PROVE  StepsLeft' = StepsLeft
<1>1. UNCHANGED scriptVars
  BY DEF Chain
<1>2. client'[Runner] = client[Runner]
  BY RunnerFacts DEF Chain, Initialize, IncludeClaim, Fetch, Prove, Send, Quit, IInv, TypeOK
<1> QED
  BY <1>1, <1>2 DEF StepsLeft, scriptVars

(* The script takes at most StepsLeft more steps, for every number of      *)
(* claimants and polls and whatever the chain does in between: at first    *)
(* InitPolls + 3, and LandPolls + 3 for each claimant.                     *)
THEOREM ScriptRunsOut == RunSpec => ScriptStepsAreBounded
<1>1. RInv /\ PollsCounted => StepsLeft \in Nat
  BY StepsLeftIsNat DEF RInv
<1>2. IInv /\ RInv /\ PollsCounted /\ (StepsLeft \in Nat)' /\ [RunNext]_runVars =>
        [/\ StepsLeft' \in Nat
         /\ IF Script THEN StepsLeft' < StepsLeft ELSE StepsLeft' = StepsLeft]_runVars
  <2> SUFFICES ASSUME IInv, RInv, PollsCounted, (StepsLeft \in Nat)', RunNext
               PROVE  /\ StepsLeft' \in Nat
                      /\ IF Script THEN StepsLeft' < StepsLeft ELSE StepsLeft' = StepsLeft
    OBVIOUS
  <2>1. CASE Script
    BY <2>1, ScriptTakesSteps DEF RInv
  <2>2. CASE ~Script
    BY <2>2, ChainTakesNone DEF RunNext
  <2> QED
    BY <2>1, <2>2
<1> QED
  BY <1>1, <1>2, RunSoundness, PollsAreCounted, PTL DEF RunSpec, ScriptStepsAreBounded
=============================================================================
