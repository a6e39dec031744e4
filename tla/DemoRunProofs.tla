---------------------------- MODULE DemoRunProofs ----------------------------
(***************************************************************************)
(* Proofs about DemoRun, for any number of polls and whatever requests the *)
(* claimant makes from other shells: the demo looks for an amount and a    *)
(* count of one in the account's data, and in a distribution to a single   *)
(* account that is enough, then and for ever after.                        *)
(***************************************************************************)
EXTENDS DemoRun, AirdropChainProofs

DD == DemoClaim.dist
Own == Nullifier(DemoClaim.account_id, DD)

(* The distribution is the one the script asked for.                       *)
DemoTerms ==
    Live(DD) =>
        /\ account[DD].merkle_root = DemoOffer.merkle_root
        /\ account[DD].claim_circuit_program_id = DemoOffer.claim_circuit_program_id

(* What "Demo complete" was said of: the account's only claim.             *)
DemoClaimed ==
    phase = "complete" /\ "--chain" \in args =>
        /\ Live(DD)
        /\ Spent(account[DD], Own)
        /\ account[DD].claimed = DemoClaim.allocation

ForOne ==
    /\ DemoOffer.claim_circuit_program_id \in CircuitBuilds
    /\ \A p \in Committed[DemoOffer.merkle_root] : p[1] = DemoClaim.account_id

-----------------------------------------------------------------------------
LEMMA DemoFacts == DD \in Distributions /\ Demo \in Clients /\ DemoClaim \in Requests
BY DemoAssumption, RequestsAssumption DEF DD

LEMMA DemoStep ==
    ASSUME [DemoNext]_<<vars, demoVars>>
    PROVE  [Next]_vars
<1>1. CASE Script
  BY <1>1, DemoFacts
  DEF Script, TakeOptions, BuildAndInitialize, InitSeen, InitNotSeen, Receipt, Poll, DemoFetch,
      DemoProve, DemoSend, DemoQuit, LandSeen, LandNotSeen, Next
<1>2. CASE Elsewhere
  BY <1>2, DemoFacts, DemoAssumption DEF Elsewhere, Next, DD
<1> QED
  BY <1>1, <1>2 DEF DemoNext

(* The script itself never writes the account.                             *)
LEMMA ScriptOnlyLooks ==
    ASSUME Script
    PROVE  account' = account
BY DEF Script, TakeOptions, BuildAndInitialize, InitSeen, InitNotSeen, Receipt, Poll, DemoFetch,
       DemoProve, DemoSend, DemoQuit, LandSeen, LandNotSeen, Fetch, Prove, Send, Quit, vars

LEMMA DemoTermsKept ==
    ASSUME IInv, DemoTerms, [DemoNext]_<<vars, demoVars>>
    PROVE  DemoTerms'
<1>1. CASE account' = account
  BY <1>1 DEF DemoTerms, Live
<1>2. CASE Initialize(DD, DemoOffer)
  <2>1. account'[DD] = InitialState(DemoOffer.merkle_root, DemoOffer.claim_circuit_program_id,
                                    DemoOffer.total_supply)
    BY <1>2, DemoFacts DEF Initialize, IInv, TypeOK
  <2> QED
    BY <2>1 DEF DemoTerms, InitialState
<1>3. CASE Live(DD)
  <2>1. account[DD] \in DistributionState
    BY <1>3, DemoFacts DEF IInv, TypeOK, Live
  <2>2. Past(account[DD], account'[DD])
    BY <2>1, DemoFacts, DemoStep, PastReflexive, PastStays
  <2> QED
    BY <1>3, <2>2 DEF Past, Terms, DemoTerms
<1>4. ASSUME NEW tx \in mempool, IncludeClaim(tx), ~Live(DD) PROVE ~Live(DD)'
  <2>1. tx.pre \in DistributionState
    BY DEF IInv, TypeOK, PPETx
  <2> QED
    BY <1>4, <2>1, NoStateAssumption, DemoFacts DEF IncludeClaim, Live, IInv, TypeOK
<1>5. CASE Elsewhere
  BY <1>1, <1>2, <1>3, <1>4, <1>5 DEF Elsewhere, Fetch, Prove, Send, Quit, DemoTerms, DD
<1> QED
  BY <1>1, <1>5, ScriptOnlyLooks DEF DemoNext, vars

(* An account all of whose claimants have claimed does not change again.   *)
LEMMA NothingLeftToClaim ==
    ASSUME IInv, [Next]_vars, ForOne, DemoTerms, Live(DD), Spent(account[DD], Own)
    PROVE  account'[DD] = account[DD]
<1>1. account[DD] \in DistributionState /\ account[DD] # NoState
  BY DemoFacts DEF IInv, TypeOK, Live
<1>2. ASSUME Landing(DD, account[DD], account'[DD]) PROVE FALSE
  <2>1. PICK n \in Nullifiers, v \in Allocations : Step(DD, account[DD], account'[DD], n, v)
    BY <1>2 DEF Landing
  <2>2. PICK p \in Committed[DemoOffer.merkle_root] : n = Nullifier(p[1], DD)
    BY <2>1 DEF Step, ForOne, DemoTerms
  <2>3. n = Own
    BY <2>2 DEF ForOne, Own
  <2> QED
    BY <2>1, <2>3 DEF Step
<1> QED
  BY <1>1, <1>2, AccountStep, DemoFacts

LEMMA DemoClaimedKept ==
    ASSUME IInv, ForOne, DemoTerms, DemoClaimed, [DemoNext]_<<vars, demoVars>>
    PROVE  DemoClaimed'
<1> SUFFICES ASSUME phase' = "complete", "--chain" \in args'
             PROVE  /\ Live(DD)'
                    /\ Spent(account'[DD], Own)
                    /\ account'[DD].claimed = DemoClaim.allocation
  BY DEF DemoClaimed
<1>1. CASE UNCHANGED demoVars
  <2>1. Live(DD) /\ Spent(account[DD], Own) /\ account[DD].claimed = DemoClaim.allocation
    BY <1>1 DEF demoVars, DemoClaimed
  <2>2. account'[DD] = account[DD]
    BY <2>1, DemoStep, NothingLeftToClaim
  <2> QED
    BY <2>1, <2>2 DEF Live
<1>2. CASE LandSeen
  <2>1. /\ Live(DD) /\ Landed(DD) = 1 /\ account[DD].claimed = DemoClaim.allocation
        /\ account' = account
    BY <1>2 DEF LandSeen, vars, DD
  <2>2. account[DD] \in DistributionState
    BY <2>1, DemoFacts DEF IInv, TypeOK, Live
  <2>3. 1 \in DOMAIN account[DD].spent_nullifiers
    BY <2>1, <2>2 DEF Landed, DistributionState
  <2>4. Sound(DD, account[DD])
    BY <2>1, DemoFacts DEF IInv, AccountsSound
  <2>5. PICK p \in Committed[DemoOffer.merkle_root] :
            account[DD].spent_nullifiers[1] = Nullifier(p[1], DD)
    BY <2>1, <2>3, <2>4 DEF Sound, DemoTerms, ForOne
  <2>6. Spent(account[DD], Own)
    BY <2>3, <2>5 DEF ForOne, Own, Spent
  <2> QED
    BY <2>1, <2>6 DEF Live
<1> QED
  BY <1>1, <1>2
  DEF DemoNext, Elsewhere, Script, TakeOptions, BuildAndInitialize, InitSeen, InitNotSeen,
      Receipt, Poll, DemoFetch, DemoProve, DemoSend, DemoQuit, LandNotSeen, Goto, Fail, demoVars

-----------------------------------------------------------------------------
(* The demo in front of it, the chain is that of AirdropChain.             *)
THEOREM DemoKeepsToTheChain == DemoSpec => Spec /\ []IInv /\ []DemoTerms
<1>1. DemoInit => Init /\ IInv /\ DemoTerms
  BY InitSound, DemoFacts DEF DemoInit, Init, DemoTerms, Live
<1>2. IInv /\ DemoTerms /\ [DemoNext]_<<vars, demoVars>> => [Next]_vars /\ IInv' /\ DemoTerms'
  BY DemoStep, NextSound, DemoTermsKept
<1> QED
  BY <1>1, <1>2, PTL DEF DemoSpec, Spec

(* In a distribution to one account, "Demo complete" is only said when its *)
(* claim, whichever shell it was sent from, has landed.                    *)
THEOREM CompleteIsClaimed ==
    ASSUME DemoOffer.claim_circuit_program_id \in CircuitBuilds,
           \A p \in Committed[DemoOffer.merkle_root] : p[1] = DemoClaim.account_id
    PROVE  DemoSpec => []CompleteMeansClaimed
<1>1. DemoInit => DemoClaimed
  BY DEF DemoInit, DemoClaimed
<1>2. IInv /\ DemoTerms /\ DemoClaimed /\ [DemoNext]_<<vars, demoVars>> => DemoClaimed'
  BY DemoClaimedKept DEF ForOne
<1>3. DemoClaimed => CompleteMeansClaimed
  BY DEF DemoClaimed, CompleteMeansClaimed, DD, Own
<1> QED
  BY <1>1, <1>2, <1>3, DemoKeepsToTheChain, PTL DEF DemoSpec

-----------------------------------------------------------------------------
(* Where the script can be, and that it counts its polls.                  *)
DemoShape ==
    /\ phase \in {"options", "build", "initPoll", "receipt", "claim", "landPoll", "complete", "error"}
    /\ polls \in 0 .. Polls

(* Every loop counts its polls.                                            *)
LEMMA DemoShapeKept ==
    ASSUME DemoShape, [DemoNext]_<<vars, demoVars>>
    PROVE  DemoShape'
<1>1. Polls \in Nat
  BY DemoAssumption
<1>2. CASE Script
  BY <1>1, <1>2
  DEF DemoShape, Script, TakeOptions, BuildAndInitialize, InitSeen, InitNotSeen, Receipt, Poll,
      DemoFetch, DemoProve, DemoSend, DemoQuit, LandSeen, LandNotSeen, Goto, Fail, demoVars
<1>3. CASE UNCHANGED demoVars
  BY <1>3 DEF DemoShape, demoVars
<1> QED
  BY <1>2, <1>3 DEF DemoNext, Elsewhere

(* The steps left, phase by phase, now and after a step.                   *)
LEMMA DemoStepsLeftIs ==
    /\ phase = "options"  => StepsLeft = 2 * Polls + 9
    /\ phase = "build"    => StepsLeft = 2 * Polls + 8
    /\ phase = "initPoll" => StepsLeft = 2 * Polls - polls + 7
    /\ phase = "receipt"  => StepsLeft = Polls + 6
    /\ phase = "claim" /\ client[Demo] = Idle => StepsLeft = Polls + 5
    /\ phase = "claim" /\ client[Demo] # Idle /\ client[Demo].phase = "fetched" =>
          StepsLeft = Polls + 4
    /\ phase = "claim" /\ client[Demo] # Idle /\ client[Demo].phase # "fetched" =>
          StepsLeft = Polls + 3
    /\ phase = "landPoll" => StepsLeft = Polls - polls + 1
    /\ phase = "complete" => StepsLeft = 0
    /\ phase = "error"    => StepsLeft = 0
BY DEF StepsLeft

LEMMA DemoStepsLeftBecomes ==
    /\ phase' = "options"  => StepsLeft' = 2 * Polls + 9
    /\ phase' = "build"    => StepsLeft' = 2 * Polls + 8
    /\ phase' = "initPoll" => StepsLeft' = 2 * Polls - polls' + 7
    /\ phase' = "receipt"  => StepsLeft' = Polls + 6
    /\ phase' = "claim" /\ client'[Demo] = Idle => StepsLeft' = Polls + 5
    /\ phase' = "claim" /\ client'[Demo] # Idle /\ client'[Demo].phase = "fetched" =>
          StepsLeft' = Polls + 4
    /\ phase' = "claim" /\ client'[Demo] # Idle /\ client'[Demo].phase # "fetched" =>
          StepsLeft' = Polls + 3
    /\ phase' = "landPoll" => StepsLeft' = Polls - polls' + 1
    /\ phase' = "complete" => StepsLeft' = 0
    /\ phase' = "error"    => StepsLeft' = 0
BY DEF StepsLeft

(* The script never has less than no step left.                            *)
LEMMA DemoStepsLeftIsNat ==
    ASSUME DemoShape
    PROVE  StepsLeft \in Nat
<1>1. Polls \in Nat /\ polls \in 0 .. Polls
  BY DemoAssumption DEF DemoShape
<1> QED
  BY <1>1, DemoStepsLeftIs DEF DemoShape

(* Whatever a step of the script finds, fewer are left.                    *)
LEMMA DemoTakesSteps ==
    ASSUME IInv, DemoShape, Script
    PROVE  StepsLeft' < StepsLeft
<1>1. Polls \in Nat /\ polls \in 0 .. Polls
  BY DemoAssumption DEF DemoShape
<1> USE DemoStepsLeftIs, DemoStepsLeftBecomes
<1>2. CASE TakeOptions \/ BuildAndInitialize
  BY <1>1, <1>2 DEF TakeOptions, BuildAndInitialize, Goto, Fail
<1>3. CASE InitSeen \/ InitNotSeen \/ Poll("initPoll") \/ Poll("landPoll")
  BY <1>1, <1>3 DEF InitSeen, InitNotSeen, Poll, Goto, Fail
<1>4. CASE Receipt
  BY <1>1, <1>4 DEF Receipt, Goto, Fail
<1>5. CASE DemoFetch
  <2>1. /\ client[Demo] = Idle
        /\ client'[Demo].phase = "fetched" /\ client'[Demo] # Idle
    BY <1>5, DemoFacts DEF DemoFetch, Fetch, Fetched, Idle, IInv, TypeOK
  <2> QED
    BY <1>1, <1>5, <2>1 DEF DemoFetch, demoVars
<1>6. CASE DemoProve
  <2>1. /\ client[Demo].phase = "fetched" /\ client[Demo] # Idle
        /\ client'[Demo].phase # "fetched" /\ client'[Demo] # Idle
    BY <1>6, DemoFacts DEF DemoProve, Prove, Proved, Failed, Idle, IInv, TypeOK
  <2> QED
    BY <1>1, <1>6, <2>1 DEF DemoProve, demoVars
<1>7. CASE DemoSend \/ DemoQuit
  <2>1. client[Demo] # Idle
    BY <1>7 DEF DemoSend, DemoQuit, Send, Quit, Idle
  <2> QED
    BY <1>1, <1>7, <2>1 DEF DemoSend, DemoQuit, Goto, Fail
<1>8. CASE LandSeen \/ LandNotSeen
  BY <1>1, <1>8 DEF LandSeen, LandNotSeen, Goto, Fail
<1> QED
  BY <1>2, <1>3, <1>4, <1>5, <1>6, <1>7, <1>8 DEF Script

(* The sequencer and other shells leave the script's steps alone.          *)
LEMMA ElsewhereTakesNone ==
    ASSUME IInv, Elsewhere
    PROVE  StepsLeft' = StepsLeft
<1>1. UNCHANGED demoVars
  BY DEF Elsewhere
<1>2. client'[Demo] = client[Demo]
  BY DemoFacts DEF Elsewhere, Initialize, IncludeClaim, Fetch, Prove, Send, Quit, IInv, TypeOK
<1> QED
  BY <1>1, <1>2 DEF StepsLeft, demoVars

(* However long its waits are, the demo takes at most 2 * Polls + 9 steps, *)
(* whatever the sequencer and the claimant's other shells do meanwhile.    *)
THEOREM DemoRunsOut == DemoSpec => DemoStepsAreBounded
<1>1. DemoInit => DemoShape
  BY DemoAssumption DEF DemoInit, DemoShape
<1>2. DemoShape /\ [DemoNext]_<<vars, demoVars>> => DemoShape'
  BY DemoShapeKept
<1>3. DemoShape => StepsLeft \in Nat
  BY DemoStepsLeftIsNat
<1>4. IInv /\ DemoShape /\ (StepsLeft \in Nat)' /\ [DemoNext]_<<vars, demoVars>> =>
        [/\ StepsLeft' \in Nat
         /\ IF Script THEN StepsLeft' < StepsLeft ELSE StepsLeft' = StepsLeft]_<<vars, demoVars>>
  <2> SUFFICES ASSUME IInv, DemoShape, (StepsLeft \in Nat)', DemoNext
               PROVE  /\ StepsLeft' \in Nat
                      /\ IF Script THEN StepsLeft' < StepsLeft ELSE StepsLeft' = StepsLeft
    OBVIOUS
  <2>1. CASE Script
    BY <2>1, DemoTakesSteps
  <2>2. CASE ~Script
    BY <2>2, ElsewhereTakesNone DEF DemoNext
  <2> QED
    BY <2>1, <2>2
<1> QED
  BY <1>1, <1>2, <1>3, <1>4, DemoKeepsToTheChain, PTL DEF DemoSpec, DemoStepsAreBounded
=============================================================================
