----------------------------- MODULE EvidenceRun -----------------------------
(***************************************************************************)
(* run_distribution of testnet_claims_run.sh, on the chain of AirdropChain *)
(* and next to whoever else claims from the same distribution: initialize, *)
(* poll until the account is there, then for one claimant after the other  *)
(* prove and send a claim and poll the nullifier count until it says that  *)
(* the claim landed.  A poll sees the live state or, when the RPC fails,   *)
(* nothing; how many polls fit before the sequencer acts is open, so each  *)
(* wait may time out, and what timed out may still land later.             *)
(***************************************************************************)
EXTENDS AirdropChain

CONSTANTS
    Runner,         \* the client process the script starts
    RunDist,        \* the distribution account it generated a key for
    RunOffer,       \* what it initializes the distribution with
    Claims,         \* the requests of its claimants, in order
    InitPolls,      \* polls for the account (60)
    LandPolls       \* polls for each claim (36)

VARIABLES
    phase,      \* where the script is
    next,       \* claims it has written down as landed
    polls,      \* polls made in the present wait
    evidence,   \* the claims in the evidence table
    company     \* whether others claim from the distribution as well

scriptVars == <<phase, next, polls, evidence, company>>
runVars == <<vars, scriptVars>>

ASSUME RunAssumption ==
    /\ Runner \in Clients /\ RunDist \in Distributions /\ RunOffer \in Offers
    /\ Claims \in Seq(Requests)
    /\ \A i \in DOMAIN Claims : Claims[i].dist = RunDist
    /\ InitPolls \in Nat \ {0} /\ LandPolls \in Nat \ {0}

RunInit ==
    /\ Init
    /\ phase = "start"
    /\ next = 0
    /\ polls = 0
    /\ evidence = <<>>
    /\ company \in BOOLEAN

Goto(where) ==
    /\ phase' = where
    /\ polls' = 0
    /\ UNCHANGED <<next, evidence, company>>

Stop == Goto("exit")

-----------------------------------------------------------------------------
(* `chain initialize` is sent, or fails and `set -e` ends the script.      *)
StartRun ==
    /\ phase = "start"
    /\ Goto("initPoll") \/ Stop
    /\ UNCHANGED vars

InitSeen ==
    /\ phase = "initPoll"
    /\ Live(RunDist)
    /\ Goto("initialized")
    /\ UNCHANGED vars

(* Deviation: the loop does not count its polls.                           *)
InitMissedUncounted == phase = "initPoll" /\ UNCHANGED runVars

(* The account is not there yet, or the RPC failed, or grep -q closed the  *)
(* pipe while `chain state` was still printing and pipefail counts that.   *)
InitMissed ==
    /\ phase = "initPoll"
    /\ polls + 1 < InitPolls
    /\ polls' = polls + 1
    /\ UNCHANGED <<vars, phase, next, evidence, company>>

(* The loop runs out and the script goes on as if it had seen the account. *)
InitGivenUp ==
    /\ phase = "initPoll"
    /\ polls + 1 = InitPolls
    /\ Goto("initialized")
    /\ UNCHANGED vars

(* log "dist $tag initialized on-chain", then on to the claims.            *)
LogInitialized ==
    /\ phase = "initialized"
    /\ Goto("claim")
    /\ UNCHANGED vars

-----------------------------------------------------------------------------
(* `chain claim` for the next claimant: the client's own steps.            *)
RunFetch ==
    /\ phase = "claim" /\ next < Len(Claims)
    /\ Fetch(Runner, Claims[next + 1])
    /\ Goto("prove")

RunProve ==
    /\ phase = "prove"
    /\ Prove(Runner)
    /\ UNCHANGED scriptVars

(* It prints the hash of what it sent, or its answer is lost.              *)
RunSend ==
    /\ phase = "prove"
    /\ Send(Runner)
    /\ Goto("landPoll") \/ Stop

(* It ends without a hash: an error code, a failed call.                   *)
RunQuit ==
    /\ phase = "prove"
    /\ Quit(Runner)
    /\ Stop

(* Deviation: any progress of the count is taken for this claim's.         *)
LandSeenAtLeast ==
    /\ phase = "landPoll"
    /\ Landed(RunDist) >= next
    /\ phase' = "claim" /\ polls' = 0
    /\ next' = next + 1
    /\ evidence' = Append(evidence, Claims[next + 1])
    /\ UNCHANGED <<vars, company>>

(* nullifier_count = want, where want = idx + 1.                           *)
LandSeen ==
    /\ phase = "landPoll"
    /\ Landed(RunDist) = next + 1
    /\ phase' = "claim" /\ polls' = 0
    /\ next' = next + 1
    /\ evidence' = Append(evidence, Claims[next + 1])
    /\ UNCHANGED <<vars, company>>

(* Deviation: the wait has no end.                                         *)
LandMissedUnbounded ==
    /\ phase = "landPoll"
    /\ polls' = polls + 1
    /\ UNCHANGED <<vars, phase, next, evidence, company>>

(* Another count, or -1 when `chain state` failed.                         *)
LandMissed ==
    /\ phase = "landPoll"
    /\ polls + 1 < LandPolls
    /\ polls' = polls + 1
    /\ UNCHANGED <<vars, phase, next, evidence, company>>

(* Deviation: the claim is made once more.                                 *)
LandRetried ==
    /\ phase = "landPoll"
    /\ polls + 1 = LandPolls
    /\ Goto("claim")
    /\ UNCHANGED vars

LandGivenUpOn ==
    /\ phase = "landPoll"
    /\ polls + 1 = LandPolls
    /\ Stop
    /\ UNCHANGED vars

(* The last `chain state`, for the evidence file, may fail as any other.   *)
Finished ==
    /\ phase = "claim" /\ next = Len(Claims)
    /\ Goto("done") \/ Stop
    /\ UNCHANGED vars

Script ==
    \/ StartRun \/ InitSeen \/ InitMissed \/ InitGivenUp \/ LogInitialized
    \/ RunFetch \/ RunProve \/ RunSend \/ RunQuit
    \/ LandSeen \/ LandMissed \/ LandGivenUpOn \/ Finished

-----------------------------------------------------------------------------
(* The sequencer runs what was sent; others claim as they like.            *)
Chain ==
    /\ \/ phase # "start" /\ Initialize(RunDist, RunOffer)
       \/ \E tx \in mempool : IncludeClaim(tx)
       \/ /\ company
          /\ \E c \in Clients \ {Runner} : \/ \E q \in Requests : Fetch(c, q)
                                           \/ Prove(c) \/ Send(c) \/ Quit(c)
    /\ UNCHANGED scriptVars

RunNext == Script \/ Chain

RunSpec == RunInit /\ [][RunNext]_runVars

(* The script is a loop over bounded waits, and the commands it runs end.  *)
FairRunSpec == RunSpec /\ WF_runVars(Script)

-----------------------------------------------------------------------------
(* No wait goes past its own number of polls, and each starts at none.     *)
PollsCounted ==
    /\ phase = "initPoll" => polls < InitPolls
    /\ phase = "landPoll" => polls < LandPolls
    /\ phase \notin {"initPoll", "landPoll"} => polls = 0

RunTypeOK ==
    /\ TypeOK
    /\ phase \in {"start", "initPoll", "initialized", "claim", "prove", "landPoll", "done", "exit"}
    /\ next \in 0 .. Len(Claims)
    /\ polls \in 0 .. InitPolls + LandPolls
    /\ evidence \in Seq(Requests)
    /\ company \in BOOLEAN

HasLanded(q) == Live(q.dist) /\ Spent(account[q.dist], Nullifier(q.account_id, q.dist))

(* If the script ends well, every claimant of its list has claimed, even   *)
(* if a wait ended because somebody else's claim raised the count.         *)
DoneMeansAllLanded == phase = "done" => \A i \in DOMAIN Claims : HasLanded(Claims[i])

(* Row k of the evidence table is the k-th nullifier on chain, unless there *)
(* are other claimants: what the script has written down when it stops     *)
(* half-way is what happened.                                              *)
EvidenceIsTrue ==
    ~company => \A i \in DOMAIN evidence :
        /\ HasLanded(evidence[i])
        /\ account[RunDist].spent_nullifiers[i] = Nullifier(evidence[i].account_id, RunDist)

(* The script never writes a row before a claim has landed for it and,     *)
(* when nobody else claims, the chain is at most one claim further than    *)
(* the table, also after the script has given up.                          *)
OneClaimInFlight ==
    /\ next <= Landed(RunDist)
    /\ ~company => Landed(RunDist) <= next + 1

(* The claim it waits for is the one it finds: no row is written for a     *)
(* claim whose nullifier is not on-chain (script lines 125-127).           *)
RowsHaveLanded == \A i \in DOMAIN evidence : HasLanded(evidence[i])

(* How many steps the script has left at most: a row takes up to           *)
(* LandPolls + 3 of them.                                                  *)
StepsLeft ==
    LET rows == (Len(Claims) - next) * (LandPolls + 3)
    IN  CASE phase = "start"            -> rows + InitPolls + 3
          [] phase = "initPoll"         -> rows + InitPolls - polls + 2
          [] phase = "initialized"      -> rows + 2
          [] phase = "claim"            -> rows + 1
          [] phase = "prove"            -> IF client[Runner].phase = "fetched" THEN rows ELSE rows - 1
          [] phase = "landPoll"         -> rows - polls - 2
          [] phase \in {"done", "exit"} -> 0

(* Each step of the script is one fewer to take, whatever it finds, and    *)
(* nothing that the sequencer or other claimants do gives it more to do:   *)
(* no retry, no wait and no count goes round without end.                  *)
ScriptStepsAreBounded ==
    [][/\ StepsLeft' \in Nat
       /\ IF Script THEN StepsLeft' < StepsLeft ELSE StepsLeft' = StepsLeft]_runVars

(* However the sequencer and the network behave, the script ends.          *)
ScriptEnds == <>(phase \in {"done", "exit"})
=============================================================================
