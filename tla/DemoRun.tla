------------------------------- MODULE DemoRun -------------------------------
(***************************************************************************)
(* demo.sh on the chain of AirdropChain: build, make a key, initialize a   *)
(* distribution with one claimant, wait for it, make and verify an offline *)
(* receipt, claim, wait for the claim.  Without --chain only the offline   *)
(* part is run.  The claimant may be claiming from another shell as well.  *)
(***************************************************************************)
EXTENDS AirdropChain

CONSTANTS
    Demo,           \* the client process the script starts
    DemoOffer,      \* what it initializes its distribution with
    DemoClaim,      \* the arguments of its claim
    Polls           \* polls in each of its two waits (24)

VARIABLES
    args,       \* options it was started with
    phase,      \* where the script is
    polls       \* polls made in the present wait

demoVars == <<args, phase, polls>>

ASSUME DemoAssumption ==
    /\ Demo \in Clients /\ DemoOffer \in Offers /\ DemoClaim \in Requests /\ Polls \in Nat
    /\ ProvesInclusion(DemoClaim, DemoOffer.merkle_root)

DemoInit ==
    /\ Init
    /\ args \in SUBSET {"--dev", "--chain"}
    /\ phase = "options"
    /\ polls = 0

Goto(where) ==
    /\ phase' = where
    /\ polls' = 0
    /\ UNCHANGED args

(* Any command that fails ends the script (set -e, pipefail).              *)
Fail == Goto("error")

-----------------------------------------------------------------------------
(* The loop over the arguments knows --dev and --chain and leaves others   *)
(* alone.                                                                  *)
TakeOptions ==
    /\ phase = "options"
    /\ Goto("build")
    /\ UNCHANGED vars

(* The build, `chain keygen`, and in chain mode `chain initialize`.        *)
BuildAndInitialize ==
    /\ phase = "build"
    /\ Goto(IF "--chain" \in args THEN "initPoll" ELSE "receipt") \/ Fail
    /\ UNCHANGED vars

PollUncounted(where) == phase = where /\ UNCHANGED <<vars, demoVars>>     \* Deviation

(* Not there yet, or `chain state` failed.                                 *)
Poll(where) ==
    /\ phase = where
    /\ polls < Polls
    /\ polls' = polls + 1
    /\ UNCHANGED <<vars, args, phase>>

InitSeen ==
    /\ phase = "initPoll" /\ polls < Polls
    /\ Live(DemoClaim.dist)
    /\ Goto("receipt") \/ Fail
    /\ UNCHANGED vars

(* INITIALIZED is still 0 when the loop runs out.                          *)
InitNotSeen ==
    /\ phase = "initPoll" /\ polls = Polls
    /\ Fail
    /\ UNCHANGED vars

(* `prove` and `verify`: the guest accepts what the script gives it.       *)
Receipt ==
    /\ phase = "receipt"
    /\ Goto(IF "--chain" \in args THEN "claim" ELSE "complete") \/ Fail
    /\ UNCHANGED vars

DemoFetch ==
    /\ phase = "claim"
    /\ Fetch(Demo, DemoClaim)
    /\ UNCHANGED demoVars

DemoProve ==
    /\ phase = "claim"
    /\ Prove(Demo)
    /\ UNCHANGED demoVars

DemoSend ==
    /\ phase = "claim"
    /\ Send(Demo)
    /\ Goto("landPoll") \/ Fail

(* Deviation: a claim that fails is made again.                            *)
DemoRetry ==
    /\ phase = "claim"
    /\ Quit(Demo)
    /\ UNCHANGED demoVars

DemoQuit ==
    /\ phase = "claim"
    /\ Quit(Demo)
    /\ Fail

(* Deviation: any state of the account that has its amount will do.        *)
LandSeenAny ==
    /\ phase = "landPoll" /\ polls < Polls
    /\ Live(DemoClaim.dist)
    /\ account[DemoClaim.dist].total_supply >= DemoClaim.allocation
    /\ Goto("complete")
    /\ UNCHANGED vars

(* claimed is the allocation, and one nullifier follows; the script prints *)
(* the state once more, which may fail.                                    *)
LandSeen ==
    /\ phase = "landPoll" /\ polls < Polls
    /\ Live(DemoClaim.dist)
    /\ account[DemoClaim.dist].claimed = DemoClaim.allocation
    /\ Landed(DemoClaim.dist) = 1
    /\ Goto("complete") \/ Fail
    /\ UNCHANGED vars

LandNotSeen ==
    /\ phase = "landPoll" /\ polls = Polls
    /\ Fail
    /\ UNCHANGED vars

Script ==
    \/ TakeOptions \/ BuildAndInitialize \/ InitSeen \/ InitNotSeen \/ Receipt
    \/ Poll("initPoll") \/ Poll("landPoll")
    \/ DemoFetch \/ DemoProve \/ DemoSend \/ DemoQuit \/ LandSeen \/ LandNotSeen

(* The sequencer runs what was sent; the claimant's other shells do as     *)
(* they like.  A fresh key initializes nothing before the script does.     *)
Elsewhere ==
    /\ \/ /\ phase \notin {"options", "build"} /\ "--chain" \in args
          /\ Initialize(DemoClaim.dist, DemoOffer)
       \/ \E tx \in mempool : IncludeClaim(tx)
       \/ \E c \in Clients \ {Demo} : \/ \E q \in Requests : Fetch(c, q)
                                      \/ Prove(c) \/ Send(c) \/ Quit(c)
    /\ UNCHANGED demoVars

DemoNext == Script \/ Elsewhere
DemoSpec == DemoInit /\ [][DemoNext]_<<vars, demoVars>>
FairDemoSpec == DemoSpec /\ WF_<<vars, demoVars>>(Script)

-----------------------------------------------------------------------------
(* "Demo complete" on a chain is said only of a claim that was made, of    *)
(* the claimant's own account and for the whole allocation, whoever's      *)
(* transaction it was that landed.                                         *)
CompleteMeansClaimed ==
    phase = "complete" /\ "--chain" \in args =>
        /\ Spent(account[DemoClaim.dist], Nullifier(DemoClaim.account_id, DemoClaim.dist))
        /\ account[DemoClaim.dist].claimed = DemoClaim.allocation

(* How many steps the script has left at most.                             *)
StepsLeft ==
    CASE phase = "options"               -> 2 * Polls + 9
      [] phase = "build"                 -> 2 * Polls + 8
      [] phase = "initPoll"              -> 2 * Polls - polls + 7
      [] phase = "receipt"               -> Polls + 6
      [] phase = "claim"                 -> Polls + (IF client[Demo] = Idle THEN 5
                                                     ELSE IF client[Demo].phase = "fetched" THEN 4
                                                     ELSE 3)
      [] phase = "landPoll"              -> Polls - polls + 1
      [] phase \in {"complete", "error"} -> 0

(* Each step of the script is one fewer to take, whatever the sequencer    *)
(* and the claimant's other shells do: it makes no claim a second time.    *)
DemoStepsAreBounded ==
    [][/\ StepsLeft' \in Nat
       /\ IF Script THEN StepsLeft' < StepsLeft ELSE StepsLeft' = StepsLeft]_<<vars, demoVars>>

(* With a sequencer that never answers the script ends all the same.       *)
DemoEnds == <>(phase \in {"complete", "error"})
=============================================================================
