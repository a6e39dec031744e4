# Verification of the LP-0003 private airdrop

TLA+ models of the private airdrop distributor in this repository, TLC runs on
small instances, and TLAPS proofs for every instance. Source paths below are
relative to the repository's root.

- [The system](#the-system): inventory of components, state, operations, hard behaviours
- [Modules](#modules): which module models what, and how it corresponds to the code
- [Runs](#runs): what each TLC run checks, its bounds and what it shows
- [Proofs](#proofs): what TLAPS proves, from what, along which argument
- [Not modelled](#not-modelled) and [Plan](#plan)

## The system

A distributor commits on chain to a Merkle tree of `(account_id, allocation)`
leaves and to a supply. An eligible account claims once, without revealing which
account it is, by proving on its own machine that some leaf of the tree is its
own and that the nullifier it spends is that leaf's account's.

| Component | State | Operations | Properties that make it correct |
|---|---|---|---|
| airdrop program, `programs/airdrop` | the distribution account's `DistributionState`: root, circuit id, supply, claimed, spent nullifiers | `initialize`, `claim` (`apply_claim`) | a nullifier is spent once; `claimed` stays within the supply and is what was claimed; terms never change; only the registered circuit pays |
| claim-circuit program, `programs/claim_circuit` | none: a pure function of private arguments and the account data | `submit_claim`, which chains into `claim` | only a pair in the tree yields a claim, whatever path and index come with it; one nullifier per account and distribution |
| chain client, `circuit/host` (`chain initialize/claim/state`) | one process per command; across its awaits, the snapshot it read and the transaction it proved | `send_signed_call`, `send_claim_ppe`, `get_account_state` | what it checked on a snapshot still holds where the claim lands; a rejection it reports is right; a retry does no harm |
| sequencer (LEZ, not in the repository) | live accounts, mempool | runs public transactions, includes proven ones whose pre-state is live | assumed, see [AirdropChain](#airdropchain) |
| eligibility tree, `scripts/testnet_claims_run.sh` `tree_data` | list, levels, printed lines | pad, hash level by level, print a path per claimant | every printed path is accepted for its claimant and for nobody else |
| evidence run, the same script's `run_distribution` | loop counters, evidence table | initialize and wait, then claim and wait, one claimant after the other | what is in the table has happened; at the end everybody has claimed; no claim is still on its way when the next is made; it ends |
| distributor's side of the client, `chain keygen`/`initialize`/`state` | one process per command; the nonce it read, the transaction it signed | `send_signed_call`, `get_account_state` | what was read back stays true, whatever else was signed; a distribution is lost to another program only |
| offline receipts, `circuit/guest`, `prove`/`verify` | a receipt file | prove, verify | a receipt that verifies is entitled; the guest's copies of hashes and walk agree with the circuit's |
| command line, `circuit/host` `main` | parsed options | clap, the handlers' parsing in their order, then their calls | a faulty option or file is found before anything depends on it |
| encodings: `encode_*`, `instr_*`, the chained call, the journal, the account data, the guest's input | none | words and bytes written in one place and read in another | the reader gets what the writer meant, and nothing out of parts |
| demo script, `demo.sh` | options, counters | build, initialize and wait, prove and verify, claim and wait | "Demo complete" is said only of a claim that was made; it ends |
| SDK, `sdk` | none | two hashes, one RPC | hashes the bytes the programs hash |
| Basecamp app, packaging, CI, IDL, docs | none of their own | | not modelled |

How they interact. `chain claim` reads the distribution account over RPC
(`main.rs:359`), runs `submit_claim` and the `claim` it chains into on that
snapshot and proves the execution (`main.rs:385`, minutes), and sends the proven
transaction (`main.rs:407`). Nothing is checked again on chain but that the
pre-state the proof commits to is still the live state
(`claim_circuit/src/main.rs:10-11`); then the proven post-state is written.
`initialize`, and `claim` called by anything but a claim circuit, run on the live
state.

What is hard about it: every check of `apply_claim` is made on an old snapshot;
several claimants prove on one snapshot and race; sends can be lost, delayed,
reordered and retried, and clients can stop anywhere; the account's data and
u128 have limits; the tree may hold an account twice, and padding repeats a
leaf; the script infers from a count that its own claim landed; a distributor may sign
several initializes, in several shells, with the nonce of an earlier moment, and for a
program other than the one meant; the same
bytes are written and read by different code, by hand on one side.
`PROJECT.json` lists each of these at its line, with the properties that would
notice it going wrong.

## Modules

Arrows point from a module to those that extend it (`=>` is refinement):

    AirdropHash <- MerklePath <- ClaimCircuit <- AirdropChain
    AirdropHash <- AirdropProgram <- ClaimCircuit
    AirdropChain <- AirdropRefinement => AirdropLedger
    AirdropChain <- SignedInitialize, PersistentClaimants, EvidenceRun, OfflineReceipt, DemoRun
    AirdropHash <- EligibilityTree; EligibilityTree, MerklePath <- TreeData
    CommandLine, WireFormats <- ClientProgram
    HashInputs is extended by its proofs only

    DataLemmas <- AirdropChainProofs, TreeProofs, ClientProofs
    AirdropRefinement <- AirdropChainProofs
    AirdropChainProofs <- OfflineReceiptProofs, SignedInitializeProofs, EvidenceRunProofs,
        DemoRunProofs
    TreeData, HashInputs, ClaimCircuit <- TreeProofs
    ClientProgram <- ClientProofs

Each `MC<module>` holds the instances of that module for TLC.

**AirdropHash** is SHA-256 made symbolic: a digest is the tuple of its inputs.
That is collision resistance, and the domain tags and fixed input lengths that
keep leaf, node and nullifier inputs apart (a note may have any length; its hash is
compared with hashes of notes only); **HashInputs** has the bytes themselves, of
the claim circuit and of its copies in the guest, the prover and the SDK, and TreeProofs
shows of them what the tuple takes for granted.

**MerklePath** is the walk of `submit_claim` (99-108), index bits included.

**AirdropProgram** has `initialize` and `claim` as functions from account data
to a code and new data, with `apply_claim`'s five checks in the code's order,
additions modulo `U128` (release builds do not check overflow), and the size
limit of account data (`100 + 32n` bytes in borsh).

**ClaimCircuit** has `submit_claim`, and `Execute`, which is the composition
`execute_and_prove` runs: `submit_claim`, and then `claim` on the same data with
the running circuit as the caller.

### AirdropChain

The core. Three variables: `account` (live data per distribution), `mempool`
(every proven transaction ever sent, with the pre- and post-state it shows) and
`client` (what each `chain claim` process holds).

| Action | Code |
|---|---|
| `Initialize(d, offer)` | the sequencer runs a signed `initialize`; any offer may have been sent any number of times, `#[account(init)]` lets one through |
| `ForeignClaim(d, caller, f)` | `claim` reached otherwise than through a claim circuit, on the live state |
| `Fetch(c, q)` | `send_claim_ppe` up to `get_account` |
| `Prove(c)` | `execute_and_prove` on the snapshot, to a transaction or an error |
| `Send(c)` | `send_transaction` reaches the sequencer; whether the answer comes back makes no difference to a process that ends here |
| `Quit(c)` | the process ends anywhere else: a crash, a failed call, giving up |
| `IncludeClaim(tx)` | the sequencer includes a proven transaction whose pre-state is live |

Assumed of the sequencer: the pre-state comparison above, and that it runs one
transaction at a time. Nothing is assumed about delivery: transactions stay in
`mempool` for ever and are included in any order, late, never or again, which
is loss, delay, reordering and duplication at once. A pre-state's identity is
the account's data; the account's balance, nonce and owner do not change after
`initialize` and are left out. `claim_circuit`'s zero-balance claimer note is
fresh in every transaction and passed through unchanged, and is left out. A
client's identity, path and leaf stay inside `client`: a transaction shows only
distribution, pre-state and post-state, which is what the chain sees.

Constants are sets of requests, offers and foreign callers, with named assumptions:

- `OffersAssumption`, `RequestsAssumption`, `NoStateAssumption`: their types.
- `CommittedAssumption`: a list is finite and its allocations are u128, as
  `--allocation` and the guest read them.
- `JournalAssumption`: what the claim circuit commits to decodes in `claim`. The two ends
  are `JournalBytes` and `ClaimJournalRaw` of WireFormats, of which it is proved.
- `ForeignAssumption`: no foreign caller is a build of the claim circuit.
- `MerkleAssumption`: a path that walks up to a root starts at a pair of that root's
  tree. It is what SHA-256 gives. TLC evaluates it on the instances, where hashes are
  symbolic, and `CircuitAcceptsTheList` proves it of the trees of EligibilityTree, of
  any size, for requests with any path and index.

### The rest

**AirdropLedger** is what an airdrop promises: distributions open once; entitled
accounts are paid atomically, once, within the supply. **AirdropRefinement** maps
the chain onto it: terms, spent nullifiers and `claimed` are read off the account,
and snapshots, proofs and the mempool disappear.

**EligibilityTree** defines the script's tree top-down, node by node;
**TreeData** runs the script's loops, one iteration a step, `IndexError`s included.
The list is any of `Lists` (sequences of entries with numbers for allocations,
`ListsAssumption`) and the width any power of two (`TreeWidthAssumption`; 16 in the script).

**SignedInitialize** is how a distribution comes to be: `GetNonce`, `SendSigned`,
`ReadBack`, `Advertise` and `Interrupt` in any of several shells, for whatever program
id is typed. The sequencer takes a transaction at the account's nonce only:
`IncludeInitialize` runs AirdropChain's `Initialize`; `IncludeElsewhere` is another
deployed program (version 1 still is, `docs/TESTNET_EVIDENCE.md:129-134`) which takes the
account; `IncludeInVain` is a transaction that fails, or whose program leaves the account
alone, and uses up its nonce. Whether a failing transaction does cost the nonce cannot
be seen in the repository, so it may or may not. `signed` keeps what was sent for ever.
`Advertise` compares the owner and the root that were read back: the root alone, which is
all `docs/PRIVACY_MODEL.md:63` mentions, says nothing of an account that another program
has (deviation `AdvertiseRoot`); both scripts look at `program_owner`.

**PersistentClaimants** adds no step: it is AirdropChain with claimants who run
`chain claim` again and again (`Own` says which claim is whose).

**EvidenceRun** adds the script (`phase`, `next`, `polls`, `evidence`) to the chain,
as the user of one client process, alone or next to whoever else claims (`company`,
chosen at the start). A poll sees the live state or fails to (the RPC failed; `grep -q`
closed the pipe under `pipefail`), so that each bounded wait, of one poll at least, can run
out at any state of the chain; `set -e` ends the script wherever a command fails.

**DemoRun** does the same for `demo.sh`, whose waits differ: it stops where the evidence
script goes on without the account, and it looks for the bytes of its own amount and a
count of one instead of a count.

**CommandLine** is one run of `airdrop-claim`: what clap takes apart itself, the
handler's steps in the order of its lines (the understanding of an option, or a call
that reaches out of the process), and a build without feature `chain`. A value is
good, empty, bad (a text, or a file's contents, that is not what it should be) or "shut"
(a file that cannot be opened); the strings themselves are not modelled. clap takes any
file name that is not empty, so an unusable file is found when it is opened or when
its bytes are first used, and a wrong address when the client is built; the model has
those moments as steps. Unknown commands and options, which clap refuses, are left out
(`InvocationsAssumption`).

**WireFormats** has each message's writer, as a sequence of bytes or words at their real widths, and its
reader's declaration, and reads field by field with the reader's refusals. The wire
library itself (risc0's serde, borsh) is external: its layout is that of the
repository's hand-written encoder and of `try_from_slice`'s callers. A message is made
from values of its writer's types, of which a u32 can count the parts
(`MessagesAssumption`); somebody who calls `claim` may leave bytes off a journal, at least
one (`CutsAssumption`), or add one.
**ClientProgram** runs both together: a call of a handler exchanges the messages it
carries, and a refusal makes it fail.

**OfflineReceipt** adds `airdrop-claim prove` and `verify` and the guest of
`circuit/guest` to the chain: `receipts` written, and `answers` to those submitted to
`claim` by a public transaction, which is the `ForeignClaim` of AirdropChain with the
receipt's journal; and `refused`, the requests on which the guest panicked. `verify`
changes nothing and is a predicate. The guest has its own copies of the hashes and
of the walk (`GuestLeafHash`, `GuestNodeHash`, `GuestWalk`, `GuestNullifier`), so that a
slip in one of them shows as a disagreement with the circuit. Soundness of RISC0 means that only the guest makes receipts (not so in
`RISC0_DEV_MODE=1`).

Modules contain, before the definition they belong to, a few operators marked
"Deviation": what a plausible slip would make of the definition. No
specification uses them; each property is checked to notice one.

## Runs

| Run | Instance | Shows |
|---|---|---|
| `race` (MCRace.cfg) | one distribution, two clients, four offers, nine requests, one foreign caller, room for two claims in the account, three sends | `TypeOK`, `NoDoubleClaim`, `WithinSupply`, `OnlyEligible`, `ClaimedIsSumOfPaid`, `NoClaimantLockedOut`, `RejectionsAreFinal`, `AppendOnly`, `OvertakenStaysOut` |
| `two_distributions` (MCTwo.cfg) | two distributions of one list, each registering the claimants' build, another build or a program of its own, with foreign claims that name any nullifier or do not decode | `Unlinkable`, and `ImplementsLedger` (refinement) |
| `fair_race` (MCPersistentClaimants.cfg) | two claimants of one list, four sends, `FairSpec` | `RaceHasAWinner`, `PersistentClaimantsAreServed` |
| `wide` (MCWide.cfg) | allocations 3 and 6 in 3-bit amounts, supply 6 | **violates** `ClaimedIsSumOfPaid`: the addition in `lib.rs:92` wraps |
| `signed` (MCSigned.cfg) | two shells, two lists (an offer and its correction), the right program id and another program's, two signed transactions, one claimant, `FairSignedSpec` | `SignedTypeOK`, `AdvertisedStaysTrue`, `LostOnlyElsewhere`, `SignedOnceIsEnough` |
| `tree` (MCTreeData.cfg) | every list of at most three entries of two accounts and two amounts; one list each of 4 to 8 entries; four leaves | `PrintedPathsProve`, `PrintedPathsProveNothingElse`, `AgreesWithReference`, `FailsOnlyOnMisfits` |
| `script` (MCScript.cfg) | three claimants, 60 and 36 polls as in the script, with and without another process that claims, three sends, `FairRunSpec` | `RunTypeOK`, `EvidenceIsTrue`, `OneClaimInFlight`, `DoneMeansAllLanded`, `ScriptStepsAreBounded`, `ScriptEnds` |
| `script_rows` (MCScriptRows.cfg) | the same with two polls in each wait | **violates** `RowsHaveLanded`: line 130 takes another claim's landing for its own |
| `receipts` (MCReceipts.cfg) | one distribution of two accounts, one client, four sets of `prove` arguments (one of another tree, one that lies), two notes, one send | `ReceiptTypeOK`, `VerifiedReceiptsAreEntitled`, `RefusedOfflineIsRefusedOnChain`, `ReceiptsAgreeWithLandings` |
| `receipts_submitted` (MCReceiptsSubmitted.cfg) | the same | **violates** `SubmittedReceiptsClaim`: `claim` answers 7007 to the best of receipts |
| `client` (MCClient.cfg) | every command with up to two options left out, misspelt, empty or, if a file, not to be opened; every message with a small and a large amount, paths of zero to two siblings, empty and full notes, small and full-width indices | `WireTypeOK`, `ReadsWhatWasMeant`, `PartsAreRefused`, `ScriptCountsNullifiers`, `FaultsAreFoundInTime` |
| `demo` (MCDemo.cfg) | every set of options, 24 polls as in the script, a claimant with two copies of the leaf and another shell, `FairDemoSpec` | `CompleteMeansClaimed`, `DemoStepsAreBounded`, `DemoEnds` |

Bounds and why they suffice.

- `MaxSends` bounds the distinct transactions ever sent. Three are enough for a
  winner, a loser overtaken by it and a retry of either; what is already in
  `mempool` may be included again without bound. `fair_race` needs four, so that the
  bound never stops a claimant who keeps trying: two claimants on two states of the
  account make at most that many different transactions.
- `MaxSigned`: two transactions are an offer and its correction, a wrong id and the right
  one, or the same command twice, each from either shell and with the nonce of any
  earlier moment; a third fails as the second does.
- The receipts' runs have one send: a receipt is compared with one landing at a time, and
  a claim that lands before, between or after proving and submitting needs no second.
- Two clients: each holds one snapshot, so that any two claims, or a claim and a
  retry of it, overlap in every order. Clients are interchangeable (symmetry), and
  the symmetry is used in no run with a liveness property.
- Three accounts with allocations 1, 2 and 3; a supply that just covers them and
  one that does not; an account with two leaves; an account that knows two paths
  (the padding leaf); a request for more than its leaf says. `DataMaxLength`
  leaves room for two nullifiers, so that supply (7005) and size limits are both
  reached, and one of the lists fits both.
- `U128 = 16` wraps for nothing in `race` (the largest supply plus allocation is
  9); `wide` is the run in which it does.
- The scripts' waits have the numbers of polls of the code. `script_rows` has two,
  enough for its counterexample and short to read.
- Trees of depth 2 have both kinds of sibling on both levels, padding included. The
  script's 16 leaves are the same loops two levels deeper.
- Messages: all bytes of an id differ, and so do fields of one type in some message of each
  kind, so that a swapped or shifted field shows. `JournalCuts` cuts a journal within and at the end
  of fields. Two faulty options tell the order in which a handler looks at them.

`CHECK_DEADLOCK FALSE` is used for `script`, `script_rows`, `demo` and `client` only:
the programs they are about stop when they are done.

Fairness.

- `Fairness` in AirdropChain says that the sequencer goes on including: for each
  distribution, if some transaction stays applicable, one is included in the end. It
  cuts a block every 5 s and retries pending ones (`.github/sequencer_config.json`).
  Clients and distributors owe nothing: no fairness is given to them in any
  specification. `FairSignedSpec` says the same of signed transactions.
- `Persists(c)`, a hypothesis of `PersistentClaimantsAreServed` and not part of a
  specification, is what a claimant does who repeats the command: every run of it ends,
  it is run again, and not every run dies before it has proved (strong fairness, since
  another landing, or a crash, takes the opportunity away) or before it has sent.
- `FairRunSpec` and `FairDemoSpec` are weak fairness of the script's next step alone: it
  is one process, each command ends or fails, and no fairness is assumed of the chain, so
  `ScriptEnds` and `DemoEnds` hold even if nothing ever lands.

What the violations mean. They are disagreements between the code and what is
written about it, and are listed under "findings" in `PROJECT.json`. The wrap needs
a distributor who commits to allocations near 2^128; the invariants `NoDoubleClaim`,
`WithinSupply` and `OnlyEligible` hold even then (they are proved without the
assumption that allocations fit), and `ClaimedIsSumOfPaid`, `RejectionsAreFinal` and
the refinement are what it costs. The row written for somebody else's landing is only
possible half-way: `DoneMeansAllLanded` holds with company too, because the count
reaches the length of the list only when everybody on it has claimed.

Disagreements met while modelling, too plain to need a run:

- `scripts/testnet_claims_run.sh:114` logs "initialized on-chain" after a wait that ran
  out just as after one that saw the account; `demo.sh:123-126` stops there.
- `circuit/guest/src/main.rs:3-4` says the receipt proves that its maker has "not
  claimed before (nullifier is fresh)", but the guest sees no state of the chain: in
  OfflineReceipt `ProveReceipt` has no condition on the account, and a receipt can be
  proved, and verifies, after its claim has landed. Who wants to know has to look for
  its nullifier in the account.
- `docs/BENCHMARKS.md:65-66` gives 388 bytes as the overhead of the distribution
  account; the five fields of `programs/airdrop/src/lib.rs:39-52` encode to 100 (with
  its ten nullifiers, the 420 bytes of the table above it).
- The `prove` example of `README.md:65-70` lacks `--merkle-root`, `--leaf-index` and
  `--merkle-path`, which clap demands.
- An empty `--merkle-path` splits into one empty text, which is no 32-byte hex
  (`circuit/host/src/main.rs:558-562`): a distribution to one leaf without padding
  cannot be claimed from the command line (the programs would accept it). In
  CommandLine this is the option type `id list`.
- `demo.sh:8` documents `--sequencer <url>`; its loop (24-27) ignores it, and only the
  environment variable is used.

## Proofs

TLAPS checks eight modules with Z3, Zenon and LS4. Nothing is assumed but the
constants' named assumptions (above, with what justifies each) and two conditions on
amounts, where a theorem states them: `AllocationsFit` (no offered supply plus
allocation reaches 2^128) and `ListsFit` (the allocations of a list do not sum up to
2^128). Run `wide` is what happens without them.

Every invariant and every action property that a run checks and finds to hold is a
theorem, for every value of the constants.

| Theorem | States |
|---|---|
| `AirdropChainProofs!Soundness` | `Spec => []IInv` |
| `TypeCorrect`, `DoubleClaimImpossible`, `SupplyRespected`, `OnlyEligiblePaid` | `[]TypeOK`, `[]NoDoubleClaim`, `[]WithinSupply`, `[]OnlyEligible` |
| `NothingLinksClaims` | `[]Unlinkable` |
| `PaymentsAreAccounted` | `Spec => []AccountsAccounted` |
| `ClaimedIsSum` | `ListsFit => (Spec => []ClaimedIsSumOfPaid)` |
| `NobodyIsLockedOut` | `[]NoClaimantLockedOut` |
| `History` | `Spec => []HInv` |
| `DistributionsAppendOnly`, `OvertakenProofsAreDead` | `AppendOnly`, `OvertakenStaysOut` |
| `RejectionsFinal` | `AllocationsFit => (Spec => []RejectionsAreFinal)` |
| `ChainImplementsLedger` | `AllocationsFit => (Spec => ImplementsLedger)` |
| `OfflineReceiptProofs!ReceiptsKeepToTheChain` | `ReceiptSpec => Spec /\ []ReceiptsProve` |
| `ReceiptTypeCorrect`, `VerifiedMeansEntitled`, `GuestAndCircuitAgree`, `GuestRefusesNobodyElse` | `[]ReceiptTypeOK`, `[]VerifiedReceiptsAreEntitled`, `ReceiptsAgreeWithLandings`, `[]RefusedOfflineIsRefusedOnChain` |
| `SignedInitializeProofs!SignedTypeCorrect`, `AdvertisedIsFinal`, `LossesHaveACause` | `[]SignedTypeOK`, `[]AdvertisedStaysTrue`, `[]LostOnlyElsewhere` |
| `EvidenceRunProofs!RunSoundness` | `RunSpec => Spec /\ [](IInv /\ RInv)` |
| `RunTypeCorrect`, `AtMostOneInFlight`, `EvidenceHolds` | `[]RunTypeOK`, `[]OneClaimInFlight`, `[]EvidenceIsTrue` |
| `DoneIsDone` | `[]DoneMeansAllLanded`, of an offer for a build of the claim circuit whose tree holds only accounts of the script's list |
| `ScriptRunsOut` | `ScriptStepsAreBounded` |
| `DemoRunProofs!DemoKeepsToTheChain` | `DemoSpec => Spec /\ []IInv /\ []DemoTerms` |
| `CompleteIsClaimed` | `[]CompleteMeansClaimed`, of an offer for a build of the claim circuit whose tree holds the demo's account only |
| `DemoRunsOut` | `DemoStepsAreBounded` |
| `TreeProofs!InputsAreUnambiguous`, `KindsAreSeparate`, `CopiesAgree` | leaf, node and nullifier inputs determine their parts, no kind shares an input with another (a note, of any length, only if it is exactly as long), and the copies hash the same bytes |
| `PathsProve`, `NothingElseProves` | in a tree of any depth: the path of each leaf walks up to the root, and whatever walks up to it, from any index along any number of siblings, is of the list |
| `CircuitAcceptsTheList` | both, of `submit_claim`'s check |
| `TInvHolds` | the loops' invariant, `Spec => []TInv` |
| `ScriptBuildsTheTree`, `ScriptPathsProve`, `ScriptPathsProveNothingElse`, `ScriptFailsOnlyOnMisfits` | `[]AgreesWithReference`, `[]PrintedPathsProve`, `[]PrintedPathsProveNothingElse`, `[]FailsOnlyOnMisfits` |
| `ClientProofs!FaultsAreFoundFirst` | `[]FaultsAreFoundInTime` |
| `WireIsWellTyped`, `EveryMessageIsReadAsMeant`, `WhatIsNoMessageIsRefused`, `TheScriptCountsNullifiers` | `[]WireTypeOK`, `[]ReadsWhatWasMeant`, `[]PartsAreRefused`, `[]ScriptCountsNullifiers` |

The inductive invariant. `NoDoubleClaim` is not inductive: `IncludeClaim` writes a
post-state about which it says nothing. `IInv` adds that every account is `Sound`
(distinct nullifiers, within supply, all entitled, terms that were offered) and
`ProvenLands`: every transaction, sent or still with its client, holds a
`Landing` from its pre-state to its post-state. A `Landing` is one claim: an unspent
nullifier, a supply that covers it, an entitled pair when the circuit is genuine,
and the record of both. The lemmas show that each successful `Claim` and `Execute`
is a `Landing`; since a transaction is included only on its pre-state, the old
checks are checks of the live state, and soundness carries over. In that shape the
proof is about the pre-state comparison: without it (`IncludeStaleClaim`) the
argument, and the properties, fail.

The accounting. `NoDoubleClaim`, `WithinSupply` and `OnlyEligible` do not say that what
was paid is what `claimed` says: that needs the sum over the pairs whose nullifiers are
spent. `AccountsAccounted` says that `claimed` is this sum modulo 2^128 and that there
are as many such pairs as nullifiers, of a distribution that registered a build of the
claim circuit and lists no account twice. A `Landing` adds one pair to the set (its
nullifier was unspent, and is no other pair's), one nullifier and one allocation. Where
the sum stays below 2^128 the remainder is the sum (`ClaimedIsSum`). `NobodyIsLockedOut`
needs no condition on amounts: it is about distributions whose supply covers the list,
so that the payments so far and one more, being part of the list, neither wrap nor exceed
the supply nor the account's room, and no check of `apply_claim` is left that could fail.

The history invariant. `HInv` adds that every snapshot and every pre-state is a
`Past` of the live data: the same terms, a prefix of its nullifiers, and equal to it
or strictly shorter. From "strictly shorter stays strictly shorter" follows that
overtaken proofs are dead; from the prefix (and, under `AllocationsFit`, from
`claimed` growing) that a rejection on a snapshot is one on the live data, check by
check in `apply_claim`'s order.

The refinement. A step changes one account (`OneAccountAtATime`), by nothing, by an
`initialize` (`Open`) or by a `Landing` (`Pay`); everything else stutters.
`AllocationsFit` is what keeps the ledger's unbounded sum and the code's u128 equal.

Receipts. A step of `ReceiptSpec` is a step of `Spec` or none, because submitting a
receipt is a foreign claim; so `IInv` carries over. `ReceiptsProve` says that each
receipt came from a request whose path walks up to its root. A landing spends one
nullifier for the amount of one pair of the tree, and a receipt with that nullifier
is of a pair with the same account; with one leaf per account it is the same pair. All
of this, and `GuestRefusesNobodyElse`, compares what two programs compute; that the
guest's copies compute what the circuit does is `CopiesOfTheGuest`.

Signed initializes. `AdvertisedStaysTrue` needs that what a shell read of an account
owned by the airdrop program is still so (`ReadIsTrue`): a step of `SignedSpec` is one of
`Spec` or none on the chain (`SignedStep`), so an account stays a `Past` of later ones,
and `Past` keeps terms. `LostOnlyElsewhere` needs that an account which somebody has,
was counted a nonce for (`TakenIsCounted`): then a transaction at nonce 0 finds an account
that is nobody's, and if it is for the airdrop program it makes the distribution. What
uses up nonce 0 otherwise was for another program.

The evidence script. `AtMostOneInFlight` and `EvidenceHolds` are not inductive: whether
row i is the i-th nullifier depends on what is still on its way. `RInv` says that the
script is never ahead of the chain, which needs nothing but that nullifiers only grow,
and, of a script without company (`Solo`), that nullifiers are those of its own claims
in their order, that every transaction sent or being proved is the claim its pre-state
is waiting for, and that between two claims nothing that was sent can still land
(`Settled`), so that during a wait one thing can (`Pending`). `DoneIsDone`
needs none of that: at "done" there are at least as many nullifiers as claimants, they
are distinct, and each belongs to one of the claimants; so by counting
(`EverybodyIsThere`, the pigeonhole principle) everybody's is there.

The demo. Its test of the account's data (the amount, and a count of one) says nothing of
whose nullifier it is; in a tree of one account it can be nobody else's (`Sound`), and as
that nullifier is spent nothing more can land (`NothingLeftToClaim`), so that the sentence
stays true after the script has gone.

The ends of the scripts. `StepsLeft` is a number that each step of a script makes smaller
and no step of anybody else changes. It rests on each wait counting its polls within its
bound (`PollsCounted`, `DemoShape`), and, where a row is written, on a row's steps
outnumbering those of one claim and one wait. So the script takes at most `InitPolls + 3`
steps and `LandPolls + 3` for each claimant, the demo `2 * Polls + 9`.

Hash inputs. Fixed lengths make concatenation injective (`ConcatInjective`); the tags
separate leaf and node, lengths separate these from nullifiers, and any of them from a
note unless that has exactly their length. A note of 64 bytes may be what a nullifier is
made of, but note hashes are compared with note hashes only (`airdrop/src/lib.rs:84`).
This is what AirdropHash takes as given of the bytes; that SHA-256 has no collisions on
them stays an assumption.

The tree. The circuit's walk is a fold over the siblings and the index's bits, the
reference a recursive function down from the root. Both are first shown to obey the
equations one would write for them, one level at a time. `PathsProve` climbs from the
leaf: after k siblings the walk stands at the k-th ancestor. `NothingElseProves` descends
from the root: where the walk and the tree have the same node, the walk came through one
of its two children, so they meet one level further down, until the walk is at its start
or the tree at its leaves. If only one of them is, a leaf hash is a node hash, which the
tags rule out: a path is neither too short nor too long. If both are, the pair is that
leaf's, and a padding leaf is a pair of the list, too, since padding repeats the last one.

The script's loops. `TInv` is what holds between iterations: the leaves are the list so
far padded (`LeavesOfList`), each level above is made of pairs of the one below
(`LevelsHalve`), what the stage of the script says of the number of levels and their
widths (`Staged`, which needs a power of two), and the lines printed so far. From it
follows that levels built from below are the nodes defined from above
(`ScriptBuildsTheTree`), so that everything shown of those trees holds of the script's, and
that no index is out of range unless the list is empty or too long.

The command line. `FaultsAreFoundInTime` is not inductive: it says nothing of the calls
still to be made. `MisreadAhead` says that an option that is not understood either is
what clap stops at, or that a step at which it stops the handler is still to come, with
nothing before that step but what `MayPrecede` allows (`StopsAhead`). That each handler
starts that way (`HandlersLookFirst`) is a fact about the order of its lines, and the
only one needed.

Encodings. That a field is read as it was written has to hold whatever follows it
(`FieldIsRead`): the reader does not know where a message ends, and a field's width is
read off the wire. Each writer's message is then shown to be the fields its reader
expects, one after the other (`MessageWritten`): this is where the order of fields, the
words of an id and the places of counts are compared, message by message. Then there are
rests r[0], ..., r[n], and the invariant `WInv` says that after k fields r[k] is on the
wire and the k fields are as meant. Of what no reader may take it says how long it is: a
journal is 144 bytes, one that was cut or made longer is not, after each field what is
left differs from what should be left, and data of an account nobody wrote has no room
for the first field. The only message of all that is refused as it was written is one
with a leaf index beyond the guest's 32-bit usize, which `ReadsWhatWasMeant` allows.

Data of any size. What would be proved by induction on a list, a level, a set or a number
is proved from the least number for which it fails (`NoLeastFailure` in DataLemmas, from
the library's theorem that `<` is well-founded on numbers), or from the smallest set. The
functions that the community modules define recursively (sums over sets, `FlattenSeq`) are
first shown to exist, so that the one the library chooses obeys its equation; 2^n is known
through the number of subsets of a set.

Only model-checked is liveness: `RaceHasAWinner`, `PersistentClaimantsAreServed`,
`SignedOnceIsEnough`, `ScriptEnds` and `DemoEnds`. Each needs fairness and ENABLED, which
TLAPS does not handle. The safety facts behind them are proved: that a claim of somebody
unpaid goes through on the live state (`NobodyIsLockedOut`), that what was overtaken
never lands (`OvertakenProofsAreDead`), that nonces alone cannot cost a distribution
(`LossesHaveACause`), and that the scripts run out of steps
(`ScriptRunsOut`, `DemoRunsOut`), which leaves to fairness only that they take them.

## Not modelled

- **SDK.** Its hashes are shown to be the programs' (`CopiesAgree`). `submit_claim`
  posts a receipt to a JSON-RPC method, `submitAirdropClaim`, that neither the repository
  nor its sequencer configuration provides, so there is no behaviour to model: one
  request and one answer.
- **Basecamp app.** The page computes a leaf hash and prints a command line, and keeps no
  state. What its README says of submitting a receipt is checked (`receipts_submitted`).
- **Receipt files.** The layout of risc0's `Receipt`; receipts of `RISC0_DEV_MODE=1`,
  which verify without a proof.
- **zkVM, proof system, SHA-256, LEZ.** Assumed correct, as `docs/PRIVACY_MODEL.md`
  does; timing and traffic observations, blocks, fees and finality are outside the model.
- **`send_call`** in `circuit/host`, which nothing calls.
- **Packaging, CI, IDL, documents.** Build-time only.

## Plan

Done: all components with behaviour of their own, the ledger and its refinement, and
proofs of every safety property of the runs. What is left, by worth:

1. A theorem that joins chain and tree: AirdropChain with EligibilityTree's trees for
   `Committed`, in which `MerkleAssumption` is no longer assumed.
2. That a script which has not ended always has a step to take, said by its guards instead
   of ENABLED: with `StepsLeft` it is all of `ScriptEnds` and `DemoEnds` but fairness.
