-------------------------- MODULE SignedInitialize --------------------------
(***************************************************************************)
(* How a distribution comes to be, in front of the chain of AirdropChain:  *)
(* `airdrop-claim chain initialize` asks the sequencer for the nonce of    *)
(* the distributor's account, signs an `initialize` with it and sends it.  *)
(* The command may be run again, with other arguments, in another shell,   *)
(* while earlier transactions are still on their way.  The distributor     *)
(* reads the account back with `chain state` before telling claimants of   *)
(* the distribution (docs/PRIVACY_MODEL.md).                               *)
(*                                                                         *)
(* A transaction goes to whatever program id was typed.  An id other than  *)
(* the airdrop program's may be that of nothing or of another deployed     *)
(* program (version 1 still is, docs/TESTNET_EVIDENCE.md:129-134), which   *)
(* may take the account.  Whether a transaction that fails costs the nonce *)
(* it was signed with is not to be seen from this side of the sequencer:   *)
(* here either may happen.                                                 *)
(*                                                                         *)
(* What is signed stays in `signed` for ever, as in `mempool`: included    *)
(* late, out of order or never.                                            *)
(***************************************************************************)
EXTENDS AirdropChain

CONSTANTS
    Sessions,       \* shells the distributor runs the commands in
    TargetPrograms, \* arguments of --program-id
    MaxSigned       \* bound: initialize transactions ever sent

VARIABLES
    nonce,      \* nonce of each distributor's account
    taken,      \* accounts that belong to another program by now
    signed,     \* initialize transactions signed and sent
    session,    \* what each shell is at
    advertised  \* distributions the distributor has told claimants of

setupVars == <<nonce, taken, signed, session, advertised>>
signedVars == <<vars, setupVars>>

InitializeTx == [dist : Distributions, program_id : TargetPrograms, offer : Offers, nonce : Nat]

NoCommand == [phase |-> "prompt"]

(* What `chain state` shows: whose the account is, and its first 32 bytes. *)
SessionState ==
    {NoCommand}
      \cup [phase : {"signing", "sent"}, tx : InitializeTx]
      \cup [phase : {"read"}, tx : InitializeTx, owner : {"airdrop", "other", "nobody"},
            merkle_root : Roots \cup {NoState}]

SignedTypeOK ==
    /\ nonce \in [Distributions -> Nat]
    /\ taken \subseteq Distributions
    /\ signed \subseteq InitializeTx
    /\ session \in [Sessions -> SessionState]
    /\ advertised \subseteq [dist : Distributions, merkle_root : Roots]
    /\ \A tx \in signed : tx.nonce <= nonce[tx.dist]

SignedInit ==
    /\ Init
    /\ nonce = [d \in Distributions |-> 0]
    /\ taken = {}
    /\ signed = {}
    /\ session = [s \in Sessions |-> NoCommand]
    /\ advertised = {}

-----------------------------------------------------------------------------
Signing(d, program_id, offer, n) ==
    [phase |-> "signing", tx |-> [dist |-> d, program_id |-> program_id, offer |-> offer, nonce |-> n]]

(* Deviation: the nonce after the one the account is at.                   *)
GetNonceNext(s, d, program_id, offer) ==
    /\ session[s] = NoCommand
    /\ session' = [session EXCEPT ![s] = Signing(d, program_id, offer, nonce[d] + 1)]
    /\ UNCHANGED <<vars, nonce, taken, signed, advertised>>

(* send_signed_call up to its first answer: the nonce goes into the        *)
(* message, whatever happens before it is sent.                            *)
GetNonce(s, d, program_id, offer) ==
    /\ session[s] = NoCommand
    /\ session' = [session EXCEPT ![s] = Signing(d, program_id, offer, nonce[d])]
    /\ UNCHANGED <<vars, nonce, taken, signed, advertised>>

SendSigned(s) ==
    /\ session[s].phase = "signing"
    /\ Cardinality(signed \cup {session[s].tx}) <= MaxSigned
    /\ signed' = signed \cup {session[s].tx}
    /\ session' = [session EXCEPT ![s] = [phase |-> "sent", tx |-> session[s].tx]]
    /\ UNCHANGED <<vars, nonce, taken, advertised>>

OwnerOf(d) == IF Live(d) THEN "airdrop" ELSE IF d \in taken THEN "other" ELSE "nobody"

(* Another program's data may start with any root, the right one too.      *)
RootsShown(d) ==
    IF Live(d) THEN {account[d].merkle_root}
    ELSE IF d \in taken THEN Roots \cup {NoState} ELSE {NoState}

(* `chain state` for the distributor id the command printed.               *)
ReadBack(s) ==
    /\ session[s].phase \in {"sent", "read"}
    /\ LET d == session[s].tx.dist
       IN  \E root \in RootsShown(d) :
              session' = [session EXCEPT ![s] =
                  [phase |-> "read", tx |-> session[s].tx, owner |-> OwnerOf(d),
                   merkle_root |-> root]]
    /\ UNCHANGED <<vars, nonce, taken, signed, advertised>>

Told(tx) == [dist |-> tx.dist, merkle_root |-> tx.offer.merkle_root]

(* Deviation: the right root is taken for enough, whoever owns the account. *)
AdvertiseRoot(s) ==
    /\ session[s].phase = "read"
    /\ session[s].merkle_root = session[s].tx.offer.merkle_root
    /\ advertised' = advertised \cup {Told(session[s].tx)}
    /\ UNCHANGED <<vars, nonce, taken, signed, session>>

(* The distributor looks at the owner that was read back, as the scripts   *)
(* do, compares the root with the one meant and, some time after the       *)
(* reading, gives the distribution out.                                    *)
Advertise(s) ==
    /\ session[s].phase = "read"
    /\ session[s].owner = "airdrop"
    /\ session[s].merkle_root = session[s].tx.offer.merkle_root
    /\ advertised' = advertised \cup {Told(session[s].tx)}
    /\ UNCHANGED <<vars, nonce, taken, signed, session>>

(* A command that fails or is killed, or a shell used for something else.  *)
Interrupt(s) ==
    /\ session[s] # NoCommand
    /\ session' = [session EXCEPT ![s] = NoCommand]
    /\ UNCHANGED <<vars, nonce, taken, signed, advertised>>

-----------------------------------------------------------------------------
(* Deviation: #[account(mut)], which wants an account of the program's own. *)
OwnedAlready(d) == Live(d)

(* #[account(init)]: nobody has the account yet.                           *)
Untouched(d) == ~Live(d) /\ d \notin taken

RunsInitialize(tx) == tx.program_id = AirdropId /\ Untouched(tx.dist)

(* The sequencer takes a signed transaction at the account's nonce only,   *)
(* and moves it on.                                                        *)
CountNonce(tx) ==
    /\ tx.nonce = nonce[tx.dist]
    /\ nonce' = [nonce EXCEPT ![tx.dist] = @ + 1]

IncludeInitialize(tx) ==
    /\ RunsInitialize(tx)
    /\ CountNonce(tx)
    /\ Initialize(tx.dist, tx.offer)
    /\ UNCHANGED <<taken, signed, session, advertised>>

(* The wrong program takes the account.                                    *)
IncludeElsewhere(tx) ==
    /\ tx.program_id # AirdropId /\ Untouched(tx.dist)
    /\ CountNonce(tx)
    /\ taken' = taken \cup {tx.dist}
    /\ UNCHANGED <<vars, signed, session, advertised>>

(* A transaction fails, or runs in another program that leaves the account *)
(* alone, and costs the nonce; one that does not is as if never sent.      *)
IncludeInVain(tx) ==
    /\ ~RunsInitialize(tx)
    /\ CountNonce(tx)
    /\ UNCHANGED <<vars, taken, signed, session, advertised>>

(* What else happens on the chain.                                         *)
ClaimNext ==
    \/ \E d \in Distributions, p \in ForeignCallers, f \in ForeignClaims : ForeignClaim(d, p, f)
    \/ \E c \in Clients : \/ \E q \in Requests : Fetch(c, q)
                          \/ Prove(c) \/ Send(c) \/ Quit(c)
    \/ \E tx \in mempool : IncludeClaim(tx)

SignedNext ==
    \/ \E s \in Sessions :
          \/ \E d \in Distributions, p \in TargetPrograms, o \in Offers : GetNonce(s, d, p, o)
          \/ SendSigned(s) \/ ReadBack(s) \/ Advertise(s) \/ Interrupt(s)
    \/ \E tx \in signed : IncludeInitialize(tx) \/ IncludeElsewhere(tx) \/ IncludeInVain(tx)
    \/ ClaimNext /\ UNCHANGED setupVars

SignedSpec == SignedInit /\ [][SignedNext]_signedVars

(* The sequencer goes on with what it was sent; nobody else has to.        *)
FairSignedSpec ==
    SignedSpec /\ \A d \in Distributions :
                      WF_signedVars(\E tx \in signed : tx.dist = d /\ IncludeInitialize(tx))

-----------------------------------------------------------------------------
(* What claimants were told stays so: the root the distributor read back   *)
(* some time before is the root claims are checked against, whatever other *)
(* initialize transactions were signed and are included later.             *)
AdvertisedStaysTrue ==
    \A a \in advertised : Live(a.dist) /\ account[a.dist].merkle_root = a.merkle_root

WrongProgram(d) == {tx \in signed : tx.dist = d /\ tx.program_id # AirdropId}

(* Nonces and repeated commands alone cannot cost the distribution: when   *)
(* the key's nonce has moved and there is none, then the key had signed    *)
(* for another program, main.rs:299-306, with its very first nonce.        *)
LostOnlyElsewhere ==
    \A d \in Distributions :
        nonce[d] > 0 => Live(d) \/ \E tx \in WrongProgram(d) : tx.nonce = 0

(* Of a key that signs for the airdrop program only, one transaction sent  *)
(* is enough: however many were signed, with whatever nonces, and whichever *)
(* of them are dropped, the distribution comes to be.                      *)
SignedOnceIsEnough ==
    \A d \in Distributions :
        (\E tx \in signed : tx.dist = d) ~> (Live(d) \/ WrongProgram(d) # {})
=============================================================================
