----------------------- MODULE SignedInitializeProofs -----------------------
(***************************************************************************)
(* Proofs about SignedInitialize, for any numbers of shells, keys, program *)
(* ids and signed transactions: what was read back of a distribution holds *)
(* for ever, and only another program can cost a key its distribution.     *)
(*                                                                         *)
(* The argument: an account that nobody has was never counted a nonce for, *)
(* so the transaction that is counted first finds it as it was and, unless *)
(* it is for another program, makes the distribution.  Claims keep its     *)
(* terms (PastStays), so that a root once read stays the root.             *)
(***************************************************************************)
EXTENDS SignedInitialize, AirdropChainProofs

(* A nonce in a shell was read some time ago.                              *)
NonceIsPast ==
    \A s \in Sessions :
        session[s] # NoCommand => session[s].tx.nonce <= nonce[session[s].tx.dist]

(* Another program has taken an account only in exchange for a nonce.      *)
TakenIsCounted == \A d \in taken : nonce[d] > 0

ReadIsTrue ==
    \A s \in Sessions :
        session[s].phase = "read" /\ session[s].owner = "airdrop" =>
            LET d == session[s].tx.dist
            IN  Live(d) /\ account[d].merkle_root = session[s].merkle_root

SInv ==
    /\ SignedTypeOK /\ NonceIsPast /\ TakenIsCounted /\ LostOnlyElsewhere
    /\ ReadIsTrue /\ AdvertisedStaysTrue

LEMMA SignedInitSound == SignedInit => SInv
<1> SUFFICES ASSUME SignedInit PROVE SInv
  OBVIOUS
<1>1. SignedTypeOK
  BY DEF SignedInit, SignedTypeOK, SessionState
<1>2. NonceIsPast /\ TakenIsCounted /\ LostOnlyElsewhere
  BY DEF SignedInit, NonceIsPast, TakenIsCounted, LostOnlyElsewhere
<1>3. ReadIsTrue /\ AdvertisedStaysTrue
  BY DEF SignedInit, ReadIsTrue, AdvertisedStaysTrue, NoCommand
<1> QED
  BY <1>1, <1>2, <1>3 DEF SInv

-----------------------------------------------------------------------------
Commands(s) ==
    \/ \E d \in Distributions, p \in TargetPrograms, o \in Offers : GetNonce(s, d, p, o)
    \/ SendSigned(s) \/ ReadBack(s) \/ Advertise(s) \/ Interrupt(s)

(* On the chain every step is one of AirdropChain, or none.                *)
LEMMA SignedStep ==
    ASSUME SInv, [SignedNext]_signedVars
    PROVE  [Next]_vars
<1>1. ASSUME NEW s \in Sessions, Commands(s) PROVE UNCHANGED vars
  BY <1>1 DEF Commands, GetNonce, SendSigned, ReadBack, Advertise, Interrupt
<1>2. ASSUME NEW tx \in signed, IncludeInitialize(tx) PROVE Next
  BY <1>2 DEF IncludeInitialize, Next, SInv, SignedTypeOK, InitializeTx
<1>3. ASSUME NEW tx \in signed, IncludeElsewhere(tx) \/ IncludeInVain(tx) PROVE UNCHANGED vars
  BY <1>3 DEF IncludeElsewhere, IncludeInVain
<1>4. CASE ClaimNext
  BY <1>4 DEF ClaimNext, Next
<1> QED
  BY <1>1, <1>2, <1>3, <1>4 DEF SignedNext, Commands, signedVars

(* What a shell is about, wherever its command is.                         *)
LEMMA CommandTx ==
    ASSUME SignedTypeOK, NEW s \in Sessions, session[s] # NoCommand
    PROVE  session[s].tx \in InitializeTx
BY DEF SignedTypeOK, SessionState

LEMMA TxParts ==
    ASSUME NEW tx \in InitializeTx
    PROVE  /\ tx.dist \in Distributions /\ tx.nonce \in Nat
           /\ tx.offer \in Offers /\ tx.offer.merkle_root \in Roots
BY OffersAssumption DEF InitializeTx

(* Nonces only grow.                                                       *)
LEMMA NoncesGrow ==
    ASSUME SignedTypeOK, [SignedNext]_signedVars
    PROVE  /\ nonce' \in [Distributions -> Nat]
           /\ \A d \in Distributions : nonce[d] <= nonce'[d]
<1>1. CASE UNCHANGED nonce
  BY <1>1 DEF SignedTypeOK
<1>2. ASSUME NEW tx \in signed, CountNonce(tx)
      PROVE  /\ nonce' \in [Distributions -> Nat]
             /\ \A d \in Distributions : nonce[d] <= nonce'[d]
  BY <1>2 DEF CountNonce, SignedTypeOK, InitializeTx
<1> QED
  BY <1>1, <1>2
  DEF SignedNext, signedVars, setupVars, GetNonce, SendSigned, ReadBack, Advertise, Interrupt,
      IncludeInitialize, IncludeElsewhere, IncludeInVain

LEMMA SignedTypeKept ==
    ASSUME IInv, SInv, [SignedNext]_signedVars
    PROVE  SignedTypeOK'
<1> USE DEF SInv, SignedTypeOK
<1>1. ASSUME NEW s \in Sessions, NEW d \in Distributions, NEW p \in TargetPrograms,
             NEW o \in Offers, GetNonce(s, d, p, o)
      PROVE  SignedTypeOK'
  <2>1. [dist |-> d, program_id |-> p, offer |-> o, nonce |-> nonce[d]] \in InitializeTx
    BY DEF InitializeTx
  <2> QED
    BY <1>1, <2>1 DEF GetNonce, Signing, SessionState
<1>2. ASSUME NEW s \in Sessions, SendSigned(s) PROVE SignedTypeOK'
  <2>1. session[s].tx \in InitializeTx
    BY <1>2, CommandTx DEF SendSigned, NoCommand
  <2>2. session[s].tx.nonce <= nonce[session[s].tx.dist]
    BY <1>2 DEF SendSigned, NonceIsPast, NoCommand
  <2> QED
    BY <1>2, <2>1, <2>2 DEF SendSigned, SessionState
<1>3. ASSUME NEW s \in Sessions, ReadBack(s) PROVE SignedTypeOK'
  <2>1. session[s].tx \in InitializeTx
    BY <1>3, CommandTx DEF ReadBack, NoCommand
  <2>2. RootsShown(session[s].tx.dist) \subseteq Roots \cup {NoState}
    BY <2>1, TxParts DEF RootsShown, IInv, TypeOK, Live, DistributionState
  <2>3. OwnerOf(session[s].tx.dist) \in {"airdrop", "other", "nobody"}
    BY DEF OwnerOf
  <2> QED
    BY <1>3, <2>1, <2>2, <2>3 DEF ReadBack, SessionState
<1>4. ASSUME NEW s \in Sessions, Advertise(s) PROVE SignedTypeOK'
  <2>1. session[s].tx \in InitializeTx
    BY <1>4, CommandTx DEF Advertise, NoCommand
  <2> QED
    BY <1>4, <2>1, TxParts DEF Advertise, Told
<1>5. ASSUME NEW s \in Sessions, Interrupt(s) PROVE SignedTypeOK'
  BY <1>5 DEF Interrupt, SessionState
<1>6. ASSUME NEW tx \in signed, IncludeInitialize(tx) \/ IncludeElsewhere(tx) \/ IncludeInVain(tx)
      PROVE  SignedTypeOK'
  <2>1. /\ UNCHANGED <<signed, session, advertised>>
        /\ taken' \subseteq Distributions
    BY <1>6, TxParts DEF IncludeInitialize, IncludeElsewhere, IncludeInVain
  <2>2. \A t \in signed : t.nonce <= nonce'[t.dist]
    BY NoncesGrow, TxParts
  <2> QED
    BY <2>1, <2>2, NoncesGrow
<1>7. CASE UNCHANGED setupVars
  BY <1>7 DEF setupVars
<1> QED
  BY <1>1, <1>2, <1>3, <1>4, <1>5, <1>6, <1>7 DEF SignedNext, signedVars

LEMMA NonceIsPastKept ==
    ASSUME SInv, [SignedNext]_signedVars
    PROVE  NonceIsPast'
<1> SUFFICES ASSUME NEW s \in Sessions, session'[s] # NoCommand
             PROVE  session'[s].tx.nonce <= nonce'[session'[s].tx.dist]
  BY DEF NonceIsPast
<1> USE DEF SInv, SignedTypeOK
<1>1. CASE session[s] # NoCommand /\ session'[s].tx = session[s].tx
  BY <1>1, CommandTx, TxParts, NoncesGrow DEF NonceIsPast
<1>2. CASE \E d \in Distributions, p \in TargetPrograms, o \in Offers : GetNonce(s, d, p, o)
  BY <1>2, NoncesGrow DEF GetNonce, Signing
<1>3. \/ session[s] # NoCommand /\ session'[s].tx = session[s].tx
      \/ \E d \in Distributions, p \in TargetPrograms, o \in Offers : GetNonce(s, d, p, o)
  <2>1. CASE UNCHANGED session
    BY <2>1
  <2>2. ASSUME NEW t \in Sessions, Commands(t), t # s PROVE session'[s] = session[s]
    BY <2>2 DEF Commands, GetNonce, SendSigned, ReadBack, Advertise, Interrupt
  <2>3. CASE SendSigned(s) \/ ReadBack(s) \/ Interrupt(s)
    BY <2>3 DEF SendSigned, ReadBack, Interrupt, NoCommand
  <2> QED
    BY <2>1, <2>2, <2>3
    DEF SignedNext, Commands, signedVars, setupVars, Advertise,
        IncludeInitialize, IncludeElsewhere, IncludeInVain
<1> QED
  BY <1>1, <1>2, <1>3

(* An account that is live stays live, on the same root.                   *)
LEMMA LiveStays ==
    ASSUME IInv, [Next]_vars, NEW d \in Distributions, Live(d)
    PROVE  Live(d)' /\ account'[d].merkle_root = account[d].merkle_root
<1>1. account[d] \in DistributionState
  BY DEF IInv, TypeOK, Live
<1>2. Past(account[d], account'[d])
  BY <1>1, PastReflexive, PastStays
<1> QED
  BY <1>2, NoStateAssumption DEF Past, Terms, Live

LEMMA TakenIsCountedKept ==
    ASSUME SInv, [SignedNext]_signedVars
    PROVE  TakenIsCounted'
<1> USE DEF SInv, SignedTypeOK
<1>1. CASE UNCHANGED taken
  BY <1>1, NoncesGrow DEF TakenIsCounted
<1>2. ASSUME NEW tx \in signed, IncludeElsewhere(tx) PROVE TakenIsCounted'
  <2>1. nonce'[tx.dist] = nonce[tx.dist] + 1 /\ nonce[tx.dist] \in Nat
    BY <1>2, TxParts DEF IncludeElsewhere, CountNonce
  <2> QED
    BY <1>2, <2>1, NoncesGrow DEF IncludeElsewhere, TakenIsCounted
<1> QED
  BY <1>1, <1>2
  DEF SignedNext, signedVars, setupVars, GetNonce, SendSigned, ReadBack, Advertise, Interrupt,
      IncludeInitialize, IncludeInVain

(* The right transaction at the right nonce makes the distribution.        *)
LEMMA IncludedIsLive ==
    ASSUME IInv, SInv, NEW tx \in signed, IncludeInitialize(tx)
    PROVE  Live(tx.dist)'
<1>1. tx.dist \in Distributions /\ tx.offer \in Offers
  BY TxParts DEF SInv, SignedTypeOK
<1>2. account'[tx.dist] = InitialState(tx.offer.merkle_root,
          tx.offer.claim_circuit_program_id, tx.offer.total_supply)
  BY <1>1 DEF IncludeInitialize, Initialize, IInv, TypeOK
<1>3. account'[tx.dist] \in DistributionState
  BY <1>1, <1>2, OffersAssumption, WidthAssumption DEF InitialState, DistributionState, Amounts
<1> QED
  BY <1>3, NoStateAssumption DEF Live

LEMMA LostOnlyElsewhereKept ==
    ASSUME IInv, SInv, [SignedNext]_signedVars
    PROVE  LostOnlyElsewhere'
<1> SUFFICES ASSUME NEW d \in Distributions, nonce'[d] > 0, ~Live(d)'
             PROVE  \E tx \in WrongProgram(d)' : tx.nonce = 0
  BY DEF LostOnlyElsewhere
<1> USE DEF SInv, SignedTypeOK
<1>1. ~Live(d)
  BY LiveStays, SignedStep
<1>2. WrongProgram(d) \subseteq WrongProgram(d)'
  BY DEF SignedNext, signedVars, setupVars, GetNonce, SendSigned, ReadBack, Advertise, Interrupt,
         IncludeInitialize, IncludeElsewhere, IncludeInVain, WrongProgram
<1>3. CASE nonce[d] > 0
  BY <1>1, <1>2, <1>3 DEF LostOnlyElsewhere
<1>4. CASE ~(nonce[d] > 0)
  <2>1. nonce[d] = 0 /\ nonce'[d] # nonce[d] /\ d \notin taken
    BY <1>4 DEF TakenIsCounted
  <2>2. PICK tx \in signed : IncludeInitialize(tx) \/ IncludeElsewhere(tx) \/ IncludeInVain(tx)
    BY <2>1 DEF SignedNext, signedVars, setupVars, GetNonce, SendSigned, ReadBack, Advertise,
                Interrupt
  <2>3. tx.dist = d /\ tx.nonce = 0
    BY <2>1, <2>2 DEF IncludeInitialize, IncludeElsewhere, IncludeInVain, CountNonce
  <2>4. ~IncludeInitialize(tx)
    BY <2>3, IncludedIsLive
  <2>5. tx.program_id # AirdropId
    BY <1>1, <2>1, <2>2, <2>3, <2>4
    DEF IncludeElsewhere, IncludeInVain, RunsInitialize, Untouched
  <2> QED
    BY <1>2, <2>3, <2>5 DEF WrongProgram
<1> QED
  BY <1>3, <1>4

LEMMA ReadIsTrueKept ==
    ASSUME IInv, SInv, [SignedNext]_signedVars
    PROVE  ReadIsTrue'
<1> SUFFICES ASSUME NEW s \in Sessions, session'[s].phase = "read", session'[s].owner = "airdrop"
             PROVE  /\ account'[session'[s].tx.dist] # NoState
                    /\ account'[session'[s].tx.dist].merkle_root = session'[s].merkle_root
  BY DEF ReadIsTrue, Live
<1> USE DEF SInv, SignedTypeOK
<1>1. CASE session'[s] = session[s]
  <2>1. session[s].tx.dist \in Distributions
    BY <1>1, CommandTx, TxParts DEF NoCommand
  <2>2. /\ Live(session[s].tx.dist)
        /\ account[session[s].tx.dist].merkle_root = session[s].merkle_root
    BY <1>1 DEF ReadIsTrue
  <2> QED
    BY <1>1, <2>1, <2>2, LiveStays, SignedStep DEF Live
<1>2. CASE ReadBack(s)
  <2> DEFINE d == session[s].tx.dist
  <2>1. PICK root \in RootsShown(d) :
            session' = [session EXCEPT ![s] = [phase |-> "read", tx |-> session[s].tx,
                                               owner |-> OwnerOf(d), merkle_root |-> root]]
    BY <1>2 DEF ReadBack
  <2>2. session'[s].tx.dist = d /\ session'[s].merkle_root = root /\ OwnerOf(d) = "airdrop"
    BY <2>1
  <2>3. Live(d) /\ root = account[d].merkle_root
    BY <2>2 DEF OwnerOf, RootsShown
  <2> QED
    BY <1>2, <2>2, <2>3 DEF ReadBack, vars, Live
<1>3. session'[s] = session[s] \/ ReadBack(s)
  <2>1. CASE UNCHANGED session
    BY <2>1
  <2>2. ASSUME NEW t \in Sessions, Commands(t) PROVE session'[s] = session[s] \/ ReadBack(s)
    BY <2>2 DEF Commands, GetNonce, Signing, SendSigned, ReadBack, Advertise, Interrupt, NoCommand
  <2> QED
    BY <2>1, <2>2
    DEF SignedNext, Commands, signedVars, setupVars, IncludeInitialize, IncludeElsewhere,
        IncludeInVain
<1> QED
  BY <1>1, <1>2, <1>3

LEMMA AdvertisedKept ==
    ASSUME IInv, SInv, [SignedNext]_signedVars
    PROVE  AdvertisedStaysTrue'
<1> SUFFICES ASSUME NEW a \in advertised'
             PROVE  Live(a.dist)' /\ account'[a.dist].merkle_root = a.merkle_root
  BY DEF AdvertisedStaysTrue
<1> USE DEF SInv, SignedTypeOK
<1>1. CASE a \in advertised
  BY <1>1, LiveStays, SignedStep DEF AdvertisedStaysTrue
<1>2. ASSUME NEW s \in Sessions, Advertise(s), a \notin advertised
      PROVE  Live(a.dist)' /\ account'[a.dist].merkle_root = a.merkle_root
  BY <1>2 DEF Advertise, Told, ReadIsTrue, Live, vars
<1>3. advertised' = advertised \/ \E s \in Sessions : Advertise(s)
  BY DEF SignedNext, signedVars, setupVars, GetNonce, SendSigned, ReadBack, Interrupt,
         IncludeInitialize, IncludeElsewhere, IncludeInVain
<1> QED
  BY <1>1, <1>2, <1>3

LEMMA SignedInvariant == SignedSpec => [](IInv /\ SInv)
<1>1. SignedInit => SInv /\ IInv
  BY SignedInitSound, InitSound DEF SignedInit
<1>2. IInv /\ SInv /\ [SignedNext]_signedVars => IInv' /\ SInv'
  BY SignedStep, NextSound, SignedTypeKept, NonceIsPastKept, TakenIsCountedKept,
     LostOnlyElsewhereKept, ReadIsTrueKept, AdvertisedKept
  DEF SInv
<1> QED
  BY <1>1, <1>2, PTL DEF SignedSpec

-----------------------------------------------------------------------------
(* No transaction carries a nonce its key has not reached, and no shell    *)
(* holds anything but a command's transaction.                             *)
THEOREM SignedTypeCorrect == SignedSpec => []SignedTypeOK
<1>1. SInv => SignedTypeOK
  BY DEF SInv
<1> QED
  BY <1>1, SignedInvariant, PTL

(* What the distributor gave out after reading it back is what claims are  *)
(* checked against, for ever.                                              *)
THEOREM AdvertisedIsFinal == SignedSpec => []AdvertisedStaysTrue
<1>1. SInv => AdvertisedStaysTrue
  BY DEF SInv
<1> QED
  BY <1>1, SignedInvariant, PTL

(* A key whose nonce has moved has its distribution, unless it signed its  *)
(* first nonce away to another program: whatever else was signed, in how   *)
(* many shells, and in whatever order it is included or fails.             *)
THEOREM LossesHaveACause == SignedSpec => []LostOnlyElsewhere
<1>1. SInv => LostOnlyElsewhere
  BY DEF SInv
<1> QED
  BY <1>1, SignedInvariant, PTL
=============================================================================
