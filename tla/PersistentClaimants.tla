------------------------- MODULE PersistentClaimants -------------------------
(***************************************************************************)
(* Claimants who keep at it.  `chain claim` tries once: a proof that was   *)
(* overtaken, a crash or a lost call is the claimant's to repeat.  Here    *)
(* each of some claimants does repeat it, without knowing what became of   *)
(* earlier tries, while everybody proves on snapshots the others overtake. *)
(***************************************************************************)
EXTENDS AirdropChain

CONSTANT Own        \* Own[c]: the claim that the claimant at client c repeats

ASSUME OwnAssumption == Own \in [Clients -> Requests]

(* The transaction the client holds is its own claim, not another one.     *)
HoldsOwn(c) == client[c].tx.post = Execute(Own[c], client[c].tx.pre).data

(* Every run of the command ends, and the command is run again and again;  *)
(* not every run of it dies before it has proved or before it has sent.    *)
Persists(c) ==
    /\ WF_vars(Prove(c) \/ Send(c) \/ Quit(c))
    /\ SF_vars(Fetch(c, Own[c]))
    /\ SF_vars(client[c].phase = "fetched" /\ client[c].request = Own[c] /\ Prove(c))
    /\ SF_vars(client[c].phase = "proved" /\ HoldsOwn(c) /\ Send(c))

HasClaimed(q) == Live(q.dist) /\ Spent(account[q.dist], Nullifier(q.account_id, q.dist))

(* Each landing destroys every other proof under way, so a claimant may    *)
(* lose race after race; but those who won do not race again, and in the   *)
(* end everybody who keeps claiming has claimed.                           *)
PersistentClaimantsAreServed ==
    (\A c \in Clients : Persists(c)) => \A c \in Clients : MayClaim(Own[c]) ~> HasClaimed(Own[c])
=============================================================================
