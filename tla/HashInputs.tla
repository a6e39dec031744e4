----------------------------- MODULE HashInputs -----------------------------
(***************************************************************************)
(* The bytes that go into SHA-256, in the claim circuit and in the copies  *)
(* that the offline guest, the prover and the SDK have of the same hashes. *)
(* AirdropHash takes a digest for the tuple of what was hashed; this holds *)
(* as far as SHA-256 has no collisions if different tuples are different   *)
(* byte strings, which TreeProofs proves for tuples of every kind.         *)
(***************************************************************************)
EXTENDS Naturals, Sequences

Byte == 0 .. 255
Bytes(n) == {s \in Seq(Byte) : Len(s) = n}
Id == Bytes(32)
Amount == Bytes(16)     \* a u128, low byte first

-----------------------------------------------------------------------------
LeafInput(account_id, allocation) == <<0>> \o account_id \o allocation
NodeInput(left, right) == <<1>> \o left \o right
NullifierInput(account_id, distributor_id) == account_id \o distributor_id

GuestLeafInput(account_id, allocation) == Append(<<>>, 0) \o account_id \o allocation
GuestNodeInput(left, right) == Append(<<>>, 1) \o left \o right
GuestNullifierInput(account_id, distributor_id) == <<>> \o account_id \o distributor_id

ProverLeafInput(account_id, allocation) == <<0>> \o account_id \o allocation

SdkLeafInput(account_id, allocation) == <<0>> \o account_id \o allocation
SdkNodeInput(left, right) == <<1>> \o left \o right

=============================================================================
