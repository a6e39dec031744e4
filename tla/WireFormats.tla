----------------------------- MODULE WireFormats -----------------------------
(***************************************************************************)
(* What the parts of the system send each other, at its real widths: the   *)
(* instruction words the CLI encodes by hand and the programs decode by    *)
(* their declarations, the chained call of the claim circuit and the       *)
(* journal in it, the account data the programs and the evidence script    *)
(* read, the input and the journal of the offline guest.  Writer and       *)
(* reader of each are different code; nothing but the order and the widths *)
(* of the fields keeps them together.                                      *)
(*                                                                         *)
(* A byte is a number, a u32 the sequence of its four bytes, low end first *)
(* (all arithmetic on them is taking apart and putting together).          *)
(***************************************************************************)
EXTENDS Naturals, SequencesExt

Byte == 0 .. 255
Octets(n) == [1 .. n -> Byte]
Word == Octets(4)

(* Lengths go as u32.                                                      *)
Countable(s) == Len(s) \div 65536 < 65536
Blob == {b \in Seq(Byte) : Countable(b)}
Ids == {s \in Seq(Octets(32)) : Countable(s)}

JournalType ==
    [ merkle_root : Octets(32), nullifier : Octets(32), distributor_id : Octets(32),
      allocation : Octets(16), recipient_note_hash : Octets(32) ]

(* What a message of each kind is made from, as its writer holds it.       *)
Arguments(kind) ==
    CASE kind = "initialize" ->
            [ merkle_root : Octets(32), claim_circuit_program_id : Octets(32),
              total_supply : Octets(16) ]
      [] kind = "submit_claim" ->
            [ airdrop_program_id : Octets(32), account_id : Octets(32), allocation : Octets(16),
              leaf_index : Word, merkle_path : Ids, recipient_note : Blob ]
      [] kind = "claim" -> [journal_bytes : Blob, recipient_note : Blob]
      [] kind \in {"journal", "attestation"} -> JournalType
      [] kind = "state" ->
            [ merkle_root : Octets(32), claim_circuit_program_id : [1 .. 8 -> Word],
              total_supply : Octets(16), claimed : Octets(16), spent_nullifiers : Ids ]
      [] kind = "prover_input" ->
            [ account_id : Octets(32), allocation : Octets(16), merkle_path : Ids,
              leaf_index : Octets(8), merkle_root : Octets(32), distributor_id : Octets(32),
              recipient_note : Blob ]

Kinds == {"initialize", "submit_claim", "claim", "journal", "state", "prover_input", "attestation"}

CONSTANTS
    Messages,       \* what is sent: [kind |-> ..., args |-> ...]
    JournalCuts     \* bound: bytes a caller of `claim` leaves off a journal

ASSUME MessagesAssumption ==
    \A m \in Messages : m.kind \in Kinds /\ m.args \in Arguments(m.kind)

ASSUME CutsAssumption == JournalCuts \subseteq Nat \ {0}

VARIABLES
    message,    \* what was sent, and the bytes or words it was sent as
    wire,       \* what the reader has not read yet
    todo,       \* fields the reader expects next: <<name, type>>
    fields,     \* what it has read
    verdict     \* "unsent", "sent", "reading", "read" or "refused"

wireVars == <<message, wire, todo, fields, verdict>>

Group(bytes, n) == [i \in 1 .. Len(bytes) \div n |-> SubSeq(bytes, n * (i - 1) + 1, n * i)]

(* A number as a u32, and back.                                            *)
U32(n) == <<n % 256, (n \div 256) % 256, (n \div 65536) % 256, (n \div 16777216) % 256>>
Number(word) == word[1] + 256 * word[2] + 65536 * word[3] + 16777216 * word[4]

-----------------------------------------------------------------------------
(* The command line: 32 hex bytes of a program id are eight u32.           *)
ParseProgramId(bytes) == Group(bytes, 4)

(* `chain state` prints the owner of an account.                           *)
PrintProgramId(words) == FlattenSeq(words)

EncodeBytes32(b) == [i \in DOMAIN b |-> U32(b[i])]

(* Deviation: the high word of a u128 goes first.                          *)
EncodeU128HighFirst(v) == Reverse(Group(v, 4))

EncodeU128(v) == Group(v, 4)

EncodeVecU8(b) == <<U32(Len(b))>> \o EncodeBytes32(b)

InstrInitialize(a) ==
    <<U32(0)>> \o EncodeBytes32(a.merkle_root) \o ParseProgramId(a.claim_circuit_program_id)
      \o EncodeU128(a.total_supply)

InstrSubmitClaim(a) ==
    <<U32(0)>> \o ParseProgramId(a.airdrop_program_id) \o EncodeBytes32(a.account_id)
      \o EncodeU128(a.allocation) \o <<a.leaf_index, U32(Len(a.merkle_path))>>
      \o EncodeBytes32(FlattenSeq(a.merkle_path)) \o EncodeVecU8(a.recipient_note)

(* Deviation: the enum was declared in another order.                      *)
AirdropInstructionSwapped == <<"claim", "initialize">>

(* The claim circuit's own copy of the airdrop program's instruction enum. *)
AirdropInstruction == <<"initialize", "claim">>

ChainedClaim(a) ==
    <<U32((CHOOSE i \in DOMAIN AirdropInstruction : AirdropInstruction[i] = "claim") - 1)>>
      \o EncodeVecU8(a.journal_bytes) \o EncodeVecU8(a.recipient_note)

JournalBytes(a) ==
    a.merkle_root \o a.nullifier \o a.distributor_id \o a.allocation \o a.recipient_note_hash

StateBytes(a) ==
    a.merkle_root \o FlattenSeq(a.claim_circuit_program_id) \o a.total_supply \o a.claimed
      \o U32(Len(a.spent_nullifiers)) \o FlattenSeq(a.spent_nullifiers)

(* `airdrop-claim prove` writes the guest's input field by field; usize is *)
(* eight bytes on the host.                                                *)
ProverInput(a) ==
    EncodeBytes32(a.account_id) \o Group(a.allocation, 4) \o <<U32(Len(a.merkle_path))>>
      \o EncodeBytes32(FlattenSeq(a.merkle_path)) \o Group(a.leaf_index, 4)
      \o EncodeBytes32(a.merkle_root) \o EncodeBytes32(a.distributor_id)
      \o EncodeVecU8(a.recipient_note)

GuestCommit(a) ==
    EncodeBytes32(a.merkle_root) \o EncodeBytes32(a.nullifier)
      \o EncodeBytes32(a.distributor_id) \o Group(a.allocation, 4)
      \o EncodeBytes32(a.recipient_note_hash)

Written(m) ==
    CASE m.kind = "initialize"   -> InstrInitialize(m.args)
      [] m.kind = "submit_claim" -> InstrSubmitClaim(m.args)
      [] m.kind = "claim"        -> ChainedClaim(m.args)
      [] m.kind = "journal"      -> JournalBytes(m.args)
      [] m.kind = "state"        -> StateBytes(m.args)
      [] m.kind = "prover_input" -> ProverInput(m.args)
      [] m.kind = "attestation"  -> GuestCommit(m.args)

-----------------------------------------------------------------------------
(* The declarations on the other side.                                     *)
InitializeFields ==
    << <<"merkle_root", "id">>, <<"claim_circuit_program_id", "program_id">>,
       <<"total_supply", "u128">> >>

ClaimFields == << <<"journal_bytes", "blob">>, <<"recipient_note", "blob">> >>

SubmitClaimFields ==
    << <<"airdrop_program_id", "program_id">>, <<"account_id", "id">>, <<"allocation", "u128">>,
       <<"leaf_index", "u32">>, <<"merkle_path", "ids">>, <<"recipient_note", "blob">> >>

ClaimJournalRaw ==
    << <<"merkle_root", "id">>, <<"nullifier", "id">>, <<"distributor_id", "id">>,
       <<"allocation", "u128">>, <<"recipient_note_hash", "id">> >>

DistributionStateFields ==
    << <<"merkle_root", "id">>, <<"claim_circuit_program_id", "program_id">>,
       <<"total_supply", "u128">>, <<"claimed", "u128">>, <<"spent_nullifiers", "ids">> >>

GuestInput ==
    << <<"account_id", "id">>, <<"allocation", "u128">>, <<"merkle_path", "ids">>,
       <<"leaf_index", "usize">>, <<"merkle_root", "id">>, <<"distributor_id", "id">>,
       <<"recipient_note", "blob">> >>

(* `airdrop-claim verify` decodes the receipt's journal.                   *)
VerifierJournal ==
    << <<"merkle_root", "id">>, <<"nullifier", "id">>, <<"distributor_id", "id">>,
       <<"allocation", "u128">>, <<"recipient_note_hash", "id">> >>

(* A program finds the instruction by its place among its declarations.    *)
AirdropInstructions == <<InitializeFields, ClaimFields>>
ClaimCircuitInstructions == <<SubmitClaimFields>>

Program(m) == IF m.kind = "submit_claim" THEN ClaimCircuitInstructions ELSE AirdropInstructions
IsInstruction(m) == m.kind \in {"initialize", "claim", "submit_claim"}
IsBorsh(m) == m.kind \in {"journal", "state"}

Struct(m) ==
    CASE m.kind = "journal"      -> ClaimJournalRaw
      [] m.kind = "state"        -> DistributionStateFields
      [] m.kind = "prover_input" -> GuestInput
      [] m.kind = "attestation"  -> VerifierJournal

(* The evidence script looks for the number of nullifiers in b[96:100].    *)
NullifierCountBefore(data) == IF data = <<>> THEN 0 ELSE Number(SubSeq(data, 96, 99))  \* Deviation
NullifierCount(data) == IF Len(data) < 100 THEN 0 ELSE Number(SubSeq(data, 97, 100))

-----------------------------------------------------------------------------
(* How long a field is in what is left, in words or bytes.                 *)
Count(rest) == IF IsBorsh(message) THEN Number(SubSeq(rest, 1, 4)) ELSE Number(rest[1])
CountLength == IF IsBorsh(message) THEN 4 ELSE 1

Width(type, rest) ==
    LET packed(bytes) == IF IsBorsh(message) THEN bytes ELSE bytes \div 4
    IN  CASE type = "id"         -> 32
          [] type = "program_id" -> packed(32)
          [] type = "u128"       -> packed(16)
          [] type = "u32"        -> packed(4)
          [] type = "usize"      -> packed(8)
          [] type = "blob"       -> CountLength + Count(rest)
          [] type = "ids"        -> CountLength + 32 * Count(rest)

Fits(type, rest) ==
    /\ type \in {"blob", "ids"} => Len(rest) >= CountLength
    /\ Width(type, rest) <= Len(rest)

(* risc0's reader refuses a u8 word above 255 and, in a guest of 32 bits,  *)
(* a usize with anything in its high word.                                 *)
Legal(type, part) ==
    IsBorsh(message) \/
    CASE type = "id"    -> \A i \in DOMAIN part : Tail(part[i]) = <<0, 0, 0>>
      [] type = "usize" -> part[2] = <<0, 0, 0, 0>>
      [] OTHER          -> TRUE

Value(type, part) ==
    LET bytes(s) == IF IsBorsh(message) THEN s ELSE [i \in DOMAIN s |-> s[i][1]]
        joined   == IF IsBorsh(message) THEN part ELSE FlattenSeq(part)
        content  == SubSeq(part, CountLength + 1, Len(part))
    IN  CASE type = "id"                    -> bytes(part)
          [] type = "program_id"            -> Group(joined, 4)
          [] type \in {"u128", "u32", "usize"} -> joined
          [] type = "blob"                  -> bytes(content)
          [] type = "ids"                   -> Group(bytes(content), 32)

(* What arrives is what was written, but for the data of an account nobody *)
(* initialized.                                                            *)
Arrivals(m) == {Written(m)} \cup (IF m.kind = "state" THEN {<<>>} ELSE {})

(* Any program may call `claim` with a journal of its own making.          *)
MadeUp(m) ==
    LET w == Written(m)
    IN  {SubSeq(w, 1, Len(w) - n) : n \in JournalCuts} \cup {Append(w, 0)}

(* `verdict` "unsent": nobody has sent anything yet.                       *)
Silence == [kind |-> "none", args |-> <<>>, arrived |-> <<>>]

WireInit ==
    /\ message = Silence
    /\ wire = <<>>
    /\ todo = <<>>
    /\ fields = <<>>
    /\ verdict = "unsent"

WireIdle == verdict \notin {"sent", "reading"}

Transmit(m, w) ==
    /\ WireIdle
    /\ message' = [kind |-> m.kind, args |-> m.args, arrived |-> w]
    /\ wire' = w
    /\ todo' = <<>>
    /\ fields' = <<>>
    /\ verdict' = "sent"

(* The first word of an instruction says which it is; the rest of what is  *)
(* sent is read as what it is expected to be.                              *)
Dispatch ==
    /\ verdict = "sent"
    /\ IF ~IsInstruction(message)
       THEN todo' = Struct(message) /\ wire' = wire /\ verdict' = "reading"
       ELSE LET variant == Number(wire[1]) + 1
            IN  IF variant \in DOMAIN Program(message)
                THEN todo' = Program(message)[variant] /\ wire' = Tail(wire) /\ verdict' = "reading"
                ELSE verdict' = "refused" /\ UNCHANGED <<wire, todo>>
    /\ UNCHANGED <<message, fields>>

ReadField ==
    /\ verdict = "reading" /\ todo # <<>>
    /\ LET name == todo[1][1]
           type == todo[1][2]
           n    == Width(type, wire)
       IN  IF Fits(type, wire) /\ Legal(type, SubSeq(wire, 1, n))
           THEN /\ fields' = Append(fields, <<name, Value(type, SubSeq(wire, 1, n))>>)
                /\ wire' = SubSeq(wire, n + 1, Len(wire))
                /\ todo' = Tail(todo)
                /\ UNCHANGED verdict
           ELSE verdict' = "refused" /\ UNCHANGED <<wire, todo, fields>>
    /\ UNCHANGED message

(* Deviation: a reader that stops when it has all its fields.              *)
FinishAnyway ==
    /\ verdict = "reading" /\ todo = <<>>
    /\ verdict' = "read"
    /\ UNCHANGED <<message, wire, todo, fields>>

(* try_from_slice refuses bytes that are left over.                        *)
Finish ==
    /\ verdict = "reading" /\ todo = <<>>
    /\ verdict' = IF IsBorsh(message) /\ wire # <<>> THEN "refused" ELSE "read"
    /\ UNCHANGED <<message, wire, todo, fields>>

Read == Dispatch \/ ReadField \/ Finish

-----------------------------------------------------------------------------
WireTypeOK ==
    /\ verdict \in {"unsent", "sent", "reading", "read", "refused"}
    /\ \A i \in DOMAIN todo : todo[i][1] \in DOMAIN message.args
    /\ \A i \in DOMAIN fields : fields[i][1] \in DOMAIN message.args

Intact == message.arrived = Written(message)

(* What a field comes back as: a program id is typed, and printed, as bytes. *)
Shown(name, value) ==
    IF name \in {"airdrop_program_id", "claim_circuit_program_id"} /\ message.kind # "state"
    THEN PrintProgramId(value) ELSE value

(* The reader ends up with every field the writer meant, under its name,   *)
(* and refuses nothing but a leaf index no 32-bit guest can hold; and the  *)
(* owner `chain state` prints of a program's account is the id that was    *)
(* typed, for which demo.sh and the evidence script wait.                  *)
ReadsWhatWasMeant ==
    /\ verdict = "read" /\ Intact =>
          {<<f[1], Shown(f[1], f[2])>> : f \in Range(fields)} =
              {<<name, message.args[name]>> : name \in DOMAIN message.args}
    /\ verdict = "refused" /\ Intact =>
          message.kind = "prover_input"
            /\ SubSeq(message.args.leaf_index, 5, 8) # <<0, 0, 0, 0>>

(* Account data nobody wrote, and a journal that is cut or is a byte too   *)
(* long, decode as nothing.                                                *)
PartsAreRefused == verdict = "read" => Intact

(* The script's count is the number of nullifiers, none if nobody          *)
(* initialized the account.                                                *)
ScriptCountsNullifiers ==
    message.kind = "state" =>
        NullifierCount(message.arrived) =
            IF Intact THEN Len(message.args.spent_nullifiers) ELSE 0
=============================================================================
