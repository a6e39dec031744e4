---------------------------- MODULE MCClientProgram ---------------------------
(* Every command, all right but for up to two of its options, each of them *)
(* left out, empty, wrong or, a file, not to be opened; and messages whose *)
(* bytes are all different, at the widths of the code.                     *)
EXTENDS ClientProgram, FiniteSetsExt

Id(k) == [i \in 1 .. 32 |-> (k + i) % 256]
Small == <<232, 3>> \o [i \in 1 .. 14 |-> 0]      \* 1000
Amounts == {Small, [i \in 1 .. 16 |-> 15 * i]}
Paths == {<<>>, <<Id(70)>>, <<Id(71), Id(72)>>}
Notes == {<<>>, <<202, 254, 186, 190>>}
Indices == {<<1, 0, 0, 0>>, <<255, 255, 255, 255>>}

Journals ==
    [merkle_root : {Id(1)}, nullifier : {Id(2)}, distributor_id : {Id(3)}, allocation : Amounts,
     recipient_note_hash : {Id(4)}]

Sent(kind, arguments) == [kind : {kind}, args : arguments]

MCMessages ==
    Sent("initialize", [merkle_root : {Id(1)}, claim_circuit_program_id : {Id(200), Id(240)},
                        total_supply : Amounts])
      \cup Sent("submit_claim",
                [airdrop_program_id : {Id(200)}, account_id : {Id(5)}, allocation : Amounts,
                 leaf_index : Indices, merkle_path : Paths, recipient_note : Notes])
      \cup Sent("claim", [journal_bytes : {JournalBytes(j) : j \in Journals},
                          recipient_note : Notes])
      \cup Sent("journal", Journals)
      \cup Sent("state", [merkle_root : {Id(1)}, claim_circuit_program_id : {Group(Id(200), 4)},
                          total_supply : {Small}, claimed : Amounts, spent_nullifiers : Paths])
      \cup Sent("prover_input",
                [account_id : {Id(5)}, allocation : Amounts, merkle_path : Paths,
                 leaf_index : {<<1, 0, 0, 0, 0, 0, 0, 0>>, <<0, 0, 0, 0, 1, 0, 0, 0>>},
                 merkle_root : {Id(1)}, distributor_id : {Id(3)}, recipient_note : Notes])
      \cup Sent("attestation", Journals)

Faulty(command) ==
    LET options == DOMAIN Options(command)
        Given(faulty, fault) ==
            [o \in options \ {f \in faulty : fault[f] = "missing"} |->
                IF o \in faulty THEN fault[o] ELSE "good"]
        Faults(o) == {"missing", "bad", "empty"}
                       \cup IF Options(command)[o] \in {"input", "output"} THEN {"shut"} ELSE {}
    IN  UNION {{Given(faulty, fault) :
                  fault \in {f \in [faulty -> {"missing", "bad", "empty", "shut"}] :
                               \A o \in faulty : f[o] \in Faults(o)}} :
                  faulty \in UNION {kSubset(k, options) : k \in 0 .. 2}}

MCInvocations ==
    UNION {{[command |-> c, given |-> g] : g \in Faulty(c)} : c \in Commands}
=============================================================================
