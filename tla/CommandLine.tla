----------------------------- MODULE CommandLine -----------------------------
(***************************************************************************)
(* A run of `airdrop-claim`: clap takes the options apart, the handler of  *)
(* the command understands them one after the other, and in between come   *)
(* the calls that do something: files, proofs, the sequencer.  Any of      *)
(* those may fail, and each of them ends the run where it stands.          *)
(*                                                                         *)
(* A value is "good", "empty" (the empty string), or "bad": a text that is *)
(* not what the option holds, or the name of a file with something else in *)
(* it.  "shut" is the name of a file that cannot be opened, to read it or  *)
(* to write it.                                                            *)
(***************************************************************************)
EXTENDS SequencesExt

CONSTANT Invocations    \* [command, given]: the values given to some options

VARIABLES
    run,        \* the command line, and whether the build has feature `chain`
    steps,      \* what the handler has still to do
    calls,      \* calls made so far that reach out of the process
    status      \* "typed", "running", "usage", "failed" or "ended"

cliVars == <<run, steps, calls, status>>

Commands ==
    {"prove", "verify", "chain keygen", "chain state", "chain initialize", "chain claim"}

-----------------------------------------------------------------------------
(* The options of each command and what they hold, an "id" being 32 bytes  *)
(* in hexadecimal.  Defaults may be left out.                              *)
ProveOptions ==
    [ account_id |-> "id", allocation |-> "number", distributor_id |-> "id",
      merkle_root |-> "id", leaf_index |-> "number", merkle_path |-> "id list",
      recipient_note |-> "hex", out |-> "output" ]

VerifyOptions ==
    [ receipt |-> "input", distributor_id |-> "id", merkle_root |-> "id",
      recipient_note |-> "hex" ]

StateOptions == [sequencer |-> "url", distributor_id |-> "id"]

InitializeOptions ==
    [ sequencer |-> "url", program_id |-> "id", claim_circuit_program_id |-> "id",
      signing_key |-> "id", merkle_root |-> "id", total_supply |-> "number" ]

ClaimOptions ==
    [ sequencer |-> "url", program_id |-> "id", claim_circuit_bin |-> "input",
      airdrop_bin |-> "input", distributor_id |-> "id", account_id |-> "id",
      allocation |-> "number", leaf_index |-> "number", merkle_path |-> "id list",
      recipient_note |-> "hex" ]

Defaults == {"out", "sequencer", "claim_circuit_bin", "airdrop_bin"}

Options(command) ==
    CASE command = "prove"            -> ProveOptions
      [] command = "verify"           -> VerifyOptions
      [] command = "chain keygen"     -> <<>>
      [] command = "chain state"      -> StateOptions
      [] command = "chain initialize" -> InitializeOptions
      [] command = "chain claim"      -> ClaimOptions

(* A default that does not hold here is as if it had been given.           *)
Told(i, o) == IF o \in DOMAIN i.given THEN i.given[o] ELSE "good"

(* Unknown commands and options, which clap refuses, are left out.         *)
ASSUME InvocationsAssumption ==
    \A i \in Invocations :
        /\ i.command \in Commands
        /\ DOMAIN i.given \subseteq DOMAIN Options(i.command)
        /\ \A o \in DOMAIN i.given : i.given[o] \in {"good", "bad", "empty", "shut"}

(* What the handlers do, in their order: a step that is an option is the   *)
(* understanding of its text, or of what was read from its file.  The      *)
(* address of the sequencer is understood when the client is built, and    *)
(* the two programs when the account has been fetched.                     *)
ProveHandler ==
    <<"account_id", "distributor_id", "merkle_root", "recipient_note", "merkle_path",
      "run prover", "write receipt", "decode journal", "print">>

VerifyHandler ==
    <<"distributor_id", "merkle_root", "recipient_note", "read receipt", "receipt", "verify",
      "print">>

StateHandler == <<"distributor_id", "sequencer", "get account", "print">>

(* Deviation: the root is looked at last.                                  *)
InitializeHandlerLate ==
    <<"program_id", "claim_circuit_program_id", "signing_key", "sequencer", "get nonce",
      "merkle_root", "send", "print">>

InitializeHandler ==
    <<"program_id", "claim_circuit_program_id", "signing_key", "merkle_root", "sequencer",
      "get nonce", "send", "print">>

ClaimHandler ==
    <<"program_id", "distributor_id", "account_id", "recipient_note", "merkle_path",
      "read claim circuit", "read airdrop", "sequencer", "get account", "claim_circuit_bin",
      "airdrop_bin", "run prover", "send", "print">>

Handler(command) ==
    CASE command = "prove"            -> ProveHandler
      [] command = "verify"           -> VerifyHandler
      [] command = "chain keygen"     -> <<"print">>
      [] command = "chain state"      -> StateHandler
      [] command = "chain initialize" -> InitializeHandler
      [] command = "chain claim"      -> ClaimHandler

(* The calls that open a file, and the option that names it.               *)
Opened ==
    {<<"read receipt", "receipt">>, <<"write receipt", "out">>,
     <<"read claim circuit", "claim_circuit_bin">>, <<"read airdrop", "airdrop_bin">>}

IsChain(command) == command \notin {"prove", "verify"}

-----------------------------------------------------------------------------
(* clap itself takes numbers apart, and any file name that is not empty.   *)
ClapAccepts(type, value) ==
    /\ type = "number" => value = "good"
    /\ type \in {"input", "output"} => value # "empty"

(* The bytes of an empty text are no bytes, which a note may be; splitting *)
(* an empty list of siblings at the commas leaves one empty text; and what *)
(* is in the file that is written to does not matter.                      *)
Understood(type, value) ==
    \/ value = "good"
    \/ value = "empty" /\ type = "hex"
    \/ value = "bad" /\ type = "output"

WellTyped(command, given) ==
    LET options == Options(command)
    IN  /\ DOMAIN options \ Defaults \subseteq DOMAIN given
        /\ \A o \in DOMAIN given : ClapAccepts(options[o], given[o])

CliInit ==
    /\ run \in [invocation : Invocations, chain : BOOLEAN]
    /\ steps = Handler(run.invocation.command)
    /\ calls = <<>>
    /\ status = "typed"

(* Cli::parse, and chain_not_available in a build without the feature.     *)
ParseOptions ==
    /\ status = "typed"
    /\ status' = IF ~WellTyped(run.invocation.command, run.invocation.given) THEN "usage"
                 ELSE IF IsChain(run.invocation.command) /\ ~run.chain THEN "failed"
                 ELSE "running"
    /\ UNCHANGED <<run, steps, calls>>

Understand(option) ==
    /\ status = "running" /\ steps # <<>> /\ Head(steps) = option
    /\ LET type == Options(run.invocation.command)[option]
       IN  IF Understood(type, Told(run.invocation, option))
           THEN steps' = Tail(steps) /\ UNCHANGED status
           ELSE status' = "failed" /\ UNCHANGED steps
    /\ UNCHANGED <<run, calls>>

CanOpen(call) == \A f \in Opened : f[1] = call => Told(run.invocation, f[2]) # "shut"

(* Everything else may fail, a send after it reached the sequencer.        *)
Call ==
    /\ status = "running" /\ steps # <<>>
    /\ Head(steps) \notin DOMAIN Options(run.invocation.command)
    /\ calls' = Append(calls, Head(steps))
    /\ \/ CanOpen(Head(steps)) /\ steps' = Tail(steps) /\ UNCHANGED status
       \/ status' = "failed" /\ UNCHANGED steps
    /\ UNCHANGED run

End ==
    /\ status = "running" /\ steps = <<>>
    /\ status' = "ended"
    /\ UNCHANGED <<run, steps, calls>>

CliNext ==
    \/ ParseOptions \/ Call \/ End
    \/ \E o \in DOMAIN Options(run.invocation.command) : Understand(o)

-----------------------------------------------------------------------------
Misread(o) ==
    ~Understood(Options(run.invocation.command)[o], Told(run.invocation, o))

(* What a command may have done although an option of this type is wrong:  *)
(* it reads its files before it takes the sequencer's address, fetches the *)
(* account before it knows whether the files are programs, and opens the   *)
(* file of the receipt when the receipt is there.                          *)
MayPrecede(type) ==
    CASE type = "url"    -> {"read claim circuit", "read airdrop"}
      [] type = "input"  -> {"read receipt", "read claim circuit", "read airdrop", "get account"}
      [] type = "output" -> {"run prover", "write receipt"}
      [] OTHER           -> {}

(* A misspelt text is found before anything is done, main.rs:433-442,      *)
(* 480-482, 530, 541-545 and 553-562; a wrong address before the sequencer *)
(* is asked anything; a wrong input file before anything is proved, sent   *)
(* or printed.  Only a file that `prove` cannot write, line 460, costs a   *)
(* proof.                                                                  *)
FaultsAreFoundInTime ==
    \A o \in DOMAIN run.invocation.given :
        Misread(o) => Range(calls) \subseteq MayPrecede(Options(run.invocation.command)[o])
=============================================================================
