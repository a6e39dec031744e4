---------------------------- MODULE ClientProgram ----------------------------
(***************************************************************************)
(* One run of `airdrop-claim` together with what it exchanges on the way:  *)
(* a call of a handler writes messages, one after the other, and what      *)
(* their readers refuse makes the call fail.                               *)
(***************************************************************************)
EXTENDS CommandLine, WireFormats

VARIABLE due        \* the kinds of messages that the current call has yet to exchange

clientVars == <<run, steps, calls, status, message, wire, todo, fields, verdict, due>>

(* Proving a claim executes the claim circuit and, in its chained call, the *)
(* airdrop program, on the account data that was fetched.                  *)
Carries(command, call) ==
    CASE command = "prove" /\ call = "run prover"       -> <<"prover_input">>
      [] command = "prove" /\ call = "decode journal"   -> <<"attestation">>
      [] command = "verify" /\ call = "verify"          -> <<"attestation">>
      [] command = "chain initialize" /\ call = "send"  -> <<"initialize">>
      [] command = "chain claim" /\ call = "run prover" ->
            <<"submit_claim", "claim", "state", "journal">>
      [] OTHER                                          -> <<>>

ProgramInit == CliInit /\ WireInit /\ due = <<>>

Quiet == due = <<>> /\ WireIdle /\ verdict # "refused"

Handle ==
    /\ Quiet
    /\ CliNext
    /\ due' = IF calls' = calls THEN <<>>
              ELSE Carries(run.invocation.command, calls'[Len(calls')])
    /\ UNCHANGED wireVars

Exchange ==
    /\ due # <<>> /\ verdict # "refused"
    /\ \E m \in Messages :
          /\ m.kind = Head(due)
          /\ \E w \in Arrivals(m) : Transmit(m, w)
    /\ due' = Tail(due)
    /\ UNCHANGED cliVars

(* The call fails with what was to be read in it.                          *)
Refused ==
    /\ verdict = "refused" /\ status = "running"
    /\ status' = "failed"
    /\ due' = <<>>
    /\ UNCHANGED <<run, steps, calls, wireVars>>

(* Somebody else's call of `claim`, here after a run with which it would   *)
(* have nothing to do.                                                     *)
AnotherCaller ==
    /\ status \in {"usage", "failed", "ended"} /\ Quiet
    /\ \E m \in Messages : m.kind = "journal" /\ \E w \in MadeUp(m) : Transmit(m, w)
    /\ UNCHANGED <<run, steps, calls, status, due>>

ProgramNext ==
    \/ Handle \/ Exchange \/ Refused \/ AnotherCaller
    \/ Read /\ UNCHANGED <<run, steps, calls, status, due>>

ProgramSpec == ProgramInit /\ [][ProgramNext]_clientVars
=============================================================================
