---------------------------- MODULE ClientProofs ----------------------------
(***************************************************************************)
(* Proofs about the command line and about the encodings, for messages of  *)
(* any bytes and any length.                                               *)
(*                                                                         *)
(* The command line: an option that is not understood is either what clap  *)
(* stops at, or the step that stops at it is still to come, and everything *)
(* before that step is what may precede it.                                *)
(*                                                                         *)
(* The encodings, from the bottom up:                                      *)
(*   - a field that was written as its reader expects it is read as what   *)
(*     it was written from, and what follows it is left (FieldIsRead);     *)
(*   - each writer's message is the fields that its reader expects, one    *)
(*     after the other, although writer and reader name and group them     *)
(*     differently;                                                        *)
(*   - so there are rests r[0], ..., r[n], where r[k] is what is left of   *)
(*     the message when k fields have been read.                           *)
(* The invariant is that r[k] is what is left on the wire, and that the k  *)
(* fields read are what was meant.  A journal that was cut or made longer  *)
(* keeps on having a length that no journal's rest has.                    *)
(***************************************************************************)
EXTENDS ClientProgram, DataLemmas

CommandOptions == Options(run.invocation.command)
Given == run.invocation.given

(* The run cannot go past this step when option o has value v.             *)
Stops(options, step, o, v) ==
    \/ step = o /\ ~Understood(options[o], v)
    \/ step \notin DOMAIN options /\ <<step, o>> \in Opened /\ v = "shut"

(* Such a step among these, with nothing before it but what may be there.  *)
StopsAhead(options, h, o, v) ==
    \E i \in 1 .. Len(h) :
        /\ Stops(options, h[i], o, v)
        /\ \A j \in 1 .. i : h[j] \in DOMAIN options \cup MayPrecede(options[o])

(* Nothing is done past an option that is not understood: clap stops at it *)
(* or it is still to come.                                                 *)
MisreadAhead ==
    \A o \in DOMAIN Given : Misread(o) =>
        /\ Range(calls) \subseteq MayPrecede(CommandOptions[o])
        /\ \/ ~ClapAccepts(CommandOptions[o], Given[o]) /\ status \in {"typed", "usage"}
           \/ StopsAhead(CommandOptions, steps, o, Given[o])

CInv ==
    /\ run \in [invocation : Invocations, chain : BOOLEAN]
    /\ IsSequence(steps)
    /\ IsSequence(calls)
    /\ MisreadAhead

-----------------------------------------------------------------------------

(* An option that is not understood stops a handler where it looks at it.  *)
LEMMA LooksInFront ==
    ASSUME NEW options, NEW h, NEW o, NEW v, NEW n \in Nat, n <= Len(h), Len(h) \in Nat,
           ~Understood(options[o], v),
           \A j \in 1 .. n : h[j] \in DOMAIN options \cup MayPrecede(options[o]),
           \E i \in 1 .. n : h[i] = o
    PROVE  StopsAhead(options, h, o, v)
<1>1. PICK i \in 1 .. n : h[i] = o
  OBVIOUS
<1>2. i \in 1 .. Len(h) /\ Stops(options, h[i], o, v) /\ 1 .. i \subseteq 1 .. n
  BY <1>1 DEF Stops
<1> QED
  BY <1>2 DEF StopsAhead

(* What clap lets through and is not understood stops its handler in time. *)
LEMMA HandlersLookFirst ==
    ASSUME NEW command \in Commands, NEW o \in DOMAIN Options(command),
           NEW v \in {"good", "bad", "empty", "shut"},
           ClapAccepts(Options(command)[o], v), ~Understood(Options(command)[o], v)
    PROVE  StopsAhead(Options(command), Handler(command), o, v)
<1>a. /\ Options(command)[o] # "number"
      /\ Options(command)[o] = "output" => v = "shut"
  BY DEF ClapAccepts, Understood
<1>1. CASE command = "prove"
  <2>1. Handler(command) = ProveHandler /\ Options(command) = ProveOptions
    BY <1>1 DEF Handler, Options
  <2>2. DOMAIN ProveOptions =
           {"account_id", "allocation", "distributor_id", "merkle_root", "leaf_index",
            "merkle_path", "recipient_note", "out"}
    BY DEF ProveOptions
  <2>3. CASE o = "out"
    <3>1. ProveOptions[o] = "output" /\ v = "shut"
      <4>1. ProveOptions["out"] = "output"
        BY DEF ProveOptions
      <4> QED
        BY <1>a, <2>1, <2>3, <4>1, Zenon
    <3>2. <<"write receipt", o>> \in Opened
      BY <2>3 DEF Opened
    <3>3. "write receipt" \notin DOMAIN ProveOptions
      BY <2>2
    <3>4. Stops(ProveOptions, "write receipt", o, v)
      BY <3>1, <3>2, <3>3 DEF Stops
    <3>5. MayPrecede(ProveOptions[o]) = {"run prover", "write receipt"}
      BY <3>1 DEF MayPrecede
    <3>6. /\ Len(ProveHandler) = 9 /\ ProveHandler[7] = "write receipt"
          /\ \A j \in 1 .. 7 :
                ProveHandler[j] \in DOMAIN ProveOptions \cup {"run prover", "write receipt"}
      BY <2>2 DEF ProveHandler
    <3>7. StopsAhead(ProveOptions, ProveHandler, o, v)
      <4>1. 7 \in 1 .. Len(ProveHandler)
        <5>1. Len(ProveHandler) = 9
          BY <3>6
        <5> QED
          BY <5>1
      <4> QED
        BY <3>4, <3>5, <3>6, <4>1 DEF StopsAhead
    <3> QED
      BY <2>1, <3>7
  <2>4. CASE o # "out"
    <3>1. o \in {"account_id", "distributor_id", "merkle_root", "recipient_note", "merkle_path"}
      <4>1. /\ ProveOptions["allocation"] = "number"
            /\ ProveOptions["leaf_index"] = "number"
        BY DEF ProveOptions
      <4>2. o \in DOMAIN ProveOptions /\ ProveOptions[o] # "number"
        BY <1>a, <2>1
      <4> QED
        BY <2>2, <2>4, <4>1, <4>2
    <3>2. /\ Len(ProveHandler) \in Nat /\ 5 <= Len(ProveHandler)
          /\ \A j \in 1 .. 5 : ProveHandler[j] \in DOMAIN ProveOptions
          /\ \E i \in 1 .. 5 : ProveHandler[i] = o
      BY <2>2, <3>1 DEF ProveHandler
    <3> QED
      BY LooksInFront, <2>1, <3>2
  <2> QED
    BY <2>3, <2>4
<1>2. CASE command = "verify"
  <2>1. Handler(command) = VerifyHandler /\ Options(command) = VerifyOptions
    BY <1>2 DEF Handler, Options
  <2>2. DOMAIN VerifyOptions = {"receipt", "distributor_id", "merkle_root", "recipient_note"}
    BY DEF VerifyOptions
  <2>3. CASE o = "receipt"
    <3>1. MayPrecede(VerifyOptions[o]) =
              {"read receipt", "read claim circuit", "read airdrop", "get account"}
      BY <2>3 DEF MayPrecede, VerifyOptions
    <3>2. /\ Len(VerifyHandler) \in Nat /\ 5 <= Len(VerifyHandler)
          /\ \A j \in 1 .. 5 : VerifyHandler[j] \in DOMAIN VerifyOptions \cup {"read receipt"}
          /\ \E i \in 1 .. 5 : VerifyHandler[i] = o
      BY <2>2, <2>3 DEF VerifyHandler
    <3> QED
      BY LooksInFront, <2>1, <3>1, <3>2
  <2>4. CASE o # "receipt"
    <3>1. o \in {"distributor_id", "merkle_root", "recipient_note"}
      BY <2>1, <2>2, <2>4
    <3>2. /\ Len(VerifyHandler) \in Nat /\ 3 <= Len(VerifyHandler)
          /\ \A j \in 1 .. 3 : VerifyHandler[j] \in DOMAIN VerifyOptions
          /\ \E i \in 1 .. 3 : VerifyHandler[i] = o
      BY <2>2, <3>1 DEF VerifyHandler
    <3> QED
      BY LooksInFront, <2>1, <3>2
  <2> QED
    BY <2>3, <2>4
<1>3. CASE command = "chain state"
  <2>1. Handler(command) = StateHandler /\ Options(command) = StateOptions
    BY <1>3 DEF Handler, Options
  <2>2. o \in {"sequencer", "distributor_id"}
    BY <2>1 DEF StateOptions
  <2>3. /\ Len(StateHandler) \in Nat /\ 2 <= Len(StateHandler)
        /\ \A j \in 1 .. 2 : StateHandler[j] \in DOMAIN StateOptions
        /\ \E i \in 1 .. 2 : StateHandler[i] = o
    BY <2>2 DEF StateHandler, StateOptions
  <2> QED
    BY LooksInFront, <2>1, <2>3
<1>4. CASE command = "chain initialize"
  <2>1. Handler(command) = InitializeHandler /\ Options(command) = InitializeOptions
    BY <1>4 DEF Handler, Options
  <2>2. DOMAIN InitializeOptions =
           {"sequencer", "program_id", "claim_circuit_program_id", "signing_key", "merkle_root",
            "total_supply"}
    BY DEF InitializeOptions
  <2>3. o # "total_supply"
    BY <1>a, <2>1 DEF InitializeOptions
  <2>4. o \in {"sequencer", "program_id", "claim_circuit_program_id", "signing_key",
               "merkle_root"}
    BY <2>1, <2>2, <2>3
  <2>5. /\ Len(InitializeHandler) \in Nat /\ 5 <= Len(InitializeHandler)
        /\ \A j \in 1 .. 5 : InitializeHandler[j] \in DOMAIN InitializeOptions
        /\ \E i \in 1 .. 5 : InitializeHandler[i] = o
    BY <2>2, <2>4 DEF InitializeHandler
  <2> QED
    BY LooksInFront, <2>1, <2>5
<1>5. CASE command = "chain claim"
  <2>1. Handler(command) = ClaimHandler /\ Options(command) = ClaimOptions
    BY <1>5 DEF Handler, Options
  <2>2. DOMAIN ClaimOptions =
           {"sequencer", "program_id", "claim_circuit_bin", "airdrop_bin", "distributor_id",
            "account_id", "allocation", "leaf_index", "merkle_path", "recipient_note"}
    BY DEF ClaimOptions
  <2>3. /\ ClaimOptions["sequencer"] = "url"
        /\ ClaimOptions["claim_circuit_bin"] = "input"
        /\ ClaimOptions["airdrop_bin"] = "input"
        /\ ClaimOptions["allocation"] = "number"
        /\ ClaimOptions["leaf_index"] = "number"
    BY DEF ClaimOptions
  <2>4. Len(ClaimHandler) = 14
    BY DEF ClaimHandler
  <2>5. CASE o = "sequencer"
    <3>1. MayPrecede(ClaimOptions[o]) = {"read claim circuit", "read airdrop"}
      BY <2>3, <2>5 DEF MayPrecede
    <3>2. /\ \A j \in 1 .. 8 :
                ClaimHandler[j] \in DOMAIN ClaimOptions \cup {"read claim circuit", "read airdrop"}
          /\ ClaimHandler[8] = o
      BY <2>2, <2>5 DEF ClaimHandler
    <3>3. StopsAhead(ClaimOptions, ClaimHandler, o, v)
      <4>1. /\ 8 \in Nat /\ 8 <= Len(ClaimHandler) /\ Len(ClaimHandler) \in Nat
            /\ 8 \in 1 .. 8
        BY <2>4
      <4>2. \A j \in 1 .. 8 :
               ClaimHandler[j] \in DOMAIN ClaimOptions \cup MayPrecede(ClaimOptions[o])
        BY <3>1, <3>2
      <4> QED
        BY <2>1, <3>2, <4>1, <4>2, LooksInFront
    <3> QED
      BY <2>1, <3>3
  <2>6. CASE o \in {"claim_circuit_bin", "airdrop_bin"}
    <3>1. MayPrecede(ClaimOptions[o]) =
              {"read receipt", "read claim circuit", "read airdrop", "get account"}
      BY <2>3, <2>6 DEF MayPrecede
    <3>2. /\ \A j \in 1 .. 11 :
                ClaimHandler[j] \in DOMAIN ClaimOptions
                  \cup {"read claim circuit", "read airdrop", "get account"}
          /\ ClaimHandler[10] = "claim_circuit_bin" /\ ClaimHandler[11] = "airdrop_bin"
      BY <2>2 DEF ClaimHandler
    <3>3. \E i \in 1 .. 11 : ClaimHandler[i] = o
      <4>1. 10 \in 1 .. 11 /\ 11 \in 1 .. 11
        OBVIOUS
      <4> QED
        BY <2>6, <3>2, <4>1
    <3>4. \A j \in 1 .. 11 : ClaimHandler[j] \in DOMAIN ClaimOptions \cup MayPrecede(ClaimOptions[o])
      BY <3>1, <3>2
    <3>5. 11 \in Nat /\ 11 <= Len(ClaimHandler) /\ Len(ClaimHandler) \in Nat
      BY <2>4
    <3> QED
      BY LooksInFront, <2>1, <3>3, <3>4, <3>5
  <2>7. CASE o \notin {"sequencer", "claim_circuit_bin", "airdrop_bin"}
    <3>1. o \in {"program_id", "distributor_id", "account_id", "recipient_note", "merkle_path"}
      <4>1. o \in DOMAIN ClaimOptions /\ ClaimOptions[o] # "number"
        BY <1>a, <2>1
      <4> QED
        BY <2>2, <2>3, <2>7, <4>1
    <3>2. /\ \A j \in 1 .. 5 : ClaimHandler[j] \in DOMAIN ClaimOptions
          /\ \E i \in 1 .. 5 : ClaimHandler[i] = o
      BY <2>2, <3>1 DEF ClaimHandler
    <3>3. 5 \in Nat /\ 5 <= Len(ClaimHandler) /\ Len(ClaimHandler) \in Nat
      BY <2>4
    <3> QED
      BY LooksInFront, <2>1, <3>2, <3>3
  <2> QED
    BY <2>5, <2>6, <2>7
<1>6. CASE command = "chain keygen"
  <2>1. Options(command) = <<>>
    BY <1>6 DEF Options
  <2> QED
    BY <2>1
<1> QED
  BY <1>1, <1>2, <1>3, <1>4, <1>5, <1>6 DEF Commands

(* The value of an option that was given.                                  *)
LEMMA ToldGiven ==
    ASSUME NEW o \in DOMAIN Given
    PROVE  Told(run.invocation, o) = Given[o]
BY DEF Told, Given

LEMMA MisreadGiven ==
    ASSUME NEW o \in DOMAIN Given, Misread(o)
    PROVE  ~Understood(CommandOptions[o], Given[o])
<1>1. ~Understood(CommandOptions[o], Told(run.invocation, o))
  BY DEF Misread, CommandOptions
<1> QED
  BY <1>1, ToldGiven

(* A command is typed with nothing looked at.                              *)
LEMMA CliStart ==
    ASSUME CliInit
    PROVE  CInv
<1>1. run \in [invocation : Invocations, chain : BOOLEAN] /\ calls = <<>> /\ status = "typed"
  BY DEF CliInit
<1>2. /\ steps = Handler(run.invocation.command) /\ run.invocation.command \in Commands
      /\ DOMAIN Given \subseteq DOMAIN CommandOptions
      /\ \A o \in DOMAIN Given : Given[o] \in {"good", "bad", "empty", "shut"}
  BY <1>1, InvocationsAssumption DEF CliInit, Given, CommandOptions
<1>3. IsSequence(steps)
  <2> DEFINE Calls == {"run prover", "write receipt", "decode journal", "print", "read receipt",
                       "verify", "get account", "get nonce", "send", "read claim circuit",
                       "read airdrop"}
             Looks == {"account_id", "distributor_id", "merkle_root", "recipient_note",
                       "merkle_path", "program_id", "claim_circuit_program_id", "signing_key",
                       "receipt", "sequencer", "claim_circuit_bin", "airdrop_bin"}
  <2>1. /\ ProveHandler \in Seq(Calls \cup Looks) /\ VerifyHandler \in Seq(Calls \cup Looks)
        /\ StateHandler \in Seq(Calls \cup Looks) /\ <<"print">> \in Seq(Calls \cup Looks)
    BY DEF ProveHandler, VerifyHandler, StateHandler
  <2>2. InitializeHandler \in Seq(Calls \cup Looks)
    BY DEF InitializeHandler
  <2>3. ClaimHandler \in Seq(Calls \cup Looks)
    BY DEF ClaimHandler
  <2> HIDE DEF Calls, Looks
  <2>4. steps \in Seq(Calls \cup Looks)
    BY <1>2, <2>1, <2>2, <2>3 DEF Handler, Commands
  <2> QED
    BY <2>4, SeqOfRange DEF IsSequence
<1>4. ASSUME NEW o \in DOMAIN Given, Misread(o), ClapAccepts(CommandOptions[o], Given[o])
      PROVE  StopsAhead(CommandOptions, steps, o, Given[o])
  <2>1. o \in DOMAIN CommandOptions /\ Given[o] \in {"good", "bad", "empty", "shut"}
    BY <1>2
  <2>2. ~Understood(CommandOptions[o], Given[o])
    BY <1>4, MisreadGiven
  <2> QED
    BY <1>2, <1>4, <2>1, <2>2, HandlersLookFirst DEF CommandOptions
<1>5. IsSequence(calls) /\ Range(calls) = {}
  BY <1>1 DEF IsSequence, Range
<1>6. MisreadAhead
  BY <1>1, <1>4, <1>5 DEF MisreadAhead
<1> QED
  BY <1>1, <1>3, <1>5, <1>6 DEF CInv

(* What clap does not take apart is left to the handler.                   *)
LEMMA ParseKeeps ==
    ASSUME CInv, ParseOptions
    PROVE  CInv'
<1>1. UNCHANGED <<run, steps, calls>> /\ status = "typed"
  BY DEF ParseOptions
<1>2. status' \notin {"typed", "usage"} =>
         \A o \in DOMAIN Given : ClapAccepts(CommandOptions[o], Given[o])
  BY DEF ParseOptions, WellTyped, Given, CommandOptions
<1>3. ASSUME NEW o \in DOMAIN Given, Misread(o)
      PROVE  /\ Range(calls) \subseteq MayPrecede(CommandOptions[o])
             /\ \/ ~ClapAccepts(CommandOptions[o], Given[o]) /\ status' \in {"typed", "usage"}
                \/ StopsAhead(CommandOptions, steps, o, Given[o])
  BY <1>2, <1>3 DEF CInv, MisreadAhead
<1>4. MisreadAhead'
  BY <1>1, <1>3 DEF MisreadAhead, Misread, StopsAhead, Given, CommandOptions
<1> QED
  BY <1>1, <1>4 DEF CInv

(* A step that leaves a run which is under way where it is.                *)
LEMMA RunningKeeps ==
    ASSUME CInv, UNCHANGED <<run, steps, calls>>, status = "running" \/ UNCHANGED status
    PROVE  CInv'
BY DEF CInv, MisreadAhead, Misread, StopsAhead, Given, CommandOptions

(* A step that the run gets past is not the one that stops it.             *)
LEMMA StillAhead ==
    ASSUME NEW options, NEW h, IsSequence(h), h # <<>>, NEW o, NEW v,
           StopsAhead(options, h, o, v), ~Stops(options, h[1], o, v)
    PROVE  StopsAhead(options, Tail(h), o, v)
<1>1. /\ IsSequence(Tail(h)) /\ Len(h) \in Nat \ {0} /\ Len(Tail(h)) = Len(h) - 1
      /\ \A i \in 1 .. Len(Tail(h)) : Tail(h)[i] = h[i + 1]
  BY SequenceRest
<1>2. PICK i \in 1 .. Len(h) :
         /\ Stops(options, h[i], o, v)
         /\ \A j \in 1 .. i : h[j] \in DOMAIN options \cup MayPrecede(options[o])
  BY DEF StopsAhead
<1>3. PICK k \in 1 .. Len(Tail(h)) : i = k + 1
  <2>1. i # 1
    BY <1>2
  <2> QED
    BY <1>1, <1>2, <2>1
<1>4. \A j \in 1 .. k : j \in 1 .. Len(Tail(h)) /\ j + 1 \in 1 .. i
  BY <1>1, <1>3
<1>5. /\ Stops(options, Tail(h)[k], o, v)
      /\ \A j \in 1 .. k : Tail(h)[j] \in DOMAIN options \cup MayPrecede(options[o])
  BY <1>1, <1>2, <1>3, <1>4
<1> QED
  BY <1>5 DEF StopsAhead

(* An option looked at was understood, so another one is still ahead.      *)
LEMMA UnderstandKeeps ==
    ASSUME CInv, NEW option \in DOMAIN CommandOptions, Understand(option)
    PROVE  CInv'
<1>1. /\ UNCHANGED <<run, calls>> /\ status = "running" /\ steps # <<>> /\ Head(steps) = option
      /\ \/ steps' = Tail(steps) /\ ~Misread(option)
         \/ UNCHANGED steps
  BY DEF Understand, Misread
<1>2. CASE UNCHANGED steps
  BY <1>1, <1>2, RunningKeeps
<1>3. CASE steps' = Tail(steps) /\ ~Misread(option)
  <2>1. IsSequence(steps') /\ steps[1] = option
    BY <1>1, <1>3, SequenceRest DEF CInv
  <2>2. ASSUME NEW o \in DOMAIN Given, Misread(o)
        PROVE  /\ Range(calls) \subseteq MayPrecede(CommandOptions[o])
               /\ StopsAhead(CommandOptions, steps', o, Given[o])
    <3>1. /\ Range(calls) \subseteq MayPrecede(CommandOptions[o])
          /\ StopsAhead(CommandOptions, steps, o, Given[o])
      BY <1>1, <2>2 DEF CInv, MisreadAhead
    <3>2. ~Stops(CommandOptions, steps[1], o, Given[o])
      <4>1. steps[1] # o
        BY <1>3, <2>1, <2>2
      <4> QED
        BY <2>1, <4>1 DEF Stops
    <3> QED
      BY <1>1, <1>3, <3>1, <3>2, StillAhead DEF CInv
  <2>3. MisreadAhead'
    BY <1>1, <2>2 DEF MisreadAhead, Misread, StopsAhead, Given, CommandOptions
  <2> QED
    BY <1>1, <2>1, <2>3 DEF CInv
<1> QED
  BY <1>1, <1>2, <1>3

(* A call in front of the step that stops the run may be there, and one    *)
(* that opens a file has opened it.                                        *)
LEMMA CallKeeps ==
    ASSUME CInv, Call
    PROVE  CInv'
<1>1. /\ UNCHANGED run /\ status = "running" /\ steps # <<>>
      /\ Head(steps) \notin DOMAIN CommandOptions
      /\ calls' = Append(calls, Head(steps))
      /\ \/ CanOpen(Head(steps)) /\ steps' = Tail(steps)
         \/ UNCHANGED steps
  BY DEF Call, CommandOptions
<1>2. /\ Len(steps) \in Nat \ {0} /\ Head(steps) = steps[1]
      /\ IsSequence(steps')
  BY <1>1, SequenceRest DEF CInv
<1>3. IsSequence(calls') /\ Range(calls') \subseteq Range(calls) \cup {steps[1]}
  <2>1. /\ IsSequence(calls) /\ calls' = Append(calls, steps[1])
    BY <1>1, <1>2 DEF CInv
  <2> QED
    BY <2>1 DEF IsSequence, Range
<1>4. ASSUME NEW o \in DOMAIN Given, Misread(o)
      PROVE  /\ Range(calls') \subseteq MayPrecede(CommandOptions[o])
             /\ StopsAhead(CommandOptions, steps', o, Given[o])
  <2>1. /\ Range(calls) \subseteq MayPrecede(CommandOptions[o])
        /\ StopsAhead(CommandOptions, steps, o, Given[o])
    BY <1>1, <1>4 DEF CInv, MisreadAhead
  <2>2. steps[1] \in MayPrecede(CommandOptions[o])
    <3>1. PICK i \in 1 .. Len(steps) :
             \A j \in 1 .. i : steps[j] \in DOMAIN CommandOptions \cup MayPrecede(CommandOptions[o])
      BY <2>1 DEF StopsAhead
    <3>2. 1 \in 1 .. i
      BY <1>2, <3>1
    <3> QED
      BY <1>1, <1>2, <3>1, <3>2
  <2>3. CASE CanOpen(Head(steps)) /\ steps' = Tail(steps)
    <3>1. ~Stops(CommandOptions, steps[1], o, Given[o])
      <4>1. steps[1] \notin DOMAIN CommandOptions /\ CanOpen(steps[1])
        BY <1>1, <1>2, <2>3
      <4>2. o \in DOMAIN CommandOptions
        BY InvocationsAssumption DEF CInv, Given, CommandOptions
      <4>3. <<steps[1], o>> \in Opened => Given[o] # "shut"
        <5>1. \A f \in Opened : f[1] = steps[1] => Told(run.invocation, f[2]) # "shut"
          BY <4>1 DEF CanOpen
        <5>2. <<steps[1], o>> \in Opened => Told(run.invocation, o) # "shut"
          BY <5>1
        <5> QED
          BY <5>2, ToldGiven
      <4> QED
        BY <4>1, <4>2, <4>3 DEF Stops
    <3> QED
      BY <1>1, <1>3, <2>1, <2>2, <2>3, <3>1, StillAhead DEF CInv
  <2>4. CASE UNCHANGED steps
    BY <1>3, <2>1, <2>2, <2>4
  <2> QED
    BY <1>1, <2>3, <2>4
<1>5. MisreadAhead'
  BY <1>1, <1>4 DEF MisreadAhead, Misread, Given, CommandOptions
<1> QED
  BY <1>1, <1>2, <1>3, <1>5 DEF CInv

(* No step of the program spoils the invariant of the command line.        *)
LEMMA ProgramKeeps ==
    ASSUME CInv, [ProgramNext]_clientVars
    PROVE  CInv'
<1>1. ASSUME CliNext PROVE CInv'
  <2>1. CASE End
    BY <2>1, RunningKeeps DEF End
  <2> QED
    BY <1>1, <2>1, ParseKeeps, CallKeeps, UnderstandKeeps DEF CliNext, CommandOptions
<1>2. ASSUME Refused PROVE CInv'
  BY <1>2, RunningKeeps DEF Refused
<1>3. ASSUME UNCHANGED cliVars PROVE CInv'
  BY <1>3, RunningKeeps DEF cliVars
<1> QED
  BY <1>1, <1>2, <1>3
     DEF ProgramNext, Handle, Exchange, AnotherCaller, clientVars, cliVars

(* What is wrong with an option is found before anything is done that is   *)
(* not listed for its type: a misspelt text before any call, an address or *)
(* an input file before anything is proved, sent or printed, the file that *)
(* `prove` writes when it is written.                                      *)
THEOREM FaultsAreFoundFirst == ProgramSpec => []FaultsAreFoundInTime
<1>1. ProgramInit => CInv
  BY CliStart DEF ProgramInit
<1>2. CInv /\ [ProgramNext]_clientVars => CInv'
  BY ProgramKeeps
<1>3. CInv => FaultsAreFoundInTime
  BY DEF CInv, MisreadAhead, FaultsAreFoundInTime, Given, CommandOptions
<1> QED
  BY <1>1, <1>2, <1>3, PTL DEF ProgramSpec

-----------------------------------------------------------------------------
(* g is b in k groups of n.                                                *)
Grouped(g, n, k, b, S) ==
    /\ g \in [1 .. k -> [1 .. n -> S]]
    /\ Len(g) = k
    /\ \A i \in 1 .. k, j \in 1 .. n : g[i][j] = b[n * (i - 1) + j]

(* Group cuts a sequence into its blocks.                                  *)
LEMMA GroupBlocks ==
    ASSUME NEW S, NEW n \in Nat \ {0}, NEW k \in Nat, NEW b \in Seq(S), Len(b) = n * k
    PROVE  Grouped(Group(b, n), n, k, b, S)
<1>1. Len(b) \div n = k
  <2>1. 0 \in 0 .. n - 1 /\ n * k + 0 = n * k
    OBVIOUS
  <2>2. (n * k + 0) \div n = k
    BY <2>1, Quotient
  <2> QED
    BY <2>1, <2>2
<1>2. Group(b, n) = [i \in 1 .. k |-> SubSeq(b, n * (i - 1) + 1, n * i)]
  BY <1>1 DEF Group
<1>3. ASSUME NEW i \in 1 .. k
      PROVE  /\ Group(b, n)[i] \in [1 .. n -> S]
             /\ \A j \in 1 .. n : Group(b, n)[i][j] = b[n * (i - 1) + j]
  <2> DEFINE lo == n * (i - 1) + 1
             hi == n * i
  <2>1. Group(b, n)[i] = SubSeq(b, lo, hi)
    BY <1>2
  <2>2. n * i = n * (i - 1) + n /\ n * (i - 1) \in Nat
    <3>1. 1 \in 1 .. n
      OBVIOUS
    <3> QED
      BY <3>1, PlaceInBlock
  <2>3. \A j \in 1 .. n : n * (i - 1) + j \in 1 .. n * k
    BY PlaceInBlock
  <2>4. lo \in Int /\ hi \in Int /\ hi - lo + 1 = n /\ lo <= hi
    BY <2>2
  <2>5. ASSUME NEW x \in lo .. hi PROVE b[x] \in S
    <3>1. x - n * (i - 1) \in 1 .. n /\ n * (i - 1) + (x - n * (i - 1)) = x
      BY <2>2
    <3>2. x \in 1 .. Len(b)
      BY <2>3, <3>1
    <3> QED
      BY <3>2, ElementOfSeq
  <2>6. \A j \in 1 .. n : lo + j - 1 = n * (i - 1) + j
    BY <2>2
  <2> HIDE DEF lo, hi
  <2>7. /\ SubSeq(b, lo, hi) \in Seq(S) /\ Len(SubSeq(b, lo, hi)) = n
        /\ \A j \in 1 .. n : SubSeq(b, lo, hi)[j] = b[lo + j - 1]
    BY <2>4, <2>5, SubSeqProperties
  <2>8. SubSeq(b, lo, hi) \in [1 .. n -> S]
    BY <2>7, LenProperties
  <2> QED
    BY <2>1, <2>6, <2>7, <2>8
<1>4. DOMAIN Group(b, n) = 1 .. k /\ Group(b, n) = [i \in 1 .. k |-> Group(b, n)[i]]
  BY <1>2
<1>5. Len(Group(b, n)) = k
  BY <1>2
<1> QED
  BY <1>3, <1>4, <1>5 DEF Grouped

(* Flattening undoes grouping.                                             *)
LEMMA FlattenGroups ==
    ASSUME NEW S, NEW n \in Nat \ {0}, NEW k \in Nat \ {0}, NEW b \in Seq(S), Len(b) = n * k
    PROVE  FlattenSeq(Group(b, n)) = b
<1> DEFINE g == Group(b, n)
           f == FlattenSeq(g)
<1>1. /\ g \in [1 .. k -> [1 .. n -> S]] /\ Len(g) = k
      /\ \A i \in 1 .. k, j \in 1 .. n : g[i][j] = b[n * (i - 1) + j]
  <2>1. Grouped(g, n, k, b, S)
    BY GroupBlocks
  <2> QED
    BY <2>1 DEF Grouped
<1>2. Blocks(g, n, k, f, S)
  <2> HIDE DEF g
  <2> QED
    BY <1>1, FlattenBlocks
<1> HIDE DEF g, f
<1>3. f \in Seq(S) /\ Len(f) = n * k
      /\ \A i \in 1 .. k, j \in 1 .. n : f[n * (i - 1) + j] = g[i][j]
  BY <1>2 DEF Blocks
<1>4. ASSUME NEW x \in 1 .. n * k PROVE f[x] = b[x]
  <2>1. x - 1 \in Nat
    OBVIOUS
  <2>2. PICK q \in Nat, r \in 0 .. n - 1 : x - 1 = n * q + r
    BY <2>1, Division
  <2>3. q < k
    <3> SUFFICES ASSUME q >= k PROVE FALSE
      OBVIOUS
    <3>1. PICK p \in Nat : q = k + p
      OBVIOUS
    <3>2. n * q = n * k + n * p /\ n * p \in Nat
      BY <3>1
    <3> QED
      BY <2>2, <3>2
  <2>4. q + 1 \in 1 .. k /\ r + 1 \in 1 .. n /\ n * ((q + 1) - 1) + (r + 1) = x
    BY <2>2, <2>3
  <2> QED
    BY <1>1, <1>3, <2>4
<1>5. f = b
  BY <1>3, <1>4, SeqEqual
<1> QED
  BY <1>5 DEF f, g

Regroups(s, n, S) ==
    /\ FlattenSeq(s) \in Seq(S)
    /\ Len(FlattenSeq(s)) = n * Len(s)
    /\ Group(FlattenSeq(s), n) = s

(* Grouping undoes flattening.                                             *)
LEMMA GroupFlattened ==
    ASSUME NEW S, NEW n \in Nat \ {0}, NEW s, IsSequence(s),
           \A i \in 1 .. Len(s) : s[i] \in [1 .. n -> S]
    PROVE  Regroups(s, n, S)
<1> DEFINE f == FlattenSeq(s)
           g == Group(f, n)
           k == Len(s)
<1>0. k \in Nat
  BY SequenceShape
<1>1. f \in Seq(S) /\ Len(f) = n * k
      /\ \A i \in 1 .. k, j \in 1 .. n : f[n * (i - 1) + j] = s[i][j]
  <2>1. CASE k = 0
    <3>1. s = <<>>
      BY <2>1, SequencesEqual, SequenceShape DEF IsSequence
    <3>2. f = <<>>
      BY <2>1, <3>1 DEF FlattenSeq
    <3> QED
      BY <2>1, <3>2
  <2>2. CASE k # 0
    <3>1. Blocks(s, n, k, f, S)
      BY <1>0, <2>2, FlattenBlocks
    <3> QED
      BY <3>1 DEF Blocks
  <2> QED
    BY <2>1, <2>2
<1> HIDE DEF f
<1>2. /\ g \in [1 .. k -> [1 .. n -> S]] /\ Len(g) = k
      /\ \A i \in 1 .. k, j \in 1 .. n : g[i][j] = f[n * (i - 1) + j]
  <2>1. Grouped(g, n, k, f, S)
    <3> HIDE DEF k
    <3> QED
      BY <1>0, <1>1, GroupBlocks
  <2> QED
    BY <2>1 DEF Grouped
<1> HIDE DEF g
<1>3. ASSUME NEW i \in 1 .. k PROVE g[i] = s[i]
  <2>1. g[i] \in [1 .. n -> S] /\ s[i] \in [1 .. n -> S]
    BY <1>2
  <2>2. \A j \in 1 .. n : g[i][j] = s[i][j]
    BY <1>1, <1>2
  <2> QED
    BY <2>1, <2>2
<1>4. IsSequence(g)
  <2>1. g \in Seq([1 .. n -> S])
    BY <1>0, <1>2
  <2> QED
    BY <2>1, SeqOfRange DEF IsSequence
<1>5. g = s
  BY <1>2, <1>3, <1>4, SequencesEqual
<1> QED
  BY <1>1, <1>5 DEF f, g, Regroups

-----------------------------------------------------------------------------
(* What a wire carries, one after the other.                               *)
Unit == Byte \cup Word

(* The front of a sequence and the rest.                                   *)
LEMMA FrontAndRest ==
    ASSUME NEW e \in Seq(Unit), NEW t \in Seq(Unit)
    PROVE  /\ e \o t \in Seq(Unit) /\ Len(e \o t) = Len(e) + Len(t)
           /\ Len(e) \in Nat /\ Len(t) \in Nat
           /\ SubSeq(e \o t, 1, Len(e)) = e
           /\ SubSeq(e \o t, Len(e) + 1, Len(e \o t)) = t
<1> DEFINE w == e \o t
<1>1. /\ w \in Seq(Unit) /\ Len(w) = Len(e) + Len(t)
      /\ \A i \in 1 .. Len(e) + Len(t) : w[i] = IF i <= Len(e) THEN e[i] ELSE t[i - Len(e)]
  BY ConcatProperties
<1>2. Len(e) \in Nat /\ Len(t) \in Nat
  BY LenProperties
<1> HIDE DEF w
<1>3. \A i \in 1 .. Len(w) : w[i] \in Unit
  BY <1>1, ElementOfSeq
<1>4. SubSeq(w, 1, Len(e)) = e
  <2>1. /\ SubSeq(w, 1, Len(e)) \in Seq(Unit)
        /\ Len(SubSeq(w, 1, Len(e))) = IF 1 <= Len(e) THEN Len(e) - 1 + 1 ELSE 0
        /\ \A i \in 1 .. Len(e) - 1 + 1 : SubSeq(w, 1, Len(e))[i] = w[1 + i - 1]
    <3>1. \A i \in 1 .. Len(e) : w[i] \in Unit
      BY <1>1, <1>2, <1>3
    <3>2. 1 \in Int /\ Len(e) \in Int
      BY <1>2
    <3> QED
      BY <3>1, <3>2, SubSeqProperties
  <2>2. Len(SubSeq(w, 1, Len(e))) = Len(e)
    BY <1>2, <2>1
  <2>3. \A i \in 1 .. Len(e) : SubSeq(w, 1, Len(e))[i] = e[i]
    BY <1>1, <1>2, <2>1
  <2> QED
    BY <2>1, <2>2, <2>3, SeqEqual
<1>5. SubSeq(w, Len(e) + 1, Len(w)) = t
  <2> DEFINE u == SubSeq(w, Len(e) + 1, Len(w))
  <2>1. /\ u \in Seq(Unit)
        /\ Len(u) = IF Len(e) + 1 <= Len(w) THEN Len(w) - (Len(e) + 1) + 1 ELSE 0
        /\ \A i \in 1 .. Len(w) - (Len(e) + 1) + 1 : u[i] = w[(Len(e) + 1) + i - 1]
    <3>1. \A i \in Len(e) + 1 .. Len(w) : w[i] \in Unit
      BY <1>1, <1>2, <1>3
    <3>2. Len(e) + 1 \in Int /\ Len(w) \in Int
      BY <1>1, <1>2
    <3> QED
      BY <3>1, <3>2, SubSeqProperties
  <2> HIDE DEF u
  <2>2. Len(u) = Len(t)
    BY <1>1, <1>2, <2>1
  <2>3. ASSUME NEW i \in 1 .. Len(t) PROVE u[i] = t[i]
    <3>1. i \in 1 .. Len(w) - (Len(e) + 1) + 1 /\ (Len(e) + 1) + i - 1 = Len(e) + i
      BY <1>1, <1>2
    <3>2. u[i] = w[Len(e) + i]
      BY <2>1, <3>1
    <3>3. Len(e) + i \in 1 .. Len(e) + Len(t) /\ ~(Len(e) + i <= Len(e)) /\ (Len(e) + i) - Len(e) = i
      BY <1>2
    <3> QED
      BY <1>1, <3>2, <3>3
  <2>4. u = t
    BY <2>1, <2>2, <2>3, SeqEqual
  <2> QED
    BY <2>4 DEF u
<1> QED
  BY <1>1, <1>2, <1>4, <1>5 DEF w

LEMMA NumberOfU32 ==
    ASSUME NEW n \in Nat, n \div 65536 < 65536
    PROVE  Number(U32(n)) = n
BY DEF U32, Number

LEMMA U32IsWord ==
    ASSUME NEW n \in Nat
    PROVE  U32(n) \in Word /\ U32(n) \in Seq(Byte) /\ Len(U32(n)) = 4
BY DEF U32, Word, Octets, Byte

LEMMA U32OfByte ==
    ASSUME NEW b \in Byte
    PROVE  U32(b)[1] = b /\ Tail(U32(b)) = <<0, 0, 0>>
<1>1. U32(b) = <<b, 0, 0, 0>>
  BY DEF U32, Byte
<1>2. <<b, 0, 0, 0>> \in Seq(Nat) /\ <<0, 0, 0>> \in Seq(Nat) /\ <<b, 0, 0, 0>> # <<>>
      /\ Len(<<b, 0, 0, 0>>) = 4 /\ Len(<<0, 0, 0>>) = 3 /\ <<b, 0, 0, 0>>[1] = b
      /\ \A i \in 1 .. 3 : <<b, 0, 0, 0>>[i + 1] = 0 /\ <<0, 0, 0>>[i] = 0
  BY DEF Byte
<1> DEFINE u == <<b, 0, 0, 0>>
           z == <<0, 0, 0>>
<1>3. /\ Tail(u) \in Seq(Nat) /\ Len(Tail(u)) = Len(u) - 1
      /\ \A i \in 1 .. Len(Tail(u)) : Tail(u)[i] = u[i + 1]
  <2>1. u \in Seq(Nat) /\ u # <<>>
    BY <1>2
  <2> HIDE DEF u
  <2> QED
    BY <2>1, HeadTailProperties
<1> HIDE DEF u, z
<1>4. Tail(u) = z
  <2>1. Len(Tail(u)) = 3 /\ Len(z) = 3 /\ z \in Seq(Nat) /\ \A i \in 1 .. 3 : Tail(u)[i] = z[i]
    BY <1>2, <1>3 DEF u, z
  <2> QED
    BY <1>3, <2>1, SeqEqual
<1> QED
  BY <1>1, <1>2, <1>4 DEF u, z

(* Bytes as words, and back.                                               *)
LEMMA BytesAsWords ==
    ASSUME NEW b \in Seq(Byte)
    PROVE  LET e == EncodeBytes32(b)
           IN  /\ e \in Seq(Unit) /\ Len(e) = Len(b)
               /\ \A i \in DOMAIN e : Tail(e[i]) = <<0, 0, 0>>
               /\ [i \in DOMAIN e |-> e[i][1]] = b
<1> DEFINE e == EncodeBytes32(b)
<1>1. Len(b) \in Nat /\ DOMAIN b = 1 .. Len(b) /\ b \in [1 .. Len(b) -> Byte]
  BY LenProperties
<1>2. e = [i \in 1 .. Len(b) |-> U32(b[i])]
  BY <1>1 DEF EncodeBytes32
<1>3. \A i \in 1 .. Len(b) : b[i] \in Byte /\ U32(b[i]) \in Unit
  <2>1. \A i \in 1 .. Len(b) : b[i] \in Byte
    BY <1>1
  <2>2. \A x \in Byte : x \in Nat
    BY DEF Byte
  <2> QED
    BY <2>1, <2>2, U32IsWord DEF Unit
<1>4. e \in [1 .. Len(b) -> Unit]
  BY <1>2, <1>3
<1>5. e \in Seq(Unit) /\ Len(e) = Len(b) /\ DOMAIN e = 1 .. Len(b)
  BY <1>1, <1>4
<1>6. \A i \in 1 .. Len(b) : e[i] = U32(b[i])
  BY <1>2
<1> HIDE DEF e
<1>7. \A i \in 1 .. Len(b) : Tail(e[i]) = <<0, 0, 0>> /\ e[i][1] = b[i]
  BY <1>3, <1>6, U32OfByte
<1>8. [i \in DOMAIN e |-> e[i][1]] = b
  BY <1>1, <1>5, <1>7
<1>9. e \in Seq(Unit) /\ Len(e) = Len(b) /\ \A i \in DOMAIN e : Tail(e[i]) = <<0, 0, 0>>
  BY <1>5, <1>7
<1> QED
  BY <1>8, <1>9 DEF e

-----------------------------------------------------------------------------
(* What a field of some type is made from, and what it is written as.      *)
Typed(kind, type) ==
    CASE type = "id"         -> Octets(32)
      [] type = "program_id" -> IF kind = "state" THEN [1 .. 8 -> Word] ELSE Octets(32)
      [] type = "u128"       -> Octets(16)
      [] type = "u32"        -> Word
      [] type = "usize"      -> Octets(8)
      [] type = "blob"       -> Blob
      [] type = "ids"        -> Ids

Packed(kind) == kind \in {"journal", "state"}

Encoded(kind, type, v) ==
    CASE type = "id"         -> IF Packed(kind) THEN v ELSE EncodeBytes32(v)
      [] type = "program_id" -> IF Packed(kind) THEN FlattenSeq(v) ELSE Group(v, 4)
      [] type = "u128"       -> IF Packed(kind) THEN v ELSE Group(v, 4)
      [] type = "u32"        -> <<v>>
      [] type = "usize"      -> Group(v, 4)
      [] type = "blob"       -> EncodeVecU8(v)
      [] type = "ids"        -> IF Packed(kind) THEN U32(Len(v)) \o FlattenSeq(v)
                                ELSE <<U32(Len(v))>> \o EncodeBytes32(FlattenSeq(v))

(* What the reader makes of it.                                            *)
Back(kind, type, v) ==
    IF type = "program_id" /\ kind # "state" THEN Group(v, 4) ELSE v

LegalIndex(type, v) == type = "usize" => SubSeq(v, 5, 8) = <<0, 0, 0, 0>>

(* e, whatever comes after it, is read as the value x.                     *)
IsReadAs(type, e, x, legal) ==
    /\ e \in Seq(Unit)
    /\ \A t \in Seq(Unit) : Width(type, e \o t) = Len(e) /\ Fits(type, e \o t)
    /\ Legal(type, e) <=> legal
    /\ Value(type, e) = x

(* A field that is there in its width fits.                                *)
LEMMA FitsInFront ==
    ASSUME NEW type, NEW e \in Seq(Unit), NEW t \in Seq(Unit), Width(type, e \o t) = Len(e),
           type \in {"blob", "ids"} => CountLength <= Len(e), CountLength \in Nat
    PROVE  Fits(type, e \o t)
<1>1. Len(e \o t) = Len(e) + Len(t) /\ Len(e) \in Nat /\ Len(t) \in Nat
  BY FrontAndRest
<1> QED
  BY <1>1 DEF Fits

(* A count is four bytes, or one word.                                     *)
LEMMA CountIs ==
    /\ IsBorsh(message) => CountLength = 4
    /\ ~IsBorsh(message) => CountLength = 1
BY DEF CountLength

(* The fields of a packed message.                                         *)
LEMMA PackedOctets ==
    ASSUME IsBorsh(message), NEW type, NEW n, NEW v \in Octets(n),
           \/ type = "id" /\ n = 32
           \/ type = "u128" /\ n = 16
    PROVE  IsReadAs(type, v, v, TRUE)
<1>1. v \in Seq(Unit) /\ Len(v) = n /\ n \in Nat
  <2>1. v \in [1 .. n -> Unit] /\ n \in Nat
    BY DEF Octets, Unit
  <2> QED
    BY <2>1
<1>2. ASSUME NEW t \in Seq(Unit) PROVE Width(type, v \o t) = Len(v)
  BY <1>1 DEF Width
<1>3. type \notin {"blob", "ids"} /\ CountLength \in Nat
  BY CountIs
<1>4. \A t \in Seq(Unit) : Fits(type, v \o t)
  BY <1>1, <1>2, <1>3, FitsInFront
<1>5. Legal(type, v)
  BY DEF Legal
<1>6. Value(type, v) = v
  <2>1. CASE type = "u128"
    BY <2>1 DEF Value
  <2>2. CASE type = "id"
    BY <2>2 DEF Value
  <2> QED
    BY <2>1, <2>2
<1> QED
  BY <1>1, <1>2, <1>4, <1>5, <1>6 DEF IsReadAs

(* A program id is eight words, least significant byte first.              *)
LEMMA PackedProgramId ==
    ASSUME IsBorsh(message), NEW v \in [1 .. 8 -> Word]
    PROVE  IsReadAs("program_id", FlattenSeq(v), v, TRUE)
<1> DEFINE e == FlattenSeq(v)
<1>1. e \in Seq(Byte) /\ Len(e) = 32 /\ Group(e, 4) = v
  <2>1. IsSequence(v) /\ Len(v) = 8
    <3>1. 8 \in Nat
      OBVIOUS
    <3> QED
      BY <3>1, FunctionIsSeq, Zenon
  <2>2. \A i \in 1 .. Len(v) : v[i] \in [1 .. 4 -> Byte]
    BY <2>1 DEF Word, Octets
  <2>3. 4 \in Nat \ {0}
    OBVIOUS
  <2>4. Regroups(v, 4, Byte)
    BY <2>1, <2>2, <2>3, GroupFlattened
  <2> QED
    BY <2>1, <2>4 DEF Regroups
<1> HIDE DEF e
<1>2. e \in Seq(Unit)
  BY <1>1, SeqMonotonic DEF Unit
<1>3. ASSUME NEW t \in Seq(Unit) PROVE Width("program_id", e \o t) = Len(e)
  BY <1>1 DEF Width
<1>4. CountLength \in Nat
  BY CountIs
<1>5. \A t \in Seq(Unit) : Fits("program_id", e \o t)
  BY <1>2, <1>3, <1>4, FitsInFront
<1>6. Legal("program_id", e)
  BY DEF Legal
<1>7. Value("program_id", e) = v
  BY <1>1 DEF Value
<1> QED
  BY <1>2, <1>3, <1>5, <1>6, <1>7 DEF IsReadAs, e

LEMMA ConcatUnits ==
    ASSUME NEW e \in Seq(Unit), NEW t \in Seq(Unit)
    PROVE  /\ Len(e) \in Nat /\ Len(t) \in Nat /\ Len(e \o t) = Len(e) + Len(t)
           /\ \A i \in 1 .. Len(e) : (e \o t)[i] = e[i]
<1>1. /\ Len(e \o t) = Len(e) + Len(t)
      /\ \A i \in 1 .. Len(e) + Len(t) :
            (e \o t)[i] = IF i <= Len(e) THEN e[i] ELSE t[i - Len(e)]
  BY ConcatProperties
<1>2. Len(e) \in Nat /\ Len(t) \in Nat
  BY LenProperties
<1> QED
  BY <1>1, <1>2

(* Ids are counted, and cut apart again at every 32 bytes.                 *)
LEMMA IdsJoined ==
    ASSUME NEW v \in Ids
    PROVE  /\ Len(v) \in Nat /\ Len(v) \div 65536 < 65536
           /\ FlattenSeq(v) \in Seq(Byte) /\ Len(FlattenSeq(v)) = 32 * Len(v)
           /\ Group(FlattenSeq(v), 32) = v
<1>1. IsSequence(v) /\ Len(v) \in Nat /\ Len(v) \div 65536 < 65536
  <2>1. v \in Seq(Octets(32)) /\ Countable(v)
    BY DEF Ids
  <2>2. IsSequence(v) /\ Len(v) \in Nat
    BY <2>1, SeqOfRange, LenProperties DEF IsSequence
  <2> QED
    BY <2>1, <2>2 DEF Countable
<1>2. \A i \in 1 .. Len(v) : v[i] \in [1 .. 32 -> Byte]
  <2>1. v \in Seq(Octets(32))
    BY DEF Ids
  <2> QED
    BY <2>1, ElementOfSeq, Zenon DEF Octets
<1>3. Regroups(v, 32, Byte)
  <2>1. IsSequence(v)
    BY <1>1
  <2>2. 32 \in Nat \ {0}
    OBVIOUS
  <2> QED
    BY <1>2, <2>1, <2>2, GroupFlattened
<1> QED
  BY <1>1, <1>3 DEF Regroups

(* The list of a packed message: how many there are, and then all of them. *)
LEMMA PackedIds ==
    ASSUME IsBorsh(message), NEW v \in Ids
    PROVE  IsReadAs("ids", U32(Len(v)) \o FlattenSeq(v), v, TRUE)
<1> DEFINE c == U32(Len(v))
           f == FlattenSeq(v)
           e == c \o f
<1>1. Len(v) \in Nat /\ Len(v) \div 65536 < 65536
  BY IdsJoined
<1>2. f \in Seq(Byte) /\ Len(f) = 32 * Len(v) /\ Group(f, 32) = v
  BY IdsJoined
<1>3. c \in Seq(Byte) /\ Len(c) = 4 /\ Number(c) = Len(v)
  BY <1>1, U32IsWord, NumberOfU32
<1> HIDE DEF c, f
<1>4. c \in Seq(Unit) /\ f \in Seq(Unit)
  BY <1>2, <1>3, SeqMonotonic DEF Unit
<1>5. /\ e \in Seq(Unit) /\ Len(e) = 4 + 32 * Len(v)
      /\ SubSeq(e, 1, 4) = c /\ SubSeq(e, 5, Len(e)) = f
  <2>1. /\ e \in Seq(Unit) /\ Len(e) = Len(c) + Len(f)
        /\ SubSeq(e, 1, Len(c)) = c /\ SubSeq(e, Len(c) + 1, Len(e)) = f
    BY <1>4, FrontAndRest
  <2>2. Len(c) + 1 = 5
    BY <1>3
  <2> QED
    BY <1>2, <1>3, <2>1, <2>2
<1>6. CountLength = 4
  BY CountIs
<1> HIDE DEF e
<1>7. ASSUME NEW t \in Seq(Unit) PROVE Width("ids", e \o t) = Len(e)
  <2>1. SubSeq(e \o t, 1, 4) = c
    <3>1. e \o t = c \o (f \o t) /\ f \o t \in Seq(Unit)
      BY <1>4, ConcatAssociative, ConcatProperties DEF e
    <3>2. SubSeq(c \o (f \o t), 1, Len(c)) = c
      BY <1>4, <3>1, FrontAndRest
    <3> QED
      BY <1>3, <3>1, <3>2
  <2>2. Count(e \o t) = Len(v)
    BY <1>3, <2>1 DEF Count
  <2> QED
    BY <1>5, <1>6, <2>2 DEF Width
<1>8. \A t \in Seq(Unit) : Fits("ids", e \o t)
  <2>1. CountLength <= Len(e)
    BY <1>1, <1>5, <1>6
  <2> QED
    BY <1>5, <1>6, <1>7, <2>1, FitsInFront
<1>9. Legal("ids", e)
  BY DEF Legal
<1>10. Value("ids", e) = v
  <2>1. SubSeq(e, CountLength + 1, Len(e)) = f
    BY <1>5, <1>6
  <2> QED
    BY <1>2, <2>1 DEF Value
<1> QED
  BY <1>5, <1>7, <1>8, <1>9, <1>10 DEF IsReadAs, e, c, f

(* The fields of a message in words.                                       *)
LEMMA WordsOfId ==
    ASSUME ~IsBorsh(message), NEW v \in Octets(32)
    PROVE  IsReadAs("id", EncodeBytes32(v), v, TRUE)
<1> DEFINE e == EncodeBytes32(v)
<1>1. v \in Seq(Byte) /\ Len(v) = 32
  <2>1. 32 \in Nat /\ v \in [1 .. 32 -> Byte]
    BY DEF Octets
  <2> QED
    BY <2>1, FunctionIsSeq
<1>2. /\ e \in Seq(Unit) /\ Len(e) = 32
      /\ \A i \in DOMAIN e : Tail(e[i]) = <<0, 0, 0>>
      /\ [i \in DOMAIN e |-> e[i][1]] = v
  BY <1>1, BytesAsWords
<1> HIDE DEF e
<1>3. ASSUME NEW t \in Seq(Unit) PROVE Width("id", e \o t) = Len(e)
  BY <1>2 DEF Width
<1>4. CountLength \in Nat
  BY CountIs
<1>5. \A t \in Seq(Unit) : Fits("id", e \o t)
  BY <1>2, <1>3, <1>4, FitsInFront
<1>6. Legal("id", e)
  BY <1>2 DEF Legal
<1>7. Value("id", e) = v
  BY <1>2 DEF Value
<1> QED
  BY <1>2, <1>3, <1>5, <1>6, <1>7 DEF IsReadAs, e

(* Four bytes to a word.                                                   *)
LEMMA InWords ==
    ASSUME NEW k \in Nat \ {0}, NEW v \in Octets(4 * k)
    PROVE  /\ Group(v, 4) \in Seq(Unit) /\ Len(Group(v, 4)) = k
           /\ FlattenSeq(Group(v, 4)) = v
           /\ k = 2 => Group(v, 4)[2] = SubSeq(v, 5, 8)
<1>1. v \in Seq(Byte) /\ Len(v) = 4 * k
  <2>1. 4 * k \in Nat /\ v \in [1 .. 4 * k -> Byte]
    BY DEF Octets
  <2> QED
    BY <2>1, FunctionIsSeq
<1>2. 4 \in Nat \ {0}
  OBVIOUS
<1>3. Grouped(Group(v, 4), 4, k, v, Byte)
  BY <1>1, <1>2, GroupBlocks
<1>4. Group(v, 4) \in Seq(Unit) /\ Len(Group(v, 4)) = k
  <2>1. Group(v, 4) \in [1 .. k -> Unit] /\ Len(Group(v, 4)) = k
    BY <1>3 DEF Grouped, Unit, Word, Octets
  <2> QED
    BY <2>1, FunctionIsSeq
<1>5. FlattenSeq(Group(v, 4)) = v
  BY <1>1, <1>2, FlattenGroups
<1>6. ASSUME k = 2 PROVE Group(v, 4)[2] = SubSeq(v, 5, 8)
  <2>1. Len(v) \div 4 = 2
    BY <1>1, <1>6
  <2> QED
    BY <2>1 DEF Group
<1> QED
  BY <1>4, <1>5, <1>6

LEMMA WordsOfNumber ==
    ASSUME ~IsBorsh(message), NEW type, NEW k, NEW v \in Octets(4 * k),
           \/ type = "program_id" /\ k = 8
           \/ type = "u128" /\ k = 4
           \/ type = "usize" /\ k = 2
    PROVE  IsReadAs(type, Group(v, 4), IF type = "program_id" THEN Group(v, 4) ELSE v,
                    LegalIndex(type, v))
<1> DEFINE e == Group(v, 4)
<1>1. /\ e \in Seq(Unit) /\ Len(e) = k /\ FlattenSeq(e) = v
      /\ k = 2 => e[2] = SubSeq(v, 5, 8)
  <2>1. k \in Nat \ {0}
    OBVIOUS
  <2> QED
    BY <2>1, InWords
<1> HIDE DEF e
<1>2. ASSUME NEW t \in Seq(Unit) PROVE Width(type, e \o t) = Len(e)
  <2>1. CASE type = "program_id"
    BY <1>1, <2>1 DEF Width
  <2>2. CASE type = "u128"
    BY <1>1, <2>2 DEF Width
  <2>3. CASE type = "usize"
    BY <1>1, <2>3 DEF Width
  <2> QED
    BY <2>1, <2>2, <2>3
<1>3. type \notin {"blob", "ids"} /\ CountLength \in Nat
  BY CountIs
<1>4. \A t \in Seq(Unit) : Fits(type, e \o t)
  BY <1>1, <1>2, <1>3, FitsInFront
<1>5. Legal(type, e) <=> LegalIndex(type, v)
  <2>1. CASE type = "usize"
    BY <1>1, <2>1 DEF Legal, LegalIndex
  <2>2. CASE type # "usize"
    BY <2>2 DEF Legal, LegalIndex
  <2> QED
    BY <2>1, <2>2
<1>6. Value(type, e) = IF type = "program_id" THEN Group(v, 4) ELSE v
  <2>1. CASE type = "program_id"
    BY <1>1, <2>1 DEF Value
  <2>2. CASE type = "u128"
    BY <1>1, <2>2 DEF Value
  <2>3. CASE type = "usize"
    BY <1>1, <2>3 DEF Value
  <2> QED
    BY <2>1, <2>2, <2>3
<1> QED
  BY <1>1, <1>2, <1>4, <1>5, <1>6 DEF IsReadAs, e

LEMMA OneWord ==
    ASSUME NEW x \in Word
    PROVE  <<x>> \in Seq(Unit) /\ Len(<<x>>) = 1 /\ <<x>>[1] = x
BY DEF Unit

LEMMA WordsOfU32 ==
    ASSUME ~IsBorsh(message), NEW v \in Word
    PROVE  IsReadAs("u32", <<v>>, v, TRUE)
<1> DEFINE e == <<v>>
<1>1. e \in Seq(Unit) /\ Len(e) = 1 /\ e[1] = v
  BY OneWord
<1>2. FlattenSeq(e) = v
  <2>1. Len(e) \in Nat \ {0}
    BY <1>1
  <2> HIDE DEF e
  <2>2. FlattenSeq(e) = Flattened(e)[Len(e)] /\ Flattened(e)[1] = e[1]
    BY <2>1, FlattenEquation
  <2> QED
    BY <1>1, <2>2
<1> HIDE DEF e
<1>3. ASSUME NEW t \in Seq(Unit) PROVE Width("u32", e \o t) = Len(e)
  BY <1>1 DEF Width
<1>4. CountLength \in Nat
  BY CountIs
<1>5. \A t \in Seq(Unit) : Fits("u32", e \o t)
  BY <1>1, <1>3, <1>4, FitsInFront
<1>6. Legal("u32", e)
  BY DEF Legal
<1>7. Value("u32", e) = v
  BY <1>2 DEF Value
<1> QED
  BY <1>1, <1>3, <1>5, <1>6, <1>7 DEF IsReadAs, e

Lows(words) == [i \in DOMAIN words |-> words[i][1]]

(* e are bytes b in words, after the number n.                             *)
IsCounted(e, n, b) ==
    /\ e \in Seq(Unit) /\ Len(e) = 1 + Len(b)
    /\ \A t \in Seq(Unit) : Count(e \o t) = n
    /\ Lows(SubSeq(e, CountLength + 1, Len(e))) = b

(* What is written behind its count is read back with it.                  *)
LEMMA CountedWords ==
    ASSUME ~IsBorsh(message), NEW n \in Nat, n \div 65536 < 65536, NEW b \in Seq(Byte)
    PROVE  IsCounted(<<U32(n)>> \o EncodeBytes32(b), n, b)
<1> DEFINE c == <<U32(n)>>
           f == EncodeBytes32(b)
           e == c \o f
<1>1. c \in Seq(Unit) /\ Len(c) = 1 /\ c[1] = U32(n)
  BY U32IsWord, OneWord
<1>2. f \in Seq(Unit) /\ Len(f) = Len(b) /\ Lows(f) = b
  BY BytesAsWords DEF Lows
<1> HIDE DEF c, f
<1>3. /\ e \in Seq(Unit) /\ Len(e) = Len(c) + Len(f)
      /\ SubSeq(e, Len(c) + 1, Len(e)) = f
      /\ \A i \in 1 .. Len(c) : e[i] = c[i]
  <2>0. c \in Seq(Unit) /\ f \in Seq(Unit)
    BY <1>1, <1>2
  <2>1. /\ e \in Seq(Unit) /\ Len(e) = Len(c) + Len(f)
        /\ SubSeq(e, Len(c) + 1, Len(e)) = f
    BY <2>0, FrontAndRest
  <2>2. \A i \in 1 .. Len(c) : e[i] = c[i]
    BY <2>0, ConcatUnits
  <2> QED
    BY <2>1, <2>2
<1> HIDE DEF e
<1>4. CountLength = 1
  BY CountIs
<1>5. SubSeq(e, CountLength + 1, Len(e)) = f
  BY <1>1, <1>3, <1>4
<1>6. ASSUME NEW t \in Seq(Unit) PROVE Count(e \o t) = n
  <2>1. \A i \in 1 .. Len(e) : (e \o t)[i] = e[i]
    BY <1>3, ConcatUnits
  <2>2. Len(e) \in Nat /\ Len(f) \in Nat
    BY <1>2, <1>3, LenProperties
  <2>3. (e \o t)[1] = U32(n)
    BY <1>1, <1>3, <2>1, <2>2
  <2> QED
    BY <2>3, NumberOfU32 DEF Count
<1>7. e \in Seq(Unit) /\ Len(e) = 1 + Len(b)
  BY <1>1, <1>2, <1>3
<1>8. Lows(SubSeq(e, CountLength + 1, Len(e))) = b
  <2>1. Lows(f) = b
    BY <1>2
  <2> DEFINE content == SubSeq(e, CountLength + 1, Len(e))
  <2>2. content = f
    BY <1>5
  <2> HIDE DEF content
  <2>3. Lows(content) = b
    BY <2>1, <2>2
  <2> QED
    BY <2>3 DEF content
<1> QED
  BY <1>6, <1>7, <1>8 DEF e, c, f, IsCounted

LEMMA WordsOfBlob ==
    ASSUME ~IsBorsh(message), NEW v \in Blob
    PROVE  IsReadAs("blob", EncodeVecU8(v), v, TRUE)
<1> DEFINE e == EncodeVecU8(v)
           content == SubSeq(e, CountLength + 1, Len(e))
<1>1. v \in Seq(Byte) /\ Len(v) \in Nat /\ Len(v) \div 65536 < 65536
  <2>1. v \in Seq(Byte) /\ Countable(v)
    BY DEF Blob
  <2> QED
    BY <2>1, LenProperties DEF Countable
<1>2. /\ e \in Seq(Unit) /\ Len(e) = 1 + Len(v)
      /\ \A t \in Seq(Unit) : Count(e \o t) = Len(v)
      /\ Lows(content) = v
  <2>1. IsCounted(e, Len(v), v)
    BY <1>1, CountedWords DEF EncodeVecU8
  <2> QED
    BY <2>1 DEF IsCounted
<1>3. CountLength = 1
  BY CountIs
<1> HIDE DEF e
<1>4. ASSUME NEW t \in Seq(Unit) PROVE Width("blob", e \o t) = Len(e)
  BY <1>1, <1>2, <1>3 DEF Width
<1>5. \A t \in Seq(Unit) : Fits("blob", e \o t)
  <2>1. CountLength <= Len(e)
    BY <1>1, <1>2, <1>3
  <2> QED
    BY <1>2, <1>3, <1>4, <2>1, FitsInFront
<1>6. Legal("blob", e)
  BY DEF Legal
<1>7. Value("blob", e) = v
  <2>1. Value("blob", e) = Lows(content)
    BY DEF Value, Lows
  <2> QED
    BY <1>2, <2>1
<1> QED
  BY <1>2, <1>4, <1>5, <1>6, <1>7 DEF IsReadAs, e

LEMMA WordsOfIds ==
    ASSUME ~IsBorsh(message), NEW v \in Ids
    PROVE  IsReadAs("ids", <<U32(Len(v))>> \o EncodeBytes32(FlattenSeq(v)), v, TRUE)
<1> DEFINE f == FlattenSeq(v)
           e == <<U32(Len(v))>> \o EncodeBytes32(f)
           content == SubSeq(e, CountLength + 1, Len(e))
<1>1. /\ Len(v) \in Nat /\ Len(v) \div 65536 < 65536
      /\ f \in Seq(Byte) /\ Len(f) = 32 * Len(v) /\ Group(f, 32) = v
  BY IdsJoined
<1> HIDE DEF f
<1>2. /\ e \in Seq(Unit) /\ Len(e) = 1 + Len(f)
      /\ \A t \in Seq(Unit) : Count(e \o t) = Len(v)
      /\ Lows(content) = f
  <2>1. IsCounted(e, Len(v), f)
    BY <1>1, CountedWords
  <2> QED
    BY <2>1 DEF IsCounted
<1>3. CountLength = 1
  BY CountIs
<1> HIDE DEF e
<1>4. ASSUME NEW t \in Seq(Unit) PROVE Width("ids", e \o t) = Len(e)
  <2>1. Width("ids", e \o t) = CountLength + 32 * Count(e \o t)
    BY DEF Width
  <2>2. Count(e \o t) = Len(v)
    BY <1>2
  <2> QED
    BY <1>1, <1>2, <1>3, <2>1, <2>2
<1>5. \A t \in Seq(Unit) : Fits("ids", e \o t)
  <2>1. CountLength <= Len(e)
    BY <1>1, <1>2, <1>3
  <2> QED
    BY <1>2, <1>3, <1>4, <2>1, FitsInFront
<1>6. Legal("ids", e)
  BY DEF Legal
<1>7. Value("ids", e) = v
  <2>1. Value("ids", e) = Group(Lows(content), 32)
    BY DEF Value, Lows
  <2> QED
    BY <1>1, <1>2, <2>1
<1> QED
  BY <1>2, <1>4, <1>5, <1>6, <1>7 DEF IsReadAs, e, f

FieldTypes == {"id", "program_id", "u128", "u32", "usize", "blob", "ids"}
PackedTypes(kind) == {"id", "u128", "ids"} \cup (IF kind = "state" THEN {"program_id"} ELSE {})
TypesOf(kind) == IF Packed(kind) THEN PackedTypes(kind) ELSE FieldTypes

(* Every field of every message is read as what it was written from, but   *)
(* for an index that is too large for the guest.                           *)
LEMMA FieldIsRead ==
    ASSUME NEW kind, IsBorsh(message) <=> Packed(kind), NEW type \in TypesOf(kind),
           NEW v \in Typed(kind, type)
    PROVE  IsReadAs(type, Encoded(kind, type, v), Back(kind, type, v), LegalIndex(type, v))
<1>1. CASE Packed(kind)
  <2>1. CASE type = "id"
    <3>1. v \in Octets(32) /\ Encoded(kind, type, v) = v /\ Back(kind, type, v) = v
      BY <1>1, <2>1 DEF Typed, Encoded, Back
    <3>2. LegalIndex(type, v)
      BY <2>1 DEF LegalIndex
    <3>3. IsReadAs(type, v, v, TRUE)
      BY <1>1, <2>1, <3>1, PackedOctets
    <3> QED
      BY <3>1, <3>2, <3>3 DEF IsReadAs
  <2>2. CASE type = "u128"
    <3>1. v \in Octets(16) /\ Encoded(kind, type, v) = v /\ Back(kind, type, v) = v
      BY <1>1, <2>2 DEF Typed, Encoded, Back
    <3>2. LegalIndex(type, v)
      BY <2>2 DEF LegalIndex
    <3>3. IsReadAs(type, v, v, TRUE)
      BY <1>1, <2>2, <3>1, PackedOctets
    <3> QED
      BY <3>1, <3>2, <3>3 DEF IsReadAs
  <2>3. CASE type = "ids"
    <3>1. v \in Ids /\ Encoded(kind, type, v) = U32(Len(v)) \o FlattenSeq(v)
          /\ Back(kind, type, v) = v
      BY <1>1, <2>3 DEF Typed, Encoded, Back
    <3>2. LegalIndex(type, v)
      BY <2>3 DEF LegalIndex
    <3>3. IsReadAs("ids", U32(Len(v)) \o FlattenSeq(v), v, TRUE)
      BY <1>1, <3>1, PackedIds
    <3> QED
      BY <2>3, <3>1, <3>2, <3>3 DEF IsReadAs
  <2>4. CASE type = "program_id" /\ kind = "state"
    <3>1. v \in [1 .. 8 -> Word] /\ Encoded(kind, type, v) = FlattenSeq(v)
          /\ Back(kind, type, v) = v
      BY <1>1, <2>4 DEF Typed, Encoded, Back
    <3>2. LegalIndex(type, v)
      BY <2>4 DEF LegalIndex
    <3>3. IsReadAs("program_id", FlattenSeq(v), v, TRUE)
      BY <1>1, <3>1, PackedProgramId
    <3> QED
      BY <2>4, <3>1, <3>2, <3>3 DEF IsReadAs
  <2> QED
    BY <1>1, <2>1, <2>2, <2>3, <2>4 DEF TypesOf, PackedTypes
<1>2. CASE ~Packed(kind)
  <2>0. kind # "state"
    BY <1>2 DEF Packed
  <2>1. CASE type = "id"
    <3>1. v \in Octets(32) /\ Encoded(kind, type, v) = EncodeBytes32(v)
          /\ Back(kind, type, v) = v
      BY <1>2, <2>1 DEF Typed, Encoded, Back
    <3>2. LegalIndex(type, v)
      BY <2>1 DEF LegalIndex
    <3>3. IsReadAs("id", EncodeBytes32(v), v, TRUE)
      BY <1>2, <3>1, WordsOfId
    <3> QED
      BY <2>1, <3>1, <3>2, <3>3 DEF IsReadAs
  <2>2. CASE type = "u32"
    <3>1. v \in Word /\ Encoded(kind, type, v) = <<v>> /\ Back(kind, type, v) = v
      BY <1>2, <2>2 DEF Typed, Encoded, Back
    <3>2. LegalIndex(type, v)
      BY <2>2 DEF LegalIndex
    <3>3. IsReadAs("u32", <<v>>, v, TRUE)
      BY <1>2, <3>1, WordsOfU32
    <3> QED
      BY <2>2, <3>1, <3>2, <3>3 DEF IsReadAs
  <2>3. CASE type = "blob"
    <3>1. v \in Blob /\ Encoded(kind, type, v) = EncodeVecU8(v) /\ Back(kind, type, v) = v
      BY <1>2, <2>3 DEF Typed, Encoded, Back
    <3>2. LegalIndex(type, v)
      BY <2>3 DEF LegalIndex
    <3>3. IsReadAs("blob", EncodeVecU8(v), v, TRUE)
      BY <1>2, <3>1, WordsOfBlob
    <3> QED
      BY <2>3, <3>1, <3>2, <3>3 DEF IsReadAs
  <2>4. CASE type = "ids"
    <3>1. v \in Ids /\ Back(kind, type, v) = v
          /\ Encoded(kind, type, v) = <<U32(Len(v))>> \o EncodeBytes32(FlattenSeq(v))
      BY <1>2, <2>4 DEF Typed, Encoded, Back
    <3>2. LegalIndex(type, v)
      BY <2>4 DEF LegalIndex
    <3>3. IsReadAs("ids", <<U32(Len(v))>> \o EncodeBytes32(FlattenSeq(v)), v, TRUE)
      BY <1>2, <3>1, WordsOfIds
    <3> QED
      BY <2>4, <3>1, <3>2, <3>3 DEF IsReadAs
  <2>5. CASE type \in {"program_id", "u128", "usize"}
    <3>1. /\ Encoded(kind, type, v) = Group(v, 4)
          /\ Back(kind, type, v) = IF type = "program_id" THEN Group(v, 4) ELSE v
      BY <1>2, <2>0, <2>5 DEF Encoded, Back
    <3>2. PICK k \in {2, 4, 8} : /\ v \in Octets(4 * k)
                                /\ \/ type = "program_id" /\ k = 8
                                   \/ type = "u128" /\ k = 4
                                   \/ type = "usize" /\ k = 2
      BY <2>0, <2>5 DEF Typed
    <3>3. IsReadAs(type, Group(v, 4), IF type = "program_id" THEN Group(v, 4) ELSE v,
                   LegalIndex(type, v))
      BY <1>2, <3>2, WordsOfNumber
    <3> QED
      BY <3>1, <3>3
  <2> QED
    BY <1>2, <2>1, <2>2, <2>3, <2>4, <2>5 DEF TypesOf, FieldTypes
<1> QED
  BY <1>1, <1>2

-----------------------------------------------------------------------------
(* What is left of parts e[1], ..., e[n] once the first j have been read.  *)
Leaves(e, n, r) ==
    /\ r \in [0 .. n -> Seq(Unit)]
    /\ r[n] = <<>>
    /\ \A j \in 1 .. n : r[j - 1] = e[j] \o r[j]

LeavesFrom(e, n, k, r) ==
    /\ r \in [0 .. n -> Seq(Unit)]
    /\ r[n] = <<>>
    /\ \A j \in 1 .. n : j > n - k => r[j - 1] = e[j] \o r[j]

LEMMA PartsLeave ==
    ASSUME NEW n \in Nat, NEW e \in [1 .. n -> Seq(Unit)]
    PROVE  \E r : Leaves(e, n, r)
<1> DEFINE T == {k \in Nat : k <= n /\ ~ \E r : LeavesFrom(e, n, k, r)}
<1>1. 0 \notin T
  <2> DEFINE r == [j \in 0 .. n |-> <<>>]
  <2>1. r \in [0 .. n -> Seq(Unit)] /\ r[n] = <<>>
    OBVIOUS
  <2>2. LeavesFrom(e, n, 0, r)
    BY <2>1 DEF LeavesFrom
  <2> QED
    BY <2>2
<1>2. ASSUME NEW k \in Nat, k + 1 \in T PROVE k \in T
  <2> SUFFICES ASSUME NEW r, LeavesFrom(e, n, k, r) PROVE FALSE
    BY <1>2
  <2> DEFINE i == n - k
             s == [r EXCEPT ![i - 1] = e[i] \o r[i]]
  <2>1. i \in 1 .. n /\ i - 1 \in 0 .. n /\ k + 1 <= n
    BY <1>2
  <2>2. /\ r \in [0 .. n -> Seq(Unit)] /\ r[n] = <<>>
        /\ \A j \in 1 .. n : j > n - k => r[j - 1] = e[j] \o r[j]
    BY DEF LeavesFrom
  <2>3. e[i] \o r[i] \in Seq(Unit)
    BY <2>1, <2>2, ConcatProperties
  <2>4. s \in [0 .. n -> Seq(Unit)] /\ s[i - 1] = e[i] \o r[i]
        /\ \A j \in 0 .. n : j # i - 1 => s[j] = r[j]
    BY <2>1, <2>2, <2>3
  <2> HIDE DEF s, T
  <2>5. s[n] = <<>>
    BY <2>1, <2>2, <2>4
  <2>6. ASSUME NEW j \in 1 .. n, j > n - (k + 1) PROVE s[j - 1] = e[j] \o s[j]
    <3>1. CASE j = i
      <4>1. s[i] = r[i]
        BY <2>1, <2>4
      <4> QED
        BY <2>4, <3>1, <4>1
    <3>2. CASE j > i
      <4>1. j \in 0 .. n /\ j # i - 1 /\ j - 1 \in 0 .. n /\ j - 1 # i - 1 /\ j > n - k
        BY <2>1, <3>2
      <4>2. s[j - 1] = r[j - 1] /\ s[j] = r[j]
        BY <2>4, <4>1
      <4>3. r[j - 1] = e[j] \o r[j]
        BY <2>2, <4>1
      <4> QED
        BY <4>2, <4>3
    <3> QED
      BY <2>6, <3>1, <3>2
  <2>7. LeavesFrom(e, n, k + 1, s)
    BY <2>4, <2>5, <2>6 DEF LeavesFrom
  <2> QED
    BY <1>2, <2>7 DEF T
<1>3. T = {}
  <2>1. T \in SUBSET Nat
    OBVIOUS
  <2> HIDE DEF T
  <2> QED
    BY <1>1, <1>2, <2>1, NoLeastFailure
<1>4. \E r : LeavesFrom(e, n, n, r)
  <2> HIDE DEF T
  <2>1. n \notin T
    BY <1>3
  <2> QED
    BY <2>1 DEF T
<1>5. PICK r : LeavesFrom(e, n, n, r)
  BY <1>4
<1>6. Leaves(e, n, r)
  <2>1. \A j \in 1 .. n : j > n - n
    OBVIOUS
  <2> QED
    BY <1>5, <2>1 DEF Leaves, LeavesFrom
<1> QED
  BY <1>6

(* The part after a front may be seen as the front of the rest.            *)
LEMMA Slide ==
    ASSUME NEW p \in Seq(Unit), NEW a \in Seq(Unit), NEW t \in Seq(Unit), NEW u, u = a \o t
    PROVE  (p \o a) \o t = p \o u /\ p \o a \in Seq(Unit) /\ u \in Seq(Unit)
BY ConcatAssociative, ConcatProperties

-----------------------------------------------------------------------------
(* What the reader of a message expects, in its order.                     *)
FieldsOf(kind) ==
    CASE kind = "initialize"   -> InitializeFields
      [] kind = "submit_claim" -> SubmitClaimFields
      [] kind = "claim"        -> ClaimFields
      [] kind = "journal"      -> ClaimJournalRaw
      [] kind = "state"        -> DistributionStateFields
      [] kind = "prover_input" -> GuestInput
      [] kind = "attestation"  -> VerifierJournal

ProgramIds == {"airdrop_program_id", "claim_circuit_program_id"}

(* Its fields are what it was made from.                                   *)
WellMade(kind, a) ==
    LET d == FieldsOf(kind)
    IN  /\ IsSequence(d)
        /\ DOMAIN a = {d[j][1] : j \in 1 .. Len(d)}
        /\ \A j \in 1 .. Len(d) :
              /\ d[j] = <<d[j][1], d[j][2]>>
              /\ d[j][2] \in TypesOf(kind)
              /\ a[d[j][1]] \in Typed(kind, d[j][2])
              /\ d[j][1] \in ProgramIds <=> d[j][2] = "program_id"

PartsOf(kind, a) ==
    [j \in 1 .. Len(FieldsOf(kind)) |->
        Encoded(kind, FieldsOf(kind)[j][2], a[FieldsOf(kind)[j][1]])]

LEMMA InitializeWellMade ==
    ASSUME NEW a \in Arguments("initialize")
    PROVE  WellMade("initialize", a) /\ FieldsOf("initialize") = InitializeFields /\ Len(InitializeFields) = 3
<1>1. FieldsOf("initialize") = InitializeFields
  BY DEF FieldsOf
<1>2. Len(InitializeFields) = 3 /\ IsSequence(InitializeFields)
  BY TupleOf3 DEF InitializeFields
<1>3. /\ InitializeFields[1] = <<"merkle_root", "id">>
      /\ InitializeFields[2] = <<"claim_circuit_program_id", "program_id">>
      /\ InitializeFields[3] = <<"total_supply", "u128">>
  BY DEF InitializeFields
<1>4. /\ DOMAIN a = {"merkle_root", "claim_circuit_program_id", "total_supply"}
      /\ a["merkle_root"] \in Octets(32)
      /\ a["claim_circuit_program_id"] \in Octets(32)
      /\ a["total_supply"] \in Octets(16)
  BY DEF Arguments
<1>5. DOMAIN a = {InitializeFields[j][1] : j \in 1 .. 3}
  <2>1. 1 .. 3 = {1, 2, 3}
    OBVIOUS
  <2> HIDE DEF InitializeFields
  <2> QED
    BY <1>3, <1>4, <2>1
<1>6. ASSUME NEW j \in 1 .. 3
      PROVE  /\ InitializeFields[j] = <<InitializeFields[j][1], InitializeFields[j][2]>>
             /\ InitializeFields[j][2] \in TypesOf("initialize")
             /\ a[InitializeFields[j][1]] \in Typed("initialize", InitializeFields[j][2])
             /\ InitializeFields[j][1] \in ProgramIds <=> InitializeFields[j][2] = "program_id"
  <2>1. CASE j = 1
    BY <1>3, <1>4, <2>1 DEF TypesOf, PackedTypes, FieldTypes, Packed, Typed, ProgramIds
  <2>2. CASE j = 2
    BY <1>3, <1>4, <2>2 DEF TypesOf, PackedTypes, FieldTypes, Packed, Typed, ProgramIds
  <2>3. CASE j = 3
    BY <1>3, <1>4, <2>3 DEF TypesOf, PackedTypes, FieldTypes, Packed, Typed, ProgramIds
  <2> QED
    BY <2>1, <2>2, <2>3
<1> QED
  BY <1>1, <1>2, <1>5, <1>6 DEF WellMade

LEMMA SubmitClaimWellMade ==
    ASSUME NEW a \in Arguments("submit_claim")
    PROVE  WellMade("submit_claim", a) /\ FieldsOf("submit_claim") = SubmitClaimFields /\ Len(SubmitClaimFields) = 6
<1>1. FieldsOf("submit_claim") = SubmitClaimFields
  BY DEF FieldsOf
<1>2. Len(SubmitClaimFields) = 6 /\ IsSequence(SubmitClaimFields)
  BY TupleOf6 DEF SubmitClaimFields
<1>3. /\ SubmitClaimFields[1] = <<"airdrop_program_id", "program_id">>
      /\ SubmitClaimFields[2] = <<"account_id", "id">>
      /\ SubmitClaimFields[3] = <<"allocation", "u128">>
      /\ SubmitClaimFields[4] = <<"leaf_index", "u32">>
      /\ SubmitClaimFields[5] = <<"merkle_path", "ids">>
      /\ SubmitClaimFields[6] = <<"recipient_note", "blob">>
  BY DEF SubmitClaimFields
<1>4. /\ DOMAIN a = {"airdrop_program_id", "account_id", "allocation", "leaf_index", "merkle_path", "recipient_note"}
      /\ a["airdrop_program_id"] \in Octets(32)
      /\ a["account_id"] \in Octets(32)
      /\ a["allocation"] \in Octets(16)
      /\ a["leaf_index"] \in Word
      /\ a["merkle_path"] \in Ids
      /\ a["recipient_note"] \in Blob
  BY DEF Arguments
<1>5. DOMAIN a = {SubmitClaimFields[j][1] : j \in 1 .. 6}
  <2>1. 1 .. 6 = {1, 2, 3, 4, 5, 6}
    OBVIOUS
  <2> HIDE DEF SubmitClaimFields
  <2> QED
    BY <1>3, <1>4, <2>1
<1>6. ASSUME NEW j \in 1 .. 6
      PROVE  /\ SubmitClaimFields[j] = <<SubmitClaimFields[j][1], SubmitClaimFields[j][2]>>
             /\ SubmitClaimFields[j][2] \in TypesOf("submit_claim")
             /\ a[SubmitClaimFields[j][1]] \in Typed("submit_claim", SubmitClaimFields[j][2])
             /\ SubmitClaimFields[j][1] \in ProgramIds <=> SubmitClaimFields[j][2] = "program_id"
  <2>1. CASE j = 1
    BY <1>3, <1>4, <2>1 DEF TypesOf, PackedTypes, FieldTypes, Packed, Typed, ProgramIds
  <2>2. CASE j = 2
    BY <1>3, <1>4, <2>2 DEF TypesOf, PackedTypes, FieldTypes, Packed, Typed, ProgramIds
  <2>3. CASE j = 3
    BY <1>3, <1>4, <2>3 DEF TypesOf, PackedTypes, FieldTypes, Packed, Typed, ProgramIds
  <2>4. CASE j = 4
    BY <1>3, <1>4, <2>4 DEF TypesOf, PackedTypes, FieldTypes, Packed, Typed, ProgramIds
  <2>5. CASE j = 5
    BY <1>3, <1>4, <2>5 DEF TypesOf, PackedTypes, FieldTypes, Packed, Typed, ProgramIds
  <2>6. CASE j = 6
    BY <1>3, <1>4, <2>6 DEF TypesOf, PackedTypes, FieldTypes, Packed, Typed, ProgramIds
  <2> QED
    BY <2>1, <2>2, <2>3, <2>4, <2>5, <2>6
<1> QED
  BY <1>1, <1>2, <1>5, <1>6 DEF WellMade

LEMMA ClaimWellMade ==
    ASSUME NEW a \in Arguments("claim")
    PROVE  WellMade("claim", a) /\ FieldsOf("claim") = ClaimFields /\ Len(ClaimFields) = 2
<1>1. FieldsOf("claim") = ClaimFields
  BY DEF FieldsOf
<1>2. Len(ClaimFields) = 2 /\ IsSequence(ClaimFields)
  BY TupleOf2 DEF ClaimFields
<1>3. /\ ClaimFields[1] = <<"journal_bytes", "blob">>
      /\ ClaimFields[2] = <<"recipient_note", "blob">>
  BY DEF ClaimFields
<1>4. /\ DOMAIN a = {"journal_bytes", "recipient_note"}
      /\ a["journal_bytes"] \in Blob
      /\ a["recipient_note"] \in Blob
  BY DEF Arguments
<1>5. DOMAIN a = {ClaimFields[j][1] : j \in 1 .. 2}
  <2>1. 1 .. 2 = {1, 2}
    OBVIOUS
  <2> HIDE DEF ClaimFields
  <2> QED
    BY <1>3, <1>4, <2>1
<1>6. ASSUME NEW j \in 1 .. 2
      PROVE  /\ ClaimFields[j] = <<ClaimFields[j][1], ClaimFields[j][2]>>
             /\ ClaimFields[j][2] \in TypesOf("claim")
             /\ a[ClaimFields[j][1]] \in Typed("claim", ClaimFields[j][2])
             /\ ClaimFields[j][1] \in ProgramIds <=> ClaimFields[j][2] = "program_id"
  <2>1. CASE j = 1
    BY <1>3, <1>4, <2>1 DEF TypesOf, PackedTypes, FieldTypes, Packed, Typed, ProgramIds
  <2>2. CASE j = 2
    BY <1>3, <1>4, <2>2 DEF TypesOf, PackedTypes, FieldTypes, Packed, Typed, ProgramIds
  <2> QED
    BY <2>1, <2>2
<1> QED
  BY <1>1, <1>2, <1>5, <1>6 DEF WellMade

LEMMA JournalWellMade ==
    ASSUME NEW a \in Arguments("journal")
    PROVE  WellMade("journal", a) /\ FieldsOf("journal") = ClaimJournalRaw /\ Len(ClaimJournalRaw) = 5
<1>1. FieldsOf("journal") = ClaimJournalRaw
  BY DEF FieldsOf
<1>2. Len(ClaimJournalRaw) = 5 /\ IsSequence(ClaimJournalRaw)
  BY TupleOf5 DEF ClaimJournalRaw
<1>3. /\ ClaimJournalRaw[1] = <<"merkle_root", "id">>
      /\ ClaimJournalRaw[2] = <<"nullifier", "id">>
      /\ ClaimJournalRaw[3] = <<"distributor_id", "id">>
      /\ ClaimJournalRaw[4] = <<"allocation", "u128">>
      /\ ClaimJournalRaw[5] = <<"recipient_note_hash", "id">>
  BY DEF ClaimJournalRaw
<1>4. /\ DOMAIN a = {"merkle_root", "nullifier", "distributor_id", "allocation", "recipient_note_hash"}
      /\ a["merkle_root"] \in Octets(32)
      /\ a["nullifier"] \in Octets(32)
      /\ a["distributor_id"] \in Octets(32)
      /\ a["allocation"] \in Octets(16)
      /\ a["recipient_note_hash"] \in Octets(32)
  BY DEF Arguments, JournalType
<1>5. DOMAIN a = {ClaimJournalRaw[j][1] : j \in 1 .. 5}
  <2>1. 1 .. 5 = {1, 2, 3, 4, 5}
    OBVIOUS
  <2> HIDE DEF ClaimJournalRaw
  <2> QED
    BY <1>3, <1>4, <2>1
<1>6. ASSUME NEW j \in 1 .. 5
      PROVE  /\ ClaimJournalRaw[j] = <<ClaimJournalRaw[j][1], ClaimJournalRaw[j][2]>>
             /\ ClaimJournalRaw[j][2] \in TypesOf("journal")
             /\ a[ClaimJournalRaw[j][1]] \in Typed("journal", ClaimJournalRaw[j][2])
             /\ ClaimJournalRaw[j][1] \in ProgramIds <=> ClaimJournalRaw[j][2] = "program_id"
  <2>1. CASE j = 1
    BY <1>3, <1>4, <2>1 DEF TypesOf, PackedTypes, FieldTypes, Packed, Typed, ProgramIds
  <2>2. CASE j = 2
    BY <1>3, <1>4, <2>2 DEF TypesOf, PackedTypes, FieldTypes, Packed, Typed, ProgramIds
  <2>3. CASE j = 3
    BY <1>3, <1>4, <2>3 DEF TypesOf, PackedTypes, FieldTypes, Packed, Typed, ProgramIds
  <2>4. CASE j = 4
    BY <1>3, <1>4, <2>4 DEF TypesOf, PackedTypes, FieldTypes, Packed, Typed, ProgramIds
  <2>5. CASE j = 5
    BY <1>3, <1>4, <2>5 DEF TypesOf, PackedTypes, FieldTypes, Packed, Typed, ProgramIds
  <2> QED
    BY <2>1, <2>2, <2>3, <2>4, <2>5
<1> QED
  BY <1>1, <1>2, <1>5, <1>6 DEF WellMade

LEMMA StateWellMade ==
    ASSUME NEW a \in Arguments("state")
    PROVE  WellMade("state", a) /\ FieldsOf("state") = DistributionStateFields /\ Len(DistributionStateFields) = 5
<1>1. FieldsOf("state") = DistributionStateFields
  BY DEF FieldsOf
<1>2. Len(DistributionStateFields) = 5 /\ IsSequence(DistributionStateFields)
  BY TupleOf5 DEF DistributionStateFields
<1>3. /\ DistributionStateFields[1] = <<"merkle_root", "id">>
      /\ DistributionStateFields[2] = <<"claim_circuit_program_id", "program_id">>
      /\ DistributionStateFields[3] = <<"total_supply", "u128">>
      /\ DistributionStateFields[4] = <<"claimed", "u128">>
      /\ DistributionStateFields[5] = <<"spent_nullifiers", "ids">>
  BY DEF DistributionStateFields
<1>4. /\ DOMAIN a = {"merkle_root", "claim_circuit_program_id", "total_supply", "claimed", "spent_nullifiers"}
      /\ a["merkle_root"] \in Octets(32)
      /\ a["claim_circuit_program_id"] \in [1 .. 8 -> Word]
      /\ a["total_supply"] \in Octets(16)
      /\ a["claimed"] \in Octets(16)
      /\ a["spent_nullifiers"] \in Ids
  BY DEF Arguments
<1>5. DOMAIN a = {DistributionStateFields[j][1] : j \in 1 .. 5}
  <2>1. 1 .. 5 = {1, 2, 3, 4, 5}
    OBVIOUS
  <2> HIDE DEF DistributionStateFields
  <2> QED
    BY <1>3, <1>4, <2>1
<1>6. ASSUME NEW j \in 1 .. 5
      PROVE  /\ DistributionStateFields[j] = <<DistributionStateFields[j][1], DistributionStateFields[j][2]>>
             /\ DistributionStateFields[j][2] \in TypesOf("state")
             /\ a[DistributionStateFields[j][1]] \in Typed("state", DistributionStateFields[j][2])
             /\ DistributionStateFields[j][1] \in ProgramIds <=> DistributionStateFields[j][2] = "program_id"
  <2>1. CASE j = 1
    BY <1>3, <1>4, <2>1 DEF TypesOf, PackedTypes, FieldTypes, Packed, Typed, ProgramIds
  <2>2. CASE j = 2
    BY <1>3, <1>4, <2>2 DEF TypesOf, PackedTypes, FieldTypes, Packed, Typed, ProgramIds
  <2>3. CASE j = 3
    BY <1>3, <1>4, <2>3 DEF TypesOf, PackedTypes, FieldTypes, Packed, Typed, ProgramIds
  <2>4. CASE j = 4
    BY <1>3, <1>4, <2>4 DEF TypesOf, PackedTypes, FieldTypes, Packed, Typed, ProgramIds
  <2>5. CASE j = 5
    BY <1>3, <1>4, <2>5 DEF TypesOf, PackedTypes, FieldTypes, Packed, Typed, ProgramIds
  <2> QED
    BY <2>1, <2>2, <2>3, <2>4, <2>5
<1> QED
  BY <1>1, <1>2, <1>5, <1>6 DEF WellMade

LEMMA ProverInputWellMade ==
    ASSUME NEW a \in Arguments("prover_input")
    PROVE  WellMade("prover_input", a) /\ FieldsOf("prover_input") = GuestInput /\ Len(GuestInput) = 7
<1>1. FieldsOf("prover_input") = GuestInput
  BY DEF FieldsOf
<1>2. Len(GuestInput) = 7 /\ IsSequence(GuestInput)
  BY TupleOf7 DEF GuestInput
<1>3. /\ GuestInput[1] = <<"account_id", "id">>
      /\ GuestInput[2] = <<"allocation", "u128">>
      /\ GuestInput[3] = <<"merkle_path", "ids">>
      /\ GuestInput[4] = <<"leaf_index", "usize">>
      /\ GuestInput[5] = <<"merkle_root", "id">>
      /\ GuestInput[6] = <<"distributor_id", "id">>
      /\ GuestInput[7] = <<"recipient_note", "blob">>
  BY DEF GuestInput
<1>4. /\ DOMAIN a = {"account_id", "allocation", "merkle_path", "leaf_index", "merkle_root", "distributor_id", "recipient_note"}
      /\ a["account_id"] \in Octets(32)
      /\ a["allocation"] \in Octets(16)
      /\ a["merkle_path"] \in Ids
      /\ a["leaf_index"] \in Octets(8)
      /\ a["merkle_root"] \in Octets(32)
      /\ a["distributor_id"] \in Octets(32)
      /\ a["recipient_note"] \in Blob
  BY DEF Arguments
<1>5. DOMAIN a = {GuestInput[j][1] : j \in 1 .. 7}
  <2>1. 1 .. 7 = {1, 2, 3, 4, 5, 6, 7}
    OBVIOUS
  <2> HIDE DEF GuestInput
  <2> QED
    BY <1>3, <1>4, <2>1
<1>6. ASSUME NEW j \in 1 .. 7
      PROVE  /\ GuestInput[j] = <<GuestInput[j][1], GuestInput[j][2]>>
             /\ GuestInput[j][2] \in TypesOf("prover_input")
             /\ a[GuestInput[j][1]] \in Typed("prover_input", GuestInput[j][2])
             /\ GuestInput[j][1] \in ProgramIds <=> GuestInput[j][2] = "program_id"
  <2>1. CASE j = 1
    BY <1>3, <1>4, <2>1 DEF TypesOf, PackedTypes, FieldTypes, Packed, Typed, ProgramIds
  <2>2. CASE j = 2
    BY <1>3, <1>4, <2>2 DEF TypesOf, PackedTypes, FieldTypes, Packed, Typed, ProgramIds
  <2>3. CASE j = 3
    BY <1>3, <1>4, <2>3 DEF TypesOf, PackedTypes, FieldTypes, Packed, Typed, ProgramIds
  <2>4. CASE j = 4
    BY <1>3, <1>4, <2>4 DEF TypesOf, PackedTypes, FieldTypes, Packed, Typed, ProgramIds
  <2>5. CASE j = 5
    BY <1>3, <1>4, <2>5 DEF TypesOf, PackedTypes, FieldTypes, Packed, Typed, ProgramIds
  <2>6. CASE j = 6
    BY <1>3, <1>4, <2>6 DEF TypesOf, PackedTypes, FieldTypes, Packed, Typed, ProgramIds
  <2>7. CASE j = 7
    BY <1>3, <1>4, <2>7 DEF TypesOf, PackedTypes, FieldTypes, Packed, Typed, ProgramIds
  <2> QED
    BY <2>1, <2>2, <2>3, <2>4, <2>5, <2>6, <2>7
<1> QED
  BY <1>1, <1>2, <1>5, <1>6 DEF WellMade

LEMMA AttestationWellMade ==
    ASSUME NEW a \in Arguments("attestation")
    PROVE  WellMade("attestation", a) /\ FieldsOf("attestation") = VerifierJournal /\ Len(VerifierJournal) = 5
<1>1. FieldsOf("attestation") = VerifierJournal
  BY DEF FieldsOf
<1>2. Len(VerifierJournal) = 5 /\ IsSequence(VerifierJournal)
  BY TupleOf5 DEF VerifierJournal
<1>3. /\ VerifierJournal[1] = <<"merkle_root", "id">>
      /\ VerifierJournal[2] = <<"nullifier", "id">>
      /\ VerifierJournal[3] = <<"distributor_id", "id">>
      /\ VerifierJournal[4] = <<"allocation", "u128">>
      /\ VerifierJournal[5] = <<"recipient_note_hash", "id">>
  BY DEF VerifierJournal
<1>4. /\ DOMAIN a = {"merkle_root", "nullifier", "distributor_id", "allocation", "recipient_note_hash"}
      /\ a["merkle_root"] \in Octets(32)
      /\ a["nullifier"] \in Octets(32)
      /\ a["distributor_id"] \in Octets(32)
      /\ a["allocation"] \in Octets(16)
      /\ a["recipient_note_hash"] \in Octets(32)
  BY DEF Arguments, JournalType
<1>5. DOMAIN a = {VerifierJournal[j][1] : j \in 1 .. 5}
  <2>1. 1 .. 5 = {1, 2, 3, 4, 5}
    OBVIOUS
  <2> HIDE DEF VerifierJournal
  <2> QED
    BY <1>3, <1>4, <2>1
<1>6. ASSUME NEW j \in 1 .. 5
      PROVE  /\ VerifierJournal[j] = <<VerifierJournal[j][1], VerifierJournal[j][2]>>
             /\ VerifierJournal[j][2] \in TypesOf("attestation")
             /\ a[VerifierJournal[j][1]] \in Typed("attestation", VerifierJournal[j][2])
             /\ VerifierJournal[j][1] \in ProgramIds <=> VerifierJournal[j][2] = "program_id"
  <2>1. CASE j = 1
    BY <1>3, <1>4, <2>1 DEF TypesOf, PackedTypes, FieldTypes, Packed, Typed, ProgramIds
  <2>2. CASE j = 2
    BY <1>3, <1>4, <2>2 DEF TypesOf, PackedTypes, FieldTypes, Packed, Typed, ProgramIds
  <2>3. CASE j = 3
    BY <1>3, <1>4, <2>3 DEF TypesOf, PackedTypes, FieldTypes, Packed, Typed, ProgramIds
  <2>4. CASE j = 4
    BY <1>3, <1>4, <2>4 DEF TypesOf, PackedTypes, FieldTypes, Packed, Typed, ProgramIds
  <2>5. CASE j = 5
    BY <1>3, <1>4, <2>5 DEF TypesOf, PackedTypes, FieldTypes, Packed, Typed, ProgramIds
  <2> QED
    BY <2>1, <2>2, <2>3, <2>4, <2>5
<1> QED
  BY <1>1, <1>2, <1>5, <1>6 DEF WellMade

(* The number and the members of a list, as words and as bytes.            *)
LEMMA IdsUnits ==
    ASSUME NEW v \in Ids
    PROVE  /\ U32(Len(v)) \in Seq(Unit) /\ FlattenSeq(v) \in Seq(Unit)
           /\ <<U32(Len(v))>> \in Seq(Unit) /\ EncodeBytes32(FlattenSeq(v)) \in Seq(Unit)
<1>1. Len(v) \in Nat /\ FlattenSeq(v) \in Seq(Byte)
  BY IdsJoined
<1>2. U32(Len(v)) \in Word /\ U32(Len(v)) \in Seq(Byte)
  BY <1>1, U32IsWord
<1>3. U32(Len(v)) \in Seq(Unit) /\ FlattenSeq(v) \in Seq(Unit)
  BY <1>1, <1>2, SeqMonotonic DEF Unit
<1>4. <<U32(Len(v))>> \in Seq(Unit)
  BY <1>2, OneWord
<1>5. EncodeBytes32(FlattenSeq(v)) \in Seq(Unit)
  BY <1>1, BytesAsWords
<1> QED
  BY <1>3, <1>4, <1>5

LEMMA ClaimVariant == (CHOOSE i \in DOMAIN AirdropInstruction : AirdropInstruction[i] = "claim") - 1 = 1
<1>1. DOMAIN AirdropInstruction = {1, 2} /\ AirdropInstruction[1] # "claim"
      /\ AirdropInstruction[2] = "claim"
  BY DEF AirdropInstruction
<1>2. (CHOOSE i \in DOMAIN AirdropInstruction : AirdropInstruction[i] = "claim") = 2
  BY <1>1
<1> QED
  BY <1>2

LEMMA PackedFields ==
    ASSUME NEW kind, Packed(kind), NEW v
    PROVE  /\ Encoded(kind, "id", v) = v
           /\ Encoded(kind, "program_id", v) = FlattenSeq(v)
           /\ Encoded(kind, "u128", v) = v
           /\ Encoded(kind, "ids", v) = U32(Len(v)) \o FlattenSeq(v)
BY DEF Encoded

LEMMA WordFields ==
    ASSUME NEW kind, ~Packed(kind), NEW v
    PROVE  /\ Encoded(kind, "id", v) = EncodeBytes32(v)
           /\ Encoded(kind, "program_id", v) = Group(v, 4)
           /\ Encoded(kind, "u128", v) = Group(v, 4)
           /\ Encoded(kind, "u32", v) = <<v>>
           /\ Encoded(kind, "usize", v) = Group(v, 4)
           /\ Encoded(kind, "blob", v) = EncodeVecU8(v)
           /\ Encoded(kind, "ids", v) = <<U32(Len(v))>> \o EncodeBytes32(FlattenSeq(v))
BY DEF Encoded

(* Brackets do not matter.                                                 *)
LEMMA Regroup ==
    ASSUME NEW q \in Seq(Unit), NEW c \in Seq(Unit), NEW f \in Seq(Unit)
    PROVE  q \o (c \o f) = q \o c \o f /\ q \o c \in Seq(Unit)
BY ConcatAssociative, ConcatProperties

(* A part, and what is left once it is read.                               *)
LEMMA LeavesStep ==
    ASSUME NEW n \in Nat, NEW e \in [1 .. n -> Seq(Unit)], NEW r, Leaves(e, n, r), NEW j \in 1 .. n
    PROVE  /\ e[j] \in Seq(Unit) /\ r[j] \in Seq(Unit) /\ r[j - 1] \in Seq(Unit)
           /\ r[j - 1] = e[j] \o r[j]
<1>1. r \in [0 .. n -> Seq(Unit)] /\ r[j - 1] = e[j] \o r[j]
  BY DEF Leaves
<1>2. j \in 0 .. n /\ j - 1 \in 0 .. n
  OBVIOUS
<1> QED
  BY <1>1, <1>2

(* q takes the first k parts, after a front p; the rest is still to come.  *)
Upto(e, r, p, k, q) == q \in Seq(Unit) /\ q \o r[k] = p \o r[0]

(* One part more.                                                          *)
LEMMA UptoNext ==
    ASSUME NEW n \in Nat, NEW e \in [1 .. n -> Seq(Unit)], NEW r, Leaves(e, n, r), NEW p,
           NEW k \in Nat, k + 1 <= n, NEW q, Upto(e, r, p, k, q)
    PROVE  Upto(e, r, p, k + 1, q \o e[k + 1])
<1> DEFINE j == k + 1
<1>1. j \in 1 .. n /\ j - 1 = k
  OBVIOUS
<1> HIDE DEF j
<1>2. e[j] \in Seq(Unit) /\ r[j] \in Seq(Unit) /\ r[j - 1] = e[j] \o r[j]
  BY <1>1, LeavesStep
<1>3. r[k] = e[j] \o r[j]
  BY <1>1, <1>2
<1>4. q \in Seq(Unit) /\ q \o r[k] = p \o r[0]
  BY DEF Upto
<1> DEFINE a == e[j]
           t == r[j]
           u == r[k]
<1>7. a \in Seq(Unit) /\ t \in Seq(Unit) /\ u = a \o t /\ q \in Seq(Unit)
  BY <1>2, <1>3, <1>4
<1> HIDE DEF a, t, u
<1>8. (q \o a) \o t = q \o u /\ q \o a \in Seq(Unit)
  BY <1>7, Slide
<1>5. (q \o e[j]) \o r[j] = q \o r[k] /\ q \o e[j] \in Seq(Unit)
  BY <1>8 DEF a, t, u
<1>6. Upto(e, r, p, j, q \o e[j])
  BY <1>4, <1>5 DEF Upto
<1> QED
  BY <1>6 DEF j

(* All parts: what was built up is the front and the whole.                *)
LEMMA UptoEnd ==
    ASSUME NEW n \in Nat, NEW e, NEW r, Leaves(e, n, r), NEW p, NEW q, Upto(e, r, p, n, q)
    PROVE  q = p \o r[0]
<1>1. q \in Seq(Unit) /\ q \o <<>> = p \o r[0]
  BY DEF Leaves, Upto
<1> QED
  BY <1>1, ConcatEmptySeq

(* All parts joined, after a front p.                                      *)
LEMMA Joined ==
    ASSUME NEW n \in Nat, NEW e \in [1 .. n -> Seq(Unit)], NEW r, Leaves(e, n, r),
           NEW p \in Seq(Unit)
    PROVE  /\ n = 2 => p \o e[1] \o e[2] = p \o r[0]
           /\ n = 3 => p \o e[1] \o e[2] \o e[3] = p \o r[0]
           /\ n = 5 => p \o e[1] \o e[2] \o e[3] \o e[4] \o e[5] = p \o r[0]
           /\ n = 6 => p \o e[1] \o e[2] \o e[3] \o e[4] \o e[5] \o e[6] = p \o r[0]
           /\ n = 7 => p \o e[1] \o e[2] \o e[3] \o e[4] \o e[5] \o e[6] \o e[7] = p \o r[0]
<1>0. Upto(e, r, p, 0, p)
  BY DEF Upto
<1>1. n >= 1 => Upto(e, r, p, 1, p \o e[1])
  <2> SUFFICES ASSUME n >= 1 PROVE Upto(e, r, p, 1, p \o e[1])
    OBVIOUS
  <2>1. 0 + 1 = 1 /\ 0 \in Nat /\ 0 + 1 <= n
    OBVIOUS
  <2>2. Upto(e, r, p, 0, p)
    BY <1>0, <2>1
  <2>3. Upto(e, r, p, 0 + 1, p \o e[0 + 1])
    BY <2>1, <2>2, UptoNext
  <2> QED
    BY <2>1, <2>3
<1>2. n >= 2 => Upto(e, r, p, 2, p \o e[1] \o e[2])
  <2> SUFFICES ASSUME n >= 2 PROVE Upto(e, r, p, 2, p \o e[1] \o e[2])
    OBVIOUS
  <2>1. 1 + 1 = 2 /\ 1 \in Nat /\ 1 + 1 <= n
    OBVIOUS
  <2>2. Upto(e, r, p, 1, p \o e[1])
    BY <1>1, <2>1
  <2>3. Upto(e, r, p, 1 + 1, p \o e[1] \o e[1 + 1])
    BY <2>1, <2>2, UptoNext
  <2> QED
    BY <2>1, <2>3
<1>3. n >= 3 => Upto(e, r, p, 3, p \o e[1] \o e[2] \o e[3])
  <2> SUFFICES ASSUME n >= 3 PROVE Upto(e, r, p, 3, p \o e[1] \o e[2] \o e[3])
    OBVIOUS
  <2>1. 2 + 1 = 3 /\ 2 \in Nat /\ 2 + 1 <= n
    OBVIOUS
  <2>2. Upto(e, r, p, 2, p \o e[1] \o e[2])
    BY <1>2, <2>1
  <2>3. Upto(e, r, p, 2 + 1, p \o e[1] \o e[2] \o e[2 + 1])
    BY <2>1, <2>2, UptoNext
  <2> QED
    BY <2>1, <2>3
<1>4. n >= 4 => Upto(e, r, p, 4, p \o e[1] \o e[2] \o e[3] \o e[4])
  <2> SUFFICES ASSUME n >= 4 PROVE Upto(e, r, p, 4, p \o e[1] \o e[2] \o e[3] \o e[4])
    OBVIOUS
  <2>1. 3 + 1 = 4 /\ 3 \in Nat /\ 3 + 1 <= n
    OBVIOUS
  <2>2. Upto(e, r, p, 3, p \o e[1] \o e[2] \o e[3])
    BY <1>3, <2>1
  <2>3. Upto(e, r, p, 3 + 1, p \o e[1] \o e[2] \o e[3] \o e[3 + 1])
    BY <2>1, <2>2, UptoNext
  <2> QED
    BY <2>1, <2>3
<1>5. n >= 5 => Upto(e, r, p, 5, p \o e[1] \o e[2] \o e[3] \o e[4] \o e[5])
  <2> SUFFICES ASSUME n >= 5 PROVE Upto(e, r, p, 5, p \o e[1] \o e[2] \o e[3] \o e[4] \o e[5])
    OBVIOUS
  <2>1. 4 + 1 = 5 /\ 4 \in Nat /\ 4 + 1 <= n
    OBVIOUS
  <2>2. Upto(e, r, p, 4, p \o e[1] \o e[2] \o e[3] \o e[4])
    BY <1>4, <2>1
  <2>3. Upto(e, r, p, 4 + 1, p \o e[1] \o e[2] \o e[3] \o e[4] \o e[4 + 1])
    BY <2>1, <2>2, UptoNext
  <2> QED
    BY <2>1, <2>3
<1>6. n >= 6 => Upto(e, r, p, 6, p \o e[1] \o e[2] \o e[3] \o e[4] \o e[5] \o e[6])
  <2> SUFFICES ASSUME n >= 6 PROVE Upto(e, r, p, 6, p \o e[1] \o e[2] \o e[3] \o e[4] \o e[5] \o e[6])
    OBVIOUS
  <2>1. 5 + 1 = 6 /\ 5 \in Nat /\ 5 + 1 <= n
    OBVIOUS
  <2>2. Upto(e, r, p, 5, p \o e[1] \o e[2] \o e[3] \o e[4] \o e[5])
    BY <1>5, <2>1
  <2>3. Upto(e, r, p, 5 + 1, p \o e[1] \o e[2] \o e[3] \o e[4] \o e[5] \o e[5 + 1])
    BY <2>1, <2>2, UptoNext
  <2> QED
    BY <2>1, <2>3
<1>7. n >= 7 => Upto(e, r, p, 7, p \o e[1] \o e[2] \o e[3] \o e[4] \o e[5] \o e[6] \o e[7])
  <2> SUFFICES ASSUME n >= 7 PROVE Upto(e, r, p, 7, p \o e[1] \o e[2] \o e[3] \o e[4] \o e[5] \o e[6] \o e[7])
    OBVIOUS
  <2>1. 6 + 1 = 7 /\ 6 \in Nat /\ 6 + 1 <= n
    OBVIOUS
  <2>2. Upto(e, r, p, 6, p \o e[1] \o e[2] \o e[3] \o e[4] \o e[5] \o e[6])
    BY <1>6, <2>1
  <2>3. Upto(e, r, p, 6 + 1, p \o e[1] \o e[2] \o e[3] \o e[4] \o e[5] \o e[6] \o e[6 + 1])
    BY <2>1, <2>2, UptoNext
  <2> QED
    BY <2>1, <2>3
<1>8. n = 2 => p \o e[1] \o e[2] = p \o r[0]
  <2> SUFFICES ASSUME n = 2 PROVE p \o e[1] \o e[2] = p \o r[0]
    OBVIOUS
  <2>1. Upto(e, r, p, n, p \o e[1] \o e[2])
    <3>1. n >= 2
      OBVIOUS
    <3> QED
      BY <1>2, <3>1
  <2> QED
    BY <2>1, UptoEnd
<1>9. n = 3 => p \o e[1] \o e[2] \o e[3] = p \o r[0]
  <2> SUFFICES ASSUME n = 3 PROVE p \o e[1] \o e[2] \o e[3] = p \o r[0]
    OBVIOUS
  <2>1. Upto(e, r, p, n, p \o e[1] \o e[2] \o e[3])
    <3>1. n >= 3
      OBVIOUS
    <3> QED
      BY <1>3, <3>1
  <2> QED
    BY <2>1, UptoEnd
<1>10. n = 5 => p \o e[1] \o e[2] \o e[3] \o e[4] \o e[5] = p \o r[0]
  <2> SUFFICES ASSUME n = 5 PROVE p \o e[1] \o e[2] \o e[3] \o e[4] \o e[5] = p \o r[0]
    OBVIOUS
  <2>1. Upto(e, r, p, n, p \o e[1] \o e[2] \o e[3] \o e[4] \o e[5])
    <3>1. n >= 5
      OBVIOUS
    <3> QED
      BY <1>5, <3>1
  <2> QED
    BY <2>1, UptoEnd
<1>11. n = 6 => p \o e[1] \o e[2] \o e[3] \o e[4] \o e[5] \o e[6] = p \o r[0]
  <2> SUFFICES ASSUME n = 6 PROVE p \o e[1] \o e[2] \o e[3] \o e[4] \o e[5] \o e[6] = p \o r[0]
    OBVIOUS
  <2>1. Upto(e, r, p, n, p \o e[1] \o e[2] \o e[3] \o e[4] \o e[5] \o e[6])
    <3>1. n >= 6
      OBVIOUS
    <3> QED
      BY <1>6, <3>1
  <2> QED
    BY <2>1, UptoEnd
<1>12. n = 7 => p \o e[1] \o e[2] \o e[3] \o e[4] \o e[5] \o e[6] \o e[7] = p \o r[0]
  <2> SUFFICES ASSUME n = 7 PROVE p \o e[1] \o e[2] \o e[3] \o e[4] \o e[5] \o e[6] \o e[7] = p \o r[0]
    OBVIOUS
  <2>1. Upto(e, r, p, n, p \o e[1] \o e[2] \o e[3] \o e[4] \o e[5] \o e[6] \o e[7])
    <3>1. n >= 7
      OBVIOUS
    <3> QED
      BY <1>7, <3>1
  <2> QED
    BY <2>1, UptoEnd
<1> QED
  BY <1>8, <1>9, <1>10, <1>11, <1>12

LEMMA InitializeWritten ==
    ASSUME NEW a \in Arguments("initialize"), PartsOf("initialize", a) \in [1 .. 3 -> Seq(Unit)],
           NEW r, Leaves(PartsOf("initialize", a), 3, r)
    PROVE  InstrInitialize(a) = <<U32(0)>> \o r[0]
<1> DEFINE e == PartsOf("initialize", a)
<1>1. FieldsOf("initialize") = InitializeFields /\ Len(InitializeFields) = 3
  BY InitializeWellMade
<1>2. /\ InitializeFields[1] = <<"merkle_root", "id">>
      /\ InitializeFields[2] = <<"claim_circuit_program_id", "program_id">>
      /\ InitializeFields[3] = <<"total_supply", "u128">>
  BY DEF InitializeFields
<1>3. \A j \in 1 .. 3 : e[j] = Encoded("initialize", InitializeFields[j][2], a[InitializeFields[j][1]])
  BY <1>1 DEF PartsOf
<1>4. e[1] = EncodeBytes32(a.merkle_root)
  <2>1. e[1] = Encoded("initialize", "id", a["merkle_root"])
    BY <1>2, <1>3
  <2> QED
    BY <2>1, WordFields DEF Packed
<1>5. e[2] = Group(a.claim_circuit_program_id, 4)
  <2>1. e[2] = Encoded("initialize", "program_id", a["claim_circuit_program_id"])
    BY <1>2, <1>3
  <2> QED
    BY <2>1, WordFields DEF Packed
<1>6. e[3] = Group(a.total_supply, 4)
  <2>1. e[3] = Encoded("initialize", "u128", a["total_supply"])
    BY <1>2, <1>3
  <2> QED
    BY <2>1, WordFields DEF Packed
<1>7. /\ e[1] \in Seq(Unit)
      /\ e[2] \in Seq(Unit)
      /\ e[3] \in Seq(Unit)
  <2>1. \A j \in 1 .. 3 : e[j] \in Seq(Unit)
    OBVIOUS
  <2> HIDE DEF e
  <2> QED
    BY <2>1
<1> HIDE DEF e
<1> DEFINE p == <<U32(0)>>
<1>8. p \in Seq(Unit)
  BY U32IsWord, OneWord
<1>9. p \o e[1] \o e[2] \o e[3] = p \o r[0]
  <2>1. 3 \in Nat
    OBVIOUS
  <2> HIDE DEF p
  <2> QED
    BY <1>8, <2>1, Joined DEF e
<1>10. InstrInitialize(a) = p \o e[1] \o e[2] \o e[3]
  <2> QED
    BY <1>4, <1>5, <1>6 DEF InstrInitialize, ParseProgramId, EncodeU128, p
<1> QED
  BY <1>9, <1>10

LEMMA SubmitClaimWritten ==
    ASSUME NEW a \in Arguments("submit_claim"), PartsOf("submit_claim", a) \in [1 .. 6 -> Seq(Unit)],
           NEW r, Leaves(PartsOf("submit_claim", a), 6, r)
    PROVE  InstrSubmitClaim(a) = <<U32(0)>> \o r[0]
<1> DEFINE e == PartsOf("submit_claim", a)
<1>1. FieldsOf("submit_claim") = SubmitClaimFields /\ Len(SubmitClaimFields) = 6
  BY SubmitClaimWellMade
<1>2. /\ SubmitClaimFields[1] = <<"airdrop_program_id", "program_id">>
      /\ SubmitClaimFields[2] = <<"account_id", "id">>
      /\ SubmitClaimFields[3] = <<"allocation", "u128">>
      /\ SubmitClaimFields[4] = <<"leaf_index", "u32">>
      /\ SubmitClaimFields[5] = <<"merkle_path", "ids">>
      /\ SubmitClaimFields[6] = <<"recipient_note", "blob">>
  BY DEF SubmitClaimFields
<1>3. \A j \in 1 .. 6 : e[j] = Encoded("submit_claim", SubmitClaimFields[j][2], a[SubmitClaimFields[j][1]])
  BY <1>1 DEF PartsOf
<1>4. e[1] = Group(a.airdrop_program_id, 4)
  <2>1. e[1] = Encoded("submit_claim", "program_id", a["airdrop_program_id"])
    BY <1>2, <1>3
  <2> QED
    BY <2>1, WordFields DEF Packed
<1>5. e[2] = EncodeBytes32(a.account_id)
  <2>1. e[2] = Encoded("submit_claim", "id", a["account_id"])
    BY <1>2, <1>3
  <2> QED
    BY <2>1, WordFields DEF Packed
<1>6. e[3] = Group(a.allocation, 4)
  <2>1. e[3] = Encoded("submit_claim", "u128", a["allocation"])
    BY <1>2, <1>3
  <2> QED
    BY <2>1, WordFields DEF Packed
<1>7. e[4] = <<a.leaf_index>>
  <2>1. e[4] = Encoded("submit_claim", "u32", a["leaf_index"])
    BY <1>2, <1>3
  <2> QED
    BY <2>1, WordFields DEF Packed
<1>8. e[5] = <<U32(Len(a.merkle_path))>> \o EncodeBytes32(FlattenSeq(a.merkle_path))
  <2>1. e[5] = Encoded("submit_claim", "ids", a["merkle_path"])
    BY <1>2, <1>3
  <2> QED
    BY <2>1, WordFields DEF Packed
<1>9. e[6] = EncodeVecU8(a.recipient_note)
  <2>1. e[6] = Encoded("submit_claim", "blob", a["recipient_note"])
    BY <1>2, <1>3
  <2> QED
    BY <2>1, WordFields DEF Packed
<1>10. /\ e[1] \in Seq(Unit)
      /\ e[2] \in Seq(Unit)
      /\ e[3] \in Seq(Unit)
      /\ e[4] \in Seq(Unit)
      /\ e[5] \in Seq(Unit)
      /\ e[6] \in Seq(Unit)
  <2>1. \A j \in 1 .. 6 : e[j] \in Seq(Unit)
    OBVIOUS
  <2> HIDE DEF e
  <2> QED
    BY <2>1
<1> HIDE DEF e
<1> DEFINE p == <<U32(0)>>
<1>11. p \in Seq(Unit)
  BY U32IsWord, OneWord
<1>12. p \o e[1] \o e[2] \o e[3] \o e[4] \o e[5] \o e[6] = p \o r[0]
  <2>1. 6 \in Nat
    OBVIOUS
  <2> HIDE DEF p
  <2> QED
    BY <1>11, <2>1, Joined DEF e
<1>13. InstrSubmitClaim(a) = p \o e[1] \o e[2] \o e[3] \o e[4] \o e[5] \o e[6]
  <2>1. a.merkle_path \in Ids
    BY DEF Arguments
  <2> DEFINE c == <<U32(Len(a.merkle_path))>>
             f == EncodeBytes32(FlattenSeq(a.merkle_path))
             q == p \o e[1] \o e[2] \o e[3]
  <2>2. c \in Seq(Unit) /\ f \in Seq(Unit)
    BY <2>1, IdsUnits
  <2>3. q \in Seq(Unit)
    <3> HIDE DEF p
    <3> QED
      BY <1>10, <1>11, ConcatProperties
  <2>4. e[5] = c \o f
    BY <1>8
  <2> DEFINE l == e[4]
  <2>5. l \o c = <<a.leaf_index, U32(Len(a.merkle_path))>>
    <3>1. l \o c = <<a.leaf_index>> \o <<U32(Len(a.merkle_path))>>
      BY <1>7
    <3> QED
      BY <3>1, PairJoined
  <2> HIDE DEF c, f, q, l
  <2>6. q \o l \o (c \o f) = q \o (l \o c) \o f
    <3>1. l \in Seq(Unit)
      BY <1>10 DEF l
    <3> DEFINE m == q \o l
    <3>5. m \in Seq(Unit)
      BY <2>3, <3>1, Regroup
    <3> HIDE DEF m
    <3>4. m \o (c \o f) = m \o c \o f
      BY <2>2, <3>5, Regroup
    <3>2. q \o l \o (c \o f) = q \o l \o c \o f
      BY <3>4 DEF m
    <3>3. q \o l \o c = q \o (l \o c)
      BY <2>2, <2>3, <3>1, Regroup
    <3> QED
      BY <3>2, <3>3
  <2>7. p \o e[1] \o e[2] \o e[3] \o e[4] \o e[5] \o e[6] = q \o <<a.leaf_index, U32(Len(a.merkle_path))>> \o f \o e[6]
    BY <2>4, <2>5, <2>6 DEF q, l
  <2> QED
    BY <1>4, <1>5, <1>6, <1>7, <1>8, <1>9, <2>7 DEF InstrSubmitClaim, ParseProgramId, EncodeU128, p, q, f
<1> QED
  BY <1>12, <1>13

LEMMA ClaimWritten ==
    ASSUME NEW a \in Arguments("claim"), PartsOf("claim", a) \in [1 .. 2 -> Seq(Unit)],
           NEW r, Leaves(PartsOf("claim", a), 2, r)
    PROVE  ChainedClaim(a) = <<U32(1)>> \o r[0]
<1> DEFINE e == PartsOf("claim", a)
<1>1. FieldsOf("claim") = ClaimFields /\ Len(ClaimFields) = 2
  BY ClaimWellMade
<1>2. /\ ClaimFields[1] = <<"journal_bytes", "blob">>
      /\ ClaimFields[2] = <<"recipient_note", "blob">>
  BY DEF ClaimFields
<1>3. \A j \in 1 .. 2 : e[j] = Encoded("claim", ClaimFields[j][2], a[ClaimFields[j][1]])
  BY <1>1 DEF PartsOf
<1>4. e[1] = EncodeVecU8(a.journal_bytes)
  <2>1. e[1] = Encoded("claim", "blob", a["journal_bytes"])
    BY <1>2, <1>3
  <2> QED
    BY <2>1, WordFields DEF Packed
<1>5. e[2] = EncodeVecU8(a.recipient_note)
  <2>1. e[2] = Encoded("claim", "blob", a["recipient_note"])
    BY <1>2, <1>3
  <2> QED
    BY <2>1, WordFields DEF Packed
<1>6. /\ e[1] \in Seq(Unit)
      /\ e[2] \in Seq(Unit)
  <2>1. \A j \in 1 .. 2 : e[j] \in Seq(Unit)
    OBVIOUS
  <2> HIDE DEF e
  <2> QED
    BY <2>1
<1> HIDE DEF e
<1> DEFINE p == <<U32(1)>>
<1>7. p \in Seq(Unit)
  BY U32IsWord, OneWord
<1>8. p \o e[1] \o e[2] = p \o r[0]
  <2>1. 2 \in Nat
    OBVIOUS
  <2> HIDE DEF p
  <2> QED
    BY <1>7, <2>1, Joined DEF e
<1>9. ChainedClaim(a) = p \o e[1] \o e[2]
  <2> QED
    BY <1>4, <1>5, ClaimVariant DEF ChainedClaim, p
<1> QED
  BY <1>8, <1>9

LEMMA JournalWritten ==
    ASSUME NEW a \in Arguments("journal"), PartsOf("journal", a) \in [1 .. 5 -> Seq(Unit)],
           NEW r, Leaves(PartsOf("journal", a), 5, r)
    PROVE  JournalBytes(a) = r[0]
<1> DEFINE e == PartsOf("journal", a)
<1>1. FieldsOf("journal") = ClaimJournalRaw /\ Len(ClaimJournalRaw) = 5
  BY JournalWellMade
<1>2. /\ ClaimJournalRaw[1] = <<"merkle_root", "id">>
      /\ ClaimJournalRaw[2] = <<"nullifier", "id">>
      /\ ClaimJournalRaw[3] = <<"distributor_id", "id">>
      /\ ClaimJournalRaw[4] = <<"allocation", "u128">>
      /\ ClaimJournalRaw[5] = <<"recipient_note_hash", "id">>
  BY DEF ClaimJournalRaw
<1>3. \A j \in 1 .. 5 : e[j] = Encoded("journal", ClaimJournalRaw[j][2], a[ClaimJournalRaw[j][1]])
  BY <1>1 DEF PartsOf
<1>4. e[1] = a.merkle_root
  <2>1. e[1] = Encoded("journal", "id", a["merkle_root"])
    BY <1>2, <1>3
  <2> QED
    BY <2>1, PackedFields DEF Packed
<1>5. e[2] = a.nullifier
  <2>1. e[2] = Encoded("journal", "id", a["nullifier"])
    BY <1>2, <1>3
  <2> QED
    BY <2>1, PackedFields DEF Packed
<1>6. e[3] = a.distributor_id
  <2>1. e[3] = Encoded("journal", "id", a["distributor_id"])
    BY <1>2, <1>3
  <2> QED
    BY <2>1, PackedFields DEF Packed
<1>7. e[4] = a.allocation
  <2>1. e[4] = Encoded("journal", "u128", a["allocation"])
    BY <1>2, <1>3
  <2> QED
    BY <2>1, PackedFields DEF Packed
<1>8. e[5] = a.recipient_note_hash
  <2>1. e[5] = Encoded("journal", "id", a["recipient_note_hash"])
    BY <1>2, <1>3
  <2> QED
    BY <2>1, PackedFields DEF Packed
<1>9. /\ e[1] \in Seq(Unit)
      /\ e[2] \in Seq(Unit)
      /\ e[3] \in Seq(Unit)
      /\ e[4] \in Seq(Unit)
      /\ e[5] \in Seq(Unit)
  <2>1. \A j \in 1 .. 5 : e[j] \in Seq(Unit)
    OBVIOUS
  <2> HIDE DEF e
  <2> QED
    BY <2>1
<1> HIDE DEF e
<1> DEFINE p == <<>>
<1>10. p \in Seq(Unit)
  OBVIOUS
<1>11. p \o e[1] \o e[2] \o e[3] \o e[4] \o e[5] = p \o r[0]
  <2>1. 5 \in Nat
    OBVIOUS
  <2> HIDE DEF p
  <2> QED
    BY <1>10, <2>1, Joined DEF e
<1>12. JournalBytes(a) = p \o e[1] \o e[2] \o e[3] \o e[4] \o e[5]
  <2>1. p \o e[1] = e[1]
    BY <1>9, ConcatEmptySeq
  <2> HIDE DEF p
  <2> QED
    BY <1>4, <1>5, <1>6, <1>7, <1>8, <2>1 DEF JournalBytes
<1> QED
  <2>1. r[0] \in Seq(Unit)
    BY DEF Leaves
  <2>2. p \o r[0] = r[0]
    BY <2>1, ConcatEmptySeq
  <2> QED
    BY <1>11, <1>12, <2>2

LEMMA StateWritten ==
    ASSUME NEW a \in Arguments("state"), PartsOf("state", a) \in [1 .. 5 -> Seq(Unit)],
           NEW r, Leaves(PartsOf("state", a), 5, r)
    PROVE  StateBytes(a) = r[0]
<1> DEFINE e == PartsOf("state", a)
<1>1. FieldsOf("state") = DistributionStateFields /\ Len(DistributionStateFields) = 5
  BY StateWellMade
<1>2. /\ DistributionStateFields[1] = <<"merkle_root", "id">>
      /\ DistributionStateFields[2] = <<"claim_circuit_program_id", "program_id">>
      /\ DistributionStateFields[3] = <<"total_supply", "u128">>
      /\ DistributionStateFields[4] = <<"claimed", "u128">>
      /\ DistributionStateFields[5] = <<"spent_nullifiers", "ids">>
  BY DEF DistributionStateFields
<1>3. \A j \in 1 .. 5 : e[j] = Encoded("state", DistributionStateFields[j][2], a[DistributionStateFields[j][1]])
  BY <1>1 DEF PartsOf
<1>4. e[1] = a.merkle_root
  <2>1. e[1] = Encoded("state", "id", a["merkle_root"])
    BY <1>2, <1>3
  <2> QED
    BY <2>1, PackedFields DEF Packed
<1>5. e[2] = FlattenSeq(a.claim_circuit_program_id)
  <2>1. e[2] = Encoded("state", "program_id", a["claim_circuit_program_id"])
    BY <1>2, <1>3
  <2> QED
    BY <2>1, PackedFields DEF Packed
<1>6. e[3] = a.total_supply
  <2>1. e[3] = Encoded("state", "u128", a["total_supply"])
    BY <1>2, <1>3
  <2> QED
    BY <2>1, PackedFields DEF Packed
<1>7. e[4] = a.claimed
  <2>1. e[4] = Encoded("state", "u128", a["claimed"])
    BY <1>2, <1>3
  <2> QED
    BY <2>1, PackedFields DEF Packed
<1>8. e[5] = U32(Len(a.spent_nullifiers)) \o FlattenSeq(a.spent_nullifiers)
  <2>1. e[5] = Encoded("state", "ids", a["spent_nullifiers"])
    BY <1>2, <1>3
  <2> QED
    BY <2>1, PackedFields DEF Packed
<1>9. /\ e[1] \in Seq(Unit)
      /\ e[2] \in Seq(Unit)
      /\ e[3] \in Seq(Unit)
      /\ e[4] \in Seq(Unit)
      /\ e[5] \in Seq(Unit)
  <2>1. \A j \in 1 .. 5 : e[j] \in Seq(Unit)
    OBVIOUS
  <2> HIDE DEF e
  <2> QED
    BY <2>1
<1> HIDE DEF e
<1> DEFINE p == <<>>
<1>10. p \in Seq(Unit)
  OBVIOUS
<1>11. p \o e[1] \o e[2] \o e[3] \o e[4] \o e[5] = p \o r[0]
  <2>1. 5 \in Nat
    OBVIOUS
  <2> HIDE DEF p
  <2> QED
    BY <1>10, <2>1, Joined DEF e
<1>12. StateBytes(a) = p \o e[1] \o e[2] \o e[3] \o e[4] \o e[5]
  <2>1. p \o e[1] = e[1]
    BY <1>9, ConcatEmptySeq
  <2> HIDE DEF p
  <2>2. a.spent_nullifiers \in Ids
    BY DEF Arguments
  <2> DEFINE c == U32(Len(a.spent_nullifiers))
             f == FlattenSeq(a.spent_nullifiers)
             q == p \o e[1] \o e[2] \o e[3] \o e[4]
  <2>3. c \in Seq(Unit) /\ f \in Seq(Unit)
    BY <2>2, IdsUnits
  <2>4. q \in Seq(Unit)
    <3> HIDE DEF p
    <3> QED
      BY <1>9, <1>10, ConcatProperties
  <2>5. e[5] = c \o f
    BY <1>8
  <2> HIDE DEF c, f, q
  <2>6. q \o (c \o f) = q \o c \o f
    BY <2>3, <2>4, Regroup
  <2>7. p \o e[1] \o e[2] \o e[3] \o e[4] \o e[5] = q \o c \o f
    BY <2>5, <2>6 DEF q
  <2>8. q = e[1] \o e[2] \o e[3] \o e[4]
    BY <2>1 DEF q
  <2> QED
    BY <1>4, <1>5, <1>6, <1>7, <1>8, <2>7, <2>8 DEF StateBytes, c, f
<1> QED
  <2>1. r[0] \in Seq(Unit)
    BY DEF Leaves
  <2>2. p \o r[0] = r[0]
    BY <2>1, ConcatEmptySeq
  <2> QED
    BY <1>11, <1>12, <2>2

LEMMA ProverInputWritten ==
    ASSUME NEW a \in Arguments("prover_input"), PartsOf("prover_input", a) \in [1 .. 7 -> Seq(Unit)],
           NEW r, Leaves(PartsOf("prover_input", a), 7, r)
    PROVE  ProverInput(a) = r[0]
<1> DEFINE e == PartsOf("prover_input", a)
<1>1. FieldsOf("prover_input") = GuestInput /\ Len(GuestInput) = 7
  BY ProverInputWellMade
<1>2. /\ GuestInput[1] = <<"account_id", "id">>
      /\ GuestInput[2] = <<"allocation", "u128">>
      /\ GuestInput[3] = <<"merkle_path", "ids">>
      /\ GuestInput[4] = <<"leaf_index", "usize">>
      /\ GuestInput[5] = <<"merkle_root", "id">>
      /\ GuestInput[6] = <<"distributor_id", "id">>
      /\ GuestInput[7] = <<"recipient_note", "blob">>
  BY DEF GuestInput
<1>3. \A j \in 1 .. 7 : e[j] = Encoded("prover_input", GuestInput[j][2], a[GuestInput[j][1]])
  BY <1>1 DEF PartsOf
<1>4. e[1] = EncodeBytes32(a.account_id)
  <2>1. e[1] = Encoded("prover_input", "id", a["account_id"])
    BY <1>2, <1>3
  <2> QED
    BY <2>1, WordFields DEF Packed
<1>5. e[2] = Group(a.allocation, 4)
  <2>1. e[2] = Encoded("prover_input", "u128", a["allocation"])
    BY <1>2, <1>3
  <2> QED
    BY <2>1, WordFields DEF Packed
<1>6. e[3] = <<U32(Len(a.merkle_path))>> \o EncodeBytes32(FlattenSeq(a.merkle_path))
  <2>1. e[3] = Encoded("prover_input", "ids", a["merkle_path"])
    BY <1>2, <1>3
  <2> QED
    BY <2>1, WordFields DEF Packed
<1>7. e[4] = Group(a.leaf_index, 4)
  <2>1. e[4] = Encoded("prover_input", "usize", a["leaf_index"])
    BY <1>2, <1>3
  <2> QED
    BY <2>1, WordFields DEF Packed
<1>8. e[5] = EncodeBytes32(a.merkle_root)
  <2>1. e[5] = Encoded("prover_input", "id", a["merkle_root"])
    BY <1>2, <1>3
  <2> QED
    BY <2>1, WordFields DEF Packed
<1>9. e[6] = EncodeBytes32(a.distributor_id)
  <2>1. e[6] = Encoded("prover_input", "id", a["distributor_id"])
    BY <1>2, <1>3
  <2> QED
    BY <2>1, WordFields DEF Packed
<1>10. e[7] = EncodeVecU8(a.recipient_note)
  <2>1. e[7] = Encoded("prover_input", "blob", a["recipient_note"])
    BY <1>2, <1>3
  <2> QED
    BY <2>1, WordFields DEF Packed
<1>11. /\ e[1] \in Seq(Unit)
      /\ e[2] \in Seq(Unit)
      /\ e[3] \in Seq(Unit)
      /\ e[4] \in Seq(Unit)
      /\ e[5] \in Seq(Unit)
      /\ e[6] \in Seq(Unit)
      /\ e[7] \in Seq(Unit)
  <2>1. \A j \in 1 .. 7 : e[j] \in Seq(Unit)
    OBVIOUS
  <2> HIDE DEF e
  <2> QED
    BY <2>1
<1> HIDE DEF e
<1> DEFINE p == <<>>
<1>12. p \in Seq(Unit)
  OBVIOUS
<1>13. p \o e[1] \o e[2] \o e[3] \o e[4] \o e[5] \o e[6] \o e[7] = p \o r[0]
  <2>1. 7 \in Nat
    OBVIOUS
  <2> HIDE DEF p
  <2> QED
    BY <1>12, <2>1, Joined DEF e
<1>14. ProverInput(a) = p \o e[1] \o e[2] \o e[3] \o e[4] \o e[5] \o e[6] \o e[7]
  <2>1. p \o e[1] = e[1]
    BY <1>11, ConcatEmptySeq
  <2> HIDE DEF p
  <2>2. a.merkle_path \in Ids
    BY DEF Arguments
  <2> DEFINE c == <<U32(Len(a.merkle_path))>>
             f == EncodeBytes32(FlattenSeq(a.merkle_path))
             q == p \o e[1] \o e[2]
  <2>3. c \in Seq(Unit) /\ f \in Seq(Unit)
    BY <2>2, IdsUnits
  <2>4. q \in Seq(Unit)
    <3> HIDE DEF p
    <3> QED
      BY <1>11, <1>12, ConcatProperties
  <2>5. e[3] = c \o f
    BY <1>6
  <2> HIDE DEF c, f, q
  <2>6. q \o (c \o f) = q \o c \o f
    BY <2>3, <2>4, Regroup
  <2>7. p \o e[1] \o e[2] \o e[3] \o e[4] \o e[5] \o e[6] \o e[7] = q \o c \o f \o e[4] \o e[5] \o e[6] \o e[7]
    BY <2>5, <2>6 DEF q
  <2>8. q = e[1] \o e[2]
    BY <2>1 DEF q
  <2> QED
    BY <1>4, <1>5, <1>6, <1>7, <1>8, <1>9, <1>10, <2>7, <2>8 DEF ProverInput, c, f
<1> QED
  <2>1. r[0] \in Seq(Unit)
    BY DEF Leaves
  <2>2. p \o r[0] = r[0]
    BY <2>1, ConcatEmptySeq
  <2> QED
    BY <1>13, <1>14, <2>2

LEMMA AttestationWritten ==
    ASSUME NEW a \in Arguments("attestation"), PartsOf("attestation", a) \in [1 .. 5 -> Seq(Unit)],
           NEW r, Leaves(PartsOf("attestation", a), 5, r)
    PROVE  GuestCommit(a) = r[0]
<1> DEFINE e == PartsOf("attestation", a)
<1>1. FieldsOf("attestation") = VerifierJournal /\ Len(VerifierJournal) = 5
  BY AttestationWellMade
<1>2. /\ VerifierJournal[1] = <<"merkle_root", "id">>
      /\ VerifierJournal[2] = <<"nullifier", "id">>
      /\ VerifierJournal[3] = <<"distributor_id", "id">>
      /\ VerifierJournal[4] = <<"allocation", "u128">>
      /\ VerifierJournal[5] = <<"recipient_note_hash", "id">>
  BY DEF VerifierJournal
<1>3. \A j \in 1 .. 5 : e[j] = Encoded("attestation", VerifierJournal[j][2], a[VerifierJournal[j][1]])
  BY <1>1 DEF PartsOf
<1>4. e[1] = EncodeBytes32(a.merkle_root)
  <2>1. e[1] = Encoded("attestation", "id", a["merkle_root"])
    BY <1>2, <1>3
  <2> QED
    BY <2>1, WordFields DEF Packed
<1>5. e[2] = EncodeBytes32(a.nullifier)
  <2>1. e[2] = Encoded("attestation", "id", a["nullifier"])
    BY <1>2, <1>3
  <2> QED
    BY <2>1, WordFields DEF Packed
<1>6. e[3] = EncodeBytes32(a.distributor_id)
  <2>1. e[3] = Encoded("attestation", "id", a["distributor_id"])
    BY <1>2, <1>3
  <2> QED
    BY <2>1, WordFields DEF Packed
<1>7. e[4] = Group(a.allocation, 4)
  <2>1. e[4] = Encoded("attestation", "u128", a["allocation"])
    BY <1>2, <1>3
  <2> QED
    BY <2>1, WordFields DEF Packed
<1>8. e[5] = EncodeBytes32(a.recipient_note_hash)
  <2>1. e[5] = Encoded("attestation", "id", a["recipient_note_hash"])
    BY <1>2, <1>3
  <2> QED
    BY <2>1, WordFields DEF Packed
<1>9. /\ e[1] \in Seq(Unit)
      /\ e[2] \in Seq(Unit)
      /\ e[3] \in Seq(Unit)
      /\ e[4] \in Seq(Unit)
      /\ e[5] \in Seq(Unit)
  <2>1. \A j \in 1 .. 5 : e[j] \in Seq(Unit)
    OBVIOUS
  <2> HIDE DEF e
  <2> QED
    BY <2>1
<1> HIDE DEF e
<1> DEFINE p == <<>>
<1>10. p \in Seq(Unit)
  OBVIOUS
<1>11. p \o e[1] \o e[2] \o e[3] \o e[4] \o e[5] = p \o r[0]
  <2>1. 5 \in Nat
    OBVIOUS
  <2> HIDE DEF p
  <2> QED
    BY <1>10, <2>1, Joined DEF e
<1>12. GuestCommit(a) = p \o e[1] \o e[2] \o e[3] \o e[4] \o e[5]
  <2>1. p \o e[1] = e[1]
    BY <1>9, ConcatEmptySeq
  <2> HIDE DEF p
  <2> QED
    BY <1>4, <1>5, <1>6, <1>7, <1>8, <2>1 DEF GuestCommit
<1> QED
  <2>1. r[0] \in Seq(Unit)
    BY DEF Leaves
  <2>2. p \o r[0] = r[0]
    BY <2>1, ConcatEmptySeq
  <2> QED
    BY <1>11, <1>12, <2>2

(* The place of an instruction among its program's, from 0.                *)
Variant(kind) == IF kind = "claim" THEN 1 ELSE 0

LEMMA MessageWellMade ==
    ASSUME NEW kind \in Kinds, NEW a \in Arguments(kind)
    PROVE  WellMade(kind, a) /\ Len(FieldsOf(kind)) \in Nat
<1>1. CASE kind = "initialize"
  BY <1>1, InitializeWellMade
<1>2. CASE kind = "submit_claim"
  BY <1>2, SubmitClaimWellMade
<1>3. CASE kind = "claim"
  BY <1>3, ClaimWellMade
<1>4. CASE kind = "journal"
  BY <1>4, JournalWellMade
<1>5. CASE kind = "state"
  BY <1>5, StateWellMade
<1>6. CASE kind = "prover_input"
  BY <1>6, ProverInputWellMade
<1>7. CASE kind = "attestation"
  BY <1>7, AttestationWellMade
<1> QED
  BY <1>1, <1>2, <1>3, <1>4, <1>5, <1>6, <1>7 DEF Kinds

(* What is written is its parts, behind the variant if it is an instruction. *)
LEMMA MessageWritten ==
    ASSUME NEW m, m.kind \in Kinds, m.args \in Arguments(m.kind),
           NEW n, n = Len(FieldsOf(m.kind)), NEW e, e = PartsOf(m.kind, m.args),
           e \in [1 .. n -> Seq(Unit)], NEW r, Leaves(e, n, r)
    PROVE  Written(m) = IF IsInstruction(m) THEN <<U32(Variant(m.kind))>> \o r[0] ELSE r[0]
<1> DEFINE a == m.args
<1>1. CASE m.kind = "initialize"
  <2>1. a \in Arguments("initialize") /\ n = 3 /\ e = PartsOf("initialize", a)
    BY <1>1, InitializeWellMade
  <2>2. Written(m) = InstrInitialize(a) /\ IsInstruction(m) /\ Variant(m.kind) = 0
    BY <1>1 DEF Written, IsInstruction, Variant
  <2> HIDE DEF a
  <2> QED
    BY <2>1, <2>2, InitializeWritten
<1>2. CASE m.kind = "submit_claim"
  <2>1. a \in Arguments("submit_claim") /\ n = 6 /\ e = PartsOf("submit_claim", a)
    BY <1>2, SubmitClaimWellMade
  <2>2. Written(m) = InstrSubmitClaim(a) /\ IsInstruction(m) /\ Variant(m.kind) = 0
    BY <1>2 DEF Written, IsInstruction, Variant
  <2> HIDE DEF a
  <2> QED
    BY <2>1, <2>2, SubmitClaimWritten
<1>3. CASE m.kind = "claim"
  <2>1. a \in Arguments("claim") /\ n = 2 /\ e = PartsOf("claim", a)
    BY <1>3, ClaimWellMade
  <2>2. Written(m) = ChainedClaim(a) /\ IsInstruction(m) /\ Variant(m.kind) = 1
    BY <1>3 DEF Written, IsInstruction, Variant
  <2> HIDE DEF a
  <2> QED
    BY <2>1, <2>2, ClaimWritten
<1>4. CASE m.kind = "journal"
  <2>1. a \in Arguments("journal") /\ n = 5 /\ e = PartsOf("journal", a)
    BY <1>4, JournalWellMade
  <2>2. Written(m) = JournalBytes(a) /\ ~IsInstruction(m)
    BY <1>4 DEF Written, IsInstruction
  <2> HIDE DEF a
  <2> QED
    BY <2>1, <2>2, JournalWritten
<1>5. CASE m.kind = "state"
  <2>1. a \in Arguments("state") /\ n = 5 /\ e = PartsOf("state", a)
    BY <1>5, StateWellMade
  <2>2. Written(m) = StateBytes(a) /\ ~IsInstruction(m)
    BY <1>5 DEF Written, IsInstruction
  <2> HIDE DEF a
  <2> QED
    BY <2>1, <2>2, StateWritten
<1>6. CASE m.kind = "prover_input"
  <2>1. a \in Arguments("prover_input") /\ n = 7 /\ e = PartsOf("prover_input", a)
    BY <1>6, ProverInputWellMade
  <2>2. Written(m) = ProverInput(a) /\ ~IsInstruction(m)
    BY <1>6 DEF Written, IsInstruction
  <2> HIDE DEF a
  <2> QED
    BY <2>1, <2>2, ProverInputWritten
<1>7. CASE m.kind = "attestation"
  <2>1. a \in Arguments("attestation") /\ n = 5 /\ e = PartsOf("attestation", a)
    BY <1>7, AttestationWellMade
  <2>2. Written(m) = GuestCommit(a) /\ ~IsInstruction(m)
    BY <1>7 DEF Written, IsInstruction
  <2> HIDE DEF a
  <2> QED
    BY <2>1, <2>2, AttestationWritten
<1> QED
  BY <1>1, <1>2, <1>3, <1>4, <1>5, <1>6, <1>7 DEF Kinds

(* Only the offline guest is given a usize.                                *)
LEMMA OnlyTheGuestReadsUsize ==
    ASSUME NEW kind \in Kinds, NEW j \in 1 .. Len(FieldsOf(kind)), FieldsOf(kind)[j][2] = "usize"
    PROVE  kind = "prover_input" /\ FieldsOf(kind)[j][1] = "leaf_index"
<1>1. CASE kind = "initialize"
  <2>1. FieldsOf(kind) = InitializeFields
    BY <1>1 DEF FieldsOf
  <2>2. Len(InitializeFields) = 3
    BY TupleOf3 DEF InitializeFields
  <2>3. InitializeFields[1][2] # "usize" /\ InitializeFields[2][2] # "usize" /\ InitializeFields[3][2] # "usize"
    BY DEF InitializeFields
  <2> QED
    BY <2>1, <2>2, <2>3
<1>2. CASE kind = "submit_claim"
  <2>1. FieldsOf(kind) = SubmitClaimFields
    BY <1>2 DEF FieldsOf
  <2>2. Len(SubmitClaimFields) = 6
    BY TupleOf6 DEF SubmitClaimFields
  <2>3. /\ SubmitClaimFields[1][2] # "usize" /\ SubmitClaimFields[2][2] # "usize"
        /\ SubmitClaimFields[3][2] # "usize" /\ SubmitClaimFields[4][2] # "usize"
        /\ SubmitClaimFields[5][2] # "usize" /\ SubmitClaimFields[6][2] # "usize"
    BY DEF SubmitClaimFields
  <2> QED
    BY <2>1, <2>2, <2>3
<1>3. CASE kind = "claim"
  <2>1. FieldsOf(kind) = ClaimFields
    BY <1>3 DEF FieldsOf
  <2>2. Len(ClaimFields) = 2
    BY TupleOf2 DEF ClaimFields
  <2>3. ClaimFields[1][2] # "usize" /\ ClaimFields[2][2] # "usize"
    BY DEF ClaimFields
  <2> QED
    BY <2>1, <2>2, <2>3
<1>4. CASE kind = "journal"
  <2>1. FieldsOf(kind) = ClaimJournalRaw
    BY <1>4 DEF FieldsOf
  <2>2. Len(ClaimJournalRaw) = 5
    BY TupleOf5 DEF ClaimJournalRaw
  <2>3. /\ ClaimJournalRaw[1][2] # "usize" /\ ClaimJournalRaw[2][2] # "usize"
        /\ ClaimJournalRaw[3][2] # "usize" /\ ClaimJournalRaw[4][2] # "usize"
        /\ ClaimJournalRaw[5][2] # "usize"
    BY DEF ClaimJournalRaw
  <2> QED
    BY <2>1, <2>2, <2>3
<1>5. CASE kind = "state"
  <2>1. FieldsOf(kind) = DistributionStateFields
    BY <1>5 DEF FieldsOf
  <2>2. Len(DistributionStateFields) = 5
    BY TupleOf5 DEF DistributionStateFields
  <2>3. /\ DistributionStateFields[1][2] # "usize" /\ DistributionStateFields[2][2] # "usize"
        /\ DistributionStateFields[3][2] # "usize" /\ DistributionStateFields[4][2] # "usize"
        /\ DistributionStateFields[5][2] # "usize"
    BY DEF DistributionStateFields
  <2> QED
    BY <2>1, <2>2, <2>3
<1>6. CASE kind = "prover_input"
  <2>1. FieldsOf(kind) = GuestInput
    BY <1>6 DEF FieldsOf
  <2>2. Len(GuestInput) = 7
    BY TupleOf7 DEF GuestInput
  <2>3. /\ GuestInput[1][2] # "usize" /\ GuestInput[2][2] # "usize"
        /\ GuestInput[3][2] # "usize" /\ GuestInput[4][1] = "leaf_index"
        /\ GuestInput[5][2] # "usize" /\ GuestInput[6][2] # "usize" /\ GuestInput[7][2] # "usize"
    BY DEF GuestInput
  <2> QED
    BY <1>6, <2>1, <2>2, <2>3
<1>7. CASE kind = "attestation"
  <2>1. FieldsOf(kind) = VerifierJournal
    BY <1>7 DEF FieldsOf
  <2>2. Len(VerifierJournal) = 5
    BY TupleOf5 DEF VerifierJournal
  <2>3. /\ VerifierJournal[1][2] # "usize" /\ VerifierJournal[2][2] # "usize"
        /\ VerifierJournal[3][2] # "usize" /\ VerifierJournal[4][2] # "usize"
        /\ VerifierJournal[5][2] # "usize"
    BY DEF VerifierJournal
  <2> QED
    BY <2>1, <2>2, <2>3
<1> QED
  BY <1>1, <1>2, <1>3, <1>4, <1>5, <1>6, <1>7 DEF Kinds

(* Octets, one behind the other.                                           *)
LEMMA OctetsJoin ==
    ASSUME NEW s \in Seq(Byte), NEW n \in Nat, NEW v \in Octets(n)
    PROVE  s \o v \in Seq(Byte) /\ Len(s \o v) = Len(s) + n
<1>1. v \in Seq(Byte) /\ Len(v) = n
  BY FunctionIsSeq DEF Octets
<1> QED
  BY <1>1, ConcatProperties

LEMMA JournalLength ==
    ASSUME NEW a \in JournalType
    PROVE  JournalBytes(a) \in Seq(Byte) /\ Len(JournalBytes(a)) = 144
<1>1. /\ a.merkle_root \in Octets(32) /\ a.nullifier \in Octets(32)
      /\ a.distributor_id \in Octets(32) /\ a.allocation \in Octets(16)
      /\ a.recipient_note_hash \in Octets(32)
  BY DEF JournalType
<1> DEFINE s == a.merkle_root
           t == s \o a.nullifier
           u == t \o a.distributor_id
           v == u \o a.allocation
           w == v \o a.recipient_note_hash
<1> HIDE DEF s, t, u, v, w
<1>0. 16 \in Nat /\ 32 \in Nat
  OBVIOUS
<1>2. s \in Seq(Byte) /\ Len(s) = 32
  BY <1>0, <1>1, FunctionIsSeq DEF Octets, s
<1>3. t \in Seq(Byte) /\ Len(t) = 64
  <2>1. t \in Seq(Byte) /\ Len(t) = Len(s) + 32
    <3>1. 32 \in Nat
      OBVIOUS
    <3>2. a.nullifier \in Octets(32)
      BY <1>1
    <3>3. s \in Seq(Byte)
      BY <1>2
    <3> QED
      BY <3>1, <3>2, <3>3, OctetsJoin, Zenon DEF t
  <2> QED
    BY <1>2, <2>1
<1>4. u \in Seq(Byte) /\ Len(u) = 96
  <2>1. u \in Seq(Byte) /\ Len(u) = Len(t) + 32
    <3>1. 32 \in Nat
      OBVIOUS
    <3>2. a.distributor_id \in Octets(32)
      BY <1>1
    <3>3. t \in Seq(Byte)
      BY <1>3
    <3> QED
      BY <3>1, <3>2, <3>3, OctetsJoin, Zenon DEF u
  <2> QED
    BY <1>3, <2>1
<1>5. v \in Seq(Byte) /\ Len(v) = 112
  <2>1. v \in Seq(Byte) /\ Len(v) = Len(u) + 16
    <3>1. 16 \in Nat
      OBVIOUS
    <3>2. a.allocation \in Octets(16)
      BY <1>1
    <3>3. u \in Seq(Byte)
      BY <1>4
    <3> QED
      BY <3>1, <3>2, <3>3, OctetsJoin, Zenon DEF v
  <2> QED
    BY <1>4, <2>1
<1>6. w \in Seq(Byte) /\ Len(w) = 144
  <2>1. w \in Seq(Byte) /\ Len(w) = Len(v) + 32
    <3>1. 32 \in Nat
      OBVIOUS
    <3>2. a.recipient_note_hash \in Octets(32)
      BY <1>1
    <3>3. v \in Seq(Byte)
      BY <1>5
    <3> QED
      BY <3>1, <3>2, <3>3, OctetsJoin, Zenon DEF w
  <2> QED
    BY <1>5, <2>1
<1> QED
  BY <1>6 DEF JournalBytes, s, t, u, v, w

(* No journal somebody cut or lengthened is as long as one.                *)
LEMMA MadeUpLength ==
    ASSUME NEW m \in Messages, m.kind = "journal", NEW w \in MadeUp(m)
    PROVE  w \in Seq(Unit) /\ Len(w) # 144
<1> DEFINE b == Written(m)
<1>1. b \in Seq(Byte) /\ Len(b) = 144
  <2>1. m.args \in JournalType
    BY MessagesAssumption DEF Arguments
  <2> QED
    BY <2>1, JournalLength DEF Written
<1> HIDE DEF b
<1>2. w \in Seq(Byte) /\ Len(w) # 144
  <2>1. CASE w = Append(b, 0)
    <3>1. 0 \in Byte
      BY DEF Byte
    <3>3. b \in Seq(Byte)
      BY <1>1
    <3>2. Append(b, 0) \in Seq(Byte) /\ Len(Append(b, 0)) = Len(b) + 1
      BY <3>1, <3>3, AppendProperties, Zenon
    <3> QED
      BY <1>1, <2>1, <3>2
  <2>2. ASSUME NEW n \in JournalCuts, w = SubSeq(b, 1, Len(b) - n) PROVE w \in Seq(Byte) /\ Len(w) # 144
    <3>1. n \in Nat /\ n # 0
      BY CutsAssumption
    <3>2. \A i \in 1 .. 144 - n : b[i] \in Byte
      <4> TAKE i \in 1 .. 144 - n
      <4>1. i \in 1 .. Len(b)
        BY <1>1, <3>1
      <4> QED
        BY <1>1, <4>1, ElementOfSeq
    <3>3. 144 - n \in Int /\ 1 \in Int /\ w = SubSeq(b, 1, 144 - n)
      BY <1>1, <2>2, <3>1
    <3> DEFINE c == 144 - n
    <3>5. c \in Int /\ \A i \in 1 .. c : b[i] \in Byte
      BY <3>2, <3>3
    <3> HIDE DEF c
    <3>4. /\ SubSeq(b, 1, c) \in Seq(Byte)
          /\ Len(SubSeq(b, 1, c)) = IF 1 <= c THEN c - 1 + 1 ELSE 0
          /\ \A i \in 1 .. c - 1 + 1 : SubSeq(b, 1, c)[i] = b[1 + i - 1]
      <4>2. 1 \in Int
        OBVIOUS
      <4>3. c \in Int
        BY <3>5
      <4>4. \A i \in 1 .. c : b[i] \in Byte
        BY <3>5
      <4> QED
        BY <4>2, <4>3, <4>4, SubSeqProperties
    <3>6. w = SubSeq(b, 1, c)
      BY <3>3 DEF c
    <3>7. Len(w) = (IF 1 <= c THEN c - 1 + 1 ELSE 0) /\ w \in Seq(Byte)
      BY <3>4, <3>6
    <3> QED
      BY <3>1, <3>5, <3>7 DEF c
  <2> QED
    BY <2>1, <2>2 DEF MadeUp, b
<1> QED
  BY <1>2, SeqMonotonic DEF Unit

Expected == FieldsOf(message.kind)
Parts == PartsOf(message.kind, message.args)
Meaning(j) == message.args[Expected[j][1]]

(* A journal's first k fields are so long.                                 *)
Used(k) == IF k <= 3 THEN 32 * k ELSE 32 * k - 16

(* What is left of account data nobody wrote, and of a journal that is not *)
(* as long as one.                                                         *)
ForeignLeft(k) ==
    \/ message.kind = "state" /\ wire = <<>> /\ k = 0
    \/ message.kind = "journal" /\ wire \in Seq(Unit) /\ Len(wire) # 144 - Used(k)

(* What is left of a message that is what was written: the rest of its     *)
(* parts; what went before was read as it was meant.                       *)
MeantLeft(k) ==
    /\ \E r : Leaves(Parts, Len(Expected), r) /\ wire = r[k]
    /\ \A j \in 1 .. k : fields[j][2] = Back(message.kind, Expected[j][2], Meaning(j))

(* k fields have been read.                                                *)
Reading(k) ==
    /\ k \in 0 .. Len(Expected)
    /\ IsSequence(fields) /\ Len(fields) = k
    /\ \A j \in 1 .. k : fields[j][1] = Expected[j][1]
    /\ IsSequence(todo) /\ Len(todo) = Len(Expected) - k
    /\ \A j \in 1 .. Len(Expected) - k : todo[j] = Expected[j + k]
    /\ IF Intact THEN MeantLeft(k) ELSE ForeignLeft(k)

(* The field after the k-th is an index the guest has no room for.         *)
TooLarge(k) ==
    k < Len(Expected) /\ ~LegalIndex(Expected[k + 1][2], Meaning(k + 1))

(* What may have been sent.                                                *)
Sendable ==
    /\ message.kind \in Kinds /\ message.args \in Arguments(message.kind)
    /\ \/ Intact
       \/ message.kind = "state" /\ message.arrived = <<>>
       \/ message.kind = "journal" /\ message.arrived \in Seq(Unit) /\ Len(message.arrived) # 144

WInv ==
    /\ verdict \in {"unsent", "sent", "reading", "read", "refused"}
    /\ verdict = "unsent" => message = Silence /\ todo = <<>> /\ fields = <<>>
    /\ verdict # "unsent" => Sendable
    /\ verdict = "sent" => wire = message.arrived /\ todo = <<>> /\ fields = <<>>
    /\ verdict = "reading" => \E k : Reading(k)
    /\ verdict = "read" => Intact /\ \E k : k = Len(Expected) /\ Reading(k)
    /\ verdict = "refused" => \E k : Reading(k) /\ (Intact => TooLarge(k))

-----------------------------------------------------------------------------
(* What is left once n units have been taken.                              *)
LEMMA Rest ==
    ASSUME NEW w \in Seq(Unit), NEW n \in Nat, n <= Len(w)
    PROVE  SubSeq(w, n + 1, Len(w)) \in Seq(Unit) /\ Len(SubSeq(w, n + 1, Len(w))) = Len(w) - n
<1> DEFINE lo == n + 1
           hi == Len(w)
<1>1. Len(w) \in Nat
  OBVIOUS
<1>2. \A i \in lo .. hi : w[i] \in Unit
  <2> TAKE i \in lo .. hi
  <2>1. i \in 1 .. Len(w)
    BY <1>1
  <2> QED
    BY <2>1, ElementOfSeq
<1>3. lo \in Int
  OBVIOUS
<1>4. hi \in Int
  BY <1>1
<1> HIDE DEF lo, hi
<1>5. /\ SubSeq(w, lo, hi) \in Seq(Unit)
      /\ Len(SubSeq(w, lo, hi)) = IF lo <= hi THEN hi - lo + 1 ELSE 0
      /\ \A i \in 1 .. hi - lo + 1 : SubSeq(w, lo, hi)[i] = w[lo + i - 1]
  BY <1>2, <1>3, <1>4, SubSeqProperties
<1>6. Len(SubSeq(w, lo, hi)) = Len(w) - n
  BY <1>1, <1>5 DEF lo, hi
<1> QED
  BY <1>5, <1>6 DEF lo, hi

(* Each part of a message that may have been sent is read as it was meant. *)
LEMMA PartsAreRead ==
    ASSUME Sendable
    PROVE  /\ WellMade(message.kind, message.args)
           /\ Len(Expected) \in Nat
           /\ Parts \in [1 .. Len(Expected) -> Seq(Unit)]
           /\ \A j \in 1 .. Len(Expected) :
                IsReadAs(Expected[j][2], Parts[j],
                         Back(message.kind, Expected[j][2], Meaning(j)),
                         LegalIndex(Expected[j][2], Meaning(j)))
<1> DEFINE kind == message.kind
           a == message.args
           d == FieldsOf(kind)
<1>1. kind \in Kinds
  BY DEF Sendable
<1>2. a \in Arguments(kind)
  BY DEF Sendable
<1>3. IsBorsh(message) <=> Packed(kind)
  BY DEF IsBorsh, Packed
<1> HIDE DEF kind, a
<1>4. WellMade(kind, a)
  BY <1>1, <1>2, MessageWellMade
<1>5. Len(d) \in Nat
  BY <1>1, <1>2, MessageWellMade
<1>6. ASSUME NEW j \in 1 .. Len(d)
      PROVE  IsReadAs(d[j][2], Encoded(kind, d[j][2], a[d[j][1]]), Back(kind, d[j][2], a[d[j][1]]),
                      LegalIndex(d[j][2], a[d[j][1]]))
  <2>1. d[j][2] \in TypesOf(kind)
    BY <1>4 DEF WellMade
  <2>2. a[d[j][1]] \in Typed(kind, d[j][2])
    BY <1>4 DEF WellMade
  <2> HIDE DEF d
  <2> QED
    BY <1>3, <2>1, <2>2, FieldIsRead
<1>7. PartsOf(kind, a) = [j \in 1 .. Len(d) |-> Encoded(kind, d[j][2], a[d[j][1]])]
  BY DEF PartsOf
<1> HIDE DEF d
<1>8. \A j \in 1 .. Len(d) : PartsOf(kind, a)[j] = Encoded(kind, d[j][2], a[d[j][1]])
  BY <1>7
<1>9. \A j \in 1 .. Len(d) : Encoded(kind, d[j][2], a[d[j][1]]) \in Seq(Unit)
  BY <1>6 DEF IsReadAs
<1>10. PartsOf(kind, a) \in [1 .. Len(d) -> Seq(Unit)]
  BY <1>7, <1>9
<1> QED
  BY <1>4, <1>5, <1>6, <1>8, <1>10 DEF d, kind, a, Expected, Parts, Meaning

(* Nothing has been sent.                                                  *)
LEMMA WireInvInit == ProgramInit => WInv
BY DEF ProgramInit, WireInit, WInv

(* Nothing of a message changes.                                           *)
LEMMA WireInvStays == WInv /\ UNCHANGED wireVars => WInv'
BY DEF WInv, wireVars, Sendable, Intact, Reading, Expected, MeantLeft, ForeignLeft, Parts, Meaning, TooLarge

(* What is sent is what was written, or is what no reader takes.           *)
LEMMA WireInvTransmit ==
    ASSUME NEW m \in Messages, NEW w, w \in Arrivals(m) \/ (m.kind = "journal" /\ w \in MadeUp(m)),
           Transmit(m, w)
    PROVE  WInv'
<1>1. /\ message' = [kind |-> m.kind, args |-> m.args, arrived |-> w]
      /\ wire' = w /\ todo' = <<>> /\ fields' = <<>> /\ verdict' = "sent"
  BY DEF Transmit
<1>2. message'.kind = m.kind /\ message'.args = m.args /\ message'.arrived = w
  BY <1>1
<1>3. Written(message') = Written(m)
  BY <1>2 DEF Written
<1>4. m.kind \in Kinds /\ m.args \in Arguments(m.kind)
  BY MessagesAssumption
<1>5. \/ w = Written(m)
      \/ m.kind = "state" /\ w = <<>>
      \/ m.kind = "journal" /\ w \in Seq(Unit) /\ Len(w) # 144
  <2>1. CASE w \in Arrivals(m)
    BY <2>1 DEF Arrivals
  <2>2. CASE m.kind = "journal" /\ w \in MadeUp(m)
    BY <2>2, MadeUpLength
  <2> QED
    BY <2>1, <2>2
<1>6. Sendable'
  BY <1>2, <1>3, <1>4, <1>5 DEF Sendable, Intact
<1> QED
  BY <1>1, <1>2, <1>6 DEF WInv

(* What is read does not change.                                           *)
LEMMA SameMessage ==
    ASSUME message' = message
    PROVE  /\ Expected' = Expected /\ Parts' = Parts
           /\ (Intact' <=> Intact) /\ (Sendable' <=> Sendable)
           /\ \A j : Meaning(j)' = Meaning(j)
BY DEF Expected, Parts, Meaning, Intact, Sendable

(* What the reader expects is what the message is made of.                 *)
LEMMA ReaderExpects ==
    ASSUME Sendable
    PROVE  /\ ~IsInstruction(message) => Struct(message) = Expected
           /\ IsInstruction(message) =>
                Variant(message.kind) + 1 \in DOMAIN Program(message)
                /\ Program(message)[Variant(message.kind) + 1] = Expected
                /\ Intact
<1>1. message.kind \in Kinds
  BY DEF Sendable
<1>2. ~IsInstruction(message) => Struct(message) = Expected
  BY <1>1 DEF Struct, Expected, FieldsOf, IsInstruction, Kinds
<1>3. CASE message.kind = "initialize"
  BY <1>3 DEF IsInstruction, Variant, Program, AirdropInstructions, Expected, FieldsOf, Sendable
<1>4. CASE message.kind = "claim"
  BY <1>4 DEF IsInstruction, Variant, Program, AirdropInstructions, Expected, FieldsOf, Sendable
<1>5. CASE message.kind = "submit_claim"
  BY <1>5 DEF IsInstruction, Variant, Program, ClaimCircuitInstructions, Expected, FieldsOf, Sendable
<1> QED
  BY <1>2, <1>3, <1>4, <1>5 DEF IsInstruction

(* What reading a message begins with.                                     *)
LEMMA NothingReadYet ==
    ASSUME Sendable, message' = message, fields' = <<>>, todo' = Expected,
           IF Intact THEN (\E r : Leaves(Parts, Len(Expected), r) /\ wire' = r[0])
                     ELSE ForeignLeft(0)'
    PROVE  Reading(0)'
<1>1. IsSequence(Expected) /\ Len(Expected) \in Nat
  BY PartsAreRead DEF WellMade, Expected
<1>2. IsSequence(fields') /\ Len(fields') = 0
  BY DEF IsSequence
<1>3. Expected' = Expected /\ Parts' = Parts /\ (Intact' <=> Intact)
  BY SameMessage
<1>4. IF Intact' THEN MeantLeft(0)' ELSE ForeignLeft(0)'
  BY <1>3 DEF MeantLeft
<1> HIDE DEF Expected
<1>5. \A j \in 1 .. Len(Expected) - 0 : todo'[j] = Expected[j + 0]
  BY <1>1
<1> QED
  BY <1>1, <1>2, <1>3, <1>4, <1>5 DEF Reading

(* The first of a sequence of units and the rest.                          *)
LEMMA FirstUnit ==
    ASSUME NEW x \in Word, NEW t \in Seq(Unit)
    PROVE  (<<x>> \o t)[1] = x /\ Tail(<<x>> \o t) = t
<1> DEFINE c == <<x>>
           w == c \o t
<1>1. c \in Seq(Unit) /\ Len(c) = 1 /\ c[1] = x
  BY OneWord
<1> HIDE DEF c
<1>2. Len(w) = 1 + Len(t) /\ w \in Seq(Unit) /\ Len(t) \in Nat
      /\ \A i \in 1 .. 1 + Len(t) : w[i] = IF i <= 1 THEN c[i] ELSE t[i - 1]
  <2>1. c \in Seq(Unit)
    BY <1>1
  <2>2. /\ w \in Seq(Unit) /\ Len(w) = Len(c) + Len(t)
        /\ \A i \in 1 .. Len(c) + Len(t) : w[i] = IF i <= Len(c) THEN c[i] ELSE t[i - Len(c)]
    BY <2>1, ConcatProperties
  <2> QED
    BY <1>1, <2>2
<1> HIDE DEF w
<1>3. w[1] = x
  BY <1>1, <1>2
<1>4. w # <<>>
  BY <1>2
<1>5. /\ Tail(w) \in Seq(Unit) /\ Len(Tail(w)) = Len(w) - 1
      /\ \A i \in 1 .. Len(Tail(w)) : Tail(w)[i] = w[i + 1]
  BY <1>2, <1>4, HeadTailProperties
<1>6. Len(Tail(w)) = Len(t)
  BY <1>2, <1>5
<1>7. \A i \in 1 .. Len(Tail(w)) : Tail(w)[i] = t[i]
  <2> TAKE i \in 1 .. Len(Tail(w))
  <2>1. i + 1 \in 1 .. 1 + Len(t) /\ ~(i + 1 <= 1) /\ i + 1 - 1 = i
    BY <1>2, <1>6
  <2>2. w[i + 1] = t[i]
    BY <1>2, <2>1
  <2> QED
    BY <1>5, <2>2
<1>8. Tail(w) = t
  BY <1>5, <1>6, <1>7, SeqEqual
<1> QED
  BY <1>3, <1>8 DEF w, c

(* The first word of an instruction says which it is.                      *)
LEMMA WireInvDispatch == WInv /\ Dispatch => WInv'
<1> SUFFICES ASSUME WInv, Dispatch PROVE WInv'
  OBVIOUS
<1>1. /\ verdict = "sent" /\ Sendable /\ wire = message.arrived /\ todo = <<>> /\ fields = <<>>
      /\ message' = message /\ fields' = fields
  BY DEF WInv, Dispatch
<1>2. Sendable'
  BY <1>1, SameMessage
<1>3. /\ Len(Expected) \in Nat /\ Parts \in [1 .. Len(Expected) -> Seq(Unit)]
  BY <1>1, PartsAreRead
<1>4. PICK r : Leaves(Parts, Len(Expected), r)
  BY <1>3, PartsLeave
<1>5. Written(message) =
        IF IsInstruction(message) THEN <<U32(Variant(message.kind))>> \o r[0] ELSE r[0]
  BY <1>1, <1>3, <1>4, MessageWritten DEF Sendable, Expected, Parts
<1>6. r[0] \in Seq(Unit)
  BY <1>3, <1>4 DEF Leaves
<1>7. CASE ~IsInstruction(message)
  <2>1. todo' = Struct(message) /\ wire' = wire /\ verdict' = "reading"
    BY <1>7 DEF Dispatch
  <2>2. todo' = Expected
    BY <1>1, <1>7, <2>1, ReaderExpects
  <2>3. CASE Intact
    <3>1. wire' = r[0]
      BY <1>1, <1>5, <1>7, <2>1, <2>3 DEF Intact
    <3>2. Reading(0)'
      BY <1>1, <1>4, <2>2, <2>3, <3>1, NothingReadYet
    <3> QED
      BY <1>2, <2>1, <3>2 DEF WInv
  <2>4. CASE ~Intact
    <3>1. ForeignLeft(0)'
      BY <1>1, <2>1, <2>4 DEF ForeignLeft, Sendable, Used
    <3>2. Reading(0)'
      BY <1>1, <2>2, <2>4, <3>1, NothingReadYet
    <3> QED
      BY <1>2, <2>1, <3>2 DEF WInv
  <2> QED
    BY <2>3, <2>4
<1>8. CASE IsInstruction(message)
  <2> DEFINE v == Variant(message.kind)
  <2>1. /\ v + 1 \in DOMAIN Program(message) /\ Program(message)[v + 1] = Expected /\ Intact
    BY <1>1, <1>8, ReaderExpects
  <2>2. v \in {0, 1}
    BY DEF Variant
  <2> HIDE DEF v
  <2>3. U32(v) \in Word /\ Number(U32(v)) = v
    BY <2>2, U32IsWord, NumberOfU32
  <2>4. wire = <<U32(v)>> \o r[0]
    BY <1>1, <1>5, <1>8, <2>1 DEF Intact, v
  <2>5. wire[1] = U32(v) /\ Tail(wire) = r[0]
    BY <1>6, <2>3, <2>4, FirstUnit
  <2>6. Number(wire[1]) + 1 = v + 1
    BY <2>3, <2>5
  <2>7. todo' = Expected /\ wire' = r[0] /\ verdict' = "reading"
    BY <1>8, <2>1, <2>5, <2>6 DEF Dispatch
  <2>8. Reading(0)'
    BY <1>1, <1>4, <2>1, <2>7, NothingReadYet
  <2> QED
    BY <1>2, <2>7, <2>8 DEF WInv
<1> QED
  BY <1>7, <1>8

(* Taking a field off what the reader expects.                             *)
LEMMA OneFieldRead ==
    ASSUME NEW k, Reading(k), todo # <<>>, Sendable, message' = message,
           NEW x, fields' = Append(fields, <<todo[1][1], x>>), todo' = Tail(todo),
           IF Intact
           THEN /\ \E r : Leaves(Parts, Len(Expected), r) /\ wire' = r[k + 1]
                /\ x = Back(message.kind, Expected[k + 1][2], Meaning(k + 1))
           ELSE ForeignLeft(k + 1)'
    PROVE  Reading(k + 1)'
<1> DEFINE n == Len(Expected)
<1>1. n \in Nat
  BY PartsAreRead
<1>2. /\ k \in 0 .. n /\ IsSequence(todo) /\ Len(todo) = n - k
      /\ \A j \in 1 .. n - k : todo[j] = Expected[j + k]
      /\ IsSequence(fields) /\ Len(fields) = k
      /\ \A j \in 1 .. k : fields[j][1] = Expected[j][1]
  BY DEF Reading
<1>3. /\ IsSequence(todo') /\ Len(todo') = n - k - 1 /\ n - k \in Nat \ {0}
      /\ \A j \in 1 .. n - k - 1 : todo'[j] = todo[j + 1]
  BY <1>2, SequenceRest
<1> HIDE DEF n
<1>4. k + 1 \in 0 .. n /\ k \in Nat /\ 1 \in 1 .. n - k /\ 1 + k = k + 1 /\ n - (k + 1) = n - k - 1
  BY <1>1, <1>2, <1>3
<1>5. todo[1] = Expected[k + 1]
  BY <1>2, <1>4
<1>6. ASSUME NEW j \in 1 .. n - (k + 1) PROVE todo'[j] = Expected[j + (k + 1)]
  <2>1. j \in 1 .. n - k - 1 /\ j + 1 \in 1 .. n - k /\ (j + 1) + k = j + (k + 1)
    BY <1>1, <1>4
  <2> QED
    BY <1>2, <1>3, <2>1
<1>7. /\ IsSequence(fields') /\ Len(fields') = k + 1
      /\ \A j \in 1 .. k : fields'[j] = fields[j]
      /\ fields'[k + 1] = <<Expected[k + 1][1], x>>
  BY <1>2, <1>5, SequenceLonger
<1>8. ASSUME NEW j \in 1 .. k + 1 PROVE j \in 1 .. k \/ j = k + 1
  BY <1>4
<1>9. \A j \in 1 .. k + 1 : fields'[j][1] = Expected[j][1]
  BY <1>2, <1>7, <1>8
<1>10. Expected' = Expected /\ Parts' = Parts /\ (Intact' <=> Intact)
       /\ \A j : Meaning(j)' = Meaning(j)
  BY SameMessage
<1>11. CASE Intact
  <2>1. MeantLeft(k)
    BY <1>11 DEF Reading
  <2>2. \A j \in 1 .. k : fields[j][2] = Back(message.kind, Expected[j][2], Meaning(j))
    BY <2>1 DEF MeantLeft
  <2>3. fields'[k + 1][2] = Back(message.kind, Expected[k + 1][2], Meaning(k + 1))
    BY <1>7, <1>11
  <2>4. \A j \in 1 .. k + 1 : fields'[j][2] = Back(message.kind, Expected[j][2], Meaning(j))
    BY <1>7, <1>8, <2>2, <2>3
  <2>5. \A j \in 1 .. k + 1 : fields'[j][2] = Back(message'.kind, Expected'[j][2], Meaning(j)')
    BY <1>10, <2>4
  <2>6. \E r : Leaves(Parts', Len(Expected'), r) /\ wire' = r[k + 1]
    BY <1>10, <1>11
  <2>7. MeantLeft(k + 1)'
    BY <2>5, <2>6 DEF MeantLeft
  <2> QED
    BY <1>3, <1>4, <1>6, <1>7, <1>9, <1>10, <1>11, <2>7 DEF Reading, n
<1>12. CASE ~Intact
  <2>1. ForeignLeft(k + 1)'
    BY <1>12
  <2> QED
    BY <1>3, <1>4, <1>6, <1>7, <1>9, <1>10, <1>12, <2>1 DEF Reading, n
<1> QED
  BY <1>11, <1>12

(* Nothing but the verdict changes.                                        *)
LEMMA ReadingStays ==
    ASSUME NEW k, Reading(k), UNCHANGED <<message, wire, todo, fields>>
    PROVE  Reading(k)'
BY DEF Reading, Expected, MeantLeft, ForeignLeft, Parts, Meaning, Intact

LEMMA TooLargeStays ==
    ASSUME NEW k, TooLarge(k), message' = message
    PROVE  TooLarge(k)'
BY DEF TooLarge, Expected, Meaning

(* The next field of a message that is what was written.                   *)
LEMMA NextPart ==
    ASSUME Sendable, Intact, NEW k, Reading(k), todo # <<>>
    PROVE  LET type == todo[1][2]
               m    == Width(type, wire)
               part == SubSeq(wire, 1, m)
           IN  /\ Fits(type, wire)
               /\ Legal(type, part) <=> LegalIndex(type, Meaning(k + 1))
               /\ Value(type, part) = Back(message.kind, type, Meaning(k + 1))
               /\ type = Expected[k + 1][2] /\ k < Len(Expected)
               /\ \E r : Leaves(Parts, Len(Expected), r)
                         /\ SubSeq(wire, m + 1, Len(wire)) = r[k + 1]
<1> DEFINE n == Len(Expected)
           type == todo[1][2]
           j == k + 1
<1>1. /\ n \in Nat /\ Parts \in [1 .. n -> Seq(Unit)]
      /\ \A i \in 1 .. n :
           IsReadAs(Expected[i][2], Parts[i], Back(message.kind, Expected[i][2], Meaning(i)),
                    LegalIndex(Expected[i][2], Meaning(i)))
  BY PartsAreRead
<1>2. /\ k \in 0 .. n /\ IsSequence(todo) /\ Len(todo) = n - k
      /\ \A i \in 1 .. n - k : todo[i] = Expected[i + k]
      /\ MeantLeft(k)
  BY DEF Reading
<1>3. n - k \in Nat \ {0}
  BY <1>2, SequenceRest
<1>4. PICK r : Leaves(Parts, n, r) /\ wire = r[k]
  BY <1>2 DEF MeantLeft
<1> HIDE DEF n, type
<1>5. j \in 1 .. n /\ j - 1 = k /\ 1 \in 1 .. n - k /\ 1 + k = j /\ k < n
  BY <1>1, <1>2, <1>3
<1>6. todo[1] = Expected[j]
  BY <1>2, <1>5
<1> HIDE DEF j
<1> DEFINE e == Parts[j]
           t == r[j]
<1>7. e \in Seq(Unit) /\ t \in Seq(Unit) /\ r[j - 1] = e \o t
  BY <1>1, <1>4, <1>5, LeavesStep
<1>8. IsReadAs(type, e, Back(message.kind, type, Meaning(j)), LegalIndex(type, Meaning(j)))
  BY <1>1, <1>5, <1>6 DEF type
<1> HIDE DEF e, t
<1>9. wire = e \o t
  BY <1>4, <1>5, <1>7
<1>10. Width(type, wire) = Len(e) /\ Fits(type, wire)
  BY <1>7, <1>8, <1>9 DEF IsReadAs
<1>11. SubSeq(wire, 1, Len(e)) = e /\ SubSeq(wire, Len(e) + 1, Len(wire)) = t
  BY <1>7, <1>9, FrontAndRest
<1>12. Legal(type, e) <=> LegalIndex(type, Meaning(j))
  BY <1>8 DEF IsReadAs
<1>13. Value(type, e) = Back(message.kind, type, Meaning(j))
  BY <1>8 DEF IsReadAs
<1>14. type = Expected[j][2]
  BY <1>6 DEF type
<1> QED
  BY <1>4, <1>5, <1>10, <1>11, <1>12, <1>13, <1>14 DEF n, type, j, t

(* The next field of any other.                                            *)
LEMMA NextForeignPart ==
    ASSUME Sendable, ~Intact, NEW k, Reading(k), todo # <<>>, Fits(todo[1][2], wire),
           wire' = SubSeq(wire, Width(todo[1][2], wire) + 1, Len(wire)), message' = message
    PROVE  ForeignLeft(k + 1)'
<1> DEFINE n == Len(Expected)
           type == todo[1][2]
<1>1. /\ k \in 0 .. n /\ IsSequence(todo) /\ Len(todo) = n - k
      /\ \A i \in 1 .. n - k : todo[i] = Expected[i + k]
      /\ ForeignLeft(k)
  BY DEF Reading
<1>2. n - k \in Nat \ {0}
  BY <1>1, SequenceRest
<1>3. n \in Nat
  BY PartsAreRead
<1> HIDE DEF n
<1>4. 1 \in 1 .. n - k /\ 1 + k = k + 1 /\ k \in Nat /\ k < n
  BY <1>1, <1>2, <1>3
<1>5. todo[1] = Expected[k + 1]
  BY <1>1, <1>4
<1>6. CASE message.kind = "state" /\ wire = <<>> /\ k = 0
  <2>1. Expected[1] = <<"merkle_root", "id">>
    BY <1>6 DEF Expected, FieldsOf, DistributionStateFields
  <2>2. todo[1][2] = "id"
    BY <1>5, <1>6, <2>1
  <2>3. Width("id", wire) = 32
    BY DEF Width
  <2>4. Len(wire) = 0
    BY <1>6
  <2> QED
    BY <2>2, <2>3, <2>4 DEF Fits
<1>7. CASE message.kind = "journal" /\ wire \in Seq(Unit) /\ Len(wire) # 144 - Used(k)
  <2>1. Expected = ClaimJournalRaw /\ n = 5
    <3>1. Len(ClaimJournalRaw) = 5
      BY TupleOf5 DEF ClaimJournalRaw
    <3> QED
      BY <1>7, <3>1 DEF Expected, FieldsOf, n
  <2>2. /\ ClaimJournalRaw[1][2] = "id" /\ ClaimJournalRaw[2][2] = "id"
        /\ ClaimJournalRaw[3][2] = "id" /\ ClaimJournalRaw[4][2] = "u128"
        /\ ClaimJournalRaw[5][2] = "id"
    BY DEF ClaimJournalRaw
  <2>3. IsBorsh(message)
    BY <1>7 DEF IsBorsh
  <2>4. Width("id", wire) = 32 /\ Width("u128", wire) = 16
    BY <2>3 DEF Width
  <2>5. k \in {0, 1, 2, 3, 4}
    BY <1>4, <2>1
  <2>6. /\ Width(type, wire) \in Nat
        /\ Used(k + 1) = Used(k) + Width(type, wire) /\ Used(k) \in Nat
    <3>1. CASE k = 0
      BY <1>5, <2>1, <2>2, <2>4, <3>1 DEF Used
    <3>2. CASE k = 1
      BY <1>5, <2>1, <2>2, <2>4, <3>2 DEF Used
    <3>3. CASE k = 2
      BY <1>5, <2>1, <2>2, <2>4, <3>3 DEF Used
    <3>4. CASE k = 3
      BY <1>5, <2>1, <2>2, <2>4, <3>4 DEF Used
    <3>5. CASE k = 4
      BY <1>5, <2>1, <2>2, <2>4, <3>5 DEF Used
    <3> QED
      BY <2>5, <3>1, <3>2, <3>3, <3>4, <3>5
  <2> DEFINE u == Width(type, wire)
             w == wire
  <2>7. u \in Nat /\ u <= Len(w) /\ w \in Seq(Unit)
    BY <1>7, <2>6 DEF Fits
  <2>8. wire' = SubSeq(w, u + 1, Len(w))
    OBVIOUS
  <2> HIDE DEF u, w
  <2>9. SubSeq(w, u + 1, Len(w)) \in Seq(Unit) /\ Len(SubSeq(w, u + 1, Len(w))) = Len(w) - u
    BY <2>7, Rest
  <2>10. wire' \in Seq(Unit) /\ Len(wire') = Len(w) - u
    BY <2>8, <2>9
  <2>11. Len(w) # 144 - Used(k) /\ Used(k + 1) = Used(k) + u /\ Used(k) \in Nat /\ Len(w) \in Nat
    BY <1>7, <2>6, <2>7 DEF u, w
  <2> HIDE DEF Used
  <2>12. Len(wire') # 144 - Used(k + 1)
    BY <2>7, <2>10, <2>11
  <2> QED
    BY <1>7, <2>10, <2>12 DEF ForeignLeft, Used
<1> QED
  BY <1>1, <1>6, <1>7 DEF ForeignLeft

(* A field is read as meant, or is the index the guest has no room for.    *)
LEMMA WireInvReadField == WInv /\ ReadField => WInv'
<1> SUFFICES ASSUME WInv, ReadField PROVE WInv'
  OBVIOUS
<1> DEFINE type == todo[1][2]
           m    == Width(type, wire)
           part == SubSeq(wire, 1, m)
<1>1. verdict = "reading" /\ todo # <<>> /\ message' = message /\ Sendable
  BY DEF WInv, ReadField
<1>2. PICK k : Reading(k)
  BY <1>1 DEF WInv
<1>3. Sendable' /\ (Intact' <=> Intact)
  BY <1>1, SameMessage
<1>4. CASE Fits(type, wire) /\ Legal(type, part)
  <2>1. /\ fields' = Append(fields, <<todo[1][1], Value(type, part)>>)
        /\ wire' = SubSeq(wire, m + 1, Len(wire)) /\ todo' = Tail(todo) /\ verdict' = "reading"
    BY <1>1, <1>4 DEF ReadField
  <2>2. Reading(k + 1)'
    <3>1. CASE Intact
      <4>1. /\ Value(type, part) = Back(message.kind, type, Meaning(k + 1))
            /\ type = Expected[k + 1][2]
            /\ \E r : Leaves(Parts, Len(Expected), r) /\ SubSeq(wire, m + 1, Len(wire)) = r[k + 1]
        BY <1>1, <1>2, <3>1, NextPart
      <4>2. /\ \E r : Leaves(Parts, Len(Expected), r) /\ wire' = r[k + 1]
            /\ Value(type, part) = Back(message.kind, Expected[k + 1][2], Meaning(k + 1))
        BY <2>1, <4>1
      <4> DEFINE x == Value(type, part)
      <4> HIDE DEF x
      <4>3. fields' = Append(fields, <<todo[1][1], x>>) /\ todo' = Tail(todo)
        BY <2>1 DEF x
      <4>4. x = Back(message.kind, Expected[k + 1][2], Meaning(k + 1))
        BY <4>2 DEF x
      <4> QED
        BY <1>1, <1>2, <3>1, <4>2, <4>3, <4>4, OneFieldRead
    <3>2. CASE ~Intact
      <4>1. ForeignLeft(k + 1)'
        BY <1>1, <1>2, <1>4, <2>1, <3>2, NextForeignPart
      <4> DEFINE x == Value(type, part)
      <4> HIDE DEF x
      <4>3. fields' = Append(fields, <<todo[1][1], x>>) /\ todo' = Tail(todo)
        BY <2>1 DEF x
      <4> QED
        BY <1>1, <1>2, <3>2, <4>1, <4>3, OneFieldRead
    <3> QED
      BY <3>1, <3>2
  <2> QED
    BY <1>3, <2>1, <2>2 DEF WInv
<1>5. CASE ~(Fits(type, wire) /\ Legal(type, part))
  <2>1. verdict' = "refused" /\ UNCHANGED <<wire, todo, fields>>
    BY <1>1, <1>5 DEF ReadField
  <2>2. Reading(k)'
    BY <1>1, <1>2, <2>1, ReadingStays
  <2>3. ASSUME Intact PROVE TooLarge(k)'
    <3>1. /\ Fits(type, wire)
          /\ Legal(type, part) <=> LegalIndex(type, Meaning(k + 1))
          /\ type = Expected[k + 1][2] /\ k < Len(Expected)
      BY <1>1, <1>2, <2>3, NextPart
    <3>2. TooLarge(k)
      BY <1>5, <3>1 DEF TooLarge
    <3> QED
      BY <1>1, <3>2, TooLargeStays
  <2>4. Intact' => TooLarge(k)'
    BY <1>3, <2>3
  <2> QED
    BY <1>3, <2>1, <2>2, <2>4 DEF WInv
<1> QED
  BY <1>4, <1>5

(* Account data and journals have to end where they are read to the end.   *)
LEMMA WireInvFinish == WInv /\ Finish => WInv'
<1> SUFFICES ASSUME WInv, Finish PROVE WInv'
  OBVIOUS
<1>1. /\ verdict = "reading" /\ todo = <<>> /\ UNCHANGED <<message, wire, todo, fields>> /\ Sendable
  BY DEF WInv, Finish
<1>2. PICK k : Reading(k)
  BY <1>1 DEF WInv
<1>3. Sendable' /\ (Intact' <=> Intact) /\ Expected' = Expected
  BY <1>1, SameMessage
<1>4. k = Len(Expected) /\ Len(Expected) \in Nat
  <2>1. Len(todo) = 0
    BY <1>1
  <2>2. k \in 0 .. Len(Expected) /\ Len(todo) = Len(Expected) - k
    BY <1>2 DEF Reading
  <2>3. Len(Expected) \in Nat
    BY <1>1, PartsAreRead
  <2> QED
    BY <2>1, <2>2, <2>3
<1>5. Reading(k)'
  BY <1>1, <1>2, ReadingStays
<1>6. CASE Intact
  <2>1. PICK r : Leaves(Parts, Len(Expected), r) /\ wire = r[k]
    BY <1>2, <1>6 DEF Reading, MeantLeft
  <2>2. wire = <<>>
    BY <1>4, <2>1 DEF Leaves
  <2>3. verdict' = "read"
    BY <2>2 DEF Finish
  <2>4. k = Len(Expected)' /\ Reading(k)'
    BY <1>3, <1>4, <1>5
  <2> QED
    BY <1>3, <1>6, <2>3, <2>4 DEF WInv
<1>7. CASE ~Intact
  <2>1. ForeignLeft(k)
    BY <1>2, <1>7 DEF Reading
  <2>2. message.kind = "journal" /\ wire # <<>>
    <3>1. CASE message.kind = "state" /\ k = 0
      <4>1. Len(Expected) = 5
        <5>1. Len(DistributionStateFields) = 5
          BY TupleOf5 DEF DistributionStateFields
        <5> QED
          BY <3>1, <5>1 DEF Expected, FieldsOf
      <4>2. Len(Expected) = 0
        BY <1>4, <3>1
      <4>3. 5 # 0
        OBVIOUS
      <4> QED
        BY <4>1, <4>2, <4>3, Zenon
    <3>2. CASE message.kind = "journal" /\ Len(wire) # 144 - Used(k)
      <4>1. Len(Expected) = 5
        <5>1. Len(ClaimJournalRaw) = 5
          BY TupleOf5 DEF ClaimJournalRaw
        <5> QED
          BY <3>2, <5>1 DEF Expected, FieldsOf
      <4>2. Len(wire) # 0
        BY <1>4, <3>2, <4>1 DEF Used
      <4> QED
        BY <3>2, <4>2
    <3> QED
      BY <2>1, <3>1, <3>2 DEF ForeignLeft
  <2>3. verdict' = "refused"
    BY <2>2 DEF Finish, IsBorsh
  <2> QED
    BY <1>3, <1>5, <1>7, <2>3 DEF WInv
<1> QED
  BY <1>6, <1>7

(* No step of the program spoils what is being read.                       *)
LEMMA WireInvNext == WInv /\ [ProgramNext]_clientVars => WInv'
<1> SUFFICES ASSUME WInv, [ProgramNext]_clientVars PROVE WInv'
  OBVIOUS
<1>1. CASE Handle
  BY <1>1, WireInvStays DEF Handle
<1>2. CASE Exchange
  <2>1. PICK m \in Messages : \E w \in Arrivals(m) : Transmit(m, w)
    BY <1>2 DEF Exchange
  <2>2. PICK w \in Arrivals(m) : Transmit(m, w)
    BY <2>1
  <2>3. w \in Arrivals(m) \/ (m.kind = "journal" /\ w \in MadeUp(m))
    BY <2>2
  <2>4. Transmit(m, w)
    BY <2>2
  <2> QED
    BY <2>3, <2>4, WireInvTransmit, Zenon
<1>3. CASE Refused
  BY <1>3, WireInvStays DEF Refused
<1>4. CASE AnotherCaller
  BY <1>4, WireInvTransmit DEF AnotherCaller
<1>5. CASE Dispatch
  BY <1>5, WireInvDispatch
<1>6. CASE ReadField
  BY <1>6, WireInvReadField
<1>7. CASE Finish
  BY <1>7, WireInvFinish
<1>8. CASE UNCHANGED clientVars
  BY <1>8, WireInvStays DEF clientVars, wireVars
<1> QED
  BY <1>1, <1>2, <1>3, <1>4, <1>5, <1>6, <1>7, <1>8 DEF ProgramNext, Read

(* What is left to read, in every state of every run.                      *)
LEMMA WireInvariant == ProgramSpec => []WInv
<1>1. ProgramInit => WInv
  BY WireInvInit
<1>2. WInv /\ [ProgramNext]_clientVars => WInv'
  BY WireInvNext
<1> QED
  BY <1>1, <1>2, PTL DEF ProgramSpec

-----------------------------------------------------------------------------
(* Fields have names that the writer knows.                                *)
LEMMA FieldsAreNamed ==
    ASSUME Sendable, NEW k, Reading(k)
    PROVE  /\ \A i \in DOMAIN todo : todo[i][1] \in DOMAIN message.args
           /\ \A i \in DOMAIN fields : fields[i][1] \in DOMAIN message.args
<1> DEFINE n == Len(Expected)
<1>1. n \in Nat /\ DOMAIN message.args = {Expected[j][1] : j \in 1 .. n}
  BY PartsAreRead DEF WellMade, Expected
<1>2. /\ k \in 0 .. n /\ IsSequence(todo) /\ Len(todo) = n - k
      /\ \A i \in 1 .. n - k : todo[i] = Expected[i + k]
      /\ IsSequence(fields) /\ Len(fields) = k
      /\ \A j \in 1 .. k : fields[j][1] = Expected[j][1]
  BY DEF Reading
<1>3. DOMAIN todo = 1 .. n - k /\ DOMAIN fields = 1 .. k
  BY <1>2, SequenceShape
<1> HIDE DEF n
<1>4. ASSUME NEW i \in 1 .. n - k PROVE i + k \in 1 .. n
  BY <1>1, <1>2
<1>5. ASSUME NEW i \in 1 .. k PROVE i \in 1 .. n
  BY <1>1, <1>2
<1> QED
  BY <1>1, <1>2, <1>3, <1>4, <1>5

(* The reader only ever expects, and only ever has, fields that the writer *)
(* meant to send.                                                          *)
THEOREM WireIsWellTyped == ProgramSpec => []WireTypeOK
<1>1. WInv => WireTypeOK
  <2> SUFFICES ASSUME WInv PROVE WireTypeOK
    OBVIOUS
  <2>1. CASE verdict \in {"unsent", "sent"}
    BY <2>1 DEF WInv, WireTypeOK
  <2>2. CASE verdict \in {"reading", "read", "refused"}
    <3>1. Sendable /\ \E k : Reading(k)
      BY <2>2 DEF WInv
    <3> QED
      BY <2>2, <3>1, FieldsAreNamed DEF WireTypeOK
  <2> QED
    BY <2>1, <2>2 DEF WInv
<1> QED
  BY <1>1, WireInvariant, PTL

(* Account data nobody wrote, and a journal that is cut or a byte too      *)
(* long, are never read to the end.                                        *)
THEOREM WhatIsNoMessageIsRefused == ProgramSpec => []PartsAreRefused
<1>1. WInv => PartsAreRefused
  BY DEF WInv, PartsAreRefused
<1> QED
  BY <1>1, WireInvariant, PTL

(* How a field that was read is shown is what was typed.                   *)
LEMMA ShownIsTyped ==
    ASSUME Sendable, NEW j \in 1 .. Len(Expected)
    PROVE  Shown(Expected[j][1], Back(message.kind, Expected[j][2], Meaning(j))) = Meaning(j)
<1> DEFINE kind == message.kind
           v == Meaning(j)
<1>1. /\ Expected[j][2] \in TypesOf(kind)
      /\ v \in Typed(kind, Expected[j][2])
      /\ Expected[j][1] \in ProgramIds <=> Expected[j][2] = "program_id"
  BY PartsAreRead DEF WellMade, Expected, Meaning
<1>2. CASE Expected[j][2] = "program_id" /\ kind # "state"
  <2>1. v \in Octets(32)
    BY <1>1, <1>2 DEF Typed
  <2>2. v \in Seq(Byte) /\ Len(v) = 32
    <3>1. 32 \in Nat /\ v \in [1 .. 32 -> Byte]
      BY <2>1 DEF Octets
    <3> HIDE DEF v
    <3> QED
      BY <3>1, FunctionIsSeq
  <2> HIDE DEF v
  <2>3. FlattenSeq(Group(v, 4)) = v
    <3>1. 4 \in Nat \ {0} /\ 8 \in Nat \ {0} /\ Len(v) = 4 * 8
      BY <2>2
    <3> QED
      BY <2>2, <3>1, FlattenGroups
  <2>4. Back(kind, Expected[j][2], v) = Group(v, 4)
    BY <1>2 DEF Back
  <2>5. Expected[j][1] \in {"airdrop_program_id", "claim_circuit_program_id"}
    BY <1>1, <1>2 DEF ProgramIds
  <2>6. Shown(Expected[j][1], Group(v, 4)) = FlattenSeq(Group(v, 4))
    BY <1>2, <2>5 DEF Shown, PrintProgramId
  <2> QED
    BY <2>3, <2>4, <2>6 DEF v
<1>3. CASE ~(Expected[j][2] = "program_id" /\ kind # "state")
  BY <1>1, <1>3 DEF Back, Shown, ProgramIds
<1> QED
  BY <1>2, <1>3

(* Reader and writer agree: every message is read as what it was written   *)
(* from, whatever it was, and the one thing refused is a leaf index that   *)
(* the guest's usize has no room for.                                      *)
THEOREM EveryMessageIsReadAsMeant == ProgramSpec => []ReadsWhatWasMeant
<1>1. WInv => ReadsWhatWasMeant
  <2> SUFFICES ASSUME WInv PROVE ReadsWhatWasMeant
    OBVIOUS
  <2>1. ASSUME verdict = "read", Intact
        PROVE  {<<f[1], Shown(f[1], f[2])>> : f \in Range(fields)} =
                  {<<name, message.args[name]>> : name \in DOMAIN message.args}
    <3> DEFINE n == Len(Expected)
    <3>1. Sendable /\ Reading(n)
      BY <2>1 DEF WInv
    <3>2. n \in Nat /\ DOMAIN message.args = {Expected[j][1] : j \in 1 .. n}
      BY <3>1, PartsAreRead DEF WellMade, Expected
    <3>3. /\ IsSequence(fields) /\ Len(fields) = n
          /\ \A j \in 1 .. n : fields[j][1] = Expected[j][1]
          /\ MeantLeft(n)
      BY <2>1, <3>1 DEF Reading
    <3>4. DOMAIN fields = 1 .. n
      BY <3>3, SequenceShape
    <3>5. \A j \in 1 .. n : fields[j][2] = Back(message.kind, Expected[j][2], Meaning(j))
      BY <3>3 DEF MeantLeft
    <3>6. \A j \in 1 .. n : Shown(fields[j][1], fields[j][2]) = Meaning(j)
      BY <3>1, <3>3, <3>5, ShownIsTyped
    <3>7. Range(fields) = {fields[j] : j \in 1 .. n}
      BY <3>4 DEF Range
    <3> HIDE DEF n
    <3>8. \A j \in 1 .. n :
            <<fields[j][1], Shown(fields[j][1], fields[j][2])>>
              = <<Expected[j][1], message.args[Expected[j][1]]>>
      BY <3>3, <3>6 DEF Meaning
    <3>9. {<<f[1], Shown(f[1], f[2])>> : f \in Range(fields)}
            = {<<fields[j][1], Shown(fields[j][1], fields[j][2])>> : j \in 1 .. n}
      BY <3>7
    <3>10. {<<name, message.args[name]>> : name \in DOMAIN message.args}
             = {<<Expected[j][1], message.args[Expected[j][1]]>> : j \in 1 .. n}
      BY <3>2
    <3> QED
      BY <3>8, <3>9, <3>10
  <2>2. ASSUME verdict = "refused", Intact
        PROVE  /\ message.kind = "prover_input"
               /\ SubSeq(message.args.leaf_index, 5, 8) # <<0, 0, 0, 0>>
    <3>1. PICK k : Reading(k) /\ TooLarge(k)
      BY <2>2 DEF WInv
    <3>2. Sendable /\ Len(Expected) \in Nat
      BY <2>2, PartsAreRead DEF WInv
    <3> DEFINE j == k + 1
    <3>3. j \in 1 .. Len(Expected)
      BY <3>1, <3>2 DEF Reading, TooLarge
    <3>4. ~LegalIndex(Expected[j][2], Meaning(j))
      BY <3>1 DEF TooLarge
    <3> HIDE DEF j
    <3>5. Expected[j][2] = "usize" /\ SubSeq(Meaning(j), 5, 8) # <<0, 0, 0, 0>>
      BY <3>4 DEF LegalIndex
    <3>6. message.kind = "prover_input" /\ Expected[j][1] = "leaf_index"
      BY <3>2, <3>3, <3>5, OnlyTheGuestReadsUsize DEF Expected, Sendable
    <3> QED
      BY <3>5, <3>6 DEF Meaning
  <2> QED
    BY <2>1, <2>2 DEF ReadsWhatWasMeant
<1> QED
  BY <1>1, WireInvariant, PTL

(* The number of ids as its four bytes.                                    *)
LEMMA CountOfIds ==
    ASSUME NEW v \in Ids
    PROVE  /\ U32(Len(v)) \in Seq(Byte) /\ Len(U32(Len(v))) = 4 /\ Number(U32(Len(v))) = Len(v)
           /\ FlattenSeq(v) \in Seq(Byte)
<1> DEFINE n == Len(v)
<1>1. n \in Nat /\ n \div 65536 < 65536 /\ FlattenSeq(v) \in Seq(Byte)
  BY IdsJoined
<1> HIDE DEF n
<1>2. U32(n) \in Seq(Byte) /\ Len(U32(n)) = 4
  BY <1>1, U32IsWord
<1>3. Number(U32(n)) = n
  BY <1>1, NumberOfU32
<1> QED
  BY <1>1, <1>2, <1>3 DEF n

(* Where the script looks for the number of nullifiers there is that number. *)
LEMMA CountInState ==
    ASSUME NEW a \in Arguments("state")
    PROVE  NullifierCount(StateBytes(a)) = Len(a.spent_nullifiers)
<1> DEFINE p == a.merkle_root
           q == p \o FlattenSeq(a.claim_circuit_program_id)
           s == q \o a.total_supply
           t == s \o a.claimed
           c == U32(Len(a.spent_nullifiers))
           f == FlattenSeq(a.spent_nullifiers)
<1>1. /\ a.merkle_root \in Octets(32) /\ a.claim_circuit_program_id \in [1 .. 8 -> Word]
      /\ a.total_supply \in Octets(16) /\ a.claimed \in Octets(16) /\ a.spent_nullifiers \in Ids
  BY DEF Arguments
<1> HIDE DEF p, q, s, t, c, f
<1>2. p \in Seq(Byte) /\ Len(p) = 32
  <2>1. 32 \in Nat /\ p \in [1 .. 32 -> Byte]
    BY <1>1 DEF Octets, p
  <2> QED
    BY <2>1, FunctionIsSeq
<1>3. q \in Seq(Byte) /\ Len(q) = 64
  <2> DEFINE v == a.claim_circuit_program_id
             i == FlattenSeq(v)
  <2>1. v \in [1 .. 8 -> Word]
    BY <1>1
  <2> HIDE DEF v
  <2>2. i \in Seq(Byte) /\ Len(i) = 32
    <3>1. 8 \in Nat /\ IsSequence(v) /\ Len(v) = 8
      BY <2>1, FunctionIsSeq
    <3>2. \A x \in 1 .. Len(v) : v[x] \in [1 .. 4 -> Byte]
      BY <2>1, <3>1 DEF Word, Octets
    <3>3. Len(v) \in Nat \ {0} /\ 4 \in Nat \ {0}
      BY <3>1
    <3>4. Blocks(v, 4, Len(v), i, Byte)
      BY <3>2, <3>3, FlattenBlocks
    <3> QED
      BY <3>1, <3>4 DEF Blocks
  <2> HIDE DEF i
  <2>3. q = p \o i
    BY DEF q, i, v
  <2>4. p \in Seq(Byte) /\ i \in Seq(Byte)
    BY <1>2, <2>2
  <2>5. p \o i \in Seq(Byte) /\ Len(p \o i) = Len(p) + Len(i)
    BY <2>4, ConcatProperties
  <2> QED
    BY <1>2, <2>2, <2>3, <2>5
<1>4. s \in Seq(Byte) /\ Len(s) = 80
  <2>1. 16 \in Nat
    OBVIOUS
  <2>2. a.total_supply \in Octets(16)
    BY <1>1
  <2>3. q \in Seq(Byte)
    BY <1>3
  <2>4. s \in Seq(Byte) /\ Len(s) = Len(q) + 16
    BY <2>1, <2>2, <2>3, OctetsJoin, Zenon DEF s
  <2> QED
    BY <1>3, <2>4
<1>5. t \in Seq(Byte) /\ Len(t) = 96
  <2>1. 16 \in Nat
    OBVIOUS
  <2>2. a.claimed \in Octets(16)
    BY <1>1
  <2>3. s \in Seq(Byte)
    BY <1>4
  <2>4. t \in Seq(Byte) /\ Len(t) = Len(s) + 16
    BY <2>1, <2>2, <2>3, OctetsJoin, Zenon DEF t
  <2> QED
    BY <1>4, <2>4
<1>6. a.spent_nullifiers \in Ids
  BY <1>1
<1>7. /\ c \in Seq(Byte) /\ Len(c) = 4 /\ Number(c) = Len(a.spent_nullifiers)
      /\ f \in Seq(Byte)
  BY <1>6, CountOfIds DEF c, f
<1>8. StateBytes(a) = t \o c \o f
  BY DEF StateBytes, p, q, s, t, c, f
<1> DEFINE b == StateBytes(a)
<1>9. /\ b \in Seq(Byte) /\ Len(b) >= 100 /\ Len(b) \in Nat
      /\ \A i \in 1 .. 4 : b[96 + i] = c[i]
  <2> DEFINE g == t \o c
  <2>1. /\ g \in Seq(Byte) /\ Len(g) = 100
        /\ \A i \in 1 .. 100 : g[i] = IF i <= 96 THEN t[i] ELSE c[i - 96]
    <3>1. t \in Seq(Byte) /\ c \in Seq(Byte)
      BY <1>5, <1>7
    <3>2. /\ g \in Seq(Byte) /\ Len(g) = Len(t) + Len(c)
          /\ \A i \in 1 .. Len(t) + Len(c) : g[i] = IF i <= Len(t) THEN t[i] ELSE c[i - Len(t)]
      BY <3>1, ConcatProperties
    <3>3. Len(t) = 96 /\ Len(c) = 4 /\ 96 + 4 = 100
      BY <1>5, <1>7
    <3> HIDE DEF g
    <3> QED
      BY <3>2, <3>3
  <2> HIDE DEF g
  <2>2. /\ g \o f \in Seq(Byte) /\ Len(g \o f) = 100 + Len(f) /\ Len(f) \in Nat
        /\ \A i \in 1 .. 100 + Len(f) : (g \o f)[i] = IF i <= 100 THEN g[i] ELSE f[i - 100]
    <3>1. g \in Seq(Byte) /\ f \in Seq(Byte)
      BY <1>7, <2>1
    <3>2. /\ g \o f \in Seq(Byte) /\ Len(g \o f) = Len(g) + Len(f)
          /\ \A i \in 1 .. Len(g) + Len(f) : (g \o f)[i] = IF i <= Len(g) THEN g[i] ELSE f[i - Len(g)]
      BY <3>1, ConcatProperties
    <3>3. Len(g) = 100
      BY <2>1
    <3>4. Len(f) \in Nat
      BY <3>1
    <3> QED
      BY <3>2, <3>3, <3>4
  <2>3. b = g \o f
    BY <1>8 DEF g
  <2> HIDE DEF b
  <2>4. ASSUME NEW i \in 1 .. 4 PROVE b[96 + i] = c[i]
    <3>1. 96 + i \in 1 .. 100 /\ 96 + i \in 1 .. 100 + Len(f) /\ ~(96 + i <= 96) /\ 96 + i - 96 = i
          /\ 96 + i <= 100
      BY <2>2
    <3>2. b[96 + i] = g[96 + i]
      BY <2>2, <2>3, <3>1
    <3> DEFINE h == 96 + i
    <3>4. h \in 97 .. 100 /\ h - 96 = i
      BY <3>1
    <3> HIDE DEF h
    <3>5. g[h] = IF h <= 96 THEN t[h] ELSE c[h - 96]
      <4>1. h \in 1 .. 100
        BY <3>4
      <4>2. \A x \in 1 .. 100 : g[x] = IF x <= 96 THEN t[x] ELSE c[x - 96]
        BY <2>1
      <4> QED
        BY <4>1, <4>2
    <3>6. g[h] = c[i]
      BY <3>4, <3>5
    <3>3. g[96 + i] = c[i]
      BY <3>6 DEF h
    <3> QED
      BY <3>2, <3>3
  <2> QED
    BY <2>2, <2>3, <2>4
<1> HIDE DEF b
<1>10. SubSeq(b, 97, 100) = c
  <2>1. \A i \in 97 .. 100 : b[i] \in Byte
    <3> TAKE i \in 97 .. 100
    <3>1. i \in 1 .. Len(b)
      BY <1>9
    <3> QED
      BY <1>9, <3>1, ElementOfSeq
  <2>2. 97 \in Int
    OBVIOUS
  <2>3. 100 \in Int
    OBVIOUS
  <2>4. /\ SubSeq(b, 97, 100) \in Seq(Byte)
        /\ Len(SubSeq(b, 97, 100)) = IF 97 <= 100 THEN 100 - 97 + 1 ELSE 0
        /\ \A i \in 1 .. 100 - 97 + 1 : SubSeq(b, 97, 100)[i] = b[97 + i - 1]
    BY <2>1, <2>2, <2>3, SubSeqProperties
  <2>5. Len(SubSeq(b, 97, 100)) = 4 /\ \A i \in 1 .. 4 : SubSeq(b, 97, 100)[i] = c[i]
    <3>1. \A i \in 1 .. 4 : 97 + i - 1 = 96 + i
      OBVIOUS
    <3> QED
      BY <1>9, <2>4, <3>1
  <2> DEFINE u == SubSeq(b, 97, 100)
  <2>6. u \in Seq(Byte) /\ Len(u) = 4 /\ \A i \in 1 .. Len(u) : u[i] = c[i]
    BY <2>4, <2>5
  <2> HIDE DEF u
  <2>7. u = c
    BY <1>7, <2>6, SeqEqual
  <2> QED
    BY <2>7 DEF u
<1>11. ~(Len(b) < 100)
  BY <1>9
<1> QED
  BY <1>7, <1>10, <1>11 DEF NullifierCount, b

(* The count the evidence script takes out of the account data is right    *)
(* for every state of the account.                                         *)
THEOREM TheScriptCountsNullifiers == ProgramSpec => []ScriptCountsNullifiers
<1>1. WInv => ScriptCountsNullifiers
  <2> SUFFICES ASSUME WInv, message.kind = "state"
               PROVE  NullifierCount(message.arrived) =
                        IF Intact THEN Len(message.args.spent_nullifiers) ELSE 0
    BY DEF ScriptCountsNullifiers
  <2>1. Sendable
    BY DEF WInv, Silence
  <2>2. CASE Intact
    <3>1. message.arrived = StateBytes(message.args)
      BY <2>2 DEF Intact, Written
    <3>2. message.args \in Arguments("state")
      BY <2>1 DEF Sendable
    <3> QED
      BY <2>2, <3>1, <3>2, CountInState
  <2>3. CASE ~Intact
    <3>1. message.arrived = <<>>
      BY <2>1, <2>3 DEF Sendable
    <3>2. Len(message.arrived) = 0
      BY <3>1
    <3> QED
      BY <2>3, <3>2 DEF NullifierCount
  <2> QED
    BY <2>2, <2>3
<1> QED
  BY <1>1, WireInvariant, PTL
=============================================================================
