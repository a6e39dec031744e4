\* All commands with up to two faulty options, and all they exchange.
CONSTANTS
    Invocations <- MCInvocations
    Messages <- MCMessages
    JournalCuts = {1, 16, 32, 64, 144}
SPECIFICATION ProgramSpec
INVARIANTS
    WireTypeOK
    ReadsWhatWasMeant
    PartsAreRefused
    ScriptCountsNullifiers
    FaultsAreFoundInTime
CHECK_DEADLOCK FALSE
