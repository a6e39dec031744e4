\* What comes of a receipt submitted to `claim`.
CONSTANTS
    U128 = 16
    DataMaxLength = 196
    NoState = NoState
    Garbage = Garbage
    AirdropId = airdrop
    d1 = d1
    d2 = d2
    a1 = a1
    a2 = a2
    a3 = a3
    circuit = circuit
    oldBuild = oldBuild
    unknown = unknown
    airdrop = airdrop
    otherAirdrop = otherAirdrop
    note = note
    otherNote = otherNote
    stray = stray
    Distributions = {d1}
    Clients = {c1}
    ProgramIds = {circuit}
    CircuitBuilds = {circuit}
    Public = stray
    ForeignCallers = {stray}
    ForeignClaims <- ReceiptClaims
    Offers <- ReceiptOffers
    Requests <- ReceiptRequests
    Committed <- MCCommitted
    MaxSends = 1
    OfflineRequests <- MCOfflineRequests
    Notes <- MCNotes
SPECIFICATION ReceiptSpec
INVARIANTS
    SubmittedReceiptsClaim
