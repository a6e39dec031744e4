\* Claims of one distribution racing each other from two client processes.
CONSTANTS
    U128 = 16
    DataMaxLength = 164
    NoState = NoState
    Garbage = Garbage
    AirdropId = airdrop
    d1 = d1
    d2 = d2
    a1 = a1
    a2 = a2
    a3 = a3
    circuit = circuit
    oldBuild = oldBuild
    unknown = unknown
    airdrop = airdrop
    otherAirdrop = otherAirdrop
    note = note
    stray = stray
    Distributions = {d1}
    Clients = {c1, c2}
    ProgramIds = {circuit}
    CircuitBuilds = {circuit}
    ForeignCallers = {stray}
    ForeignClaims <- RaceForeignClaims
    Offers <- RaceOffers
    Requests <- RaceRequests
    Committed <- MCCommitted
    MaxSends = 3
SPECIFICATION Spec
INVARIANTS
    TypeOK
    NoDoubleClaim
    WithinSupply
    OnlyEligible
    ClaimedIsSumOfPaid
    NoClaimantLockedOut
    RejectionsAreFinal
PROPERTIES
    AppendOnly
    OvertakenStaysOut
SYMMETRY ClientSymmetry
