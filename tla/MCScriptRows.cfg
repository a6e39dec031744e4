\* What the script writes down when another process claims meanwhile.
CONSTANTS
    U128 = 16
    DataMaxLength = 196
    NoState = NoState
    Garbage = Garbage
    AirdropId = airdrop
    d1 = d1
    d2 = d2
    a1 = a1
    a2 = a2
    a3 = a3
    circuit = circuit
    oldBuild = oldBuild
    unknown = unknown
    airdrop = airdrop
    otherAirdrop = otherAirdrop
    note = note
    stray = stray
    script = script
    Distributions = {d1}
    Clients = {script, c2}
    ProgramIds = {circuit}
    CircuitBuilds = {circuit}
    ForeignCallers = {}
    ForeignClaims = {}
    Offers <- RunOffers
    Requests <- RequestsThree
    Committed <- MCCommitted
    MaxSends = 3
    Runner = script
    RunDist = d1
    RunOffer <- RunOfferThree
    Claims <- ClaimsThree
    InitPolls = 2
    LandPolls = 2
SPECIFICATION RunSpec
INVARIANTS
    RowsHaveLanded
CHECK_DEADLOCK FALSE
