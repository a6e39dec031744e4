\* Two claimants who repeat their claims until they have landed.
CONSTANTS
    U128 = 16
    DataMaxLength = 196
    NoState = NoState
    Garbage = Garbage
    AirdropId = airdrop
    d1 = d1
    d2 = d2
    a1 = a1
    a2 = a2
    a3 = a3
    circuit = circuit
    oldBuild = oldBuild
    unknown = unknown
    airdrop = airdrop
    otherAirdrop = otherAirdrop
    note = note
    stray = stray
    Distributions = {d1}
    Clients = {c1, c2}
    ProgramIds = {circuit}
    CircuitBuilds = {circuit}
    ForeignCallers = {}
    ForeignClaims = {}
    Offers <- OwnOffers
    Requests <- OwnRequests
    Committed <- MCCommitted
    MaxSends = 4
    Own <- OwnTwo
    c1 = c1
    c2 = c2
SPECIFICATION FairSpec
PROPERTIES
    RaceHasAWinner
    PersistentClaimantsAreServed
