\* Two shells, an offer and its correction, a claimant meanwhile, a sequencer that goes on.
CONSTANTS
    U128 = 16
    DataMaxLength = 196
    NoState = NoState
    Garbage = Garbage
    AirdropId = airdrop
    d1 = d1
    d2 = d2
    a1 = a1
    a2 = a2
    a3 = a3
    circuit = circuit
    oldBuild = oldBuild
    unknown = unknown
    airdrop = airdrop
    otherAirdrop = otherAirdrop
    note = note
    stray = stray
    Distributions = {d1}
    Clients = {c1}
    ProgramIds = {circuit}
    CircuitBuilds = {circuit}
    ForeignCallers = {}
    ForeignClaims = {}
    Offers <- SignedOffers
    Requests <- SignedRequests
    Committed <- MCCommitted
    MaxSends = 1
    Sessions = {s1, s2}
    TargetPrograms = {airdrop, otherAirdrop}
    MaxSigned = 2
SPECIFICATION FairSignedSpec
INVARIANTS
    SignedTypeOK
    AdvertisedStaysTrue
    LostOnlyElsewhere
PROPERTIES
    SignedOnceIsEnough
