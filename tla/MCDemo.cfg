\* The demo, with the numbers of polls it really makes.
CONSTANTS
    U128 = 16
    DataMaxLength = 196
    NoState = NoState
    Garbage = Garbage
    AirdropId = airdrop
    d1 = d1
    d2 = d2
    a1 = a1
    a2 = a2
    a3 = a3
    circuit = circuit
    oldBuild = oldBuild
    unknown = unknown
    airdrop = airdrop
    otherAirdrop = otherAirdrop
    note = note
    stray = stray
    Distributions = {d1}
    Clients = {demo, c1}
    demo = demo
    Demo = demo
    DemoOffer <- DemoOfferAlone
    DemoClaim <- DemoClaimAlone
    Polls = 24
    ProgramIds = {circuit}
    CircuitBuilds = {circuit}
    ForeignCallers = {}
    ForeignClaims = {}
    Offers <- DemoOffers
    Requests <- DemoRequests
    Committed <- DemoCommitted
    MaxSends = 2
SPECIFICATION FairDemoSpec
INVARIANTS
    CompleteMeansClaimed
PROPERTIES
    DemoStepsAreBounded
    DemoEnds
CHECK_DEADLOCK FALSE
