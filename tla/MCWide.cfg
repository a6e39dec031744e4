\* Allocations that do not fit u128 together: `claimed` wraps.
CONSTANTS
    U128 = 8
    DataMaxLength = 196
    NoState = NoState
    Garbage = Garbage
    AirdropId = airdrop
    d1 = d1
    d2 = d2
    a1 = a1
    a2 = a2
    a3 = a3
    circuit = circuit
    oldBuild = oldBuild
    unknown = unknown
    airdrop = airdrop
    otherAirdrop = otherAirdrop
    note = note
    stray = stray
    Distributions = {d1}
    Clients = {c1}
    ProgramIds = {circuit}
    CircuitBuilds = {circuit}
    ForeignCallers = {}
    ForeignClaims = {}
    Offers <- WideOffers
    Requests <- WideRequests
    Committed <- WideCommitted
    MaxSends = 3
SPECIFICATION Spec
INVARIANTS
    ClaimedIsSumOfPaid
