\* Two distributions of one eligibility list, and callers of `claim` that are
\* not builds of the claim circuit.
CONSTANTS
    U128 = 16
    DataMaxLength = 164
    NoState = NoState
    Garbage = Garbage
    AirdropId = airdrop
    d1 = d1
    d2 = d2
    a1 = a1
    a2 = a2
    a3 = a3
    circuit = circuit
    oldBuild = oldBuild
    unknown = unknown
    airdrop = airdrop
    otherAirdrop = otherAirdrop
    note = note
    stray = stray
    Distributions = {d1, d2}
    Clients = {c1}
    ProgramIds = {circuit, oldBuild, stray}
    CircuitBuilds = {circuit, oldBuild}
    ForeignCallers = {stray, unknown}
    ForeignClaims <- TwoForeignClaims
    Offers <- TwoOffers
    Requests <- TwoRequests
    Committed <- MCCommitted
    MaxSends = 2
SPECIFICATION Spec
INVARIANTS
    Unlinkable
PROPERTIES
    ImplementsLedger
