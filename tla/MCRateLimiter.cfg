SPECIFICATION Spec
CONSTANTS
    c1 = c1
    c2 = c2
    c3 = c3
    Clients <- MCClients
    MaxRequests = 2
    Burst = 1
    Cap = 2
    Second = 2
    Window = 4
    BurstWindow = 2
    MaxTime = 6
SYMMETRY Symmetry
INVARIANTS
    TypeOK
    RateBounded
    RetrySuffices
    ForgetsLeastRecent
