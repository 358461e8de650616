SPECIFICATION Spec
CONSTANTS
    c1 = c1
    c2 = c2
    r1 = r1
    r2 = r2
    p1 = p1
    p2 = p2
    NoRequest = NoRequest
    Calls <- MCCalls
    Requests <- MCRequests
    Replicas <- MCReplicas
    MaxQuery = 2
    MaxHour = 2
    MaxDay = 3
    MaxCost = 2
    Backend = "redis"
    Failures = {"read", "write", "reply"}
    MaxLedger = 5
SYMMETRY Symmetry
INVARIANTS
    TypeOK
    QueryOvershootBounded
    FleetOvershootBounded
PROPERTY
    SpendCounted
