SPECIFICATION Spec
CONSTANTS
    r1 = r1
    r2 = r2
    Requests <- MCTwo
    Backends <- Ranked
    Retrievers <- Vector
    Fallbacks <- NoFallbacks
    Rescuers <- Vector
    ERanker = "eranker"
    HealthWindow = 1
    Recovery = 2
    MinObservations = 2
    HealthRateNum = 1
    HealthRateDen = 2
    MaxObsPerTick = 2
SYMMETRY RequestSymmetry
INVARIANTS
    TypeOK
    UnhealthyIsDated
PROPERTY
    UnhealthyUntilRecovery
