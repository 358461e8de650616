SPECIFICATION FairSpec
CONSTANTS
    r1 = r1
    r2 = r2
    Requests <- MCOne
    Backends <- Ranked
    Retrievers <- Vector
    Fallbacks <- NoFallbacks
    Rescuers <- Vector
    ERanker = "eranker"
    HealthWindow = 1
    Recovery = 1
    MinObservations = 2
    HealthRateNum = 1
    HealthRateDen = 2
    MaxObsPerTick = 2
PROPERTY
    ERankerRecovers
