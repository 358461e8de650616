SPECIFICATION FairSpec
CONSTANTS
    r1 = r1
    r2 = r2
    Requests <- MCOne
    Backends <- Pair
    Retrievers <- Pair
    Fallbacks <- PairFallbacks
    Rescuers <- Sql
    ERanker = "eranker"
    HealthWindow = 1
    Recovery = 1
    MinObservations = 2
    HealthRateNum = 1
    HealthRateDen = 2
    MaxObsPerTick = 1
PROPERTY
    RetrieversRecover
