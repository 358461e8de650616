SPECIFICATION FairSpec
CONSTANTS
    c1 = c1
    c2 = c2
    Calls <- MCCalls
    ChainLen = 2
    Window = 2
    Cooldown = 2
    MinCalls = 2
    RateNum = 1
    RateDen = 2
    Required = 2
    MaxPerTick = 2
    HealthWindow = 2
    Recovery = 1
    MinObservations = 2
    HealthRateNum = 1
    HealthRateDen = 2
INVARIANTS
    TypeOK
    BreakerConsistent
    BothObserversAgree
PROPERTIES
    KeepsContract
    OnlyFailuresCutTraffic
    RecoversWithProvider
