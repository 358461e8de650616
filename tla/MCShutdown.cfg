SPECIFICATION FairSpec
CONSTANTS
    d1 = d1
    d2 = d2
    Docs <- MCDocs
    Audited <- MCAudited
    NoDoc = NoDoc
    RefreshFailures = 2
    DeltaFailures = 2
    Chunk = 1
    Lookback = 1
    Delay = 0
    Hour = 1
    Lag = 0
    MaxVersion = 0
    MaxTime = 1
    MaxRows = 1
PROPERTY ShutdownEnds
