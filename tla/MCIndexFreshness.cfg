SPECIFICATION MCSpec
CONSTANTS
    d1 = d1
    d2 = d2
    Docs <- MCDocs
    Audited <- MCAudited
    NoDoc = NoDoc
    RefreshFailures = 2
    DeltaFailures = 2
    Chunk = 2
    Lookback = 2
    Delay = 1
    Hour = 2
    Lag = 1
    MaxVersion = 1
    MaxTime = 3
    MaxRows = 2
INVARIANTS
    TypeOK
    SeenIsIndexed
    FieldsFollow
PROPERTY
    DriversCatchUp
