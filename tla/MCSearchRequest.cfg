SPECIFICATION FairSpec
CONSTANT MaxSpend = 2
INVARIANTS
    TypeOK
    NoPhaseCountedTwice
    
    AccountsClosed
    OnlyEarlyAnalyticsOutlives
PROPERTY AlwaysAnswers
CHECK_DEADLOCK FALSE
