SPECIFICATION FairSpec
CONSTANTS
    c1 = c1
    c2 = c2
    c3 = c3
    c4 = c4
    Nobody = Nobody
    Calls <- MCCalls
    Ttl = 2
INVARIANTS
    TypeOK
    ProbesAreShared
    NobodyIsStranded
PROPERTY
    LookupsEnd
