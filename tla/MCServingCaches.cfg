SPECIFICATION Spec
CONSTANTS
    r1 = r1
    r2 = r2
    q1 = q1
    q2 = q2
    Requests <- MCRequests
    Queries <- MCQueries
    Bytes <- MCBytes
    MaxEntries = 2
    MaxBytes = 2
    Ttl = 2
    Flight = 1
    Rails = 1
    RailLag = 4
    MaxVersion = 1
SYMMETRY Symmetry
INVARIANTS
    TypeOK
    StoresAccount
    TagsAreCurrent
    StalenessBounded
