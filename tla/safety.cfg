SPECIFICATION Spec
CONSTANTS
    c1 = c1
    c2 = c2
    c3 = c3
    k1 = k1
    k2 = k2
    a = a
    b = b
    Callers = {c1, c2}
    Keys = {k1, k2}
    Kids = {a, b}
    KidOf <- OneKidEach
    Tokens <- GenuineTokens
    Forger = Forger
    MinRefetch = 2
    Ttl = 1
    StaleFactor = 2
    StaleFloor = 3
    DurationMax = 100
    MaxTime = 5
    NoKeys = NoKeys
    Nobody = Nobody
INVARIANTS
    TypeOK
    CeilingRespected
    NoLongRevokedKey
    HolderNeverDenied
    FetchBudget
    RefusalIsTruthful
PROPERTY
    CacheNeverRegresses
SYMMETRY CallersAndKeys
