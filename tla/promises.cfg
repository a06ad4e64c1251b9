SPECIFICATION HungProviderSpec
CONSTANTS
    c1 = c1
    c2 = c2
    c3 = c3
    k1 = k1
    k2 = k2
    a = a
    b = b
    Callers = {c1, c2}
    Keys = {k1}
    Kids = {a, b}
    KidOf <- OnlyKey
    Tokens <- KnownAndUnknown
    Forger = Forger
    MinRefetch = 2
    Ttl = 1
    StaleFactor = 2
    StaleFloor = 3
    DurationMax = 100
    MaxTime = 4
    NoKeys = NoKeys
    Nobody = Nobody
INVARIANT
    WaitersHaveAHolder
PROPERTIES
    HolderNeverWaits
    CallsReturn
    EveryStepCounts
    ImplementsLease
