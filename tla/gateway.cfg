SPECIFICATION GatewaySpec
CONSTANTS
    r1 = r1
    s1 = s1
    k1 = k1
    k2 = k2
    a = a
    b = b
    good = good
    forged = forged
    none = none
    Callers = {r1, s1}
    Requests = {r1}
    Sessions = {s1}
    Keys = {k1, k2}
    Kids = {a, b}
    KidOf <- OneKidEach
    Tokens <- Presented
    SignedBy <- Signatures
    Forger = Forger
    MinRefetch = 2
    FetchTimeout = 1
    MaxDelay = 1
    Ttl = 1
    StaleFactor = 2
    StaleFloor = 2
    DurationMax = 100
    MaxTime = 3
    MaxWall = 4
    NoKeys = NoKeys
    Nobody = Nobody
    Issuer = "us"
    Audience = "app"
    RoleClaim = "groups"
    Blanks = {"", " "}
    I64Max = 15
    ClockSkew = 1
    MaxCacheTtl = 1
    ClockFloor = 1
    Credentials = {good, forged}
    NoCredential = none
    JwtShaped = {good, forged}
    Genuine = {good}
    ClaimsOf <- Payloads
    Malformed = Malformed
    ClientId = NoClientId
    NoClientId = NoClientId
INVARIANTS
    WithdrawnKeyOpensNothing
    WithinOneTimeout
PROPERTIES
    ImplementsModule
    RateLimited
    WithdrawnKeyEnds
