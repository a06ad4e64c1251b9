SPECIFICATION OidcSpec
CONSTANTS
    r1 = r1
    r2 = r2
    api = api
    login = login
    both = both
    odd = odd
    forged = forged
    none = none
    Issuer = "us"
    Audience = "app"
    RoleClaim = "groups"
    Blanks = {"", " "}
    I64Max = 15
    ClockSkew = 1
    MaxCacheTtl = 2
    ClockFloor = 1
    Requests = {r1}
    Sessions = {s1}
    Credentials = {api, login, both, odd, forged}
    NoCredential = none
    JwtShaped = {api, login, both, odd, forged}
    Genuine = {api, login, both, odd}
    ClaimsOf <- Payloads
    Malformed = Malformed
    ClientId = "web"
    NoClientId = NoClientId
    MaxWall = 5
    MaxDelay = 2
INVARIANT
    CacheEndsWithToken
