SPECIFICATION Spec
CONSTANTS
    Issuer = "us"
    Audience = "app"
    AnyClaims <- AnyTokens
    RoleClaim = "groups"
    Blanks = {"", " "}
    I64Max = 7
    ClockSkew = 2
    MaxCacheTtl = 3
    ClockFloor = 2
INVARIANTS
    MatchesReference
    TtlWithinLife
    BrokenClockRefuses
