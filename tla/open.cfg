SPECIFICATION Spec
CONSTANTS
    Unset = Unset
    Pages <- AnyPage
    NoPage = NoPage
    Cap = 2
    Timeout = 2
    Failed = Failed
    Configs <- AnyConfig
    NoConfig = NoConfig
    None = Unset
    NotJson = NotJson
    Base <- Bases
    HttpsUrls <- Https
INVARIANTS
    TypeOK
    WholeBodyOrNothing
    NoForeignEndpoint
    PinnedKeysBoot
    GapIsKnown
    LoadIsBounded
PROPERTY
    OpenEnds
