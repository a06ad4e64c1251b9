SPECIFICATION Spec
CONSTANTS
    rsa1 = rsa1
    p256 = p256
    p384 = p384
    PublicKeys = {rsa1, p256, p384}
    SchemeOf <- Schemes
    Broken = Broken
    NotAJwk = NotAJwk
    NotAKeySet = NotAKeySet
    Documents <- KeySetsOfTwo
    Garbled = Garbled
    NotClaims = NotClaims
    Tokens <- Presented
PROPERTY
    WorkingSetSurvives
