---------------------------- MODULE TokenSignature ----------------------------
(***************************************************************************)
(* Which tokens a key set verifies: the JWKS documents of                  *)
(* auth-oidc/src/jwks.rs, `try_all` of cache.rs and the JWS verification   *)
(* of auth-oidc/src/jwt.rs.  One key set after another is parsed and       *)
(* installed, and tokens are presented to it; the only state a             *)
(* verification leaves behind is the decoded material memoised on a key.   *)
(*                                                                         *)
(* External: `ring`.  A signature is the pair of the public key whose      *)
(* private half made it and the segments it was made over.                 *)
(***************************************************************************)
EXTENDS Integers, Sequences

CONSTANTS
    PublicKeys,
    SchemeOf,       \* what a public key verifies: "RS256", "ES256", or another scheme
    Broken,         \* key fields that are missing or not base64url
    NotAJwk,        \* an entry of `keys` that does not deserialize as a Jwk
    NotAKeySet,     \* a body that is no JSON object with a `keys` array
    Documents,      \* the key sets a provider may serve, as sequences of entries
    Garbled,        \* a segment that does not decode
    NotClaims,      \* a payload that is not JSON
    Tokens          \* bearers, cut at their dots

Absent == "absent"               \* Option::None of a member

(* Any of these members may contradict another one in a served document.   *)
Jwks == [kty : STRING, kid : STRING, use : STRING, crv : STRING,
         rsa : PublicKeys \cup {Broken},      \* what `n` and `e` decode to
         ec  : PublicKeys \cup {Broken}]      \* what `x` and `y` decode to
Headers == [alg : STRING, kid : STRING, crit : {Absent, "empty", "named"}]

ASSUME SignatureAssumption ==
    /\ Broken \notin PublicKeys /\ NotAJwk \notin Jwks /\ NotAKeySet \notin Documents
    /\ SchemeOf \in [PublicKeys -> STRING]
    /\ \A d \in Documents : DOMAIN d \in SUBSET Nat /\ \A i \in DOMAIN d : d[i] \in Jwks \cup {NotAJwk}

VARIABLES
    document,       \* history: the document the installed keys come from
    keys,           \* JwkSet.keys, each at its position in the document
    decoded,        \* Jwk.decoded
    token,          \* the token last presented
    verdict         \* and what became of it

vars == <<document, keys, decoded, token, verdict>>

-----------------------------------------------------------------------------
(* jwks.rs: skip_unusable_keys and parse.                                  *)
FaultyKeysOf(d) == d
KeysOf(d) == [i \in {j \in DOMAIN d : d[j] # NotAJwk} |-> d[i]]

Parses(d) == d # NotAKeySet /\ DOMAIN KeysOf(d) # {}

Materials == [kind : {"undecoded", "unusable", "rsa", "ec"}, key : PublicKeys \cup {Broken}]
Undecoded == [kind |-> "undecoded", key |-> Broken]
Unusable  == [kind |-> "unusable", key |-> Broken]

(* KeyMaterial::from_jwk.                                                  *)
FromJwk(jwk) ==
    IF jwk.kty = "RSA" /\ jwk.rsa # Broken THEN [kind |-> "rsa", key |-> jwk.rsa]
    ELSE IF jwk.kty = "EC" /\ jwk.ec # Broken THEN [kind |-> "ec", key |-> jwk.ec]
    ELSE Unusable

(* A key set fresh from the parser has decoded nothing yet.                *)
FaultyNothingDecoded(set) ==
    [i \in DOMAIN set |-> IF i \in DOMAIN decoded THEN decoded[i] ELSE Undecoded]
NothingDecoded(set) == [i \in DOMAIN set |-> Undecoded]

(* Jwk::material: decoded once, then memoised.                             *)
Material(i) == IF decoded[i] = Undecoded THEN FromJwk(keys[i]) ELSE decoded[i]

-----------------------------------------------------------------------------
(* jwt.rs.  `split`: three segments, each of which decodes.                *)
Splits(tok) == Len(tok) = 3 /\ \A i \in 1..3 : tok[i] # Garbled
ASSUME TokensAssumption == \A tok \in Tokens : Splits(tok) => tok[1] \in Headers
SigningInput(tok) == <<tok[1], tok[2]>>

(* The empty id stands for a kid that is not there.                        *)
IdOf(member) == IF member = Absent THEN "" ELSE member

(* find_all.                                                               *)
FaultyMatches(i, kid) == keys[i].kid = kid \/ keys[i].kid = Absent
Matches(i, kid) == keys[i].kid = kid \/ (kid = "" /\ keys[i].kid = Absent)
FindAll(tok) == {i \in DOMAIN keys : Matches(i, IdOf(tok[1].kid))}

(* verify_signature, up to the key material: critical extensions, `use`,   *)
(* and the one key type, and curve, that goes with the algorithm.          *)
FaultyFits(header, jwk) ==
    \/ header.alg = "RS256" /\ jwk.kty = "RSA"
    \/ header.alg = "ES256" /\ jwk.kty = "EC"
Fits(header, jwk) ==
    /\ header.crit # "named"
    /\ jwk.use # "enc"
    /\ \/ header.alg = "RS256" /\ jwk.kty = "RSA"
       \/ header.alg = "ES256" /\ jwk.kty = "EC" /\ jwk.crv = "P-256"

(* ring: the algorithm's own verifier, over the transmitted segments.      *)
RingVerifies(alg, material, tok) ==
    /\ material.key \in PublicKeys /\ SchemeOf[material.key] = alg
    /\ tok[3].by = material.key /\ tok[3].over = SigningInput(tok)

VerifySignature(i, tok) ==
    /\ Fits(tok[1], keys[i])
    /\ Material(i).kind = (IF tok[1].alg = "RS256" THEN "rsa" ELSE "ec")
    /\ RingVerifies(tok[1].alg, Material(i), tok)

(* cache.rs, try_all: in document order up to the first that verifies.     *)
Verifying(tok) == {i \in FindAll(tok) : VerifySignature(i, tok)}
TryAll(tok) == IF FindAll(tok) = {} THEN "miss"
               ELSE IF Verifying(tok) # {} THEN "ok" ELSE "bad"

(* The keys whose material a verification has asked for.                   *)
Asked(tok) == {i \in FindAll(tok) : /\ Fits(tok[1], keys[i])
                                    /\ \A j \in Verifying(tok) : i <= j}

-----------------------------------------------------------------------------
Init == /\ document = NotAKeySet
        /\ keys = << >> /\ decoded = << >>
        /\ token = << >> /\ verdict = "none"

(* A fetched body replaces the installed key set, or leaves it as it is.   *)
Refresh(d) ==
    /\ \/ /\ Parses(d)
          /\ document' = d
          /\ keys' = KeysOf(d)
          /\ decoded' = NothingDecoded(KeysOf(d))
       \/ /\ ~Parses(d)
          /\ UNCHANGED <<document, keys, decoded>>
    /\ verdict' = "none"
    /\ UNCHANGED token

(* verify_with over the installed keys, as far as the claims' JSON.        *)
Present(tok) ==
    /\ DOMAIN keys # {}
    /\ token' = tok
    /\ \/ /\ ~Splits(tok)
          /\ verdict' = "pass"
          /\ UNCHANGED decoded
       \/ /\ Splits(tok)
          /\ decoded' = [i \in DOMAIN decoded |-> IF i \in Asked(tok) THEN Material(i) ELSE decoded[i]]
          /\ verdict' = IF TryAll(tok) = "ok" /\ tok[2] = NotClaims THEN "malformed" ELSE TryAll(tok)
    /\ UNCHANGED <<document, keys>>

Next == \/ \E d \in Documents \cup {NotAKeySet} : Refresh(d)
        \/ \E tok \in Tokens : Present(tok)

Spec == Init /\ [][Next]_vars

-----------------------------------------------------------------------------
(* What is kept are keys, each with a memo, and an installed key set is     *)
(* never empty.                                                             *)
TypeOK == /\ document \in Documents \cup {NotAKeySet}
          /\ DOMAIN decoded = DOMAIN keys
          /\ \A i \in DOMAIN keys : /\ keys[i] \in Jwks
                                    /\ decoded[i] \in Materials
          /\ document # NotAKeySet => DOMAIN keys # {}
          /\ verdict \in {"none", "pass", "miss", "bad", "ok", "malformed"}

(* RFC 7517, entry by entry, with no parser and no order: the entry is a    *)
(* key that signs with `alg`, and this is the public half.                  *)
SignsWith(jwk, alg, pub) ==
    /\ jwk # NotAJwk /\ jwk.use # "enc" /\ SchemeOf[pub] = alg
    /\ \/ alg = "RS256" /\ jwk.kty = "RSA" /\ jwk.rsa = pub
       \/ alg = "ES256" /\ jwk.kty = "EC" /\ jwk.crv = "P-256" /\ jwk.ec = pub

(* The header and payload presented are the very ones that a key of the     *)
(* document signed, under the algorithm and the id that the header names.   *)
Genuine(tok, d) ==
    /\ Splits(tok) /\ tok[1].crit \in {Absent, "empty"}
    /\ \E i \in DOMAIN d, pub \in PublicKeys :
         /\ SignsWith(d[i], tok[1].alg, pub) /\ IdOf(d[i].kid) = IdOf(tok[1].kid)
         /\ tok[3].by = pub /\ tok[3].over = <<tok[1], tok[2]>>

(* The verdict on a token is the document's alone: whatever other entries   *)
(* stand in it, whatever was presented before and decoded on the way, and   *)
(* whatever key sets were installed earlier, exactly the genuine tokens     *)
(* verify.                                                                  *)
VerdictIsExact ==
    verdict # "none" => (verdict \in {"ok", "malformed"} <=> Genuine(token, document))

(* A token is a miss, which is what sends with_key to the provider again,   *)
(* exactly when the document has no key under its id: a forged token of a   *)
(* known id never causes a fetch, a rotated key always may.                 *)
MissIsUnpublished ==
    verdict \notin {"none", "pass"} =>
        (verdict = "miss" <=> \A i \in DOMAIN document :
             document[i] # NotAJwk => IdOf(document[i].kid) # IdOf(token[1].kid))

(* What JwksCache makes of all this.  An entry is to it a key for each      *)
(* public half that the entry verifies with, and one that stands for its id *)
(* whether or not it can verify; a token is signed by the key of its own id *)
(* and algorithm, or by none if it was altered or marks an extension.       *)
Ids    == STRING \cup {""}
Slots  == [kid : Ids, alg : {"RS256", "ES256", "none"}, key : PublicKeys \cup {Broken}]
Forged == [kid |-> "", alg |-> "forged", key |-> Broken]
Slot(kid, alg, pub) == [kid |-> IdOf(kid), alg |-> alg, key |-> pub]

SlotsOf(jwk) == {Slot(jwk.kid, "none", Broken)} \cup
    {Slot(jwk.kid, SchemeOf[pub], pub) : pub \in {p \in PublicKeys : SignsWith(jwk, SchemeOf[p], p)}}
RingOf(d) == UNION {SlotsOf(d[i]) : i \in {j \in DOMAIN d : d[j] # NotAJwk}}
ASSUME RingAssumption == \A d \in Documents : RingOf(d) # NotAKeySet

Untouched(tok) == /\ tok[1].crit # "named" /\ tok[1].alg \in {"RS256", "ES256"}
                  /\ tok[3].by \in PublicKeys /\ tok[3].over = <<tok[1], tok[2]>>
AsToken(tok) ==
    [kid |-> IdOf(tok[1].kid),
     signer |-> IF Untouched(tok) THEN Slot(tok[1].kid, tok[1].alg, tok[3].by) ELSE Forged]

Ring == INSTANCE KeyRing WITH
    KidOf  <- [k \in Slots |-> k.kid],
    Keys   <- Slots,
    Tokens <- [kid : Ids, signer : Slots \cup {Forged}],
    NoKeys <- NotAKeySet,
    ring   <- IF document = NotAKeySet THEN NotAKeySet ELSE RingOf(document),
    last   <- IF verdict \in {"none", "pass"} THEN << >>
              ELSE <<AsToken(token), IF verdict = "malformed" THEN "ok" ELSE verdict>>

(* Parsing, matching, decoding and memoising answer as the cache takes them *)
(* to: by one lookup in a set of keys, whatever the document looked like.   *)
ImplementsRing == Ring!Spec

(* What jwks.rs:146-153 says of a document without usable keys: it is not   *)
(* installed over a working key set.                                        *)
Works(d) == \E i \in DOMAIN d, alg \in {"RS256", "ES256"}, pub \in PublicKeys :
               SignsWith(d[i], alg, pub)
WorkingSetSurvives ==
    [][document # NotAKeySet /\ Works(document) => Works(document')]_vars
=============================================================================
