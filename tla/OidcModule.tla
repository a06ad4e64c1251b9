------------------------------ MODULE OidcModule ------------------------------
(***************************************************************************)
(* The OIDC module of auth-oidc/src/lib.rs as the engine drives it: bearer *)
(* requests go through `authenticate`, browser logins through `begin_login`*)
(* and `complete_login`, and both through `verify_with` over one JWKS      *)
(* cache.  External, as the module uses them: the engine's credential cache*)
(* that keeps an identity for ttl_secs, the core that runs the token       *)
(* exchange, and the provider that answers it.                             *)
(***************************************************************************)
EXTENDS ClaimPolicy

CONSTANTS
    Audience,               \* OidcConfig.audience, of the bearer validator
    Requests, Sessions,     \* threads with a bearer token; browser logins
    Credentials, NoCredential,  \* what a request or a login presents
    JwtShaped,              \* those `jwt::split` takes apart
    Genuine,                \* those a key of the provider verifies
    ClaimsOf,               \* their payloads; Malformed when not a claims object
    Malformed,
    ClientId, NoClientId,   \* OidcConfig.client_id
    MaxWall,                \* bound of the wall clock
    MaxDelay                \* bound of one verification, from capture to verdict

ASSUME ModuleAssumption ==
    /\ JwtShaped \subseteq Credentials /\ Genuine \subseteq JwtShaped
    /\ NoCredential \notin Credentials
    /\ Requests \cap Sessions = {}
    /\ \A k \in Genuine : ClaimsOf[k] = Malformed \/ WellFormed(ClaimsOf[k])
    /\ MaxWall \in Nat /\ MaxDelay \in Nat
    /\ ClockFloor <= MaxWall /\ MaxWall < I64Max - ClockSkew

(* resolved_client_id, the audience of the login validator.                *)
ResolvedClientId == IF ClientId = NoClientId THEN Audience ELSE ClientId

Actors == Requests \cup Sessions

VARIABLES
    endpoints,      \* the login endpoints configured, or discovered at open
    wall,           \* UNIX time of the host
    stage,          \* where each request and login is
    presented,      \* the token each one presents
    nowUnix,        \* `now_unix`, captured when the verification starts
    verdict,        \* how its last verification ended
    hopClient,      \* the client_id of the authorize URL and the exchange
    cachedUntil     \* external: the engine's credential cache

oidcVars == <<endpoints, wall, stage, presented, nowUnix, verdict, hopClient, cachedUntil>>

Stages == {"idle", "keys", "claims", "store", "authorizing", "exchange", "answered"}
Verdicts == {"none", "pass", "reject", "identify", "cached", "authorize"}

OidcInit == /\ endpoints \in SUBSET {"authorize", "token"}
            /\ wall = ClockFloor
            /\ stage = [a \in Actors |-> "idle"]
            /\ presented = [a \in Actors |-> NoCredential]
            /\ nowUnix = [a \in Actors |-> ClockFloor]
            /\ verdict = [a \in Actors |-> "none"]
            /\ hopClient = [s \in Sessions |-> NoClientId]
            /\ cachedUntil = [k \in Credentials |-> 0]

MoveTo(a, step) == stage' = [stage EXCEPT ![a] = step]
End(a, v) == verdict' = [verdict EXCEPT ![a] = v] /\ MoveTo(a, "idle")

(* Both entry points read the wall clock before anything can block.        *)
StartVerify(a) == /\ nowUnix' = [nowUnix EXCEPT ![a] = NowUnix(wall)]
                  /\ verdict' = [verdict EXCEPT ![a] = "none"]
                  /\ MoveTo(a, "keys")

Verifying(a) == stage[a] \in {"keys", "claims", "store"}

(* Time passes, and no verification takes longer than MaxDelay.            *)
WallTick == /\ wall < MaxWall
            /\ \A a \in Actors : Verifying(a) => wall - nowUnix[a] < MaxDelay
            /\ wall' = wall + 1
            /\ UNCHANGED <<endpoints, stage, presented, nowUnix, verdict, hopClient, cachedUntil>>

-----------------------------------------------------------------------------
(* Bearer requests.                                                        *)

(* External: the engine finds the credential in its cache.                 *)
CacheHit(r) ==
    /\ stage[r] = "idle"
    /\ \E k \in Credentials : /\ wall < cachedUntil[k]
                              /\ presented' = [presented EXCEPT ![r] = k]
    /\ nowUnix' = [nowUnix EXCEPT ![r] = wall]
    /\ End(r, "cached")
    /\ UNCHANGED <<endpoints, wall, hopClient, cachedUntil>>

(* authenticate: no credential or not a JWT is someone else's business.    *)
Authenticate(r) ==
    /\ stage[r] = "idle"
    /\ \E k \in Credentials \cup {NoCredential} :
         /\ k \in Credentials => cachedUntil[k] <= wall
         /\ presented' = [presented EXCEPT ![r] = k]
         /\ \/ k \in JwtShaped /\ StartVerify(r)
            \/ k \notin JwtShaped /\ End(r, "pass") /\ UNCHANGED nowUnix
    /\ UNCHANGED <<endpoints, wall, hopClient, cachedUntil>>

(* JwksCache::with_key: a key verifies the signature, or there is an error:*)
(* bad signature, unknown kid, provider down.                              *)
FaultySigned(k) == k \in JwtShaped
Signed(k) == k \in Genuine
WithKey(a) ==
    /\ stage[a] = "keys"
    /\ \/ /\ Signed(presented[a])
          /\ MoveTo(a, "claims")
          /\ UNCHANGED verdict
       \/ End(a, "reject")
    /\ UNCHANGED <<endpoints, wall, presented, nowUnix, hopClient, cachedUntil>>

(* The claims under the bearer audience, at the captured time.             *)
BearerAccepts(c, now) == c # Malformed /\ Accepts(c, now, Audience)
BearerClaims(r) ==
    /\ stage[r] = "claims"
    /\ IF BearerAccepts(ClaimsOf[presented[r]], nowUnix[r])
       THEN MoveTo(r, "store") /\ UNCHANGED verdict
       ELSE End(r, "reject")
    /\ UNCHANGED <<endpoints, wall, presented, nowUnix, hopClient, cachedUntil>>

(* External: the engine receives the identity and caches it for ttl_secs.  *)
Store(r) ==
    /\ stage[r] = "store"
    /\ cachedUntil' = [cachedUntil EXCEPT ![presented[r]] =
                         wall + Principal(ClaimsOf[presented[r]], nowUnix[r]).ttl]
    /\ End(r, "identify")
    /\ UNCHANGED <<endpoints, wall, presented, nowUnix, hopClient>>

-----------------------------------------------------------------------------
(* Browser login.                                                          *)

(* begin_login: the authorize URL, or a refusal without an endpoint.       *)
BeginLogin(s) ==
    /\ stage[s] = "idle"
    /\ presented' = [presented EXCEPT ![s] = NoCredential]
    /\ \/ /\ "authorize" \in endpoints
          /\ hopClient' = [hopClient EXCEPT ![s] = ResolvedClientId]
          /\ verdict' = [verdict EXCEPT ![s] = "authorize"]
          /\ MoveTo(s, "authorizing")
       \/ /\ "authorize" \notin endpoints
          /\ End(s, "reject")
          /\ UNCHANGED hopClient
    /\ UNCHANGED <<endpoints, wall, nowUnix, cachedUntil>>

(* complete_login on the callback: the token exchange, or a refusal when   *)
(* the code, redirect or verifier is missing or there is no endpoint.      *)
CompleteWithCode(s) ==
    /\ stage[s] = "authorizing"
    /\ \/ /\ "token" \in endpoints
          /\ hopClient' = [hopClient EXCEPT ![s] = ResolvedClientId]
          /\ MoveTo(s, "exchange")
          /\ UNCHANGED verdict
       \/ End(s, "reject") /\ UNCHANGED hopClient
    /\ UNCHANGED <<endpoints, wall, presented, nowUnix, cachedUntil>>

(* External: the core runs the exchange; the provider answers with some    *)
(* token, or with a response that carries none.                            *)
ProviderAnswers(s) ==
    /\ stage[s] = "exchange"
    /\ \E k \in Credentials \cup {NoCredential} : presented' = [presented EXCEPT ![s] = k]
    /\ MoveTo(s, "answered")
    /\ UNCHANGED <<endpoints, wall, nowUnix, verdict, hopClient, cachedUntil>>

(* complete_login with the response, identity_from_token_response: without *)
(* an id_token, or with one that is no JWT, there is no login.             *)
CompleteWithResponse(s) ==
    /\ stage[s] = "answered"
    /\ \/ presented[s] \in JwtShaped /\ StartVerify(s)
       \/ presented[s] \notin JwtShaped /\ End(s, "reject") /\ UNCHANGED nowUnix
    /\ UNCHANGED <<endpoints, wall, presented, hopClient, cachedUntil>>

(* The claims of the id_token, under the client id.                        *)
FaultyLoginAccepts(c, now) == BearerAccepts(c, now)
LoginAccepts(c, now) == c # Malformed /\ Accepts(c, now, ResolvedClientId)
LoginClaims(s) ==
    /\ stage[s] = "claims"
    /\ End(s, IF LoginAccepts(ClaimsOf[presented[s]], nowUnix[s])
              THEN "identify" ELSE "reject")
    /\ UNCHANGED <<endpoints, wall, presented, nowUnix, hopClient, cachedUntil>>

-----------------------------------------------------------------------------
OidcNext == \/ WallTick
            \/ \E a \in Actors : WithKey(a)
            \/ \E r \in Requests : \/ CacheHit(r) \/ Authenticate(r)
                                   \/ BearerClaims(r) \/ Store(r)
            \/ \E s \in Sessions : \/ BeginLogin(s) \/ CompleteWithCode(s)
                                   \/ ProviderAnswers(s) \/ CompleteWithResponse(s)
                                   \/ LoginClaims(s)

OidcSpec == OidcInit /\ [][OidcNext]_oidcVars

-----------------------------------------------------------------------------
OidcTypeOK == /\ endpoints \subseteq {"authorize", "token"}
              /\ wall \in ClockFloor..MaxWall
              /\ stage \in [Actors -> Stages]
              /\ presented \in [Actors -> Credentials \cup {NoCredential}]
              /\ \A a \in Actors : stage[a] \in {"claims", "store"} => presented[a] \in Genuine
              /\ nowUnix \in [Actors -> ClockFloor..MaxWall]
              /\ verdict \in [Actors -> Verdicts]
              /\ hopClient \in [Sessions -> {Audience, ClientId, NoClientId}]
              /\ cachedUntil \in [Credentials -> 0..(MaxWall + MaxCacheTtl)]

Claims(a) == ClaimsOf[presented[a]]
Admitted(r) == verdict[r] \in {"identify", "cached"}

(* No token is taken for what it was not minted for: a bearer request, from *)
(* the credential cache too, stands only on a genuine token for the API's   *)
(* audience, and a login only on a genuine one for the OAuth client; a      *)
(* client's id_token opens no API and an API token no session.              *)
NoTokenConfusion ==
    /\ \A r \in Requests : Admitted(r) =>
         presented[r] \in Genuine /\ Trusted(Audience) \in Audiences(Claims(r))
    /\ \A s \in Sessions : verdict[s] = "identify" =>
         presented[s] \in Genuine /\ Admissible(Claims(s), nowUnix[s], ResolvedClientId)

(* Replay is bounded: an identity is given within the clock skew of the     *)
(* token's expiry, and served from the engine's cache after the expiry only *)
(* for less than its verification took, since ttl_secs counts from before   *)
(* the JWKS wait and the cache from after it.                               *)
ReplayIsBounded ==
    \A r \in Requests :
      /\ verdict[r] = "identify" => 2 * (nowUnix[r] - ClockSkew) <= Claims(r).exp.value
      /\ verdict[r] = "cached" => 2 * (nowUnix[r] - MaxDelay) < Claims(r).exp.value

(* A login is never refused over its claims when the provider minted the    *)
(* id_token for the very client_id the authorize URL and the exchange gave. *)
MintedForTheHop(s) == /\ Claims(s) # Malformed
                      /\ Admissible(Claims(s), nowUnix[s], hopClient[s])
ConformingLoginSucceeds ==
    [][\A s \in Sessions :
         LoginClaims(s) /\ MintedForTheHop(s) => verdict'[s] = "identify"]_oidcVars

(* What lib.rs:323-325 says of ttl_secs, that it bounds a cached identity   *)
(* by the token's own remaining validity: nothing is served from the cache  *)
(* once the token has expired.                                              *)
CacheEndsWithToken ==
    \A r \in Requests : verdict[r] = "cached" => 2 * nowUnix[r] <= Claims(r).exp.value
=============================================================================
