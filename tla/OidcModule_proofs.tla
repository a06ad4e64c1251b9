--------------------------- MODULE OidcModule_proofs ---------------------------
(***************************************************************************)
(* Theorems of OidcModule, for any tokens, claims, requests and logins.    *)
(* The inductive invariant adds what the interleaving leaves open: how old *)
(* a captured time may be, what a request about to hand over an identity   *)
(* has been checked for, and what an entry of the credential cache rests on.*)
(***************************************************************************)
EXTENDS OidcModule, ClaimPolicy_proofs

(* A captured time is never in the future, and never older than MaxDelay   *)
(* while its verification runs.                                            *)
Captured(a) == /\ nowUnix[a] <= wall
               /\ Verifying(a) => wall - nowUnix[a] <= MaxDelay

(* What a bearer request has been checked for when it hands over.          *)
Checked(r) == stage[r] = "store" => BearerAccepts(ClaimsOf[presented[r]], nowUnix[r])

(* What a live entry of the credential cache rests on.                     *)
Backed(k) ==
    cachedUntil[k] > wall =>
      /\ k \in Genuine /\ ClaimsOf[k] # Malformed /\ ClaimsOf[k].exp.type = "number"
      /\ Trusted(Audience) \in Audiences(ClaimsOf[k])
      /\ 2 * (cachedUntil[k] - MaxDelay) <= ClaimsOf[k].exp.value

(* What has been said of a request or a login so far holds.                *)
Sound(a) ==
    /\ a \in Requests /\ verdict[a] \in {"identify", "cached"} =>
         presented[a] \in Genuine /\ Trusted(Audience) \in Audiences(Claims(a))
    /\ a \in Requests /\ verdict[a] = "identify" =>
         2 * (nowUnix[a] - ClockSkew) <= Claims(a).exp.value
    /\ a \in Requests /\ verdict[a] = "cached" =>
         2 * (nowUnix[a] - MaxDelay) < Claims(a).exp.value
    /\ a \in Sessions /\ verdict[a] = "identify" =>
         presented[a] \in Genuine /\ Admissible(Claims(a), nowUnix[a], ResolvedClientId)

(* A login past begin_login carries the client_id of its authorize URL.    *)
SameHop(s) == stage[s] # "idle" => hopClient[s] = ResolvedClientId

(* Where the two kinds of actor can be, and a verdict's place.             *)
Placed(a) == /\ a \in Sessions => stage[a] # "store"
             /\ a \in Requests => stage[a] \in {"idle", "keys", "claims", "store"}
             /\ stage[a] # "idle" /\ ~Verifying(a) => verdict[a] = "authorize"
             /\ Verifying(a) => verdict[a] = "none"

ActorInv(a) == Captured(a) /\ Checked(a) /\ Sound(a) /\ Placed(a)
OidcInv == /\ OidcTypeOK
           /\ \A a \in Actors : ActorInv(a)
           /\ \A k \in Credentials : Backed(k)
           /\ \A s \in Sessions : SameHop(s)

-----------------------------------------------------------------------------
(* Arithmetic of the two places where the cache meets the claims.          *)

LEMMA ClockIsSane == ASSUME OidcTypeOK PROVE NowUnix(wall) = wall
BY ModuleAssumption, PolicyAssumption DEF OidcTypeOK, NowUnix

(* What a bearer acceptance gives, at any time the model can reach.        *)
LEMMA BearerFacts ==
    ASSUME NEW k \in Genuine, NEW t \in ClockFloor..MaxWall, NEW aud,
           ClaimsOf[k] # Malformed, Accepts(ClaimsOf[k], t, aud)
    PROVE  /\ Admissible(ClaimsOf[k], t, aud)
           /\ Trusted(aud) \in Audiences(ClaimsOf[k])
           /\ 2 * (t - ClockSkew) <= ClaimsOf[k].exp.value
           /\ ClaimsOf[k].exp.type = "number" /\ ClaimsOf[k].exp.value \in Int
<1>1. WellFormed(ClaimsOf[k])
  BY ModuleAssumption
<1>2. t \in Nat /\ t < I64Max - ClockSkew
  BY ModuleAssumption, PolicyAssumption
<1>3. Admissible(ClaimsOf[k], t, aud)
  BY <1>1, <1>2, PolicyIsExact
<1>. QED  BY <1>1, <1>3 DEF Admissible, WithinLife, WellFormed

(* The lifetime the engine stores, counted from a later second than the    *)
(* one it was computed for.                                                *)
LEMMA StoredLife ==
    ASSUME NEW c, c.exp.type = "number", c.exp.value \in Int,
           NEW t \in ClockFloor..MaxWall, NEW w \in ClockFloor..MaxWall,
           t <= w, w - t <= MaxDelay
    PROVE  /\ Principal(c, t).ttl \in 0..MaxCacheTtl
           /\ w + Principal(c, t).ttl > w =>
                2 * (w + Principal(c, t).ttl - MaxDelay) <= c.exp.value
<1>1. Principal(c, t).ttl = CacheTtl(c.exp, t)
  BY DEF Principal
<1>2. t \in Nat /\ t <= I64Max
  BY ModuleAssumption, PolicyAssumption
<1>3. /\ CacheTtl(c.exp, t) \in 0..MaxCacheTtl
      /\ CacheTtl(c.exp, t) > 0 => 2 * (t + CacheTtl(c.exp, t)) <= c.exp.value
  BY <1>2, TtlIsWithinLife
<1>. QED  BY <1>1, <1>3, ModuleAssumption, PolicyAssumption

-----------------------------------------------------------------------------
LEMMA InitInv == OidcInit => OidcInv
<1>. SUFFICES ASSUME OidcInit PROVE OidcInv
  OBVIOUS
<1>1. OidcTypeOK
  BY ModuleAssumption, PolicyAssumption DEF OidcInit, OidcTypeOK, Stages, Verdicts
<1>2. ASSUME NEW a \in Actors PROVE ActorInv(a)
  BY ModuleAssumption, PolicyAssumption
     DEF OidcInit, ActorInv, Captured, Checked, Sound, Placed, Verifying
<1>3. ASSUME NEW k \in Credentials PROVE Backed(k)
  BY ModuleAssumption, PolicyAssumption DEF OidcInit, Backed
<1>4. ASSUME NEW s \in Sessions PROVE SameHop(s)
  BY DEF OidcInit, SameHop, Actors
<1>. QED  BY <1>1, <1>2, <1>3, <1>4 DEF OidcInv

(* A step of one actor touches no other actor's part of the invariant.     *)
LEMMA Others ==
    ASSUME OidcInv, NEW a \in Actors, wall' = wall,
           stage' = [stage EXCEPT ![a] = stage'[a]],
           presented' = [presented EXCEPT ![a] = presented'[a]],
           nowUnix' = [nowUnix EXCEPT ![a] = nowUnix'[a]],
           verdict' = [verdict EXCEPT ![a] = verdict'[a]]
    PROVE  \A b \in Actors \ {a} : ActorInv(b)'
<1>. SUFFICES ASSUME NEW b \in Actors \ {a} PROVE ActorInv(b)'
  OBVIOUS
<1>1. /\ stage'[b] = stage[b] /\ presented'[b] = presented[b] /\ nowUnix'[b] = nowUnix[b]
      /\ verdict'[b] = verdict[b]
  BY DEF OidcInv, OidcTypeOK
<1>2. ActorInv(b)
  BY DEF OidcInv
<1>. QED
  BY <1>1, <1>2
     DEF ActorInv, Captured, Checked, Sound, Placed, Verifying, Claims

(* A step of a request leaves the logins alone, and the cache, unless it   *)
(* is Store.                                                               *)
LEMMA RequestFrame ==
    ASSUME OidcInv, NEW r \in Requests, stage' = [stage EXCEPT ![r] = stage'[r]],
           UNCHANGED hopClient
    PROVE  \A s \in Sessions : SameHop(s)'
BY ModuleAssumption DEF OidcInv, SameHop, OidcTypeOK, Actors

LEMMA CacheFrame ==
    ASSUME OidcInv, UNCHANGED <<wall, cachedUntil>>
    PROVE  \A k \in Credentials : Backed(k)'
BY DEF OidcInv, Backed

LEMMA RequestInv ==
    ASSUME OidcInv, NEW r \in Requests,
           CacheHit(r) \/ Authenticate(r) \/ BearerClaims(r) \/ Store(r)
    PROVE  OidcInv'
<1>. USE DEF Actors
<1>1. /\ r \in Actors /\ r \notin Sessions /\ ActorInv(r) /\ OidcTypeOK
      /\ stage[r] \in {"idle", "keys", "claims", "store"}
  BY ModuleAssumption DEF OidcInv, ActorInv, Placed
<1>2. ASSUME CacheHit(r) PROVE OidcInv'
  <2>1. PICK k \in Credentials : wall < cachedUntil[k] /\ presented' = [presented EXCEPT ![r] = k]
    BY <1>2 DEF CacheHit
  <2>2. Backed(k) /\ cachedUntil[k] \in Int /\ wall \in ClockFloor..MaxWall
    BY <1>1 DEF OidcInv, OidcTypeOK
  <2>3. /\ k \in Genuine /\ Trusted(Audience) \in Audiences(ClaimsOf[k])
        /\ ClaimsOf[k] # Malformed /\ ClaimsOf[k].exp.type = "number"
        /\ 2 * (cachedUntil[k] - MaxDelay) <= ClaimsOf[k].exp.value
    BY <2>1, <2>2 DEF Backed
  <2>4. k \in Credentials /\ stage' = [stage EXCEPT ![r] = "idle"]
        /\ verdict' = [verdict EXCEPT ![r] = "cached"] /\ nowUnix' = [nowUnix EXCEPT ![r] = wall]
    BY <1>2 DEF CacheHit, End, MoveTo
  <2>5. OidcTypeOK'
    BY <1>1, <1>2, <2>1, <2>4, ModuleAssumption DEF CacheHit, OidcTypeOK, Stages, Verdicts
  <2>6. ActorInv(r)'
    <3>1. /\ stage'[r] = "idle" /\ verdict'[r] = "cached" /\ presented'[r] = k
          /\ nowUnix'[r] = wall /\ wall' = wall
      BY <1>1, <1>2, <2>1, <2>4 DEF OidcTypeOK, CacheHit
    <3>2. 2 * (nowUnix'[r] - MaxDelay) < ClaimsOf[k].exp.value
      <4>1. WellFormed(ClaimsOf[k]) /\ ClaimsOf[k].exp.type = "number"
        BY <2>3, ModuleAssumption
      <4>2. ClaimsOf[k].exp.value \in Int
        BY <4>1 DEF WellFormed
      <4>. QED
        BY <2>1, <2>2, <2>3, <3>1, <4>2, ModuleAssumption, PolicyAssumption
    <3>. QED
      BY <1>1, <2>2, <2>3, <3>1, <3>2, ModuleAssumption, PolicyAssumption
         DEF ActorInv, Captured, Checked, Sound, Placed, Verifying, Claims
  <2>. QED
    BY <1>1, <1>2, <2>1, <2>4, <2>5, <2>6, Others, RequestFrame, CacheFrame
       DEF CacheHit, OidcInv, OidcTypeOK
<1>3. ASSUME Authenticate(r) PROVE OidcInv'
  <2>1. PICK k \in Credentials \cup {NoCredential} :
          /\ presented' = [presented EXCEPT ![r] = k]
          /\ \/ k \in JwtShaped /\ StartVerify(r)
             \/ k \notin JwtShaped /\ End(r, "pass") /\ UNCHANGED nowUnix
    BY <1>3 DEF Authenticate
  <2>2. /\ UNCHANGED <<wall, endpoints, hopClient, cachedUntil>>
        /\ \/ /\ stage' = [stage EXCEPT ![r] = "keys"] /\ verdict' = [verdict EXCEPT ![r] = "none"]
              /\ nowUnix' = [nowUnix EXCEPT ![r] = wall]
           \/ /\ stage' = [stage EXCEPT ![r] = "idle"] /\ verdict' = [verdict EXCEPT ![r] = "pass"]
              /\ nowUnix' = nowUnix
    BY <1>1, <1>3, <2>1, ClockIsSane DEF Authenticate, StartVerify, End, MoveTo
  <2>3. OidcTypeOK'
    BY <1>1, <2>1, <2>2 DEF OidcTypeOK, Stages, Verdicts
  <2>4. ActorInv(r)'
    BY <1>1, <2>1, <2>2, ModuleAssumption, PolicyAssumption
       DEF OidcTypeOK, ActorInv, Captured, Checked, Sound, Placed, Verifying, Claims
  <2>5. /\ stage' = [stage EXCEPT ![r] = stage'[r]]
        /\ presented' = [presented EXCEPT ![r] = presented'[r]]
        /\ nowUnix' = [nowUnix EXCEPT ![r] = nowUnix'[r]]
        /\ verdict' = [verdict EXCEPT ![r] = verdict'[r]]
    BY <1>1, <2>1, <2>2 DEF OidcTypeOK
  <2>6. \A b \in Actors \ {r} : ActorInv(b)'
    BY <1>1, <2>2, <2>5, Others
  <2>7. (\A s \in Sessions : SameHop(s)') /\ (\A x \in Credentials : Backed(x)')
    BY <2>2, <2>5, RequestFrame, CacheFrame
  <2>. QED
    BY <2>3, <2>4, <2>6, <2>7 DEF OidcInv
<1>4. ASSUME BearerClaims(r) PROVE OidcInv'
  <2>1. /\ UNCHANGED <<endpoints, wall, presented, nowUnix, hopClient, cachedUntil>>
        /\ stage[r] = "claims" /\ presented[r] \in Genuine
        /\ \/ /\ BearerAccepts(ClaimsOf[presented[r]], nowUnix[r])
              /\ stage' = [stage EXCEPT ![r] = "store"] /\ verdict' = verdict
           \/ stage' = [stage EXCEPT ![r] = "idle"] /\ verdict' = [verdict EXCEPT ![r] = "reject"]
    BY <1>1, <1>4 DEF BearerClaims, End, MoveTo, OidcTypeOK
  <2>2. OidcTypeOK'
    BY <1>1, <2>1 DEF OidcTypeOK, Stages, Verdicts
  <2>3. ActorInv(r)'
    BY <1>1, <2>1 DEF OidcTypeOK, ActorInv, Captured, Checked, Sound, Placed, Verifying, Claims
  <2>. QED
    BY <1>1, <2>1, <2>2, <2>3, Others, RequestFrame, CacheFrame DEF OidcInv, OidcTypeOK
<1>5. ASSUME Store(r) PROVE OidcInv'
  <2>1. PICK k, ttl : k \in Genuine /\ k = presented[r]
                      /\ ttl = Principal(ClaimsOf[k], nowUnix[r]).ttl
    BY <1>1, <1>5 DEF Store, OidcTypeOK
  <2>2. /\ UNCHANGED <<endpoints, wall, presented, nowUnix, hopClient>> /\ stage[r] = "store"
        /\ stage' = [stage EXCEPT ![r] = "idle"] /\ verdict' = [verdict EXCEPT ![r] = "identify"]
        /\ cachedUntil' = [cachedUntil EXCEPT ![k] = wall + ttl]
    BY <1>5, <2>1 DEF Store, End, MoveTo
  <2>3. /\ ClaimsOf[k] # Malformed /\ Accepts(ClaimsOf[k], nowUnix[r], Audience)
        /\ nowUnix[r] <= wall /\ wall - nowUnix[r] <= MaxDelay
    BY <1>1, <2>1, <2>2 DEF ActorInv, Checked, Captured, Verifying, BearerAccepts
  <2>4. nowUnix[r] \in ClockFloor..MaxWall /\ wall \in ClockFloor..MaxWall
    BY <1>1 DEF OidcTypeOK
  <2>5. /\ Trusted(Audience) \in Audiences(ClaimsOf[k])
        /\ 2 * (nowUnix[r] - ClockSkew) <= ClaimsOf[k].exp.value
        /\ ClaimsOf[k].exp.type = "number" /\ ClaimsOf[k].exp.value \in Int
    BY <2>1, <2>3, <2>4, BearerFacts
  <2>6. /\ ttl \in 0..MaxCacheTtl
        /\ wall + ttl > wall => 2 * (wall + ttl - MaxDelay) <= ClaimsOf[k].exp.value
    BY <2>1, <2>3, <2>4, <2>5, StoredLife
  <2>7. wall + ttl \in 0..(MaxWall + MaxCacheTtl) /\ k \in Credentials
    BY <2>1, <2>4, <2>6, ModuleAssumption, PolicyAssumption
  <2>8. OidcTypeOK'
    BY <1>1, <2>1, <2>2, <2>7 DEF OidcTypeOK, Stages, Verdicts
  <2>9. ActorInv(r)'
    BY <1>1, <2>1, <2>2, <2>3, <2>5
       DEF OidcTypeOK, ActorInv, Captured, Checked, Sound, Placed, Verifying, Claims
  <2>10. ASSUME NEW j \in Credentials PROVE Backed(j)'
    <3>1. CASE j = k
      <4>1. cachedUntil'[j] = wall + ttl /\ wall' = wall
        BY <1>1, <2>2, <2>7, <3>1 DEF OidcTypeOK
      <4>2. wall \in Int /\ ttl \in Int /\ MaxDelay \in Int
        BY <2>4, <2>6, ModuleAssumption, PolicyAssumption
      <4>. QED  BY <2>1, <2>3, <2>5, <2>6, <3>1, <4>1, <4>2 DEF Backed
    <3>2. CASE j # k
      BY <1>1, <2>2, <2>7, <3>2 DEF Backed, OidcTypeOK, OidcInv
    <3>. QED  BY <3>1, <3>2
  <2>11. /\ stage' = [stage EXCEPT ![r] = stage'[r]]
         /\ presented' = [presented EXCEPT ![r] = presented'[r]]
         /\ nowUnix' = [nowUnix EXCEPT ![r] = nowUnix'[r]]
         /\ verdict' = [verdict EXCEPT ![r] = verdict'[r]]
         /\ UNCHANGED <<wall, hopClient>>
    BY <1>1, <2>2 DEF OidcTypeOK
  <2>12. /\ \A b \in Actors \ {r} : ActorInv(b)'
         /\ \A s \in Sessions : SameHop(s)'
    BY <1>1, <2>11, Others, RequestFrame
  <2>. QED
    BY <2>8, <2>9, <2>10, <2>12 DEF OidcInv
<1>. QED  BY <1>2, <1>3, <1>4, <1>5

-----------------------------------------------------------------------------
LEMMA WithKeyInv ==
    ASSUME OidcInv, NEW a \in Actors, WithKey(a)
    PROVE  OidcInv'
<1>1. ActorInv(a) /\ OidcTypeOK
  BY DEF OidcInv
<1>2. /\ UNCHANGED <<endpoints, wall, presented, nowUnix, hopClient, cachedUntil>>
      /\ stage[a] = "keys"
      /\ \/ /\ presented[a] \in Genuine /\ stage' = [stage EXCEPT ![a] = "claims"]
            /\ verdict' = verdict
         \/ stage' = [stage EXCEPT ![a] = "idle"] /\ verdict' = [verdict EXCEPT ![a] = "reject"]
  BY DEF WithKey, Signed, End, MoveTo
<1>3. OidcTypeOK'
  BY <1>1, <1>2 DEF OidcTypeOK, Stages, Verdicts
<1>4. ActorInv(a)'
  BY <1>1, <1>2 DEF OidcTypeOK, ActorInv, Captured, Checked, Sound, Placed, Verifying, Claims
<1>5. \A b \in Actors \ {a} : ActorInv(b)'
  <2>1. /\ stage' = [stage EXCEPT ![a] = stage'[a]]
        /\ presented' = [presented EXCEPT ![a] = presented'[a]]
        /\ nowUnix' = [nowUnix EXCEPT ![a] = nowUnix'[a]]
        /\ verdict' = [verdict EXCEPT ![a] = verdict'[a]] /\ wall' = wall
    BY <1>1, <1>2 DEF OidcTypeOK
  <2>. QED  BY <2>1, Others
<1>6. \A s \in Sessions : SameHop(s)'
  BY <1>1, <1>2 DEF OidcInv, SameHop, OidcTypeOK, Actors
<1>. QED  BY <1>2, <1>3, <1>4, <1>5, <1>6, CacheFrame DEF OidcInv

LEMMA SessionInv ==
    ASSUME OidcInv, NEW s \in Sessions,
           \/ BeginLogin(s) \/ CompleteWithCode(s) \/ ProviderAnswers(s)
           \/ CompleteWithResponse(s) \/ LoginClaims(s)
    PROVE  OidcInv'
<1>. USE DEF Actors
<1>1. s \in Actors /\ s \notin Requests /\ ActorInv(s) /\ OidcTypeOK /\ SameHop(s)
  BY ModuleAssumption DEF OidcInv
<1>2. ASSUME UNCHANGED <<endpoints, wall, cachedUntil>>, OidcTypeOK', ActorInv(s)', SameHop(s)',
             stage' = [stage EXCEPT ![s] = stage'[s]],
             presented' = [presented EXCEPT ![s] = presented'[s]],
             nowUnix' = [nowUnix EXCEPT ![s] = nowUnix'[s]],
             verdict' = [verdict EXCEPT ![s] = verdict'[s]],
             hopClient' = [hopClient EXCEPT ![s] = hopClient'[s]]
      PROVE  OidcInv'
  <2>1. \A b \in Actors \ {s} : ActorInv(b)'
    BY <1>1, <1>2, Others
  <2>2. \A z \in Sessions \ {s} : SameHop(z)'
    BY <1>1, <1>2 DEF OidcInv, SameHop, OidcTypeOK
  <2>. QED  BY <1>2, <2>1, <2>2, CacheFrame DEF OidcInv
<1>3. ASSUME BeginLogin(s) PROVE OidcInv'
  <2>1. /\ UNCHANGED <<endpoints, wall, nowUnix, cachedUntil>>
        /\ presented' = [presented EXCEPT ![s] = NoCredential]
        /\ \/ /\ hopClient' = [hopClient EXCEPT ![s] = ResolvedClientId]
              /\ verdict' = [verdict EXCEPT ![s] = "authorize"]
              /\ stage' = [stage EXCEPT ![s] = "authorizing"]
           \/ /\ hopClient' = hopClient
              /\ verdict' = [verdict EXCEPT ![s] = "reject"]
              /\ stage' = [stage EXCEPT ![s] = "idle"]
    BY <1>3 DEF BeginLogin, End, MoveTo
  <2>2. OidcTypeOK'
    BY <1>1, <2>1 DEF OidcTypeOK, Stages, Verdicts, ResolvedClientId
  <2>3. ActorInv(s)' /\ SameHop(s)'
    BY <1>1, <2>1
       DEF OidcTypeOK, ActorInv, Captured, Checked, Sound, Placed, Verifying, Claims, SameHop
  <2>. QED  BY <1>1, <1>2, <2>1, <2>2, <2>3 DEF OidcTypeOK
<1>4. ASSUME CompleteWithCode(s) PROVE OidcInv'
  <2>1. /\ UNCHANGED <<endpoints, wall, presented, nowUnix, cachedUntil>>
        /\ stage[s] = "authorizing"
        /\ \/ /\ hopClient' = [hopClient EXCEPT ![s] = ResolvedClientId]
              /\ verdict' = verdict /\ stage' = [stage EXCEPT ![s] = "exchange"]
           \/ /\ hopClient' = hopClient
              /\ verdict' = [verdict EXCEPT ![s] = "reject"]
              /\ stage' = [stage EXCEPT ![s] = "idle"]
    BY <1>4 DEF CompleteWithCode, End, MoveTo
  <2>2. OidcTypeOK'
    BY <1>1, <2>1 DEF OidcTypeOK, Stages, Verdicts, ResolvedClientId
  <2>3. ActorInv(s)' /\ SameHop(s)'
    BY <1>1, <2>1
       DEF OidcTypeOK, ActorInv, Captured, Checked, Sound, Placed, Verifying, Claims, SameHop
  <2>. QED  BY <1>1, <1>2, <2>1, <2>2, <2>3 DEF OidcTypeOK
<1>5. ASSUME ProviderAnswers(s) PROVE OidcInv'
  <2>1. PICK k \in Credentials \cup {NoCredential} : presented' = [presented EXCEPT ![s] = k]
    BY <1>5 DEF ProviderAnswers
  <2>2. /\ UNCHANGED <<endpoints, wall, nowUnix, verdict, hopClient, cachedUntil>>
        /\ stage[s] = "exchange" /\ stage' = [stage EXCEPT ![s] = "answered"]
    BY <1>5 DEF ProviderAnswers, MoveTo
  <2>3. OidcTypeOK'
    BY <1>1, <2>1, <2>2 DEF OidcTypeOK, Stages
  <2>4. ActorInv(s)' /\ SameHop(s)'
    BY <1>1, <2>1, <2>2
       DEF OidcTypeOK, ActorInv, Captured, Checked, Sound, Placed, Verifying, Claims, SameHop
  <2>. QED  BY <1>1, <1>2, <2>1, <2>2, <2>3, <2>4 DEF OidcTypeOK
<1>6. ASSUME CompleteWithResponse(s) PROVE OidcInv'
  <2>1. /\ UNCHANGED <<endpoints, wall, presented, hopClient, cachedUntil>> /\ stage[s] = "answered"
        /\ \/ /\ nowUnix' = [nowUnix EXCEPT ![s] = wall]
              /\ verdict' = [verdict EXCEPT ![s] = "none"] /\ stage' = [stage EXCEPT ![s] = "keys"]
           \/ /\ nowUnix' = nowUnix
              /\ verdict' = [verdict EXCEPT ![s] = "reject"]
              /\ stage' = [stage EXCEPT ![s] = "idle"]
    BY <1>1, <1>6, ClockIsSane DEF CompleteWithResponse, StartVerify, End, MoveTo
  <2>2. OidcTypeOK'
    BY <1>1, <2>1 DEF OidcTypeOK, Stages, Verdicts
  <2>3. ActorInv(s)' /\ SameHop(s)'
    BY <1>1, <2>1, ModuleAssumption, PolicyAssumption
       DEF OidcTypeOK, ActorInv, Captured, Checked, Sound, Placed, Verifying, Claims, SameHop
  <2>. QED  BY <1>1, <1>2, <2>1, <2>2, <2>3 DEF OidcTypeOK
<1>7. ASSUME LoginClaims(s) PROVE OidcInv'
  <2>1. /\ UNCHANGED <<endpoints, wall, presented, nowUnix, hopClient, cachedUntil>>
        /\ presented[s] \in Genuine /\ nowUnix[s] \in ClockFloor..MaxWall
        /\ stage' = [stage EXCEPT ![s] = "idle"]
        /\ \/ /\ LoginAccepts(Claims(s), nowUnix[s])
              /\ verdict' = [verdict EXCEPT ![s] = "identify"]
           \/ verdict' = [verdict EXCEPT ![s] = "reject"]
    BY <1>1, <1>7 DEF LoginClaims, End, MoveTo, Claims, OidcTypeOK
  <2>2. OidcTypeOK'
    BY <1>1, <2>1 DEF OidcTypeOK, Stages, Verdicts
  <2>3. LoginAccepts(Claims(s), nowUnix[s]) =>
          Admissible(Claims(s), nowUnix[s], ResolvedClientId)
    BY <2>1, BearerFacts DEF LoginAccepts, Claims
  <2>4. ActorInv(s)' /\ SameHop(s)'
    BY <1>1, <2>1, <2>3
       DEF OidcTypeOK, ActorInv, Captured, Checked, Sound, Placed, Verifying, Claims, SameHop
  <2>. QED  BY <1>1, <1>2, <2>1, <2>2, <2>4 DEF OidcTypeOK
<1>. QED  BY <1>3, <1>4, <1>5, <1>6, <1>7

LEMMA TickInv == OidcInv /\ WallTick => OidcInv'
<1>. SUFFICES ASSUME OidcInv, WallTick PROVE OidcInv'
  OBVIOUS
<1>1. /\ wall' = wall + 1 /\ wall < MaxWall /\ wall \in ClockFloor..MaxWall
      /\ UNCHANGED <<endpoints, stage, presented, nowUnix, verdict, hopClient, cachedUntil>>
      /\ \A a \in Actors : Verifying(a) => wall - nowUnix[a] < MaxDelay
  BY DEF WallTick, OidcInv, OidcTypeOK
<1>2. OidcTypeOK'
  BY <1>1, ModuleAssumption, PolicyAssumption DEF OidcInv, OidcTypeOK
<1>3. ASSUME NEW a \in Actors PROVE ActorInv(a)'
  <2>1. ActorInv(a) /\ nowUnix[a] \in ClockFloor..MaxWall
    BY DEF OidcInv, OidcTypeOK
  <2>2. nowUnix[a] <= wall + 1 /\ (Verifying(a) => wall + 1 - nowUnix[a] <= MaxDelay)
    BY <1>1, <2>1, ModuleAssumption, PolicyAssumption DEF ActorInv, Captured
  <2>. QED
    BY <1>1, <2>1, <2>2
       DEF ActorInv, Captured, Checked, Sound, Placed, Verifying, Claims
<1>4. ASSUME NEW k \in Credentials PROVE Backed(k)'
  <2>1. Backed(k) /\ cachedUntil[k] \in Int
    BY DEF OidcInv, OidcTypeOK
  <2>2. cachedUntil[k] > wall + 1 => cachedUntil[k] > wall
    BY <1>1, <2>1, ModuleAssumption, PolicyAssumption
  <2>. QED  BY <1>1, <2>1, <2>2 DEF Backed
<1>5. ASSUME NEW s \in Sessions PROVE SameHop(s)'
  BY <1>1 DEF OidcInv, SameHop
<1>. QED  BY <1>2, <1>3, <1>4, <1>5 DEF OidcInv

LEMMA OidcStep == OidcInv /\ [OidcNext]_oidcVars => OidcInv'
<1>1. OidcInv /\ UNCHANGED oidcVars => OidcInv'
  BY DEF oidcVars, OidcInv, OidcTypeOK, ActorInv, Captured, Checked, Sound, Placed, Verifying,
         Claims, Backed, SameHop
<1>. QED  BY <1>1, TickInv, WithKeyInv, RequestInv, SessionInv DEF OidcNext

LEMMA Invariance == OidcSpec => []OidcInv
BY OidcStep, InitInv, PTL DEF OidcSpec

-----------------------------------------------------------------------------
(* Every variable keeps its type; past the key check a token is genuine.   *)
THEOREM ModuleTypeCorrect == OidcSpec => []OidcTypeOK
BY Invariance, PTL DEF OidcInv

(* A bearer request stands only on a genuine token for the API's audience, *)
(* a login only on a genuine one for the OAuth client.                     *)
THEOREM ConfusionTheorem == OidcSpec => []NoTokenConfusion
<1>1. OidcInv => NoTokenConfusion
  BY DEF OidcInv, ActorInv, Sound, NoTokenConfusion, Admitted, Actors
<1>. QED  BY <1>1, Invariance, PTL

(* An identity is given within the skew of the token's expiry, and replayed *)
(* past the expiry for less than its verification took.                     *)
THEOREM ReplayTheorem == OidcSpec => []ReplayIsBounded
<1>1. OidcInv => ReplayIsBounded
  BY DEF OidcInv, ActorInv, Sound, ReplayIsBounded, Actors
<1>. QED  BY <1>1, Invariance, PTL

(* A login whose id_token was minted for the client_id of its own authorize *)
(* URL and exchange is not refused over its claims.                         *)
THEOREM LoginTheorem == OidcSpec => ConformingLoginSucceeds
<1>1. OidcInv /\ [OidcNext]_oidcVars =>
        [\A s \in Sessions :
           LoginClaims(s) /\ MintedForTheHop(s) => verdict'[s] = "identify"]_oidcVars
  <2>. SUFFICES ASSUME OidcInv, NEW s \in Sessions, LoginClaims(s), MintedForTheHop(s)
                PROVE  verdict'[s] = "identify"
    OBVIOUS
  <2>1. /\ presented[s] \in Genuine /\ nowUnix[s] \in ClockFloor..MaxWall
        /\ hopClient[s] = ResolvedClientId /\ s \in DOMAIN verdict
    BY DEF OidcInv, OidcTypeOK, LoginClaims, SameHop, Actors
  <2>2. WellFormed(Claims(s)) /\ Claims(s) # Malformed
    BY <2>1, ModuleAssumption DEF MintedForTheHop, Claims
  <2>3. nowUnix[s] \in Nat /\ nowUnix[s] < I64Max - ClockSkew
    BY <2>1, ModuleAssumption, PolicyAssumption
  <2>4. Accepts(Claims(s), nowUnix[s], ResolvedClientId)
    BY <2>1, <2>2, <2>3, PolicyIsExact DEF MintedForTheHop
  <2>. QED  BY <2>1, <2>2, <2>4 DEF LoginClaims, LoginAccepts, End, Claims
<1>. QED  BY <1>1, Invariance, PTL DEF OidcSpec, ConformingLoginSucceeds
=============================================================================
