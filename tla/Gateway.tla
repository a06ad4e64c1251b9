------------------------------- MODULE Gateway -------------------------------
(***************************************************************************)
(* The OIDC module over its JWKS cache, under one clock: what OidcModule   *)
(* leaves open about `with_key` (how long it takes, what it accepts) is    *)
(* decided here by TimedCache.  A thread that presents a JWT is the cache's*)
(* caller of the same name until `with_key` returns.                       *)
(***************************************************************************)
EXTENDS TimedCache, OidcModule

CONSTANT SignedBy   \* the kid a JWT names, and the key that signed it

(* The module's constants are what the cache and the tokens make of them.  *)
ASSUME GatewayAssumption ==
    /\ Callers = Actors
    /\ SignedBy \in [JwtShaped -> Tokens]
    /\ Genuine = {k \in JwtShaped : SignedBy[k].signer \in Keys}
    /\ MaxDelay = FetchTimeout
    /\ MaxWall = ClockFloor + MaxTime

gatewayVars == <<timedVars, oidcVars>>

GatewayInit == TimedInit /\ OidcInit

(* verify_with asks the cache for the token's kid, as of the Instant read  *)
(* beside now_unix, and will verify the signature of this very token.      *)
AskCache(a) == Call(a) /\ token'[a] = SignedBy[presented'[a]]

(* What with_key returns decides: a verified signature leads to the claims,*)
(* any error rejects.  A panic ends the thread without an identity.        *)
FaultyReturn(a) == IF outcome'[a] \in {"bad", "panic"} THEN End(a, "reject")
                   ELSE MoveTo(a, "claims") /\ UNCHANGED verdict
KeyReturn(a) == IF outcome'[a] = "ok" THEN MoveTo(a, "claims") /\ UNCHANGED verdict
                ELSE End(a, "reject")

(* The thread is inside with_key.                                          *)
InCache(a) ==
    /\ Advance(a) \/ Answer(a)
    /\ \/ pc'[a] # "idle" /\ UNCHANGED <<stage, verdict>>
       \/ pc'[a] = "idle" /\ KeyReturn(a)
    /\ UNCHANGED <<endpoints, wall, presented, nowUnix, hopClient, cachedUntil>>

(* A JWT goes to the cache, anything else is answered without it.          *)
Consult(a) == \/ stage'[a] = "keys" /\ AskCache(a)
              \/ stage'[a] # "keys" /\ UNCHANGED vars

(* Both clocks move, and only when no thread could.                        *)
Elapse == /\ Tick /\ MayPass
          /\ \A a \in Actors : stage[a] \notin {"claims", "store"}
          /\ wall' = wall + 1
          /\ UNCHANGED <<endpoints, stage, presented, nowUnix, verdict, hopClient, cachedUntil>>

(* What the module and the engine do without the cache.                    *)
Bearer(r) == CacheHit(r) \/ BearerClaims(r) \/ Store(r)
Login(s)  == BeginLogin(s) \/ CompleteWithCode(s) \/ ProviderAnswers(s) \/ LoginClaims(s)

GatewayNext ==
    /\ \/ Elapse
       \/ Rotate /\ UNCHANGED oidcVars
       \/ \E a \in Actors : InCache(a)
       \/ \E r \in Requests : \/ Authenticate(r) /\ Consult(r)
                              \/ Bearer(r) /\ UNCHANGED vars
       \/ \E s \in Sessions : \/ CompleteWithResponse(s) /\ Consult(s)
                              \/ Login(s) /\ UNCHANGED vars
    /\ fetchSince' = IF fetches' # fetches THEN clock ELSE fetchSince

GatewaySpec == GatewayInit /\ [][GatewayNext]_gatewayVars

-----------------------------------------------------------------------------
(* The gateway is the module of OidcModule: with_key accepts no token that *)
(* no key of the provider signed, and a verification lasts no longer than  *)
(* one fetch, whoever else fetches, rotates or fails meanwhile.            *)
ImplementsModule == OidcSpec

(* Revocation from end to end: an identity whose token was signed by a key *)
(* that the provider has withdrawn was asked for within the staleness      *)
(* ceiling of the withdrawal; and the engine's cache, which knows nothing  *)
(* of keys, serves no such identity for longer than that, one fetch and    *)
(* the longest ttl.                                                        *)
Gone(k) == goneSince[SignedBy[k].signer]
WithdrawnKeyOpensNothing ==
    /\ \A a \in Actors : verdict[a] = "identify" /\ Gone(presented[a]) # NoTime =>
         nowUnix[a] < ClockFloor + Gone(presented[a]) + MaxStale
    /\ \A k \in Genuine : wall < cachedUntil[k] /\ Gone(k) # NoTime =>
         cachedUntil[k] < ClockFloor + Gone(k) + MaxStale + FetchTimeout + MaxCacheTtl
=============================================================================
