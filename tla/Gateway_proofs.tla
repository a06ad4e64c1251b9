--------------------------- MODULE Gateway_proofs ----------------------------
(***************************************************************************)
(* Theorems of Gateway, for any callers, keys, credentials and claims.     *)
(* Every step of the gateway is a step of the timed cache and a step of the*)
(* module, so that what is proved of either holds of the two together.     *)
(***************************************************************************)
EXTENDS Gateway, TimedCache_proofs, OidcModule_proofs

(* A thread is in the cache exactly while its verification asks for a key. *)
InKeys(a) == stage[a] = "keys" <=> pc[a] # "idle"

(* The cache works on the token that the module was given, for the instant *)
(* at which the module read the wall clock.                                *)
SameCall(a) ==
    Verifying(a) => /\ presented[a] \in JwtShaped
                    /\ token[a] = SignedBy[presented[a]]
                    /\ nowUnix[a] = ClockFloor + now[a]

(* Past the cache a thread has a key's verdict, and no time is lost.       *)
Verified(a) == stage[a] \in {"claims", "store"} =>
                 outcome[a] = "ok" /\ clock - now[a] <= FetchTimeout

JointInv == /\ wall = ClockFloor + clock
            /\ \A a \in Actors : InKeys(a) /\ SameCall(a) /\ Verified(a)

GatewayInv == TimedInv /\ OidcInv /\ JointInv

(* The engine's cache keeps nothing for longer than the longest ttl, and   *)
(* no entry of a withdrawn key for longer than the bound.                  *)
Grace == MaxStale + FetchTimeout + MaxCacheTtl
Entry(k) == /\ cachedUntil[k] <= wall + MaxCacheTtl
            /\ wall < cachedUntil[k] /\ Gone(k) # NoTime =>
                 cachedUntil[k] < ClockFloor + Gone(k) + Grace

(* The first clause of WithdrawnKeyOpensNothing, for one actor.            *)
Identified(a) == verdict[a] = "identify" /\ Gone(presented[a]) # NoTime =>
                   nowUnix[a] < ClockFloor + Gone(presented[a]) + MaxStale

RevokedInv == /\ \A a \in Actors : Identified(a)
              /\ \A k \in Genuine : Entry(k)

-----------------------------------------------------------------------------
(* What the steps of one actor leave alone, in the cache and in the module. *)

CacheSame(b)  == /\ pc'[b] = pc[b] /\ now'[b] = now[b]
                 /\ token'[b] = token[b] /\ outcome'[b] = outcome[b]
ModuleSame(b) == /\ stage'[b] = stage[b] /\ presented'[b] = presented[b]
                 /\ nowUnix'[b] = nowUnix[b] /\ verdict'[b] = verdict[b]

(* The types that the lemmas below read off the two invariants.            *)
LEMMA JointTypes ==
    ASSUME GatewayInv
    PROVE  /\ Actors = Callers /\ TypeOK /\ OidcTypeOK /\ clock \in Nat /\ ClockFloor \in Nat
           /\ \A a \in Actors : now[a] \in Nat /\ now[a] <= clock
           /\ pc \in [Actors -> Steps] /\ outcome \in [Actors -> Outcomes]
           /\ now \in [Actors -> Nat] /\ token \in [Actors -> Tokens]
           /\ stage \in [Actors -> Stages] /\ verdict \in [Actors -> Verdicts]
           /\ presented \in [Actors -> Credentials \cup {NoCredential}]
           /\ nowUnix \in [Actors -> ClockFloor..MaxWall]
BY GatewayAssumption, PolicyAssumption
   DEF GatewayInv, TimedInv, OrderedInv, SafeInv, TypeOK, TimeInv, OidcInv, OidcTypeOK

LEMMA InsideCache ==
    ASSUME TypeOK, NEW t \in Callers, Advance(t) \/ Answer(t)
    PROVE  /\ pc[t] # "idle" /\ UNCHANGED <<clock, goneSince, now, token>>
           /\ \A b \in Callers \ {t} : CacheSame(b)
<1>. USE DEF TypeOK, CacheSame, idpVars, cacheVars, callVars, localVars, Goto
<1>1. CASE Snapshot(t)
  BY <1>1 DEF Snapshot
<1>2. CASE EnterRefresh(t)
  BY <1>2 DEF EnterRefresh, ServeWithinCeiling, LeaveRefresh
<1>3. CASE TryGate(t) \/ WaitGate(t)
  BY <1>3 DEF TryGate, WaitGate
<1>4. CASE ServeLost(t)
  BY <1>4 DEF ServeLost, ServeWithinCeiling, LeaveRefresh
<1>5. CASE Recheck(t)
  BY <1>5 DEF Recheck, ServeWithinCeiling
<1>6. CASE Install(t)
  BY <1>6 DEF Install
<1>7. CASE Release(t)
  BY <1>7 DEF Release, LeaveRefresh
<1>8. CASE Lookup(t)
  BY <1>8 DEF Lookup, Return
<1>9. CASE FetchAnswers(t) \/ FetchPanics(t)
  BY <1>9 DEF FetchAnswers, FetchPanics
<1>. QED
  BY <1>1, <1>2, <1>3, <1>4, <1>5, <1>6, <1>7, <1>8, <1>9 DEF Advance, Answer

LEMMA EnteringCache ==
    ASSUME TypeOK, NEW t \in Callers, Call(t)
    PROVE  /\ pc'[t] = "snapshot" /\ now'[t] = clock /\ clock' = clock /\ goneSince' = goneSince
           /\ \A b \in Callers \ {t} : CacheSame(b)
BY DEF TypeOK, CacheSame, Call, Goto, idpVars

LEMMA InsideModule ==
    ASSUME OidcTypeOK, NEW a \in Actors,
           Authenticate(a) \/ CompleteWithResponse(a) \/ Bearer(a) \/ Login(a)
    PROVE  wall' = wall /\ \A b \in Actors \ {a} : ModuleSame(b)
<1>. USE DEF OidcTypeOK, ModuleSame, End, MoveTo
<1>1. CASE Authenticate(a) \/ CompleteWithResponse(a)
  BY <1>1 DEF Authenticate, CompleteWithResponse, StartVerify
<1>2. CASE Bearer(a)
  BY <1>2 DEF Bearer, CacheHit, BearerClaims, Store
<1>3. CASE Login(a)
  BY <1>3 DEF Login, BeginLogin, CompleteWithCode, ProviderAnswers, LoginClaims
<1>. QED  BY <1>1, <1>2, <1>3

-----------------------------------------------------------------------------
(* Every step of the gateway is a step of the timed cache, or none of it.  *)
LEMMA ToTimed ==
    ASSUME TypeOK, [GatewayNext]_gatewayVars
    PROVE  [TimedNext]_timedVars
<1>. DEFINE Since1 == fetchSince' = IF fetches' # fetches THEN clock ELSE fetchSince
<1>1. CASE UNCHANGED gatewayVars
  BY <1>1 DEF gatewayVars
<1>2. ASSUME Next, Since1, clock' # clock => MayPass PROVE TimedNext
  BY <1>2 DEF TimedNext
<1>3. ASSUME UNCHANGED vars, Since1 PROVE UNCHANGED timedVars
  BY <1>3 DEF timedVars, vars, cacheVars
<1>4. CASE Elapse /\ Since1
  BY <1>2, <1>4 DEF Elapse, Next
<1>5. CASE Rotate /\ Since1
  BY <1>2, <1>5 DEF Rotate, Next
<1>6. ASSUME NEW t \in Callers, Advance(t) \/ Answer(t), Since1 PROVE TimedNext
  BY <1>2, <1>6, InsideCache DEF Next
<1>7. ASSUME NEW t \in Callers, Consult(t), Since1 PROVE TimedNext \/ UNCHANGED timedVars
  <2>1. CASE Call(t)
    BY <1>2, <1>7, <2>1, EnteringCache DEF Next
  <2>. QED  BY <1>3, <1>7, <2>1 DEF Consult, AskCache
<1>. QED
  BY <1>1, <1>3, <1>4, <1>5, <1>6, <1>7, GatewayAssumption DEF GatewayNext, InCache, Actors

LEMMA WaitBoundNext == TimedInv' => WithinOneTimeout'
BY WaitBound, PTL

(* with_key may let the clock run to the end of a fetch, and no further.   *)
LEMMA ElapseIsTick ==
    ASSUME GatewayInv, TimedInv', Elapse
    PROVE  WallTick
<1>1. /\ clock < MaxTime /\ clock' = clock + 1 /\ UNCHANGED <<pc, now>>
      /\ \A a \in Actors : stage[a] \notin {"claims", "store"}
  BY DEF Elapse, Tick, callVars
<1>2. wall < MaxWall
  BY <1>1, JointTypes, GatewayAssumption, TimesAssumption DEF GatewayInv, JointInv
<1>3. ASSUME NEW a \in Actors, Verifying(a) PROVE wall - nowUnix[a] < MaxDelay
  <2>1. pc[a] # "idle" /\ nowUnix[a] = ClockFloor + now[a] /\ wall = ClockFloor + clock
    BY <1>1, <1>3 DEF GatewayInv, JointInv, InKeys, SameCall, Verifying
  <2>2. WithinOneTimeout'
    BY WaitBoundNext
  <2>3. (clock + 1) - now[a] <= FetchTimeout
    BY <1>1, <2>1, <2>2, JointTypes DEF WithinOneTimeout
  <2>. QED  BY <2>1, <2>3, JointTypes, GatewayAssumption, IntervalType
<1>. QED  BY <1>2, <1>3 DEF Elapse, WallTick

(* with_key returns to the module what OidcModule lets it return.          *)
LEMMA ReturnIsWithKey ==
    ASSUME GatewayInv, TimedInv', NEW a \in Actors, InCache(a)
    PROVE  WithKey(a) \/ UNCHANGED oidcVars
<1>1. a \in Callers /\ pc[a] # "idle" /\ token' = token
  BY JointTypes, InsideCache DEF InCache
<1>2. stage[a] = "keys" /\ presented[a] \in JwtShaped /\ token[a] = SignedBy[presented[a]]
  BY <1>1 DEF GatewayInv, JointInv, InKeys, SameCall, Verifying
<1>3. ASSUME outcome'[a] = "ok" PROVE Signed(presented[a])
  <2>1. token[a].signer \in Keys
    BY <1>1, <1>3 DEF TimedInv, OrderedInv, SafeInv, SignerInv
  <2>. QED  BY <1>2, <2>1, GatewayAssumption DEF Signed
<1>4. CASE pc'[a] = "idle"
  BY <1>2, <1>3, <1>4 DEF InCache, KeyReturn, WithKey
<1>5. CASE pc'[a] # "idle"
  BY <1>5 DEF InCache, oidcVars
<1>. QED  BY <1>4, <1>5

(* Every step of the gateway is a step of the module, or none of it.       *)
LEMMA ToOidc ==
    ASSUME GatewayInv, TimedInv', [GatewayNext]_gatewayVars
    PROVE  [OidcNext]_oidcVars
<1>1. CASE UNCHANGED oidcVars
  BY <1>1
<1>2. CASE Elapse
  BY <1>2, ElapseIsTick DEF OidcNext
<1>3. ASSUME NEW a \in Actors, InCache(a) PROVE [OidcNext]_oidcVars
  BY <1>3, ReturnIsWithKey DEF OidcNext
<1>4. ASSUME NEW r \in Requests, Authenticate(r) \/ Bearer(r) PROVE OidcNext
  BY <1>4 DEF OidcNext, Bearer
<1>5. ASSUME NEW s \in Sessions, CompleteWithResponse(s) \/ Login(s) PROVE OidcNext
  BY <1>5 DEF OidcNext, Login
<1>. QED  BY <1>1, <1>2, <1>3, <1>4, <1>5 DEF GatewayNext, gatewayVars

-----------------------------------------------------------------------------
(* The two halves of a call stay together.                                 *)

LEMMA JointFrame ==
    ASSUME GatewayInv, NEW a \in Actors, UNCHANGED <<clock, wall>>,
           \A b \in Actors \ {a} : CacheSame(b) /\ ModuleSame(b),
           InKeys(a)', SameCall(a)', Verified(a)'
    PROVE  JointInv'
<1>1. wall' = ClockFloor + clock'
  BY DEF GatewayInv, JointInv
<1>2. ASSUME NEW b \in Actors \ {a} PROVE InKeys(b)' /\ SameCall(b)' /\ Verified(b)'
  BY <1>2 DEF GatewayInv, JointInv, InKeys, SameCall, Verified, Verifying, CacheSame, ModuleSame
<1>. QED  BY <1>1, <1>2 DEF JointInv

LEMMA CacheHalf ==
    ASSUME GatewayInv, TimedInv', NEW a \in Actors, InCache(a)
    PROVE  JointInv'
<1>. USE JointTypes
<1>1. /\ pc[a] # "idle" /\ UNCHANGED <<clock, now, token>>
      /\ \A b \in Actors \ {a} : CacheSame(b)
  BY InsideCache DEF InCache
<1>2. /\ UNCHANGED <<wall, presented, nowUnix>>
      /\ stage[a] = "keys"
      /\ \A b \in Actors \ {a} : ModuleSame(b)
      /\ \/ pc'[a] # "idle" /\ stage'[a] = "keys"
         \/ pc'[a] = "idle" /\ outcome'[a] = "ok" /\ stage'[a] = "claims"
         \/ pc'[a] = "idle" /\ stage'[a] = "idle"
  BY <1>1 DEF InCache, KeyReturn, End, MoveTo, ModuleSame, GatewayInv, JointInv, InKeys
<1>3. clock - now[a] <= FetchTimeout
  BY <1>1, WaitBound DEF GatewayInv, WithinOneTimeout
<1>4. InKeys(a)' /\ SameCall(a)' /\ Verified(a)'
  BY <1>1, <1>2, <1>3 DEF InKeys, SameCall, Verified, Verifying, GatewayInv, JointInv
<1>. QED  BY <1>1, <1>2, <1>4, JointFrame

(* The two clocks are read together when a verification starts.            *)
LEMMA ConsultHalf ==
    ASSUME GatewayInv, NEW a \in Actors, Authenticate(a) \/ CompleteWithResponse(a), Consult(a)
    PROVE  JointInv'
<1>. USE JointTypes
<1>1. /\ UNCHANGED wall /\ \A b \in Actors \ {a} : ModuleSame(b)
      /\ stage[a] \in {"idle", "answered"}
      /\ \/ /\ stage'[a] = "keys" /\ presented'[a] \in JwtShaped
            /\ nowUnix'[a] = NowUnix(wall)
         \/ stage'[a] = "idle"
  BY InsideModule DEF Authenticate, CompleteWithResponse, StartVerify, End, MoveTo
<1>2. NowUnix(wall) = ClockFloor + clock
  BY DEF NowUnix, GatewayInv, JointInv
<1>3. CASE stage'[a] = "keys" /\ AskCache(a)
  <2>1. /\ pc'[a] = "snapshot" /\ now'[a] = clock /\ clock' = clock
        /\ \A b \in Actors \ {a} : CacheSame(b)
    BY <1>3, EnteringCache DEF AskCache
  <2>2. token'[a] = SignedBy[presented'[a]]
    BY <1>3 DEF AskCache
  <2>3. InKeys(a)' /\ SameCall(a)' /\ Verified(a)'
    BY <1>1, <1>2, <1>3, <2>1, <2>2 DEF InKeys, SameCall, Verified, Verifying
  <2>. QED  BY <1>1, <2>1, <2>3, JointFrame
<1>4. CASE stage'[a] # "keys" /\ UNCHANGED vars
  <2>1. pc[a] = "idle" /\ clock' = clock /\ \A b \in Actors : CacheSame(b)
    BY <1>1, <1>4 DEF GatewayInv, JointInv, InKeys, vars, callVars, localVars, CacheSame
  <2>2. InKeys(a)' /\ SameCall(a)' /\ Verified(a)'
    BY <1>1, <1>4, <2>1 DEF InKeys, SameCall, Verified, Verifying, CacheSame
  <2>. QED  BY <1>1, <2>1, <2>2, JointFrame
<1>. QED  BY <1>3, <1>4 DEF Consult

LEMMA ModuleHalf ==
    ASSUME GatewayInv, NEW a \in Actors, Bearer(a) \/ Login(a), UNCHANGED vars
    PROVE  JointInv'
<1>. USE JointTypes
<1>1. clock' = clock /\ now' = now /\ \A b \in Actors : CacheSame(b)
  BY DEF vars, callVars, localVars, CacheSame
<1>2. UNCHANGED wall /\ \A b \in Actors \ {a} : ModuleSame(b)
  BY InsideModule
<1>3. /\ stage[a] # "keys" /\ stage'[a] # "keys"
      /\ Verifying(a)' => /\ stage[a] = "claims"
                          /\ presented'[a] = presented[a] /\ nowUnix'[a] = nowUnix[a]
  BY DEF Bearer, Login, CacheHit, BearerClaims, Store, BeginLogin, CompleteWithCode,
         ProviderAnswers, LoginClaims, End, MoveTo, Verifying
<1>4. InKeys(a)' /\ SameCall(a)' /\ Verified(a)'
  BY <1>1, <1>3 DEF GatewayInv, JointInv, InKeys, SameCall, Verified, Verifying, CacheSame
<1>. QED  BY <1>1, <1>2, <1>4, JointFrame

LEMMA GatewayStep == GatewayInv /\ [GatewayNext]_gatewayVars => GatewayInv'
<1>. SUFFICES ASSUME GatewayInv, [GatewayNext]_gatewayVars PROVE GatewayInv'
  OBVIOUS
<1>1. TimedInv'
  BY JointTypes, ToTimed, TimedStep DEF GatewayInv
<1>2. OidcInv'
  BY <1>1, ToOidc, OidcStep DEF GatewayInv
<1>3. JointInv'
  <2>1. CASE UNCHANGED <<clock, pc, now, token, outcome, oidcVars>>
    BY <2>1 DEF GatewayInv, JointInv, InKeys, SameCall, Verified, Verifying, oidcVars
  <2>2. CASE Elapse
    BY <2>2, JointTypes DEF Elapse, Tick, callVars, localVars, GatewayInv, JointInv,
                            InKeys, SameCall, Verified, Verifying
  <2>3. CASE Rotate /\ UNCHANGED oidcVars
    BY <2>1, <2>3 DEF Rotate, callVars, localVars
  <2>4. CASE UNCHANGED gatewayVars
    BY <2>1, <2>4 DEF gatewayVars, timedVars, vars, callVars, localVars
  <2>. QED
    BY <1>1, <2>2, <2>3, <2>4, CacheHalf, ConsultHalf, ModuleHalf DEF GatewayNext, Actors
<1>. QED  BY <1>1, <1>2, <1>3 DEF GatewayInv

LEMMA GatewayStart == GatewayInit => GatewayInv
<1>. SUFFICES ASSUME GatewayInit PROVE GatewayInv
  OBVIOUS
<1>1. TimedInv /\ OidcInv
  BY TimedStart, InitInv DEF GatewayInit
<1>2. JointInv
  BY PolicyAssumption, GatewayAssumption
     DEF GatewayInit, TimedInit, Init, OidcInit, JointInv, InKeys, SameCall, Verified, Verifying
<1>. QED  BY <1>1, <1>2 DEF GatewayInv

LEMMA GatewayAlways == GatewaySpec => []GatewayInv
BY GatewayStart, GatewayStep, PTL DEF GatewaySpec

-----------------------------------------------------------------------------
(* Revocation.                                                             *)

LEMMA RevokedTypes ==
    ASSUME GatewayInv
    PROVE  /\ \A k \in Genuine : Gone(k) \in Times /\ (Gone(k) # NoTime => Gone(k) \in Nat)
           /\ \A k \in Genuine : cachedUntil[k] \in Int
           /\ wall \in Int /\ wall = ClockFloor + clock /\ MaxCacheTtl \in Nat
           /\ MaxStale \in Nat /\ MaxStale > 0 /\ FetchTimeout \in Nat
           /\ Grace \in Nat /\ Grace = MaxStale + FetchTimeout + MaxCacheTtl
           /\ \A a \in Actors : nowUnix[a] \in Int /\ nowUnix[a] <= wall
           /\ \A a \in Actors : verdict[a] = "identify" => presented[a] \in Genuine
<1>1. \A k \in Genuine : Gone(k) \in Times
  BY JointTypes, GatewayAssumption DEF TypeOK, Gone
<1>2. \A k \in Genuine : cachedUntil[k] \in Int
  BY JointTypes, ModuleAssumption DEF OidcTypeOK
<1>3. wall = ClockFloor + clock
  BY DEF GatewayInv, JointInv
<1>4. MaxStale \in Nat /\ MaxStale > 0 /\ FetchTimeout \in Nat /\ MaxCacheTtl \in Nat
  BY MaxStaleType, IntervalType, PolicyAssumption
<1>5. \A a \in Actors : nowUnix[a] <= wall
  BY DEF GatewayInv, OidcInv, ActorInv, Captured
<1>6. ASSUME NEW a \in Actors PROVE nowUnix[a] \in Int
  <2>1. nowUnix[a] \in ClockFloor..MaxWall
    BY JointTypes
  <2>. QED  BY <2>1, ModuleAssumption, PolicyAssumption
<1>7. \A a \in Actors : verdict[a] = "identify" => presented[a] \in Genuine
  BY DEF GatewayInv, OidcInv, ActorInv, Sound, Actors
<1>. QED
  BY <1>1, <1>2, <1>3, <1>4, <1>5, <1>6, <1>7, JointTypes DEF Times, NoTime, Grace

(* A verdict that stands, or that is no identity.                          *)
LEMMA VerdictStands ==
    ASSUME RevokedInv, NEW a \in Actors, goneSince' = goneSince,
           ModuleSame(a) \/ verdict'[a] # "identify"
    PROVE  Identified(a)'
BY DEF RevokedInv, Identified, Gone, ModuleSame

(* An entry that is left alone while the clock may pass.                   *)
LEMMA EntryStands ==
    ASSUME GatewayInv, RevokedInv, goneSince' = goneSince, cachedUntil' = cachedUntil,
           wall' \in Int, wall <= wall'
    PROVE  \A k \in Genuine : Entry(k)'
<1>. SUFFICES ASSUME NEW k \in Genuine PROVE Entry(k)'
  OBVIOUS
<1>1. cachedUntil[k] \in Int /\ wall \in Int /\ MaxCacheTtl \in Nat
  BY RevokedTypes
<1>. QED  BY <1>1 DEF RevokedInv, Entry, Gone

(* Past the cache, the key was published within the ceiling.               *)
LEMMA KeyIsRecent ==
    ASSUME GatewayInv, NEW a \in Actors, stage[a] \in {"claims", "store"}
    PROVE  /\ presented[a] \in Genuine /\ nowUnix[a] = ClockFloor + now[a]
           /\ now[a] \in Nat /\ clock - now[a] <= FetchTimeout
           /\ Gone(presented[a]) # NoTime => now[a] < Gone(presented[a]) + MaxStale
<1>1. /\ outcome[a] = "ok" /\ clock - now[a] <= FetchTimeout
      /\ token[a] = SignedBy[presented[a]] /\ nowUnix[a] = ClockFloor + now[a]
  BY DEF GatewayInv, JointInv, SameCall, Verified, Verifying
<1>2. presented[a] \in Genuine /\ a \in Callers /\ now[a] \in Nat
  BY JointTypes DEF OidcTypeOK
<1>3. NoLongRevokedKey
  BY DEF GatewayInv, TimedInv, OrderedInv, SafeInv
<1>. QED  BY <1>1, <1>2, <1>3 DEF NoLongRevokedKey, Gone

LEMMA RevokedStep ==
    ASSUME GatewayInv, GatewayInv', RevokedInv, [GatewayNext]_gatewayVars
    PROVE  RevokedInv'
<1>. USE JointTypes
<1>1. CASE Rotate /\ UNCHANGED oidcVars
  <2>1. UNCHANGED <<clock, wall, verdict, presented, nowUnix, cachedUntil>>
    BY <1>1 DEF Rotate, oidcVars
  <2>2. ASSUME NEW k \in Genuine PROVE Gone(k)' \in {NoTime, clock, Gone(k)}
    <3>1. SignedBy[k].signer \in Keys
      BY GatewayAssumption
    <3>. QED  BY <1>1, <3>1 DEF Rotate, Gone
  <2>3. ASSUME NEW a \in Actors PROVE Identified(a)'
    <3>1. Identified(a)
      BY DEF RevokedInv
    <3>. QED  BY <2>1, <2>2, <3>1, RevokedTypes DEF Identified, Gone
  <2>4. ASSUME NEW k \in Genuine PROVE Entry(k)'
    <3>1. Entry(k)
      BY DEF RevokedInv
    <3>. QED  BY <2>1, <2>2, <3>1, RevokedTypes DEF Entry, Gone
  <2>. QED  BY <2>3, <2>4 DEF RevokedInv
<1>2. CASE Elapse
  <2>1. wall' = wall + 1 /\ UNCHANGED <<goneSince, verdict, presented, nowUnix, stage, cachedUntil>>
    BY <1>2 DEF Elapse, Tick, idpVars
  <2>2. \A k \in Genuine : Entry(k)'
    BY <2>1, EntryStands, RevokedTypes
  <2>. QED  BY <2>1, <2>2, VerdictStands DEF RevokedInv, ModuleSame
<1>3. ASSUME NEW a \in Actors, InCache(a) PROVE RevokedInv'
  <2>1. goneSince' = goneSince
    BY <1>3, InsideCache DEF InCache
  <2>2. /\ UNCHANGED <<wall, presented, nowUnix, cachedUntil>>
        /\ \A b \in Actors \ {a} : ModuleSame(b)
        /\ ModuleSame(a) \/ verdict'[a] # "identify"
    <3>1. Verifying(a)
      BY <1>3, InsideCache DEF InCache, GatewayInv, JointInv, InKeys, Verifying
    <3>2. verdict[a] = "none"
      BY <3>1 DEF GatewayInv, OidcInv, ActorInv, Placed
    <3>. QED  BY <1>3, <3>2 DEF InCache, KeyReturn, End, MoveTo, ModuleSame
  <2>. QED  BY <2>1, <2>2, VerdictStands, EntryStands, RevokedTypes DEF RevokedInv
<1>4. ASSUME NEW a \in Actors, Authenticate(a) \/ CompleteWithResponse(a), Consult(a)
      PROVE  RevokedInv'
  <2>1. goneSince' = goneSince
    BY <1>4, EnteringCache DEF Consult, AskCache, vars, idpVars
  <2>2. UNCHANGED <<wall, cachedUntil>> /\ verdict'[a] # "identify"
    BY <1>4 DEF Authenticate, CompleteWithResponse, StartVerify, End
  <2>. QED
    BY <1>4, <2>1, <2>2, InsideModule, VerdictStands, EntryStands, RevokedTypes DEF RevokedInv
<1>5. ASSUME NEW a \in Actors, UNCHANGED vars, UNCHANGED <<wall, cachedUntil>>,
             \A b \in Actors \ {a} : ModuleSame(b), Identified(a)'
      PROVE  RevokedInv'
  <2>1. goneSince' = goneSince
    BY <1>5 DEF vars, idpVars
  <2>. QED  BY <1>5, <2>1, VerdictStands, EntryStands, RevokedTypes DEF RevokedInv
<1>6. ASSUME NEW r \in Requests, Store(r), UNCHANGED vars PROVE RevokedInv'
  <2>1. PICK k, ttl : k = presented[r] /\ ttl = Principal(ClaimsOf[k], nowUnix[r]).ttl
    OBVIOUS
  <2>2. /\ r \in Actors /\ stage[r] = "store" /\ UNCHANGED <<goneSince, wall, presented, nowUnix>>
        /\ verdict' = [verdict EXCEPT ![r] = "identify"]
        /\ cachedUntil' = [cachedUntil EXCEPT ![k] = wall + ttl]
    BY <1>6, <2>1 DEF Store, End, Actors, vars, idpVars
  <2>3. /\ k \in Genuine /\ nowUnix[r] = ClockFloor + now[r]
        /\ now[r] \in Nat /\ clock - now[r] <= FetchTimeout
        /\ Gone(k) # NoTime => now[r] < Gone(k) + MaxStale
    BY <2>1, <2>2, KeyIsRecent
  <2>4. ttl \in 0..MaxCacheTtl
    <3>1. /\ nowUnix[r] \in ClockFloor..MaxWall /\ wall \in ClockFloor..MaxWall
          /\ nowUnix[r] <= wall /\ wall - nowUnix[r] <= MaxDelay
          /\ ClaimsOf[k] # Malformed /\ Accepts(ClaimsOf[k], nowUnix[r], Audience)
      BY <2>1, <2>2 DEF GatewayInv, OidcInv, OidcTypeOK, ActorInv, Captured, Checked, Verifying,
                        BearerAccepts
    <3>2. ClaimsOf[k].exp.type = "number" /\ ClaimsOf[k].exp.value \in Int
      BY <2>3, <3>1, BearerFacts
    <3>. QED  BY <2>1, <3>1, <3>2, StoredLife
  <2>5. ASSUME NEW j \in Genuine PROVE Entry(j)'
    <3>1. CASE j = k
      <4>1. cachedUntil'[j] = wall + ttl /\ Gone(j)' = Gone(k) /\ wall' = wall
        BY <2>2, <2>3, <3>1, ModuleAssumption DEF OidcTypeOK, Gone
      <4>2. wall + ttl <= wall + MaxCacheTtl
        BY <2>4, RevokedTypes
      <4>3. Gone(k) # NoTime => wall + ttl < ClockFloor + Gone(k) + Grace
        BY <2>3, <2>4, RevokedTypes
      <4>. QED  BY <4>1, <4>2, <4>3 DEF Entry
    <3>2. CASE j # k
      <4>1. cachedUntil'[j] = cachedUntil[j] /\ Gone(j)' = Gone(j) /\ wall' = wall
        BY <2>2, <2>3, <3>2, ModuleAssumption DEF OidcTypeOK, Gone
      <4>. QED  BY <4>1 DEF Entry, RevokedInv
    <3>. QED  BY <3>1, <3>2
  <2>6. Identified(r)'
    <3>1. /\ Gone(presented[r])' = Gone(k) /\ verdict'[r] = "identify"
          /\ nowUnix'[r] = ClockFloor + now[r]
      BY <2>1, <2>2, <2>3 DEF Gone
    <3>2. Gone(k) # NoTime => ClockFloor + now[r] < ClockFloor + Gone(k) + MaxStale
      BY <2>3, RevokedTypes
    <3>. QED  BY <3>1, <3>2 DEF Identified, Gone
  <2>. QED
    BY <1>6, <2>2, <2>5, <2>6, InsideModule, VerdictStands DEF Bearer, RevokedInv
<1>7. ASSUME NEW s \in Sessions, LoginClaims(s), UNCHANGED vars PROVE RevokedInv'
  <2>1. /\ s \in Actors /\ s \notin Requests /\ stage[s] = "claims" /\ goneSince' = goneSince
        /\ UNCHANGED <<wall, presented, nowUnix, cachedUntil>>
    BY <1>7, ModuleAssumption DEF LoginClaims, Actors, vars, idpVars
  <2>2. Gone(presented[s]) # NoTime => nowUnix[s] < ClockFloor + Gone(presented[s]) + MaxStale
    BY <2>1, KeyIsRecent, RevokedTypes
  <2>3. Identified(s)'
    BY <2>1, <2>2 DEF Identified, Gone
  <2>. QED  BY <1>5, <1>7, <2>1, <2>3, InsideModule DEF Login
<1>8. ASSUME NEW a \in Actors, UNCHANGED vars,
             CacheHit(a) \/ BearerClaims(a) \/
             BeginLogin(a) \/ CompleteWithCode(a) \/ ProviderAnswers(a)
      PROVE  RevokedInv'
  <2>1. UNCHANGED <<wall, cachedUntil, goneSince>>
    BY <1>8 DEF CacheHit, BearerClaims, BeginLogin, CompleteWithCode, ProviderAnswers, vars, idpVars
  <2>2. verdict'[a] # "identify"
    <3>1. CASE CacheHit(a) \/ BeginLogin(a)
      BY <3>1 DEF CacheHit, BeginLogin, End
    <3>2. CASE BearerClaims(a) \/ CompleteWithCode(a) \/ ProviderAnswers(a)
      <4>1. verdict[a] \in {"none", "authorize"}
        BY <3>2 DEF BearerClaims, CompleteWithCode, ProviderAnswers, Verifying,
                    GatewayInv, OidcInv, ActorInv, Placed
      <4>. QED  BY <3>2, <4>1 DEF BearerClaims, CompleteWithCode, ProviderAnswers, End
    <3>. QED  BY <1>8, <3>1, <3>2
  <2>3. Identified(a)'
    BY <2>1, <2>2, VerdictStands
  <2>. QED  BY <1>5, <1>8, <2>1, <2>3, InsideModule DEF Bearer, Login
<1>9. CASE UNCHANGED gatewayVars
  <2>1. UNCHANGED <<goneSince, wall, cachedUntil>> /\ \A a \in Actors : ModuleSame(a)
    BY <1>9 DEF gatewayVars, timedVars, vars, idpVars, oidcVars, ModuleSame
  <2>. QED  BY <2>1, VerdictStands, EntryStands, RevokedTypes DEF RevokedInv
<1>. QED
  BY <1>1, <1>2, <1>3, <1>4, <1>6, <1>7, <1>8, <1>9 DEF GatewayNext, Bearer, Login, Actors

-----------------------------------------------------------------------------
(* The cache of the gateway is the cache of TimedCache: no thread of the   *)
(* module takes it where the cache's own callers could not.                *)
THEOREM GatewayCacheTheorem == GatewaySpec => TimedSpec
<1>1. GatewayInit => TimedInit
  BY DEF GatewayInit
<1>2. GatewayInv /\ [GatewayNext]_gatewayVars => [TimedNext]_timedVars
  BY JointTypes, ToTimed
<1>. QED  BY <1>1, <1>2, GatewayAlways, PTL DEF GatewaySpec, TimedSpec

(* The gateway implements the module: what OidcModule lets with_key do, in *)
(* what time and with what result, is what the cache does.                 *)
THEOREM GatewayModuleTheorem == GatewaySpec => ImplementsModule
<1>1. GatewayInit => OidcInit
  BY DEF GatewayInit
<1>2. GatewayInv /\ GatewayInv' /\ [GatewayNext]_gatewayVars => [OidcNext]_oidcVars
  BY ToOidc DEF GatewayInv
<1>. QED  BY <1>1, <1>2, GatewayAlways, PTL DEF GatewaySpec, OidcSpec, ImplementsModule

(* Hence, with the delay of a verification measured and no longer assumed: *)
(* no token is taken for what it was not minted for, a replay outlives its *)
(* token by less than one fetch, conforming logins succeed ...             *)
THEOREM GatewayAdmissionTheorem ==
    GatewaySpec => []NoTokenConfusion /\ []ReplayIsBounded /\ ConformingLoginSucceeds
BY GatewayModuleTheorem, ConfusionTheorem, ReplayTheorem, LoginTheorem, PTL DEF ImplementsModule

(* ... and requests and logins together wait for one fetch, and ask the    *)
(* provider once in an interval.                                           *)
THEOREM GatewayTimeTheorem ==
    GatewaySpec => []WithinOneTimeout /\ RateLimited /\ WithdrawnKeyEnds
BY GatewayCacheTheorem, WaitTheorem, RateTheorem, WithdrawalTheorem, PTL

(* Revocation from end to end, the engine's credential cache included.     *)
THEOREM GatewayRevocationTheorem == GatewaySpec => []WithdrawnKeyOpensNothing
<1>1. GatewayInit /\ GatewayInv => RevokedInv
  <2>. SUFFICES ASSUME GatewayInit, GatewayInv PROVE RevokedInv
    OBVIOUS
  <2>1. \A k \in Genuine : cachedUntil[k] = 0 /\ wall = ClockFloor
    BY ModuleAssumption DEF GatewayInit, OidcInit
  <2>2. \A a \in Actors : verdict[a] = "none"
    BY DEF GatewayInit, OidcInit
  <2>. QED  BY <2>1, <2>2, PolicyAssumption DEF RevokedInv, Identified, Entry
<1>2. GatewayInv /\ RevokedInv => WithdrawnKeyOpensNothing
  BY RevokedTypes, PolicyAssumption
     DEF RevokedInv, Identified, Entry, Grace, WithdrawnKeyOpensNothing, Actors
<1>. QED  BY <1>1, <1>2, GatewayAlways, GatewayStart, RevokedStep, PTL DEF GatewaySpec
=============================================================================
