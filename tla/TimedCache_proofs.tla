-------------------------- MODULE TimedCache_proofs --------------------------
(***************************************************************************)
(* Theorems of TimedCache, for any number of callers, any keys and any     *)
(* refetch interval longer than the timeout.                               *)
(***************************************************************************)
EXTENDS TimedCache, JwksCache_proofs

(* Attempts start when their stamp says, and end within the timeout.       *)
SinceInv == /\ fetchSince = lastAttempt
            /\ \A t \in Callers : pc[t] \in {"fetch", "install"} => clock <= lastAttempt + FetchTimeout

(* A call that has lasted at all found an attempt in flight when it came.  *)
PromptInv ==
    \A t \in Callers : pc[t] # "idle" =>
        \/ now[t] = clock
        \/ lastAttempt # NoTime /\ lastAttempt <= now[t] /\ clock <= lastAttempt + FetchTimeout

TimedInv == OrderedInv /\ SinceInv /\ PromptInv

LEMMA IntervalType == /\ MinRefetch \in Nat /\ FetchTimeout \in Nat
                      /\ FetchTimeout < MinRefetch /\ MinRefetch > 0
BY TimesAssumption, TimeoutAssumption

(* The types of what is compared.                                          *)
LEMMA StampTypes ==
    ASSUME OrderedInv
    PROVE  /\ clock \in Nat /\ lastAttempt \in Times /\ lastAttempt <= clock /\ fetches \in Nat
           /\ pc \in [Callers -> Steps] /\ now \in [Callers -> Nat]
           /\ \A t \in Callers : now[t] \in Nat /\ now[t] <= clock
           /\ fetches # 0 => lastAttempt # NoTime
BY DEF OrderedInv, SafeInv, TypeOK, TimeInv, FetchBudget

-----------------------------------------------------------------------------
(* A caller only claims an attempt at the moment it came: one that stood   *)
(* behind a fetch is still inside the interval.                            *)
LEMMA ClaimIsPrompt ==
    ASSUME TimedInv, NEW t \in Callers, pc[t] = "recheck", MayFetch(t)
    PROVE  /\ now[t] = clock
           /\ lastAttempt = NoTime \/ clock >= lastAttempt + MinRefetch
<1>1. lastAttempt = NoTime \/ Since(now[t], lastAttempt) >= MinRefetch
  BY DEF MayFetch, PermitsAttempt
<1>2. now[t] = clock \/ (lastAttempt # NoTime /\ lastAttempt <= now[t] /\ clock <= lastAttempt + FetchTimeout)
  BY DEF TimedInv, PromptInv
<1>3. clock \in Nat /\ now[t] \in Nat /\ now[t] <= clock /\ lastAttempt \in Times
  BY StampTypes DEF TimedInv
<1>4. CASE lastAttempt = NoTime
  BY <1>2, <1>4
<1>5. CASE lastAttempt # NoTime
  <2>1. lastAttempt \in Nat /\ now[t] - lastAttempt >= MinRefetch
    BY <1>1, <1>3, <1>5, IntervalType DEF Since, Times
  <2>. QED  BY <1>2, <1>3, <2>1, IntervalType
<1>. QED  BY <1>4, <1>5

(* What leaves the clock, the attempts and the arrivals alone.             *)
LEMMA QuietStep ==
    ASSUME TimedInv, OrderedInv', UNCHANGED <<clock, lastAttempt, fetches, now, fetchSince>>,
           \A u \in Callers : /\ pc'[u] # "idle" => pc[u] # "idle"
                              /\ pc'[u] \in {"fetch", "install"} => pc[u] \in {"fetch", "install"}
    PROVE  TimedInv'
BY DEF TimedInv, SinceInv, PromptInv

LEMMA TimedStep ==
    ASSUME TimedInv, [TimedNext]_timedVars
    PROVE  TimedInv'
<1>a. OrderedInv /\ [Next]_vars
  BY DEF TimedInv, TimedNext, timedVars
<1>b. OrderedInv'
  BY <1>a, OrderedStep, IntervalType
<1>c. /\ clock \in Nat /\ lastAttempt \in Times /\ lastAttempt <= clock /\ fetches \in Nat
      /\ pc \in [Callers -> Steps] /\ now \in [Callers -> Nat]
      /\ \A t \in Callers : now[t] \in Nat /\ now[t] <= clock
  BY <1>a, StampTypes
<1>1. CASE Tick /\ TimedNext
  <2>1. clock' = clock + 1 /\ UNCHANGED <<lastAttempt, fetches, now, pc, gate>>
    BY <1>1 DEF Tick, cacheVars, callVars
  <2>2. MayPass /\ fetchSince' = fetchSince
    BY <1>1, <1>c, <2>1 DEF TimedNext
  <2>3. ASSUME NEW u \in Callers, pc[u] \in {"fetch", "install"}
        PROVE  pc[u] = "fetch" /\ clock' <= lastAttempt + FetchTimeout /\ lastAttempt = now[u]
    <3>1. pc[u] = "fetch" /\ clock < fetchSince + FetchTimeout
      BY <2>2, <2>3 DEF MayPass, Still
    <3>2. fetchSince = lastAttempt /\ lastAttempt = now[u]
      BY <2>3 DEF TimedInv, SinceInv, OrderedInv, FlightInv
    <3>. QED  BY <1>c, <2>1, <3>1, <3>2, IntervalType
  <2>4. SinceInv'
    BY <2>1, <2>2, <2>3 DEF TimedInv, SinceInv
  <2>5. ASSUME NEW u \in Callers, pc[u] # "idle"
        PROVE  lastAttempt # NoTime /\ lastAttempt <= now[u] /\ clock' <= lastAttempt + FetchTimeout
    <3>1. CASE pc[u] = "fetch"
      BY <1>c, <2>3, <3>1 DEF NoTime
    <3>2. CASE pc[u] = "wait" /\ gate # Nobody
      <4>1. PICK h \in Callers : gate = h
        BY <1>a, <3>2 DEF OrderedInv, SafeInv, TypeOK
      <4>2. pc[h] \in {"recheck", "fetch", "install", "release"}
        BY <1>a, <4>1 DEF OrderedInv, SafeInv, GateInv, AtGate
      <4>3. pc[h] = "fetch"
        BY <2>2, <4>2 DEF MayPass, Still
      <4>4. clock' <= lastAttempt + FetchTimeout /\ lastAttempt = now[h]
        BY <2>3, <4>3
      <4>5. lastAttempt <= now[u]
        BY <1>c, <2>5 DEF TimedInv, PromptInv
      <4>. QED  BY <1>c, <4>4, <4>5 DEF NoTime
    <3>. QED  BY <2>2, <2>5, <3>1, <3>2 DEF MayPass, Still
  <2>6. PromptInv'
    BY <2>1, <2>5 DEF PromptInv
  <2>. QED  BY <1>b, <2>4, <2>6 DEF TimedInv
<1>2. ASSUME NEW t \in Callers, Call(t), TimedNext PROVE TimedInv'
  <2>1. /\ UNCHANGED <<clock, lastAttempt, fetches>> /\ now' = [now EXCEPT ![t] = clock]
        /\ pc' = [pc EXCEPT ![t] = "snapshot"]
    BY <1>2 DEF Call, Goto, cacheVars
  <2>2. fetchSince' = fetchSince
    BY <1>2, <2>1 DEF TimedNext
  <2>. QED  BY <1>b, <1>c, <2>1, <2>2 DEF TimedInv, SinceInv, PromptInv
<1>3. ASSUME NEW t \in Callers, Recheck(t), MayFetch(t), TimedNext PROVE TimedInv'
  <2>1. /\ pc[t] = "recheck" /\ UNCHANGED <<clock, now>>
        /\ lastAttempt' = now[t] /\ fetches' = fetches + 1 /\ pc' = [pc EXCEPT ![t] = "fetch"]
    BY <1>3 DEF Recheck, Goto, callVars
  <2>2. now[t] = clock /\ (lastAttempt = NoTime \/ clock >= lastAttempt + MinRefetch)
    BY <1>3, <2>1, ClaimIsPrompt
  <2>3. fetchSince' = clock /\ lastAttempt' = clock
    BY <1>3, <1>c, <2>1, <2>2 DEF TimedNext
  <2>4. SinceInv'
    BY <1>c, <2>1, <2>3, IntervalType DEF SinceInv
  <2>5. ASSUME NEW u \in Callers, pc[u] # "idle" PROVE now[u] = clock
    <3>1. lastAttempt = NoTime \/ lastAttempt \in Nat
      BY <1>c DEF Times
    <3>. QED  BY <1>c, <2>2, <2>5, <3>1, IntervalType DEF TimedInv, PromptInv
  <2>6. PromptInv'
    BY <1>c, <2>1, <2>5 DEF PromptInv
  <2>. QED  BY <1>b, <2>4, <2>6 DEF TimedInv
<1>4. ASSUME UNCHANGED <<clock, lastAttempt, fetches, now>>, TimedNext \/ UNCHANGED timedVars,
             \A u \in Callers : /\ pc'[u] # "idle" => pc[u] # "idle"
                                /\ pc'[u] \in {"fetch", "install"} => pc[u] \in {"fetch", "install"}
      PROVE  TimedInv'
  <2>1. fetchSince' = fetchSince
    BY <1>4 DEF TimedNext, timedVars
  <2>. QED  BY <1>b, <1>4, <2>1, QuietStep
<1>5. ASSUME NEW t \in Callers, Recheck(t), ~MayFetch(t), TimedNext PROVE TimedInv'
  BY <1>4, <1>5, <1>c DEF Recheck, Goto, callVars
<1>6. ASSUME NEW t \in Callers,
             Snapshot(t) \/ EnterRefresh(t) \/ TryGate(t) \/ ServeLost(t) \/ WaitGate(t)
             \/ Install(t) \/ Release(t) \/ Lookup(t), TimedNext
      PROVE  TimedInv'
  <2>1. UNCHANGED <<clock, lastAttempt, fetches, now>>
    BY <1>6 DEF Snapshot, EnterRefresh, TryGate, ServeLost, WaitGate, Install, Release, Lookup,
                cacheVars, callVars
  <2>2. \E step \in Steps \ {"fetch", "install"} : pc[t] # "idle" /\ pc' = [pc EXCEPT ![t] = step]
    BY <1>6 DEF Snapshot, EnterRefresh, TryGate, ServeLost, WaitGate, Install, Release, Lookup,
                LeaveRefresh, Return, Goto, Steps
  <2>. QED  BY <1>4, <1>6, <1>c, <2>1, <2>2
<1>7. ASSUME NEW t \in Callers, FetchAnswers(t) \/ FetchPanics(t), TimedNext PROVE TimedInv'
  <2>1. UNCHANGED <<clock, lastAttempt, fetches, now>>
    BY <1>7 DEF FetchAnswers, FetchPanics, cacheVars, callVars
  <2>2. \E step \in {"install", "idle"} : pc[t] = "fetch" /\ pc' = [pc EXCEPT ![t] = step]
    BY <1>7 DEF FetchAnswers, FetchPanics, Goto
  <2>. QED  BY <1>4, <1>7, <1>c, <2>1, <2>2
<1>8. CASE Rotate /\ TimedNext
  BY <1>4, <1>8 DEF Rotate, cacheVars, callVars
<1>9. CASE UNCHANGED timedVars
  BY <1>4, <1>9 DEF timedVars, vars, cacheVars, callVars
<1>. QED
  BY <1>1, <1>2, <1>3, <1>5, <1>6, <1>7, <1>8, <1>9 DEF TimedNext, Next, Advance, Answer

LEMMA TimedStart == TimedInit => TimedInv
BY InvInit DEF TimedInit, Init, TimedInv, SinceInv, PromptInv

LEMMA TimedAlways == TimedSpec => []TimedInv
BY TimedStart, TimedStep, PTL DEF TimedSpec

-----------------------------------------------------------------------------
LEMMA WaitBound == TimedInv => WithinOneTimeout
<1>. SUFFICES ASSUME TimedInv, NEW t \in Callers, pc[t] # "idle"
              PROVE  clock - now[t] <= FetchTimeout
  BY DEF WithinOneTimeout
<1>1. clock \in Nat /\ now[t] \in Nat /\ now[t] <= clock /\ lastAttempt \in Times
  BY StampTypes DEF TimedInv
<1>. QED  BY <1>1, IntervalType DEF TimedInv, PromptInv, Times, NoTime

(* cache.rs:30-34, for any number of callers that queue behind a fetch.    *)
THEOREM WaitTheorem == TimedSpec => []WithinOneTimeout
BY WaitBound, TimedAlways, PTL

(* A step that claims an attempt does so an interval after the last one.   *)
LEMMA ClaimIsSpaced ==
    ASSUME TimedInv, TimedNext, fetches' # fetches, fetchSince # NoTime
    PROVE  clock >= fetchSince + MinRefetch
<1>1. PICK t \in Callers : Recheck(t) /\ MayFetch(t)
  BY DEF TimedNext, Next, Advance, Answer, Tick, Rotate, Call, Snapshot, EnterRefresh, TryGate,
         ServeLost, WaitGate, Recheck, FetchAnswers, FetchPanics, Install, Release, Lookup, cacheVars
<1>. QED  BY <1>1, ClaimIsPrompt DEF Recheck, TimedInv, SinceInv

(* The provider is asked at most once in any interval of real time.        *)
THEOREM RateTheorem == TimedSpec => RateLimited
<1>1. TimedInv /\ [TimedNext]_timedVars =>
        [fetches' # fetches /\ fetchSince # NoTime => clock >= fetchSince + MinRefetch]_timedVars
  BY ClaimIsSpaced
<1>. QED  BY <1>1, TimedAlways, PTL DEF TimedSpec, RateLimited

(* An accepting step is a lookup's.                                        *)
LEMMA AcceptanceIsLookup ==
    ASSUME TimedInv, TimedNext, NEW t \in Callers, outcome'[t] = "ok", outcome[t] # "ok"
    PROVE  Lookup(t)
<1>. USE DEF TimedInv, OrderedInv, SafeInv, TypeOK
<1>1. ASSUME NEW u \in Callers, Call(u) \/ Advance(u) \/ Answer(u), u # t PROVE FALSE
  <2>1. \E o \in Outcomes : outcome' = [outcome EXCEPT ![u] = o] \/ outcome' = outcome
    BY <1>1 DEF Call, Advance, Answer, Snapshot, EnterRefresh, TryGate, ServeLost, WaitGate, Recheck,
       FetchAnswers, FetchPanics, Install, Release, Lookup, ServeWithinCeiling, LeaveRefresh, Return,
       localVars, Outcomes, Errors, TryAll
  <2>. QED  BY <1>1, <2>1
<1>2. ASSUME Call(t) \/ Answer(t) PROVE FALSE
  BY <1>2 DEF Call, Answer, FetchAnswers, FetchPanics
<1>3. ASSUME Snapshot(t) \/ EnterRefresh(t) \/ TryGate(t) \/ ServeLost(t) \/ WaitGate(t) \/ Recheck(t)
             \/ Install(t) \/ Release(t)
      PROVE FALSE
  BY <1>3 DEF Snapshot, EnterRefresh, TryGate, ServeLost, WaitGate, Recheck, Install, Release,
              ServeWithinCeiling, localVars
<1>4. ASSUME Tick \/ Rotate PROVE FALSE
  BY <1>4 DEF Tick, Rotate, localVars
<1>. QED  BY <1>1, <1>2, <1>3, <1>4 DEF TimedNext, Next, Advance

(* Revocation, in real time: the ceiling and one timeout.                  *)
THEOREM WithdrawalTheorem == TimedSpec => WithdrawnKeyEnds
<1>1. ASSUME TimedInv, TimedInv', TimedNext, NEW t \in Callers, outcome'[t] = "ok", outcome[t] # "ok",
             goneSince[token[t].signer] # NoTime
      PROVE  clock < goneSince[token[t].signer] + MaxStale + FetchTimeout
  <2>1. pc[t] = "lookup" /\ UNCHANGED <<clock, goneSince, now, token>>
    BY <1>1, AcceptanceIsLookup DEF Lookup, idpVars, callVars
  <2>2. now[t] < goneSince[token[t].signer] + MaxStale
    BY <1>1, <2>1 DEF TimedInv, OrderedInv, SafeInv, NoLongRevokedKey
  <2>3. clock \in Nat /\ now[t] \in Nat /\ lastAttempt \in Times /\ clock <= now[t] + FetchTimeout
    <3>1. clock \in Nat /\ now[t] \in Nat /\ now[t] <= clock /\ lastAttempt \in Times
      BY <1>1, StampTypes DEF TimedInv
    <3>2. now[t] = clock \/ (lastAttempt # NoTime /\ lastAttempt <= now[t] /\ clock <= lastAttempt + FetchTimeout)
      BY <1>1, <2>1 DEF TimedInv, PromptInv
    <3>. QED  BY <3>1, <3>2, IntervalType DEF Times, NoTime
  <2>4. goneSince[token[t].signer] \in Times
    BY <1>1, <2>1 DEF TimedInv, OrderedInv, SafeInv, TypeOK, SignerInv
  <2>. QED  BY <2>2, <2>3, <2>4, MaxStaleType, IntervalType DEF Times, NoTime
<1>2. TimedInv /\ TimedInv' /\ [TimedNext]_timedVars =>
        [\A t \in Callers :
           outcome'[t] = "ok" /\ outcome[t] # "ok" /\ goneSince[token[t].signer] # NoTime =>
             clock < goneSince[token[t].signer] + MaxStale + FetchTimeout]_timedVars
  BY <1>1
<1>. QED  BY <1>2, TimedAlways, PTL DEF TimedSpec, WithdrawnKeyEnds
=============================================================================
