-------------------------- MODULE JwksCache_proofs ---------------------------
(***************************************************************************)
(* Theorems of JwksCache, for any number of callers, any keys and any      *)
(* intervals.                                                              *)
(***************************************************************************)
EXTENDS JwksCache, TLAPS

-----------------------------------------------------------------------------
(* Lemmas about the operators.                                             *)

(* The ceiling is a positive duration: its floor is.                       *)
LEMMA MaxStaleType == MaxStale \in Nat /\ MaxStale > 0
<1>1. StaleFactor * Ttl \in Nat
  BY TimesAssumption
<1>. QED  BY <1>1, TimesAssumption DEF MaxStale, SaturatingMul

(* One more interval per fetch.                                            *)
LEMMA OneMoreInterval ==
    ASSUME NEW f \in Nat, NEW m \in Nat
    PROVE  f * m = (f - 1) * m + m
OBVIOUS

-----------------------------------------------------------------------------
(* A step of any caller, of the provider or of the clock keeps the types.  *)
LEMMA TypeStep == TypeOK /\ [Next]_vars => TypeOK'
<1> SUFFICES ASSUME TypeOK, [Next]_vars PROVE TypeOK'
  OBVIOUS
<1> USE DEF TypeOK
<1>1. CASE Tick
  BY <1>1 DEF Tick, idpVars, cacheVars, callVars, localVars
<1>2. CASE Rotate
  BY <1>2 DEF Rotate, cacheVars, callVars, localVars, Times, KeySet
<1>3. ASSUME NEW t \in Callers, Call(t) PROVE TypeOK'
  BY <1>3 DEF Call, Hold, Goto, idpVars, cacheVars, Times, NoTime, Steps, Outcomes
<1>4. ASSUME NEW t \in Callers, Snapshot(t) PROVE TypeOK'
  BY <1>4 DEF Snapshot, Hold, Goto, idpVars, cacheVars, callVars, Steps
<1>5. ASSUME NEW t \in Callers, ServeWithinCeiling(t)
      PROVE  /\ held' \in [Callers -> {NoKeys} \cup KeySet]
             /\ heldAt' \in [Callers -> Times]
             /\ outcome' \in [Callers -> Outcomes]
             /\ outcome'[t] = "none" \/ outcome'[t] # "none"
  BY <1>5 DEF ServeWithinCeiling, Hold, Outcomes, Errors
<1>6. ASSUME NEW t \in Callers, EnterRefresh(t) PROVE TypeOK'
  <2>1. CASE ServeWithinCeiling(t) /\ LeaveRefresh(t)
    BY <1>5, <1>6, <2>1 DEF EnterRefresh, LeaveRefresh, Goto, idpVars, cacheVars, callVars, Steps
  <2>2. CASE UNCHANGED <<held, heldAt, outcome>> /\ Goto(t, "try")
    <3>. DEFINE d == Waits(t) /\ (keys = NoKeys \/ PastCeiling(now[t]))
    <3>1. d \in BOOLEAN
      BY DEF Waits, PastCeiling
    <3>. HIDE DEF d
    <3>2. desperate' \in [Callers -> BOOLEAN]
      <4>1. desperate' = [desperate EXCEPT ![t] = d] \/ desperate' = [desperate EXCEPT ![t] = FALSE]
        BY <1>6 DEF EnterRefresh, LeaveRefresh, d
      <4>. QED  BY <3>1, <4>1
    <3>. QED  BY <1>6, <2>2, <3>2 DEF EnterRefresh, Goto, idpVars, cacheVars, callVars, Steps
  <2>. QED  BY <1>6, <2>1, <2>2 DEF EnterRefresh
<1>7. ASSUME NEW t \in Callers, TryGate(t) PROVE TypeOK'
  BY <1>7 DEF TryGate, Goto, idpVars, cacheVars, callVars, localVars, Steps
<1>8. ASSUME NEW t \in Callers, ServeLost(t) PROVE TypeOK'
  BY <1>5, <1>8 DEF ServeLost, LeaveRefresh, Goto, idpVars, cacheVars, callVars, Steps
<1>9. ASSUME NEW t \in Callers, WaitGate(t) PROVE TypeOK'
  BY <1>9 DEF WaitGate, Goto, idpVars, cacheVars, callVars, localVars, Steps
<1>10. ASSUME NEW t \in Callers, Recheck(t) PROVE TypeOK'
  <2>1. CASE ServeWithinCeiling(t) /\ Goto(t, "release") /\ UNCHANGED <<lastAttempt, fetches>>
    BY <1>5, <1>10, <2>1 DEF Recheck, Goto, idpVars, callVars, Steps
  <2>2. CASE lastAttempt' = now[t] /\ fetches' = fetches + 1 /\ Goto(t, "fetch")
             /\ UNCHANGED <<held, heldAt, outcome>>
    BY <1>10, <2>2 DEF Recheck, Goto, idpVars, callVars, Steps, Times
  <2>. QED  BY <1>10, <2>1, <2>2 DEF Recheck
<1>11. ASSUME NEW t \in Callers, FetchAnswers(t) PROVE TypeOK'
  BY <1>11 DEF FetchAnswers, Goto, idpVars, cacheVars, callVars, Steps, KeySet
<1>12. ASSUME NEW t \in Callers, FetchPanics(t) PROVE TypeOK'
  BY <1>12 DEF FetchPanics, Goto, idpVars, cacheVars, callVars, Steps, Outcomes, Errors
<1>13. ASSUME NEW t \in Callers, Install(t) PROVE TypeOK'
  <2>1. CASE Usable(body[t]) /\ keys' = body[t] /\ fetchedAt' = InstallStamp(t)
             /\ Hold(t, body[t], InstallStamp(t)) /\ UNCHANGED outcome
    BY <1>13, <2>1 DEF Install, Usable, Hold, Goto, InstallStamp, idpVars, callVars,
                       Steps, Times, KeySet
  <2>2. CASE Hold(t, keys, fetchedAt) /\ UNCHANGED <<keys, fetchedAt, outcome>>
    BY <1>13, <2>2 DEF Install, Hold, Goto, idpVars, callVars, Steps
  <2>3. CASE outcome' = [outcome EXCEPT ![t] = "fetch_error"]
             /\ UNCHANGED <<keys, fetchedAt, held, heldAt>>
    BY <1>13, <2>3 DEF Install, Goto, idpVars, callVars, Steps, Outcomes, Errors
  <2>. QED  BY <1>13, <2>1, <2>2, <2>3 DEF Install
<1>14. ASSUME NEW t \in Callers, Release(t) PROVE TypeOK'
  BY <1>14 DEF Release, LeaveRefresh, Goto, idpVars, cacheVars, callVars, Steps
<1>15. ASSUME NEW t \in Callers, Lookup(t) PROVE TypeOK'
  <2>1. TryAll(held[t], token[t]) \in {"miss", "ok", "bad"}
    BY DEF TryAll
  <2>. QED  BY <1>15, <2>1 DEF Lookup, Return, Goto, idpVars, cacheVars, callVars,
                               Steps, Outcomes, Errors
<1>16. CASE UNCHANGED vars
  BY <1>16 DEF vars, idpVars, cacheVars, callVars, localVars
<1>. QED
  BY <1>1, <1>2, <1>3, <1>4, <1>6, <1>7, <1>8, <1>9, <1>10, <1>11, <1>12,
     <1>13, <1>14, <1>15, <1>16 DEF Next, Advance, Answer

(* Every variable holds a value of its type, whatever the callers, the     *)
(* provider and the clock do.                                              *)
THEOREM TypeCorrect == Spec => []TypeOK
<1>1. Init => TypeOK
  BY TimesAssumption DEF Init, TypeOK, Times, NoTime, Steps, Outcomes
<1>. QED  BY <1>1, TypeStep, PTL DEF Spec

-----------------------------------------------------------------------------
(* The inductive invariant behind the safety properties that hold for any  *)
(* rate limit.                                                             *)

AtGate(t) == pc[t] \in {"recheck", "fetch", "install", "release"}

(* The gate is held by the caller whose code holds its guard.              *)
GateInv == \A t \in Callers : AtGate(t) <=> gate = t

(* No stamp is ahead of the clock.                                         *)
TimeInv == /\ fetchedAt <= clock /\ lastAttempt <= clock
           /\ \A t \in Callers : now[t] <= clock /\ heldAt[t] <= clock

(* The cached set and its stamp come and go together.                      *)
StampInv == keys = NoKeys <=> fetchedAt = NoTime

(* A set that was published at some moment at or after `stamp`: none of    *)
(* its keys was gone before.                                               *)
AliveSince(set, stamp) ==
    \A k \in set : goneSince[k] = NoTime \/ stamp <= goneSince[k]

AliveInv ==
    /\ \A k \in published : goneSince[k] = NoTime
    /\ \A k \in Keys : goneSince[k] <= clock
    /\ keys # NoKeys => AliveSince(keys, fetchedAt)
    /\ \A t \in Callers : held[t] # NoKeys => AliveSince(held[t], heldAt[t])
    /\ \A t \in Callers : body[t] # NoKeys => AliveSince(body[t], now[t])

(* An answer is only pending between the fetch and the install.            *)
BodyInv == \A t \in Callers : pc[t] # "install" => body[t] = NoKeys

(* An accepted token was signed by a key that exists.                      *)
SignerInv == \A t \in Callers : outcome[t] = "ok" => token[t].signer \in Keys

SafeInv == /\ TypeOK
           /\ GateInv /\ TimeInv /\ StampInv /\ AliveInv /\ BodyInv /\ SignerInv
           /\ CeilingRespected /\ NoLongRevokedKey /\ FetchBudget /\ RefusalIsTruthful

(* With a positive rate limit the stamps are ordered too: the attempt in   *)
(* flight is the last one, and nobody holds a set newer than the cache's.  *)
FlightInv == \A t \in Callers : pc[t] \in {"fetch", "install"} => lastAttempt = now[t]
OrderInv  == /\ fetchedAt <= lastAttempt
             /\ \A t \in Callers : held[t] # NoKeys => heldAt[t] <= fetchedAt

(* A call has no outcome before it returns or leaves refresh with an error.*)
OutcomeInv == \A t \in Callers : pc[t] \notin {"idle", "release"} => outcome[t] = "none"

OrderedInv == SafeInv /\ FlightInv /\ OrderInv /\ OutcomeInv /\ HolderNeverDenied

(* Each step keeps the invariant; under each action, the parts about the   *)
(* gate, the stamps, the publication history and the callers' sets.        *)
LEMMA SafeStep == SafeInv /\ [Next]_vars => SafeInv'
<1> SUFFICES ASSUME SafeInv, [Next]_vars PROVE SafeInv'
  OBVIOUS
<1>type. TypeOK /\ TypeOK'
  BY TypeStep DEF SafeInv
<1>1. CASE Tick
  <2>1. GateInv' /\ RefusalIsTruthful'
    BY <1>type, <1>1 DEF SafeInv, TypeOK, Tick, idpVars, cacheVars, callVars, localVars,
       GateInv, AtGate, RefusalIsTruthful, PastCeiling, PermitsAttempt
  <2>2. TimeInv' /\ StampInv' /\ FetchBudget'
    BY <1>type, <1>1 DEF SafeInv, TypeOK, Tick, idpVars, cacheVars, callVars, localVars,
       TimeInv, StampInv, FetchBudget, Times, NoTime
  <2>3. AliveInv' /\ BodyInv'
    BY <1>type, <1>1 DEF SafeInv, TypeOK, Tick, idpVars, cacheVars, callVars, localVars,
       AliveInv, AliveSince, BodyInv, TimeInv, Times, NoTime
  <2>4. CeilingRespected' /\ SignerInv' /\ NoLongRevokedKey'
    BY <1>type, <1>1 DEF SafeInv, TypeOK, Tick, idpVars, cacheVars, callVars, localVars,
       CeilingRespected, SignerInv, NoLongRevokedKey
  <2>. QED  BY <1>type, <2>1, <2>2, <2>3, <2>4 DEF SafeInv
<1>2. CASE Rotate
  <2>1. GateInv' /\ RefusalIsTruthful'
    BY <1>type, <1>2 DEF SafeInv, TypeOK, Rotate, cacheVars, callVars, localVars, GateInv,
       AtGate, RefusalIsTruthful, PastCeiling, PermitsAttempt
  <2>2. TimeInv' /\ StampInv' /\ FetchBudget'
    BY <1>type, <1>2 DEF SafeInv, TypeOK, Rotate, cacheVars, callVars, localVars, TimeInv,
       StampInv, FetchBudget, Times, NoTime
  <2>3. AliveInv' /\ BodyInv'
    BY <1>type, <1>2 DEF SafeInv, TypeOK, Rotate, cacheVars, callVars, localVars, AliveInv,
       AliveSince, BodyInv, TimeInv, Times, NoTime, KeySet
  <2>4. CeilingRespected' /\ SignerInv' /\ NoLongRevokedKey'
    BY <1>type, <1>2, MaxStaleType DEF SafeInv, TypeOK, Rotate, cacheVars, callVars,
       localVars, CeilingRespected, SignerInv, NoLongRevokedKey, TimeInv, AliveInv, Times,
       NoTime
  <2>. QED  BY <1>type, <2>1, <2>2, <2>3, <2>4 DEF SafeInv
<1>3. ASSUME NEW t \in Callers, Call(t) PROVE SafeInv'
  <2>1. GateInv' /\ RefusalIsTruthful'
    BY <1>type, <1>3 DEF SafeInv, TypeOK, Call, Goto, Hold, idpVars, cacheVars, GateInv,
       AtGate, RefusalIsTruthful, PastCeiling, PermitsAttempt
  <2>2. TimeInv' /\ StampInv' /\ FetchBudget'
    BY <1>type, <1>3 DEF SafeInv, TypeOK, Call, Goto, Hold, idpVars, cacheVars, TimeInv,
       StampInv, FetchBudget, Times, NoTime
  <2>3. AliveInv' /\ BodyInv'
    BY <1>type, <1>3 DEF SafeInv, TypeOK, Call, Goto, Hold, idpVars, cacheVars, AliveInv,
       AliveSince, BodyInv, TimeInv, Times, NoTime
  <2>4. CeilingRespected' /\ SignerInv' /\ NoLongRevokedKey'
    BY <1>type, <1>3 DEF SafeInv, TypeOK, Call, Goto, Hold, idpVars, cacheVars,
       CeilingRespected, SignerInv, NoLongRevokedKey
  <2>. QED  BY <1>type, <2>1, <2>2, <2>3, <2>4 DEF SafeInv
<1>4. ASSUME NEW t \in Callers, Snapshot(t) PROVE SafeInv'
  <2>1. GateInv' /\ RefusalIsTruthful'
    BY <1>type, <1>4 DEF SafeInv, TypeOK, Snapshot, Goto, Hold, idpVars, cacheVars,
       callVars, GateInv, AtGate, RefusalIsTruthful, PastCeiling, PermitsAttempt
  <2>2. TimeInv' /\ StampInv' /\ FetchBudget'
    BY <1>type, <1>4 DEF SafeInv, TypeOK, Snapshot, Goto, Hold, idpVars, cacheVars,
       callVars, TimeInv, StampInv, FetchBudget, Times, NoTime
  <2>3. AliveInv' /\ BodyInv'
    BY <1>type, <1>4 DEF SafeInv, TypeOK, Snapshot, Goto, Hold, idpVars, cacheVars,
       callVars, AliveInv, AliveSince, BodyInv, TimeInv
  <2>4. CeilingRespected' /\ SignerInv' /\ NoLongRevokedKey'
    BY <1>type, <1>4, MaxStaleType DEF SafeInv, TypeOK, Snapshot, Goto, Hold, idpVars,
       cacheVars, callVars, CeilingRespected, SignerInv, NoLongRevokedKey, PastCeiling,
       StampInv, Since, Times, NoTime
  <2>. QED  BY <1>type, <2>1, <2>2, <2>3, <2>4 DEF SafeInv
<1>5. ASSUME NEW t \in Callers, EnterRefresh(t) PROVE SafeInv'
  <2>1. GateInv' /\ RefusalIsTruthful'
    BY <1>type, <1>5 DEF SafeInv, TypeOK, EnterRefresh, ServeWithinCeiling, LeaveRefresh,
       Goto, Hold, idpVars, cacheVars, callVars, GateInv, AtGate, RefusalIsTruthful,
       PastCeiling, PermitsAttempt
  <2>2. TimeInv' /\ StampInv' /\ FetchBudget'
    BY <1>type, <1>5 DEF SafeInv, TypeOK, EnterRefresh, ServeWithinCeiling, LeaveRefresh,
       Goto, Hold, idpVars, cacheVars, callVars, TimeInv, StampInv, FetchBudget, Times,
       NoTime
  <2>3. AliveInv' /\ BodyInv'
    BY <1>type, <1>5 DEF SafeInv, TypeOK, EnterRefresh, ServeWithinCeiling, LeaveRefresh,
       Goto, Hold, idpVars, cacheVars, callVars, AliveInv, AliveSince, BodyInv, TimeInv
  <2>4. CeilingRespected' /\ SignerInv' /\ NoLongRevokedKey'
    BY <1>type, <1>5, MaxStaleType DEF SafeInv, TypeOK, EnterRefresh, ServeWithinCeiling,
       LeaveRefresh, Goto, Hold, idpVars, cacheVars, callVars, CeilingRespected, SignerInv,
       NoLongRevokedKey, PastCeiling, StampInv, Since, Times, NoTime
  <2>. QED  BY <1>type, <2>1, <2>2, <2>3, <2>4 DEF SafeInv
<1>6. ASSUME NEW t \in Callers, TryGate(t) PROVE SafeInv'
  <2>1. GateInv' /\ RefusalIsTruthful'
    BY <1>type, <1>6, CallersAssumption DEF SafeInv, TypeOK, TryGate, Goto, idpVars,
       cacheVars, callVars, localVars, GateInv, AtGate, RefusalIsTruthful, PastCeiling,
       PermitsAttempt
  <2>2. TimeInv' /\ StampInv' /\ FetchBudget'
    BY <1>type, <1>6 DEF SafeInv, TypeOK, TryGate, Goto, idpVars, cacheVars, callVars,
       localVars, TimeInv, StampInv, FetchBudget, Times, NoTime
  <2>3. AliveInv' /\ BodyInv'
    BY <1>type, <1>6 DEF SafeInv, TypeOK, TryGate, Goto, idpVars, cacheVars, callVars,
       localVars, AliveInv, AliveSince, BodyInv, TimeInv
  <2>4. CeilingRespected' /\ SignerInv' /\ NoLongRevokedKey'
    BY <1>type, <1>6 DEF SafeInv, TypeOK, TryGate, Goto, idpVars, cacheVars, callVars,
       localVars, CeilingRespected, SignerInv, NoLongRevokedKey
  <2>. QED  BY <1>type, <2>1, <2>2, <2>3, <2>4 DEF SafeInv
<1>7. ASSUME NEW t \in Callers, ServeLost(t) PROVE SafeInv'
  <2>1. GateInv' /\ RefusalIsTruthful'
    BY <1>type, <1>7 DEF SafeInv, TypeOK, ServeLost, ServeWithinCeiling, LeaveRefresh,
       Goto, Hold, idpVars, cacheVars, callVars, GateInv, AtGate, RefusalIsTruthful,
       PastCeiling, PermitsAttempt
  <2>2. TimeInv' /\ StampInv' /\ FetchBudget'
    BY <1>type, <1>7 DEF SafeInv, TypeOK, ServeLost, ServeWithinCeiling, LeaveRefresh,
       Goto, Hold, idpVars, cacheVars, callVars, TimeInv, StampInv, FetchBudget, Times,
       NoTime
  <2>3. AliveInv' /\ BodyInv'
    BY <1>type, <1>7 DEF SafeInv, TypeOK, ServeLost, ServeWithinCeiling, LeaveRefresh,
       Goto, Hold, idpVars, cacheVars, callVars, AliveInv, AliveSince, BodyInv, TimeInv
  <2>4. CeilingRespected' /\ SignerInv' /\ NoLongRevokedKey'
    BY <1>type, <1>7, MaxStaleType DEF SafeInv, TypeOK, ServeLost, ServeWithinCeiling,
       LeaveRefresh, Goto, Hold, idpVars, cacheVars, callVars, CeilingRespected, SignerInv,
       NoLongRevokedKey, PastCeiling, StampInv, Since, Times, NoTime
  <2>. QED  BY <1>type, <2>1, <2>2, <2>3, <2>4 DEF SafeInv
<1>8. ASSUME NEW t \in Callers, WaitGate(t) PROVE SafeInv'
  <2>1. GateInv' /\ RefusalIsTruthful'
    BY <1>type, <1>8, CallersAssumption DEF SafeInv, TypeOK, WaitGate, Goto, idpVars,
       cacheVars, callVars, localVars, GateInv, AtGate, RefusalIsTruthful, PastCeiling,
       PermitsAttempt
  <2>2. TimeInv' /\ StampInv' /\ FetchBudget'
    BY <1>type, <1>8 DEF SafeInv, TypeOK, WaitGate, Goto, idpVars, cacheVars, callVars,
       localVars, TimeInv, StampInv, FetchBudget, Times, NoTime
  <2>3. AliveInv' /\ BodyInv'
    BY <1>type, <1>8 DEF SafeInv, TypeOK, WaitGate, Goto, idpVars, cacheVars, callVars,
       localVars, AliveInv, AliveSince, BodyInv, TimeInv
  <2>4. CeilingRespected' /\ SignerInv' /\ NoLongRevokedKey'
    BY <1>type, <1>8 DEF SafeInv, TypeOK, WaitGate, Goto, idpVars, cacheVars, callVars,
       localVars, CeilingRespected, SignerInv, NoLongRevokedKey
  <2>. QED  BY <1>type, <2>1, <2>2, <2>3, <2>4 DEF SafeInv
<1>9. ASSUME NEW t \in Callers, Recheck(t) PROVE SafeInv'
  <2>1. GateInv' /\ RefusalIsTruthful'
    BY <1>type, <1>9, CallersAssumption DEF SafeInv, TypeOK, Recheck, ServeWithinCeiling,
       Goto, Hold, idpVars, callVars, GateInv, AtGate, RefusalIsTruthful, PastCeiling,
       PermitsAttempt, MayFetch, Satisfied
  <2>2. TimeInv' /\ StampInv' /\ FetchBudget'
    <3>1. TimeInv' /\ StampInv'
      BY <1>type, <1>9 DEF SafeInv, TypeOK, Recheck, ServeWithinCeiling, Hold, idpVars, callVars,
         TimeInv, StampInv, Times, NoTime
    <3>2. CASE UNCHANGED <<lastAttempt, fetches>>
      BY <1>type, <1>9, <3>1, <3>2 DEF SafeInv, TypeOK, Recheck, FetchBudget
    <3>3. CASE MayFetch(t) /\ lastAttempt' = now[t] /\ fetches' = fetches + 1
      <4>1. now[t] \in Nat /\ now[t] <= clock /\ fetches \in Nat /\ MinRefetch \in Nat
            /\ clock' = clock
        BY <1>type, <1>9, TimesAssumption DEF SafeInv, TypeOK, TimeInv, Recheck
      <4>2. ASSUME fetches = 0 PROVE fetches * MinRefetch <= now[t]
        BY <4>1, <4>2
      <4>3. ASSUME fetches # 0 PROVE fetches * MinRefetch <= now[t]
        <5>. DEFINE spent == (fetches - 1) * MinRefetch
        <5>1. spent \in Nat /\ fetches * MinRefetch = spent + MinRefetch
          BY <4>1, <4>3, OneMoreInterval
        <5>2. spent <= lastAttempt /\ lastAttempt \in Nat
          BY <1>type, <4>3 DEF SafeInv, FetchBudget, TypeOK, Times, NoTime
        <5>3. Since(now[t], lastAttempt) >= MinRefetch
          BY <3>3, <5>2 DEF MayFetch, PermitsAttempt, NoTime
        <5>. HIDE DEF spent
        <5>4. fetches * MinRefetch <= now[t]
          <6>1. CASE now[t] >= lastAttempt
            BY <4>1, <5>1, <5>2, <5>3, <6>1 DEF Since
          <6>2. CASE ~(now[t] >= lastAttempt)
            <7>1. MinRefetch = 0
              BY <4>1, <5>2, <5>3, <6>2 DEF Since
            <7>. QED  BY <4>1, <7>1
          <6>. QED  BY <6>1, <6>2
        <5>. QED  BY <5>4
      <4>4. (fetches' - 1) * MinRefetch <= lastAttempt'
        <5>1. fetches' - 1 = fetches
          BY <3>3, <4>1
        <5>. QED  BY <3>3, <4>2, <4>3, <5>1
      <4>. QED  BY <3>1, <3>3, <4>1, <4>4 DEF FetchBudget, NoTime
    <3>. QED  BY <1>9, <3>2, <3>3 DEF Recheck
  <2>3. AliveInv' /\ BodyInv'
    BY <1>type, <1>9 DEF SafeInv, TypeOK, Recheck, ServeWithinCeiling, Goto, Hold, idpVars,
       callVars, AliveInv, AliveSince, BodyInv, TimeInv
  <2>4. CeilingRespected' /\ SignerInv' /\ NoLongRevokedKey'
    BY <1>type, <1>9, MaxStaleType DEF SafeInv, TypeOK, Recheck, ServeWithinCeiling, Goto,
       Hold, idpVars, callVars, CeilingRespected, SignerInv, NoLongRevokedKey, PastCeiling,
       StampInv, Since, Times, NoTime
  <2>. QED  BY <1>type, <2>1, <2>2, <2>3, <2>4 DEF SafeInv
<1>10. ASSUME NEW t \in Callers, FetchAnswers(t) PROVE SafeInv'
  <2>1. GateInv' /\ RefusalIsTruthful'
    BY <1>type, <1>10 DEF SafeInv, TypeOK, FetchAnswers, Goto, idpVars, cacheVars,
       callVars, GateInv, AtGate, RefusalIsTruthful, PastCeiling, PermitsAttempt
  <2>2. TimeInv' /\ StampInv' /\ FetchBudget'
    BY <1>type, <1>10 DEF SafeInv, TypeOK, FetchAnswers, Goto, idpVars, cacheVars,
       callVars, TimeInv, StampInv, FetchBudget, Times, NoTime
  <2>3. AliveInv' /\ BodyInv'
    BY <1>type, <1>10 DEF SafeInv, TypeOK, FetchAnswers, Goto, idpVars, cacheVars,
       callVars, AliveInv, AliveSince, BodyInv, TimeInv, KeySet
  <2>4. CeilingRespected' /\ SignerInv' /\ NoLongRevokedKey'
    BY <1>type, <1>10 DEF SafeInv, TypeOK, FetchAnswers, Goto, idpVars, cacheVars,
       callVars, CeilingRespected, SignerInv, NoLongRevokedKey
  <2>. QED  BY <1>type, <2>1, <2>2, <2>3, <2>4 DEF SafeInv
<1>11. ASSUME NEW t \in Callers, FetchPanics(t) PROVE SafeInv'
  <2>1. GateInv' /\ RefusalIsTruthful'
    BY <1>type, <1>11, CallersAssumption DEF SafeInv, TypeOK, FetchPanics, Goto, idpVars,
       cacheVars, callVars, GateInv, AtGate, RefusalIsTruthful, PastCeiling, PermitsAttempt
  <2>2. TimeInv' /\ StampInv' /\ FetchBudget'
    BY <1>type, <1>11 DEF SafeInv, TypeOK, FetchPanics, Goto, idpVars, cacheVars, callVars,
       TimeInv, StampInv, FetchBudget, Times, NoTime
  <2>3. AliveInv' /\ BodyInv'
    BY <1>type, <1>11 DEF SafeInv, TypeOK, FetchPanics, Goto, idpVars, cacheVars, callVars,
       AliveInv, AliveSince, BodyInv, TimeInv
  <2>4. CeilingRespected' /\ SignerInv' /\ NoLongRevokedKey'
    BY <1>type, <1>11 DEF SafeInv, TypeOK, FetchPanics, Goto, idpVars, cacheVars, callVars,
       CeilingRespected, SignerInv, NoLongRevokedKey
  <2>. QED  BY <1>type, <2>1, <2>2, <2>3, <2>4 DEF SafeInv
<1>12. ASSUME NEW t \in Callers, Install(t) PROVE SafeInv'
  <2>1. GateInv' /\ RefusalIsTruthful'
    BY <1>type, <1>12 DEF SafeInv, TypeOK, Install, InstallStamp, Usable, Goto, Hold,
       idpVars, callVars, GateInv, AtGate, RefusalIsTruthful, PastCeiling, PermitsAttempt,
       KeepsPrevious
  <2>2. TimeInv' /\ StampInv' /\ FetchBudget'
    BY <1>type, <1>12 DEF SafeInv, TypeOK, Install, InstallStamp, Usable, Goto, Hold,
       idpVars, callVars, TimeInv, StampInv, FetchBudget, Times, NoTime, KeySet
  <2>3. AliveInv' /\ BodyInv'
    BY <1>type, <1>12 DEF SafeInv, TypeOK, Install, InstallStamp, Usable, Goto, Hold,
       idpVars, callVars, AliveInv, AliveSince, BodyInv, TimeInv, KeySet
  <2>4. CeilingRespected' /\ SignerInv' /\ NoLongRevokedKey'
    BY <1>type, <1>12, MaxStaleType DEF SafeInv, TypeOK, Install, InstallStamp, Usable,
       Goto, Hold, idpVars, callVars, CeilingRespected, SignerInv, NoLongRevokedKey,
       KeepsPrevious, PastCeiling, StampInv, Since, NoTime, Times
  <2>. QED  BY <1>type, <2>1, <2>2, <2>3, <2>4 DEF SafeInv
<1>13. ASSUME NEW t \in Callers, Release(t) PROVE SafeInv'
  <2>1. GateInv' /\ RefusalIsTruthful'
    BY <1>type, <1>13, CallersAssumption DEF SafeInv, TypeOK, Release, LeaveRefresh, Goto,
       idpVars, cacheVars, callVars, GateInv, AtGate, RefusalIsTruthful, PastCeiling,
       PermitsAttempt
  <2>2. TimeInv' /\ StampInv' /\ FetchBudget'
    BY <1>type, <1>13 DEF SafeInv, TypeOK, Release, LeaveRefresh, Goto, idpVars, cacheVars,
       callVars, TimeInv, StampInv, FetchBudget, Times, NoTime
  <2>3. AliveInv' /\ BodyInv'
    BY <1>type, <1>13 DEF SafeInv, TypeOK, Release, LeaveRefresh, Goto, idpVars, cacheVars,
       callVars, AliveInv, AliveSince, BodyInv, TimeInv
  <2>4. CeilingRespected' /\ SignerInv' /\ NoLongRevokedKey'
    BY <1>type, <1>13 DEF SafeInv, TypeOK, Release, LeaveRefresh, Goto, idpVars, cacheVars,
       callVars, CeilingRespected, SignerInv, NoLongRevokedKey
  <2>. QED  BY <1>type, <2>1, <2>2, <2>3, <2>4 DEF SafeInv
<1>14. ASSUME NEW t \in Callers, Lookup(t) PROVE SafeInv'
  <2>1. GateInv' /\ RefusalIsTruthful'
    BY <1>type, <1>14 DEF SafeInv, TypeOK, Lookup, Return, Goto, idpVars, cacheVars,
       callVars, GateInv, AtGate, RefusalIsTruthful, PastCeiling, PermitsAttempt
  <2>2. TimeInv' /\ StampInv' /\ FetchBudget'
    BY <1>type, <1>14 DEF SafeInv, TypeOK, Lookup, Return, Goto, idpVars, cacheVars,
       callVars, TimeInv, StampInv, FetchBudget, Times, NoTime
  <2>3. AliveInv' /\ BodyInv'
    BY <1>type, <1>14 DEF SafeInv, TypeOK, Lookup, Return, Goto, idpVars, cacheVars,
       callVars, AliveInv, AliveSince, BodyInv, TimeInv
  <2>4. CeilingRespected' /\ SignerInv' /\ NoLongRevokedKey'
    BY <1>type, <1>14, MaxStaleType DEF SafeInv, TypeOK, Lookup, Return, Goto, idpVars,
       cacheVars, callVars, CeilingRespected, SignerInv, NoLongRevokedKey, TryAll, FindAll,
       AliveInv, AliveSince, Since, Times, NoTime, KeySet
  <2>. QED  BY <1>type, <2>1, <2>2, <2>3, <2>4 DEF SafeInv
<1>15. CASE UNCHANGED vars
  BY <1>type, <1>15 DEF vars, idpVars, cacheVars, callVars, localVars, SafeInv, GateInv, AtGate,
     TimeInv, StampInv, AliveInv, AliveSince, BodyInv, SignerInv, CeilingRespected,
     NoLongRevokedKey, FetchBudget, RefusalIsTruthful, PastCeiling, PermitsAttempt
<1>. QED
  BY <1>1, <1>2, <1>3, <1>4, <1>5, <1>6, <1>7, <1>8,
     <1>9, <1>10, <1>11, <1>12, <1>13, <1>14, <1>15 DEF Next, Advance, Answer

(* The stamps stay ordered, and a caller with keys is not denied.          *)
LEMMA OrderedStep ==
    ASSUME MinRefetch > 0
    PROVE  OrderedInv /\ [Next]_vars => OrderedInv'
<1> SUFFICES ASSUME OrderedInv, [Next]_vars PROVE OrderedInv'
  OBVIOUS
<1>type. TypeOK /\ SafeInv /\ SafeInv'
  BY SafeStep DEF OrderedInv, SafeInv
<1>1. CASE Tick
  <2>1. FlightInv' /\ OrderInv'
    BY <1>type, <1>1 DEF OrderedInv, TypeOK, Tick, idpVars, cacheVars, callVars, localVars,
       FlightInv, OrderInv
  <2>2. OutcomeInv' /\ HolderNeverDenied'
    BY <1>type, <1>1 DEF OrderedInv, TypeOK, Tick, idpVars, cacheVars, callVars, localVars,
       OutcomeInv, HolderNeverDenied
  <2>. QED  BY <1>type, <2>1, <2>2 DEF OrderedInv
<1>2. CASE Rotate
  <2>1. FlightInv' /\ OrderInv'
    BY <1>type, <1>2 DEF OrderedInv, TypeOK, Rotate, cacheVars, callVars, localVars,
       FlightInv, OrderInv
  <2>2. OutcomeInv' /\ HolderNeverDenied'
    BY <1>type, <1>2 DEF OrderedInv, TypeOK, Rotate, cacheVars, callVars, localVars,
       OutcomeInv, HolderNeverDenied
  <2>. QED  BY <1>type, <2>1, <2>2 DEF OrderedInv
<1>3. ASSUME NEW t \in Callers, Call(t) PROVE OrderedInv'
  <2>1. FlightInv' /\ OrderInv'
    BY <1>type, <1>3 DEF OrderedInv, SafeInv, TypeOK, Call, Goto, Hold, idpVars, cacheVars,
       FlightInv, OrderInv, Times, NoTime
  <2>2. OutcomeInv' /\ HolderNeverDenied'
    BY <1>type, <1>3 DEF OrderedInv, TypeOK, Call, Goto, Hold, idpVars, cacheVars,
       OutcomeInv, HolderNeverDenied
  <2>. QED  BY <1>type, <2>1, <2>2 DEF OrderedInv
<1>4. ASSUME NEW t \in Callers, Snapshot(t) PROVE OrderedInv'
  <2>1. FlightInv' /\ OrderInv'
    BY <1>type, <1>4 DEF OrderedInv, SafeInv, TypeOK, Snapshot, Goto, Hold, idpVars,
       cacheVars, callVars, FlightInv, OrderInv, Times, NoTime
  <2>2. OutcomeInv' /\ HolderNeverDenied'
    BY <1>type, <1>4 DEF OrderedInv, TypeOK, Snapshot, Goto, Hold, idpVars, cacheVars,
       callVars, OutcomeInv, HolderNeverDenied
  <2>. QED  BY <1>type, <2>1, <2>2 DEF OrderedInv
<1>5. ASSUME NEW t \in Callers, EnterRefresh(t) PROVE OrderedInv'
  <2>1. FlightInv' /\ OrderInv'
    BY <1>type, <1>5 DEF OrderedInv, SafeInv, TypeOK, EnterRefresh, ServeWithinCeiling,
       LeaveRefresh, Goto, Hold, idpVars, cacheVars, callVars, FlightInv, OrderInv, Times,
       NoTime
  <2>2. OutcomeInv' /\ HolderNeverDenied'
    BY <1>type, <1>5, MaxStaleType DEF OrderedInv, SafeInv, TypeOK, EnterRefresh,
       ServeWithinCeiling, LeaveRefresh, Goto, Hold, idpVars, cacheVars, callVars,
       OutcomeInv, HolderNeverDenied, PastCeiling, OrderInv, CeilingRespected, Since,
       Times, NoTime
  <2>. QED  BY <1>type, <2>1, <2>2 DEF OrderedInv
<1>6. ASSUME NEW t \in Callers, TryGate(t) PROVE OrderedInv'
  <2>1. FlightInv' /\ OrderInv'
    BY <1>type, <1>6 DEF OrderedInv, TypeOK, TryGate, Goto, idpVars, cacheVars, callVars,
       localVars, FlightInv, OrderInv
  <2>2. OutcomeInv' /\ HolderNeverDenied'
    BY <1>type, <1>6 DEF OrderedInv, TypeOK, TryGate, Goto, idpVars, cacheVars, callVars,
       localVars, OutcomeInv, HolderNeverDenied
  <2>. QED  BY <1>type, <2>1, <2>2 DEF OrderedInv
<1>7. ASSUME NEW t \in Callers, ServeLost(t) PROVE OrderedInv'
  <2>1. FlightInv' /\ OrderInv'
    BY <1>type, <1>7 DEF OrderedInv, SafeInv, TypeOK, ServeLost, ServeWithinCeiling,
       LeaveRefresh, Goto, Hold, idpVars, cacheVars, callVars, FlightInv, OrderInv, Times,
       NoTime
  <2>2. OutcomeInv' /\ HolderNeverDenied'
    BY <1>type, <1>7, MaxStaleType DEF OrderedInv, SafeInv, TypeOK, ServeLost,
       ServeWithinCeiling, LeaveRefresh, Goto, Hold, idpVars, cacheVars, callVars,
       OutcomeInv, HolderNeverDenied, PastCeiling, OrderInv, CeilingRespected, Since,
       Times, NoTime
  <2>. QED  BY <1>type, <2>1, <2>2 DEF OrderedInv
<1>8. ASSUME NEW t \in Callers, WaitGate(t) PROVE OrderedInv'
  <2>1. FlightInv' /\ OrderInv'
    BY <1>type, <1>8 DEF OrderedInv, TypeOK, WaitGate, Goto, idpVars, cacheVars, callVars,
       localVars, FlightInv, OrderInv
  <2>2. OutcomeInv' /\ HolderNeverDenied'
    BY <1>type, <1>8 DEF OrderedInv, TypeOK, WaitGate, Goto, idpVars, cacheVars, callVars,
       localVars, OutcomeInv, HolderNeverDenied
  <2>. QED  BY <1>type, <2>1, <2>2 DEF OrderedInv
<1>9. ASSUME NEW t \in Callers, Recheck(t) PROVE OrderedInv'
  <2>1. FlightInv' /\ OrderInv'
    BY <1>type, <1>9, TimesAssumption, CallersAssumption DEF OrderedInv, SafeInv, TypeOK,
       Recheck, ServeWithinCeiling, Goto, Hold, idpVars, callVars, FlightInv, OrderInv,
       MayFetch, PermitsAttempt, Since, Times, NoTime, GateInv, AtGate
  <2>2. OutcomeInv' /\ HolderNeverDenied'
    BY <1>type, <1>9, MaxStaleType DEF OrderedInv, SafeInv, TypeOK, Recheck,
       ServeWithinCeiling, Goto, Hold, idpVars, callVars, OutcomeInv, HolderNeverDenied,
       PastCeiling, OrderInv, CeilingRespected, Since, Times, NoTime
  <2>. QED  BY <1>type, <2>1, <2>2 DEF OrderedInv
<1>10. ASSUME NEW t \in Callers, FetchAnswers(t) PROVE OrderedInv'
  <2>1. FlightInv' /\ OrderInv'
    BY <1>type, <1>10 DEF OrderedInv, TypeOK, FetchAnswers, Goto, idpVars, cacheVars,
       callVars, FlightInv, OrderInv
  <2>2. OutcomeInv' /\ HolderNeverDenied'
    BY <1>type, <1>10 DEF OrderedInv, TypeOK, FetchAnswers, Goto, idpVars, cacheVars,
       callVars, OutcomeInv, HolderNeverDenied
  <2>. QED  BY <1>type, <2>1, <2>2 DEF OrderedInv
<1>11. ASSUME NEW t \in Callers, FetchPanics(t) PROVE OrderedInv'
  <2>1. FlightInv' /\ OrderInv'
    BY <1>type, <1>11 DEF OrderedInv, TypeOK, FetchPanics, Goto, idpVars, cacheVars,
       callVars, FlightInv, OrderInv
  <2>2. OutcomeInv' /\ HolderNeverDenied'
    BY <1>type, <1>11 DEF OrderedInv, TypeOK, FetchPanics, Goto, idpVars, cacheVars,
       callVars, OutcomeInv, HolderNeverDenied
  <2>. QED  BY <1>type, <2>1, <2>2 DEF OrderedInv
<1>12. ASSUME NEW t \in Callers, Install(t) PROVE OrderedInv'
  <2>1. FlightInv' /\ OrderInv'
    BY <1>type, <1>12 DEF OrderedInv, SafeInv, TypeOK, Install, InstallStamp, Usable, Goto,
       Hold, idpVars, callVars, FlightInv, OrderInv, GateInv, AtGate, Times, NoTime
  <2>2. OutcomeInv' /\ HolderNeverDenied'
    BY <1>type, <1>12, MaxStaleType DEF OrderedInv, SafeInv, TypeOK, Install, InstallStamp,
       Usable, Goto, Hold, idpVars, callVars, OutcomeInv, HolderNeverDenied, PastCeiling,
       OrderInv, CeilingRespected, Since, Times, NoTime, KeepsPrevious, StampInv
  <2>. QED  BY <1>type, <2>1, <2>2 DEF OrderedInv
<1>13. ASSUME NEW t \in Callers, Release(t) PROVE OrderedInv'
  <2>1. FlightInv' /\ OrderInv'
    BY <1>type, <1>13 DEF OrderedInv, TypeOK, Release, LeaveRefresh, Goto, idpVars,
       cacheVars, callVars, FlightInv, OrderInv
  <2>2. OutcomeInv' /\ HolderNeverDenied'
    BY <1>type, <1>13 DEF OrderedInv, TypeOK, Release, LeaveRefresh, Goto, idpVars,
       cacheVars, callVars, OutcomeInv, HolderNeverDenied
  <2>. QED  BY <1>type, <2>1, <2>2 DEF OrderedInv
<1>14. ASSUME NEW t \in Callers, Lookup(t) PROVE OrderedInv'
  <2>1. FlightInv' /\ OrderInv'
    BY <1>type, <1>14 DEF OrderedInv, TypeOK, Lookup, Return, Goto, idpVars, cacheVars,
       callVars, FlightInv, OrderInv
  <2>2. OutcomeInv' /\ HolderNeverDenied'
    BY <1>type, <1>14 DEF OrderedInv, SafeInv, TypeOK, Lookup, Return, Goto, idpVars,
       cacheVars, callVars, OutcomeInv, HolderNeverDenied, TryAll
  <2>. QED  BY <1>type, <2>1, <2>2 DEF OrderedInv
<1>15. CASE UNCHANGED vars
  BY <1>type, <1>15 DEF vars, idpVars, cacheVars, callVars, localVars, OrderedInv, FlightInv,
     OrderInv, OutcomeInv, HolderNeverDenied
<1>. QED
  BY <1>1, <1>2, <1>3, <1>4, <1>5, <1>6, <1>7, <1>8,
     <1>9, <1>10, <1>11, <1>12, <1>13, <1>14, <1>15 DEF Next, Advance, Answer

(* The parts of the invariants hold initially.                             *)
LEMMA InvInit == Init => OrderedInv
<1> SUFFICES ASSUME Init PROVE OrderedInv
  OBVIOUS
<1>1. TypeOK
  BY TimesAssumption DEF Init, TypeOK, Times, NoTime, Steps, Outcomes
<1>2. SafeInv
  BY <1>1, CallersAssumption, KeysAssumption DEF Init, SafeInv, GateInv, AtGate, TimeInv,
     StampInv, AliveInv, AliveSince, BodyInv, SignerInv, CeilingRespected,
     NoLongRevokedKey, FetchBudget, RefusalIsTruthful, NoTime, KeySet
<1>. QED  BY <1>2 DEF Init, OrderedInv, FlightInv, OrderInv, OutcomeInv, HolderNeverDenied,
               NoTime

LEMMA SafeAlways == Spec => []SafeInv
<1>1. Init => SafeInv
  BY InvInit DEF OrderedInv
<1>. QED  BY <1>1, SafeStep, PTL DEF Spec

LEMMA OrderedAlways ==
    ASSUME MinRefetch > 0
    PROVE  Spec => []OrderedInv
BY InvInit, OrderedStep, PTL DEF Spec

(* On every path through with_key a caller uses keys within the ceiling    *)
(* (cache.rs, serve_within_ceiling), for any intervals, even a zero rate   *)
(* limit.                                                                  *)
THEOREM CeilingTheorem == Spec => []CeilingRespected
<1>1. SafeInv => CeilingRespected
  BY DEF SafeInv
<1>. QED  BY <1>1, SafeAlways, PTL

(* A key that has left publication for MaxStale signs no accepted token.   *)
THEOREM RevocationTheorem == Spec => []NoLongRevokedKey
<1>1. SafeInv => NoLongRevokedKey
  BY DEF SafeInv
<1>. QED  BY <1>1, SafeAlways, PTL

(* All the fetches there ever are respect the rate limit together.         *)
THEOREM FetchBudgetTheorem == Spec => []FetchBudget
<1>1. SafeInv => FetchBudget
  BY DEF SafeInv
<1>. QED  BY <1>1, SafeAlways, PTL

(* A caller refused under the gate really has nothing to be served.        *)
THEOREM RefusalTheorem == Spec => []RefusalIsTruthful
<1>1. SafeInv => RefusalIsTruthful
  BY DEF SafeInv
<1>. QED  BY <1>1, SafeAlways, PTL

(* With a positive rate limit, the provider being down never fails a       *)
(* caller that holds usable keys.                                          *)
THEOREM HolderTheorem ==
    ASSUME MinRefetch > 0
    PROVE  Spec => []HolderNeverDenied
<1>1. OrderedInv => HolderNeverDenied
  BY DEF OrderedInv
<1>. QED  BY <1>1, OrderedAlways, PTL

(* With a positive rate limit no install ever replaces a newer set, and    *)
(* keys once cached are never lost.                                        *)
THEOREM CacheTheorem ==
    ASSUME MinRefetch > 0
    PROVE  Spec => CacheNeverRegresses
<1>1. OrderedInv /\ [Next]_vars => [fetchedAt <= fetchedAt' /\ (keys # NoKeys => keys' # NoKeys)]_vars
  <2> SUFFICES ASSUME OrderedInv, [Next]_vars
               PROVE  fetchedAt <= fetchedAt' /\ (keys # NoKeys => keys' # NoKeys)
    OBVIOUS
  <2>1. TypeOK
    BY DEF OrderedInv, SafeInv
  <2>2. ASSUME NEW t \in Callers, Install(t)
        PROVE  fetchedAt <= fetchedAt' /\ (keys # NoKeys => keys' # NoKeys)
    BY <2>1, <2>2 DEF Install, Usable, InstallStamp, OrderedInv, FlightInv, OrderInv, TypeOK, Times, NoTime
  <2>3. (\A t \in Callers : ~Install(t)) => UNCHANGED <<keys, fetchedAt>>
    BY DEF Next, Advance, Answer, Tick, Rotate, Call, Snapshot, EnterRefresh, TryGate, ServeLost,
       WaitGate, Recheck, FetchAnswers, FetchPanics, Release, Lookup, vars, cacheVars
  <2>. QED  BY <2>1, <2>2, <2>3 DEF TypeOK, Times, NoTime
<1>. QED  BY <1>1, OrderedAlways, PTL DEF Spec, CacheNeverRegresses

-----------------------------------------------------------------------------
(* Why calls return: what the runs check of the progress of a call, for    *)
(* any number of callers and any provider.                                 *)

(* The weight of each step, as numbers the provers can compare.            *)
LEMMA Weights ==
    /\ Remaining["snapshot"] = 9 /\ Remaining["refresh"] = 8 /\ Remaining["try"] = 7
    /\ Remaining["wait"] = 6 /\ Remaining["recheck"] = 5 /\ Remaining["fetch"] = 4
    /\ Remaining["install"] = 3 /\ Remaining["release"] = 2 /\ Remaining["lost"] = 2
    /\ Remaining["lookup"] = 1 /\ Remaining["idle"] = 0
BY DEF Remaining, Steps

(* A call that gets further without asking for the retry has fewer steps   *)
(* left.                                                                   *)
LEMMA Further ==
    ASSUME NEW t \in Callers, rotating[t] \in BOOLEAN, UNCHANGED rotating,
           pc[t] # "idle", Remaining[pc[t]] \in Nat, Remaining[pc'[t]] \in Nat,
           Remaining[pc'[t]] < Remaining[pc[t]]
    PROVE  StepsLeft(t)' < StepsLeft(t)
BY DEF StepsLeft

LEMMA CallerProgress ==
    ASSUME TypeOK, NEW t \in Callers, Advance(t) \/ Answer(t)
    PROVE  StepsLeft(t)' < StepsLeft(t)
<1>type. pc \in [Callers -> Steps] /\ rotating \in [Callers -> BOOLEAN] /\ rotating[t] \in BOOLEAN
  BY DEF TypeOK
<1>1. CASE Snapshot(t)
  BY <1>type, <1>1, Weights, Further DEF Snapshot, Goto
<1>2. CASE EnterRefresh(t)
  BY <1>type, <1>2, Weights, Further DEF EnterRefresh, LeaveRefresh, Goto
<1>3. CASE TryGate(t)
  BY <1>type, <1>3, Weights, Further DEF TryGate, Goto, localVars
<1>4. CASE ServeLost(t)
  BY <1>type, <1>4, Weights, Further DEF ServeLost, LeaveRefresh, Goto
<1>5. CASE WaitGate(t)
  BY <1>type, <1>5, Weights, Further DEF WaitGate, Goto, localVars
<1>6. CASE Recheck(t)
  BY <1>type, <1>6, Weights, Further DEF Recheck, Goto
<1>7. CASE FetchAnswers(t)
  BY <1>type, <1>7, Weights, Further DEF FetchAnswers, Goto
<1>8. CASE FetchPanics(t)
  BY <1>type, <1>8, Weights, Further DEF FetchPanics, Goto
<1>9. CASE Install(t)
  BY <1>type, <1>9, Weights, Further DEF Install, Goto
<1>10. CASE Release(t)
  BY <1>type, <1>10, Weights, Further DEF Release, LeaveRefresh, Goto
<1>11. CASE Lookup(t)
  (* Back to the refresh: 8 steps and the retry spent, against 1 and 8.    *)
  <2>1. CASE MayRetry(t) /\ rotating' = [rotating EXCEPT ![t] = TRUE] /\ Goto(t, "refresh")
    <3>1. pc[t] = "lookup" /\ ~rotating[t] /\ pc'[t] = "refresh" /\ rotating'[t]
      BY <1>type, <1>11, <2>1 DEF Lookup, MayRetry, Goto
    <3>. QED  BY <3>1, Weights DEF StepsLeft
  <2>2. CASE Goto(t, "idle") /\ UNCHANGED rotating
    BY <1>type, <1>11, <2>2, Weights, Further DEF Lookup, Goto
  <2>. QED  BY <1>11, <2>1, <2>2 DEF Lookup, Return
<1>. QED
  BY <1>1, <1>2, <1>3, <1>4, <1>5, <1>6, <1>7, <1>8, <1>9, <1>10, <1>11 DEF Advance, Answer

(* Only a caller's own steps move it.                                      *)
LEMMA OwnSteps ==
    ASSUME TypeOK, [Next]_vars, NEW t \in Callers, pc'[t] # pc[t]
    PROVE  Call(t) \/ Advance(t) \/ Answer(t)
<1>1. ASSUME NEW u \in Callers, NEW step, u # t, Goto(u, step) PROVE FALSE
  BY <1>1 DEF Goto, TypeOK
<1>2. ASSUME NEW u \in Callers, Call(u) \/ Advance(u) \/ Answer(u)
      PROVE  \E step : Goto(u, step)
  BY <1>2 DEF Call, Advance, Answer, Snapshot, EnterRefresh, LeaveRefresh, TryGate, ServeLost,
     WaitGate, Recheck, FetchAnswers, FetchPanics, Install, Release, Lookup, Return
<1>3. ~Tick /\ ~Rotate /\ ~UNCHANGED vars
  BY DEF Tick, Rotate, vars
<1>. QED  BY <1>1, <1>2, <1>3 DEF Next

(* A call is over after at most 17 steps of its own, the retry of with_key *)
(* included, whatever other calls and the provider do in between: there is *)
(* no loop of cache.rs in which it could be kept.                          *)
THEOREM StepsTheorem == Spec => EveryStepCounts
<1>1. TypeOK /\ [Next]_vars =>
        [\A t \in Callers : pc'[t] # pc[t] => Call(t) \/ StepsLeft(t)' < StepsLeft(t)]_vars
  BY OwnSteps, CallerProgress
<1>. QED  BY <1>1, TypeCorrect, PTL DEF Spec, EveryStepCounts

(* Who is queuing, or about to: a desperate call has nothing to serve.     *)
QueueInv == \A t \in Callers :
    /\ pc[t] = "wait" => desperate[t]
    /\ pc[t] \in {"try", "wait"} /\ desperate[t] => held[t] = NoKeys

LEMMA QueueStep == TypeOK /\ QueueInv /\ [Next]_vars => QueueInv'
<1> SUFFICES ASSUME TypeOK, QueueInv, [Next]_vars PROVE QueueInv'
  OBVIOUS
<1>type. /\ pc \in [Callers -> Steps] /\ held \in [Callers -> {NoKeys} \cup KeySet]
         /\ desperate \in [Callers -> BOOLEAN]
  BY DEF TypeOK
<1>1. CASE Tick
  BY <1>1 DEF Tick, localVars, QueueInv
<1>2. CASE Rotate
  BY <1>2 DEF Rotate, localVars, QueueInv
<1>3. ASSUME NEW t \in Callers, Call(t) PROVE QueueInv'
  BY <1>type, <1>3 DEF Call, Hold, Goto, QueueInv
<1>4. ASSUME NEW t \in Callers, Snapshot(t) PROVE QueueInv'
  BY <1>type, <1>4 DEF Snapshot, Hold, Goto, QueueInv
<1>5. ASSUME NEW t \in Callers, EnterRefresh(t) PROVE QueueInv'
  <2>1. CASE ServeWithinCeiling(t) /\ LeaveRefresh(t)
    BY <1>type, <2>1 DEF ServeWithinCeiling, LeaveRefresh, Hold, Goto, QueueInv
  <2>2. CASE /\ desperate' = [desperate EXCEPT ![t] =
                    Waits(t) /\ (keys = NoKeys \/ PastCeiling(now[t]))]
             /\ Goto(t, "try") /\ UNCHANGED held
    BY <1>type, <2>2 DEF Waits, Goto, QueueInv
  <2>. QED  BY <1>5, <2>1, <2>2 DEF EnterRefresh
<1>6. ASSUME NEW t \in Callers, TryGate(t) PROVE QueueInv'
  BY <1>type, <1>6 DEF TryGate, Queues, Goto, localVars, QueueInv
<1>7. ASSUME NEW t \in Callers, ServeLost(t) PROVE QueueInv'
  BY <1>type, <1>7 DEF ServeLost, ServeWithinCeiling, LeaveRefresh, Hold, Goto, QueueInv
<1>8. ASSUME NEW t \in Callers, WaitGate(t) PROVE QueueInv'
  BY <1>type, <1>8 DEF WaitGate, Goto, localVars, QueueInv
<1>9. ASSUME NEW t \in Callers, Recheck(t) PROVE QueueInv'
  BY <1>type, <1>9 DEF Recheck, ServeWithinCeiling, Hold, Goto, QueueInv
<1>10. ASSUME NEW t \in Callers, FetchAnswers(t) \/ FetchPanics(t) PROVE QueueInv'
  BY <1>type, <1>10 DEF FetchAnswers, FetchPanics, Goto, QueueInv
<1>11. ASSUME NEW t \in Callers, Install(t) PROVE QueueInv'
  BY <1>type, <1>11 DEF Install, Hold, Goto, QueueInv
<1>12. ASSUME NEW t \in Callers, Release(t) PROVE QueueInv'
  BY <1>type, <1>12 DEF Release, LeaveRefresh, Goto, QueueInv
<1>13. ASSUME NEW t \in Callers, Lookup(t) PROVE QueueInv'
  BY <1>type, <1>13 DEF Lookup, Return, Goto, QueueInv
<1>14. CASE UNCHANGED vars
  BY <1>14 DEF vars, localVars, QueueInv
<1>. QED
  BY <1>1, <1>2, <1>3, <1>4, <1>5, <1>6, <1>7, <1>8, <1>9, <1>10, <1>11, <1>12, <1>13, <1>14
     DEF Next, Advance, Answer

(* A call that has keys never queues for the gate, and one that queues     *)
(* never does so for a gate that nobody will free: what keeps it there is a*)
(* call under the gate, which has no lock left to wait for.                *)
THEOREM WaitersTheorem == Spec => []WaitersHaveAHolder
<1>1. Init => QueueInv
  BY DEF Init, QueueInv
<1>2. SafeInv /\ QueueInv /\ [Next]_vars => QueueInv'
  BY QueueStep DEF SafeInv
<1>3. SafeInv /\ QueueInv => WaitersHaveAHolder
  BY DEF SafeInv, TypeOK, GateInv, AtGate, QueueInv, WaitersHaveAHolder
<1>. QED  BY <1>1, <1>2, <1>3, SafeAlways, PTL DEF Spec

-----------------------------------------------------------------------------
(* The refinement: each step of a caller is one step of the lease, or none.*)

(* A served read of the cache is a granted one.                            *)
LEMMA ServeIsRead ==
    ASSUME OrderedInv, NEW t \in Callers, ServeWithinCeiling(t),
           UNCHANGED <<clock, keys, fetchedAt, lastAttempt, now>>, Fetching' = Fetching
    PROVE  [Lease!Next]_Lease!leaseVars
<1>1. CASE UNCHANGED <<held, heldAt>>
  BY <1>1 DEF Lease!leaseVars
<1>2. CASE ~PastCeiling(now[t]) /\ Hold(t, keys, fetchedAt)
  <2>1. keys = NoKeys \/ Lease!Unexpired(now[t], fetchedAt)
    BY <1>2, MaxStaleType DEF OrderedInv, SafeInv, TypeOK, StampInv, PastCeiling, Since,
       Lease!Unexpired, Times, NoTime
  <2>2. Lease!Read(t)
    BY <1>2, <2>1 DEF Lease!Read, Lease!Grant, Hold
  <2>. QED  BY <2>2 DEF Lease!Next
<1>. QED  BY <1>1, <1>2 DEF ServeWithinCeiling

(* A step that touches neither the cache, the clock, a held set nor a fetch*)
(* is a stutter.                                                           *)
LEMMA Stutters ==
    ASSUME UNCHANGED <<clock, keys, fetchedAt, lastAttempt, now, held, heldAt>>,
           Fetching' = Fetching
    PROVE  [Lease!Next]_Lease!leaseVars
BY DEF Lease!leaseVars

LEMMA LeaseStep ==
    ASSUME MinRefetch > 0, OrderedInv, [Next]_vars
    PROVE  [Lease!Next]_Lease!leaseVars
<1>type. TypeOK /\ GateInv /\ StampInv
  BY DEF OrderedInv, SafeInv
<1>1. CASE Tick
  BY <1>1 DEF Tick, Lease!Next, Lease!Tick, Fetching, idpVars, cacheVars, callVars, localVars
<1>2. CASE Rotate
  BY <1>2, Stutters DEF Rotate, Fetching, cacheVars, callVars, localVars
<1>3. ASSUME NEW t \in Callers, Call(t) PROVE [Lease!Next]_Lease!leaseVars
  <2>1. Fetching' = Fetching
    BY <1>type, <1>3 DEF Call, Goto, Fetching, TypeOK
  <2>2. Lease!Ask(t)
    BY <1>3, <2>1 DEF Call, Hold, Lease!Ask, Lease!Grant, cacheVars, NoTime, Lease!NoTime
  <2>. QED  BY <2>2 DEF Lease!Next
<1>4. ASSUME NEW t \in Callers, Snapshot(t) PROVE [Lease!Next]_Lease!leaseVars
  <2>1. Fetching' = Fetching
    BY <1>type, <1>4 DEF Snapshot, Goto, Fetching, TypeOK
  <2>2. CASE UNCHANGED <<held, heldAt>>
    BY <1>4, <2>1, <2>2, Stutters DEF Snapshot, cacheVars, callVars
  <2>3. CASE ~PastCeiling(now[t]) /\ Hold(t, keys, fetchedAt)
    BY <1>4, <2>1, <2>3, ServeIsRead DEF Snapshot, ServeWithinCeiling, cacheVars, callVars
  <2>. QED  BY <1>4, <2>2, <2>3 DEF Snapshot
<1>5. ASSUME NEW t \in Callers, EnterRefresh(t) PROVE [Lease!Next]_Lease!leaseVars
  <2>1. Fetching' = Fetching
    BY <1>type, <1>5 DEF EnterRefresh, LeaveRefresh, Goto, Fetching, TypeOK
  <2>. QED  BY <1>5, <2>1, ServeIsRead, Stutters DEF EnterRefresh, cacheVars, callVars
<1>6. ASSUME NEW t \in Callers, TryGate(t) PROVE [Lease!Next]_Lease!leaseVars
  <2>1. Fetching' = Fetching
    BY <1>type, <1>6 DEF TryGate, Goto, Fetching, TypeOK
  <2>. QED  BY <1>6, <2>1, Stutters DEF TryGate, cacheVars, callVars, localVars
<1>7. ASSUME NEW t \in Callers, ServeLost(t) PROVE [Lease!Next]_Lease!leaseVars
  <2>1. Fetching' = Fetching
    BY <1>type, <1>7 DEF ServeLost, LeaveRefresh, Goto, Fetching, TypeOK
  <2>. QED  BY <1>7, <2>1, ServeIsRead DEF ServeLost, cacheVars, callVars
<1>8. ASSUME NEW t \in Callers, WaitGate(t) PROVE [Lease!Next]_Lease!leaseVars
  <2>1. Fetching' = Fetching
    BY <1>type, <1>8 DEF WaitGate, Goto, Fetching, TypeOK
  <2>. QED  BY <1>8, <2>1, Stutters DEF WaitGate, cacheVars, callVars, localVars
<1>9. ASSUME NEW t \in Callers, Recheck(t) PROVE [Lease!Next]_Lease!leaseVars
  <2>1. ~Fetching
    BY <1>type, <1>9 DEF Recheck, GateInv, AtGate, Fetching
  <2>2. CASE ServeWithinCeiling(t) /\ Goto(t, "release") /\ UNCHANGED <<lastAttempt, fetches>>
    <3>1. Fetching' = Fetching
      BY <1>type, <2>1, <2>2 DEF Goto, Fetching, TypeOK
    <3>. QED  BY <1>9, <2>2, <3>1, ServeIsRead DEF Recheck, callVars
  <2>3. CASE /\ MayFetch(t) /\ lastAttempt' = now[t] /\ Goto(t, "fetch")
             /\ UNCHANGED <<held, heldAt>>
    <3>1. Fetching'
      BY <1>type, <2>3 DEF Goto, Fetching, TypeOK
    <3>2. lastAttempt = NoTime \/ now[t] >= lastAttempt + MinRefetch
      BY <1>type, <2>3, TimesAssumption DEF MayFetch, PermitsAttempt, Since, TypeOK, Times, NoTime
    <3>3. Lease!Begin
      BY <1>9, <2>1, <2>3, <3>1, <3>2 DEF Recheck, Lease!Begin, callVars, NoTime, Lease!NoTime
    <3>. QED  BY <3>3 DEF Lease!Next
  <2>. QED  BY <1>9, <2>2, <2>3 DEF Recheck
<1>10. ASSUME NEW t \in Callers, FetchAnswers(t) PROVE [Lease!Next]_Lease!leaseVars
  <2>1. Fetching /\ Fetching'
    BY <1>type, <1>10 DEF FetchAnswers, Goto, Fetching, TypeOK
  <2>. QED  BY <1>10, <2>1, Stutters DEF FetchAnswers, cacheVars, callVars
<1>11. ASSUME NEW t \in Callers, FetchPanics(t) PROVE [Lease!Next]_Lease!leaseVars
  <2>1. Fetching /\ ~Fetching'
    BY <1>type, <1>11 DEF FetchPanics, Goto, Fetching, GateInv, AtGate, TypeOK
  <2>2. Lease!Fail(t)
    BY <1>11, <2>1 DEF FetchPanics, Lease!Fail, cacheVars, callVars
  <2>. QED  BY <2>2 DEF Lease!Next
<1>12. ASSUME NEW t \in Callers, Install(t) PROVE [Lease!Next]_Lease!leaseVars
  <2>1. Fetching /\ ~Fetching'
    BY <1>type, <1>12 DEF Install, Goto, Fetching, GateInv, AtGate, TypeOK
  <2>2. lastAttempt = now[t]
    BY <1>12 DEF Install, OrderedInv, FlightInv
  <2>3. CASE Usable(body[t]) /\ keys' = body[t] /\ fetchedAt' = InstallStamp(t)
             /\ Hold(t, body[t], InstallStamp(t))
    <3>1. body[t] \in KeySet
      BY <1>type, <2>3 DEF TypeOK, Usable, KeySet
    <3>2. keys' = body[t] /\ Lease!Grant(t, body[t], lastAttempt)
      BY <2>2, <2>3 DEF Hold, InstallStamp, Lease!Grant
    <3>3. \E set \in KeySet : keys' = set /\ Lease!Grant(t, set, lastAttempt)
      BY <3>1, <3>2
    <3>4. UNCHANGED <<clock, lastAttempt, now>> /\ fetchedAt' = lastAttempt
      BY <1>12, <2>2, <2>3 DEF Install, InstallStamp, callVars
    <3>5. Lease!Succeed(t)
      BY <2>1, <3>3, <3>4 DEF Lease!Succeed
    <3>. QED  BY <3>5 DEF Lease!Next
  <2>4. CASE KeepsPrevious(t) /\ Hold(t, keys, fetchedAt) /\ UNCHANGED <<keys, fetchedAt>>
    <3>1. keys # NoKeys /\ Lease!Unexpired(now[t], fetchedAt)
      BY <1>type, <2>4, MaxStaleType DEF TypeOK, StampInv, KeepsPrevious, PastCeiling, Since,
         Lease!Unexpired, Times, NoTime
    <3>2. Lease!Fail(t)
      BY <1>12, <2>1, <2>4, <3>1 DEF Install, Hold, Lease!Fail, Lease!Grant, callVars
    <3>. QED  BY <3>2 DEF Lease!Next
  <2>5. CASE UNCHANGED <<keys, fetchedAt, held, heldAt>>
    <3>1. Lease!Fail(t)
      BY <1>12, <2>1, <2>5 DEF Install, Lease!Fail, callVars
    <3>. QED  BY <3>1 DEF Lease!Next
  <2>. QED  BY <1>12, <2>3, <2>4, <2>5 DEF Install
<1>13. ASSUME NEW t \in Callers, Release(t) PROVE [Lease!Next]_Lease!leaseVars
  <2>1. Fetching' = Fetching
    BY <1>type, <1>13 DEF Release, LeaveRefresh, Goto, Fetching, TypeOK
  <2>. QED  BY <1>13, <2>1, Stutters DEF Release, cacheVars, callVars
<1>14. ASSUME NEW t \in Callers, Lookup(t) PROVE [Lease!Next]_Lease!leaseVars
  <2>1. Fetching' = Fetching
    BY <1>type, <1>14 DEF Lookup, Return, Goto, Fetching, TypeOK
  <2>. QED  BY <1>14, <2>1, Stutters DEF Lookup, cacheVars, callVars
<1>15. CASE UNCHANGED vars
  <2>1. Fetching' = Fetching
    BY <1>15 DEF vars, Fetching
  <2>. QED  BY <1>15, <2>1, Stutters DEF vars, cacheVars, callVars, localVars
<1>. QED
  BY <1>1, <1>2, <1>3, <1>4, <1>5, <1>6, <1>7, <1>8,
     <1>9, <1>10, <1>11, <1>12, <1>13, <1>14, <1>15 DEF Next, Advance, Answer

(* The threads of the cache, with a positive rate limit, implement the     *)
(* single-flight, rate-limited, bounded lease of KeyLease.                 *)
THEOREM Refinement ==
    ASSUME MinRefetch > 0
    PROVE  Spec => ImplementsLease
<1>1. Init => Lease!Init
  BY DEF Init, Lease!Init, Fetching, NoTime, Lease!NoTime
<1>2. OrderedInv /\ [Next]_vars => [Lease!Next]_Lease!leaseVars
  BY LeaseStep
<1>. QED  BY <1>1, <1>2, OrderedAlways, PTL DEF Spec, Lease!Spec, ImplementsLease
=============================================================================
