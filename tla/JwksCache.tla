------------------------------ MODULE JwksCache ------------------------------
(***************************************************************************)
(* The JWKS cache of auth-oidc/src/cache.rs.  Threads of the engine call   *)
(* `with_key` concurrently; each call reads the cached key set, refreshes  *)
(* it through a rate limit and a single-flight gate when it must, and then *)
(* tries the token against the set it holds.                               *)
(*                                                                         *)
(* One action is one critical section of the `inner` mutex, one operation  *)
(* on `fetch_gate`, or one step of the fetch.  `now` is captured when the  *)
(* call starts (lib.rs, `authenticate`) and never read again, so every     *)
(* comparison below is between stamps that may be older than the clock.    *)
(* Lock poisoning is recovered from at every lock (cache.rs:251, 258, 373) *)
(* and so has no state: a gate whose holder panicked is a free gate.       *)
(***************************************************************************)
EXTENDS Integers, KeyLookup

CONSTANTS
    Callers,        \* threads inside `with_key`
    Keys,           \* signing keys the provider may ever publish
    Kids,           \* key ids
    Tokens,         \* bearer tokens: the kid they name and the key that signed
    Forger,         \* the signer of a token no key verifies
    MinRefetch,     \* min_refetch_interval
    Ttl,            \* ttl
    StaleFactor,    \* the 24 of `ttl.saturating_mul(24)`
    StaleFloor,     \* the 24h floor of the ceiling
    DurationMax,    \* Duration::MAX, where saturating_mul stops
    MaxTime,        \* bound of the clock
    NoKeys,         \* Option::None of the key set
    Nobody          \* the gate is free

ASSUME KeysAssumption ==
    /\ \A set \in SUBSET Keys : NoKeys # set
    /\ KidOf \in [Keys -> Kids]
    /\ Tokens \subseteq [kid : Kids, signer : Keys \cup {Forger}]
    /\ Forger \notin Keys
ASSUME CallersAssumption == Nobody \notin Callers
ASSUME TimesAssumption ==
    /\ MinRefetch \in Nat /\ Ttl \in Nat
    /\ StaleFactor \in Nat /\ StaleFloor \in Nat \ {0}
    /\ DurationMax \in Nat /\ MaxTime \in Nat

NoTime == -1                     \* Option::None of an Instant
Times  == Nat \cup {NoTime}
KeySet == (SUBSET Keys) \ {{}}   \* JwkSet::parse refuses a set with no usable key

(* Duration::saturating_mul, and the absolute staleness ceiling of `new`.  *)
SaturatingMul(a, b) == IF a * b > DurationMax THEN DurationMax ELSE a * b
MaxStale == IF SaturatingMul(StaleFactor, Ttl) > StaleFloor
            THEN SaturatingMul(StaleFactor, Ttl) ELSE StaleFloor

VARIABLES
    clock,          \* the monotonic clock
    published,      \* external: the key set the provider serves now
    goneSince,      \* history: when a key left publication, NoTime while it has not
    keys,           \* Inner.keys
    fetchedAt,      \* Inner.fetched_at
    lastAttempt,    \* Inner.last_attempt
    fetches,        \* history: how many fetches have been started
    gate,           \* fetch_gate: the caller holding it
    pc,             \* where each caller is
    now,            \* `now`, captured when the call starts
    token,          \* the token being verified
    rotating,       \* TRUE in the second `refresh` of with_key, after a miss
    held,           \* the local `keys` of with_key
    heldAt,         \* history: the stamp the held set was cached under
    desperate,      \* the local `desperate` of refresh
    body,           \* what the provider answered to this caller's fetch
    outcome         \* how the caller's last call returned

idpVars    == <<published, goneSince>>
cacheVars  == <<keys, fetchedAt, lastAttempt, fetches>>
callVars   == <<now, token>>
localVars  == <<rotating, held, heldAt, desperate, body, outcome>>
vars == <<clock, idpVars, cacheVars, gate, pc, callVars, localVars>>

Steps == {"idle", "snapshot", "refresh", "try", "lost", "wait", "recheck",
          "fetch", "install", "release", "lookup"}
Errors   == {"bad", "unknown_kid", "cold", "ceiling", "fetch_error", "panic"}
Outcomes == {"none", "ok"} \cup Errors

-----------------------------------------------------------------------------
(* Tests on the cached data.  `n` is the caller's captured `now`.          *)

(* Instant::saturating_duration_since: zero when t is later than n.        *)
Since(n, t) == IF n >= t THEN n - t ELSE 0

Stale(n)          == fetchedAt = NoTime \/ Since(n, fetchedAt) >= Ttl
PastCeiling(n)    == fetchedAt # NoTime /\ Since(n, fetchedAt) >= MaxStale

(* Anchored on successes, the rate limit would not hold through an outage. *)
FaultyPermitsAttempt(n) == fetchedAt = NoTime \/ Since(n, fetchedAt) >= MinRefetch
PermitsAttempt(n) == lastAttempt = NoTime \/ Since(n, lastAttempt) >= MinRefetch

(* JwkSet::parse of a fetched body succeeds.                               *)
FaultyUsable(b) == b # NoKeys
FaultyUsableFailure(b) == b # {}
Usable(b) == b # NoKeys /\ b # {}

-----------------------------------------------------------------------------
(* The decisions of one caller.  A `Faulty` operator is a plausible bug in *)
(* the definition after it: no action uses it, it is what the properties   *)
(* are tested against.                                                     *)

(* with_key waits for an in-flight fetch only when it has nothing to serve *)
(* and only in its first refresh.                                          *)
Waits(t) == ~rotating[t] /\ held[t] = NoKeys

(* A caller that finds the gate taken queues for it only when desperate.   *)
FaultyQueues(t) == TRUE
Queues(t) == desperate[t]

(* Under the gate: the fetch queued behind has already satisfied the caller.*)
FaultySatisfied(t) == desperate[t] /\ keys # NoKeys
Satisfied(t) == desperate[t] /\ keys # NoKeys /\ ~PastCeiling(now[t])

(* Under the gate: the rate limit is asked again before an attempt.        *)
FaultyMayFetch(t) == ~Satisfied(t)
MayFetch(t) == ~Satisfied(t) /\ PermitsAttempt(now[t])

(* A failed fetch falls back to the previous set unless it is too stale.   *)
FaultyKeepsPrevious(t) == FALSE
KeepsPrevious(t) == keys # NoKeys /\ ~PastCeiling(now[t])

(* The stamp a fetched set is cached under: the call's `now`.              *)
FaultyInstallStamp(t) == clock
InstallStamp(t) == now[t]

(* with_key asks for a rotation refetch once.                              *)
FaultyMayRetry(t) == TRUE
MayRetry(t) == ~rotating[t]

-----------------------------------------------------------------------------
Init ==
    /\ clock = 0
    /\ published \in KeySet
    /\ goneSince = [k \in Keys |-> NoTime]
    /\ keys = NoKeys /\ fetchedAt = NoTime /\ lastAttempt = NoTime /\ fetches = 0
    /\ gate = Nobody
    /\ pc = [t \in Callers |-> "idle"]
    /\ now = [t \in Callers |-> 0]
    /\ token \in [Callers -> Tokens]
    /\ rotating = [t \in Callers |-> FALSE]
    /\ held = [t \in Callers |-> NoKeys]
    /\ heldAt = [t \in Callers |-> NoTime]
    /\ desperate = [t \in Callers |-> FALSE]
    /\ body = [t \in Callers |-> NoKeys]
    /\ outcome = [t \in Callers |-> "none"]

Goto(t, step) == pc' = [pc EXCEPT ![t] = step]
Hold(t, set, stamp) == /\ held' = [held EXCEPT ![t] = set]
                       /\ heldAt' = [heldAt EXCEPT ![t] = stamp]

(* Time passes, at any point of any call.                                  *)
Tick == /\ clock < MaxTime
        /\ clock' = clock + 1
        /\ UNCHANGED <<idpVars, cacheVars, gate, pc, callVars, localVars>>

(* External: the provider replaces the key set it publishes.               *)
Rotate ==
    /\ \E set \in KeySet \ {published} :
         /\ published' = set
         /\ goneSince' = [k \in Keys |->
               IF k \in set THEN NoTime
               ELSE IF k \in published THEN clock ELSE goneSince[k]]
    /\ UNCHANGED <<clock, cacheVars, gate, pc, callVars, localVars>>

(* A request enters `authenticate`, which captures the clock.              *)
Call(t) ==
    /\ pc[t] = "idle"
    /\ \E tok \in Tokens : token' = [token EXCEPT ![t] = tok]
    /\ now' = [now EXCEPT ![t] = clock]
    /\ rotating' = [rotating EXCEPT ![t] = FALSE]
    /\ Hold(t, NoKeys, NoTime)
    /\ outcome' = [outcome EXCEPT ![t] = "none"]
    /\ Goto(t, "snapshot")
    /\ UNCHANGED <<clock, idpVars, cacheVars, gate, desperate, body>>

(* `snapshot` and the expiry test of with_key: a set past the ceiling is   *)
(* dropped, as if the cache were cold.                                     *)
Snapshot(t) ==
    /\ pc[t] = "snapshot"
    /\ \/ /\ PastCeiling(now[t]) \/ keys = NoKeys
          /\ Goto(t, "refresh")
          /\ UNCHANGED <<held, heldAt>>
       \/ /\ ~PastCeiling(now[t]) /\ keys # NoKeys
          /\ Hold(t, keys, fetchedAt)
          /\ Goto(t, IF Stale(now[t]) THEN "refresh" ELSE "lookup")
    /\ UNCHANGED <<clock, idpVars, cacheVars, gate, callVars,
                   rotating, desperate, body, outcome>>

(* serve_within_ceiling: every early return of `refresh`.                  *)
FaultyServeWithinCeiling(t) == Hold(t, keys, fetchedAt) /\ UNCHANGED outcome
ServeWithinCeiling(t) ==
    \/ /\ PastCeiling(now[t])
       /\ outcome' = [outcome EXCEPT ![t] = "ceiling"]
       /\ UNCHANGED <<held, heldAt>>
    \/ /\ ~PastCeiling(now[t])
       /\ Hold(t, keys, fetchedAt)
       /\ UNCHANGED outcome

(* `refresh` returns to with_key: `?` ends the call on an error.           *)
LeaveRefresh(t) ==
    /\ Goto(t, IF outcome'[t] = "none" THEN "lookup" ELSE "idle")
    /\ desperate' = [desperate EXCEPT ![t] = FALSE]

(* The first critical section of `refresh`: who is desperate, and the rate *)
(* limit for everyone else.                                                *)
EnterRefresh(t) ==
    LET d == Waits(t) /\ (keys = NoKeys \/ PastCeiling(now[t]))
    IN  /\ pc[t] = "refresh"
        /\ \/ /\ ~d /\ ~PermitsAttempt(now[t])
              /\ ServeWithinCeiling(t)
              /\ LeaveRefresh(t)
           \/ /\ d \/ PermitsAttempt(now[t])
              /\ desperate' = [desperate EXCEPT ![t] = d]
              /\ Goto(t, "try")
              /\ UNCHANGED <<held, heldAt, outcome>>
        /\ UNCHANGED <<clock, idpVars, cacheVars, gate, callVars, rotating, body>>

(* fetch_gate.try_lock(): take a free gate, else fall back or wait.        *)
TryGate(t) ==
    /\ pc[t] = "try"
    /\ \/ /\ gate = Nobody
          /\ gate' = t
          /\ Goto(t, "recheck")
       \/ /\ gate # Nobody /\ ~Queues(t)
          /\ Goto(t, "lost")
          /\ UNCHANGED gate
       \/ /\ gate # Nobody /\ Queues(t)
          /\ Goto(t, "wait")
          /\ UNCHANGED gate
    /\ UNCHANGED <<clock, idpVars, cacheVars, callVars, localVars>>

(* A caller that lost the gate reads the cache under a lock of its own.    *)
ServeLost(t) ==
    /\ pc[t] = "lost"
    /\ ServeWithinCeiling(t)
    /\ LeaveRefresh(t)
    /\ UNCHANGED <<clock, idpVars, cacheVars, gate, callVars, rotating, body>>

(* fetch_gate.lock() of a desperate caller.                                *)
WaitGate(t) ==
    /\ pc[t] = "wait" /\ gate = Nobody
    /\ gate' = t
    /\ Goto(t, "recheck")
    /\ UNCHANGED <<clock, idpVars, cacheVars, callVars, localVars>>

(* The second critical section, under the gate: serve what another caller  *)
(* fetched, be held off by the rate limit, or claim the attempt.           *)
Recheck(t) ==
    /\ pc[t] = "recheck"
    /\ \/ /\ ~MayFetch(t)
          /\ ServeWithinCeiling(t)
          /\ Goto(t, "release")
          /\ UNCHANGED <<lastAttempt, fetches>>
       \/ /\ MayFetch(t)
          /\ lastAttempt' = now[t]
          /\ fetches' = fetches + 1
          /\ Goto(t, "fetch")
          /\ UNCHANGED <<held, heldAt, outcome>>
    /\ UNCHANGED <<clock, idpVars, keys, fetchedAt, gate, callVars,
                   rotating, desperate, body>>

(* The HTTPS GET, no lock but the gate held: the document published at     *)
(* that moment, a document without a usable key, or a failure.             *)
FetchAnswers(t) ==
    /\ pc[t] = "fetch"
    /\ \E b \in {published, {}, NoKeys} : body' = [body EXCEPT ![t] = b]
    /\ Goto(t, "install")
    /\ UNCHANGED <<clock, idpVars, cacheVars, gate, callVars,
                   rotating, held, heldAt, desperate, outcome>>

(* The fetcher panics: unwinding drops the gate, the claimed attempt stays.*)
FaultyFetchPanics(t) ==
    /\ pc[t] = "fetch"
    /\ outcome' = [outcome EXCEPT ![t] = "panic"]
    /\ desperate' = [desperate EXCEPT ![t] = FALSE]
    /\ Goto(t, "idle")
    /\ UNCHANGED <<clock, idpVars, cacheVars, gate, callVars, rotating, held, heldAt, body>>
FetchPanics(t) ==
    /\ pc[t] = "fetch"
    /\ gate' = Nobody
    /\ outcome' = [outcome EXCEPT ![t] = "panic"]
    /\ desperate' = [desperate EXCEPT ![t] = FALSE]
    /\ Goto(t, "idle")
    /\ UNCHANGED <<clock, idpVars, cacheVars, callVars, rotating, held, heldAt, body>>

(* The last critical section of `refresh`: write the set back, keep        *)
(* serving the previous one, or surface the error.                         *)
Install(t) ==
    /\ pc[t] = "install"
    /\ \/ /\ Usable(body[t])
          /\ keys' = body[t] /\ fetchedAt' = InstallStamp(t)
          /\ Hold(t, body[t], InstallStamp(t))
          /\ UNCHANGED outcome
       \/ /\ ~Usable(body[t]) /\ KeepsPrevious(t)
          /\ Hold(t, keys, fetchedAt)
          /\ UNCHANGED <<keys, fetchedAt, outcome>>
       \/ /\ ~Usable(body[t]) /\ ~KeepsPrevious(t)
          /\ outcome' = [outcome EXCEPT ![t] = "fetch_error"]
          /\ UNCHANGED <<keys, fetchedAt, held, heldAt>>
    /\ body' = [body EXCEPT ![t] = NoKeys]
    /\ Goto(t, "release")
    /\ UNCHANGED <<clock, idpVars, lastAttempt, fetches, gate, callVars, rotating, desperate>>

(* The gate guard is dropped as `refresh` returns, after the data lock.    *)
Release(t) ==
    /\ pc[t] = "release"
    /\ gate' = Nobody
    /\ UNCHANGED outcome
    /\ LeaveRefresh(t)
    /\ UNCHANGED <<clock, idpVars, cacheVars, callVars, rotating, held, heldAt, body>>

Return(t, o) == /\ outcome' = [outcome EXCEPT ![t] = o]
                /\ Goto(t, "idle")
                /\ UNCHANGED rotating

(* with_key after a refresh or a fresh snapshot: no lock held.             *)
Lookup(t) ==
    /\ pc[t] = "lookup"
    /\ \/ held[t] = NoKeys /\ Return(t, "cold")
       \/ /\ held[t] # NoKeys /\ TryAll(held[t], token[t]) # "miss"
          /\ Return(t, TryAll(held[t], token[t]))
       \/ /\ held[t] # NoKeys /\ TryAll(held[t], token[t]) = "miss" /\ ~MayRetry(t)
          /\ Return(t, "unknown_kid")
       \/ /\ held[t] # NoKeys /\ TryAll(held[t], token[t]) = "miss" /\ MayRetry(t)
          /\ rotating' = [rotating EXCEPT ![t] = TRUE]
          /\ Goto(t, "refresh")
          /\ UNCHANGED outcome
    /\ UNCHANGED <<clock, idpVars, cacheVars, gate, callVars,
                   held, heldAt, desperate, body>>

-----------------------------------------------------------------------------
(* What a caller does by itself, the fetch's answer apart.                 *)
Advance(t) == \/ Snapshot(t) \/ EnterRefresh(t) \/ TryGate(t) \/ ServeLost(t)
              \/ WaitGate(t) \/ Recheck(t) \/ Install(t) \/ Release(t) \/ Lookup(t)
Answer(t)  == FetchAnswers(t) \/ FetchPanics(t)

Next == \/ Tick
        \/ Rotate
        \/ \E t \in Callers : Call(t) \/ Advance(t) \/ Answer(t)

Spec == Init /\ [][Next]_vars

(* A thread inside `with_key` is scheduled: it takes its next step when it *)
(* can.  std's Mutex is not fair, so a waiter is promised nothing stronger *)
(* than weak fairness.                                                     *)
SchedulerFairness == \A t \in Callers : WF_vars(Advance(t))

(* JwksFetcher::fetch must be bounded in time: it answers or panics.       *)
FetcherFairness == \A t \in Callers : WF_vars(Answer(t))

(* The provider may also never answer.                                     *)
HungProviderSpec == Spec /\ SchedulerFairness

-----------------------------------------------------------------------------
(* Every variable holds a value of its type.                               *)
TypeOK ==
    /\ clock \in Nat
    /\ published \in KeySet
    /\ goneSince \in [Keys -> Times]
    /\ keys \in {NoKeys} \cup KeySet
    /\ fetchedAt \in Times /\ lastAttempt \in Times /\ fetches \in Nat
    /\ gate \in Callers \cup {Nobody}
    /\ pc \in [Callers -> Steps]
    /\ now \in [Callers -> Nat]
    /\ token \in [Callers -> Tokens]
    /\ rotating \in [Callers -> BOOLEAN]
    /\ held \in [Callers -> {NoKeys} \cup KeySet]
    /\ heldAt \in [Callers -> Times]
    /\ desperate \in [Callers -> BOOLEAN]
    /\ body \in [Callers -> {NoKeys} \cup (SUBSET Keys)]
    /\ outcome \in [Callers -> Outcomes]

(* No path through with_key and refresh hands a caller a key set that is   *)
(* past the staleness ceiling at its `now`.                                *)
CeilingRespected ==
    \A t \in Callers : held[t] # NoKeys =>
        heldAt[t] # NoTime /\ Since(now[t], heldAt[t]) < MaxStale

(* A token is accepted only if its signing key was still published less    *)
(* than MaxStale before the call, however fetches, installs, rotations and *)
(* outages interleave.                                                     *)
NoLongRevokedKey ==
    \A t \in Callers : outcome[t] = "ok" /\ goneSince[token[t].signer] # NoTime =>
        now[t] < goneSince[token[t].signer] + MaxStale

(* A caller that holds a usable key set is never refused because of the    *)
(* provider: whatever other callers do meanwhile, its refresh falls back.  *)
HolderNeverDenied ==
    \A t \in Callers :
        outcome[t] \in {"cold", "ceiling", "fetch_error"} => held[t] = NoKeys

(* The rate limit over the whole life of the cache, all triggers and       *)
(* failures included: n fetches take at least n - 1 intervals.             *)
FetchBudget ==
    fetches # 0 => lastAttempt # NoTime /\ (fetches - 1) * MinRefetch <= lastAttempt
                   /\ lastAttempt <= clock

(* A caller turned away under the gate with no keys, or with the ceiling   *)
(* error, is turned away for the reason the message gives: there is still  *)
(* nothing it could be served, an attempt was made, and the rate limit is  *)
(* holding off the next one.                                               *)
RefusalIsTruthful ==
    \A t \in Callers :
        pc[t] = "release" /\ held[t] = NoKeys /\ outcome[t] \in {"none", "ceiling"} =>
            /\ keys = NoKeys \/ PastCeiling(now[t])
            /\ lastAttempt # NoTime /\ ~PermitsAttempt(now[t])

(* Once there are keys there are keys, and the cached set never gets older,*)
(* although the threads that install sets captured their `now` in any order.*)
CacheNeverRegresses ==
    [][fetchedAt <= fetchedAt' /\ (keys # NoKeys => keys' # NoKeys)]_vars

(* A caller that holds keys when it enters refresh returns, or is fetching *)
(* itself, even if the provider never answers another caller's fetch.      *)
HolderNeverWaits ==
    \A t \in Callers :
        pc[t] = "refresh" /\ held[t] # NoKeys ~> pc[t] \in {"idle", "fetch"}

(* If every fetch ends, then when requests stop arriving every call ends:  *)
(* the gate is never leaked, and retries are bounded, whatever the provider*)
(* answers.                                                                *)
CallsReturn ==
    FetcherFairness /\ <>[][\A t \in Callers : ~Call(t)]_vars
        => <>[](\A t \in Callers : pc[t] = "idle")

(* Why calls return, for any number of them.  No call can go round: each of *)
(* its steps leaves it fewer, 17 in all with the retry of with_key, and     *)
(* nothing that another call does gives it more.                            *)
Remaining == [s \in Steps |->
    CASE s = "snapshot" -> 9 [] s = "refresh" -> 8 [] s = "try" -> 7 [] s = "wait" -> 6
      [] s = "recheck" -> 5 [] s = "fetch" -> 4 [] s = "install" -> 3
      [] s = "release" -> 2 [] s = "lost" -> 2 [] s = "lookup" -> 1 [] s = "idle" -> 0]
StepsLeft(t) == IF pc[t] = "idle" \/ rotating[t] THEN Remaining[pc[t]] ELSE Remaining[pc[t]] + 8
EveryStepCounts ==
    [][\A t \in Callers : pc'[t] # pc[t] => Call(t) \/ StepsLeft(t)' < StepsLeft(t)]_vars

(* And no call waits in vain: only one that has nothing to serve queues for *)
(* the gate, and while it does the gate is free or its holder is a call on *)
(* the way to release it, with no lock to wait for.                        *)
WaitersHaveAHolder ==
    \A t \in Callers : pc[t] = "wait" =>
        /\ held[t] = NoKeys
        /\ gate # Nobody => pc[gate] \in {"recheck", "fetch", "install", "release"}

-----------------------------------------------------------------------------
(* The cache implements the abstract lease: the threads, the gate and the  *)
(* rate limit together are one dated attempt at a time, and what callers   *)
(* hold was granted by it.                                                 *)
Fetching == \E t \in Callers : pc[t] \in {"fetch", "install"}

Lease == INSTANCE KeyLease WITH
    cached <- keys, stamp <- fetchedAt, anchor <- lastAttempt,
    inFlight <- Fetching, asked <- now, view <- held, viewAt <- heldAt

ImplementsLease == Lease!Spec

-----------------------------------------------------------------------------
(* A promise of the source that the code does not keep.                    *)

(* cache.rs:115, with_key: a kid that still misses is refetched once when  *)
(* the rate limit permits, and cache.rs:78: nothing but the fetch is done  *)
(* under the gate.  So a call refuses a token of a key that the provider   *)
(* publishes, for its kid, only within MinRefetch of an attempt, or while  *)
(* someone is at the gate making one.                                      *)
RotationIsRefetched ==
    [][\A t \in Callers :
         pc[t] = "lookup" /\ outcome'[t] = "unknown_kid" /\ token[t].signer \in published =>
           \/ lastAttempt # NoTime /\ Since(now[t], lastAttempt) < MinRefetch
           \/ gate # Nobody]_vars
=============================================================================
