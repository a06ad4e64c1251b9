# A verification of busbar's auth-oidc

TLA+ models of the OIDC auth module in this repository, TLC runs that check them
on small instances, and TLAPS proofs of what matters most for every instance.
Paths are relative to the repository; `cache.rs`, `lib.rs`, `jwks.rs`, `jwt.rs`
are under `auth-oidc/src/`, `plugin` is `auth-oidc-plugin/src/lib.rs`.

## The system

The module is a library in a gateway (the *engine*). It is passive: the engine's
threads call it, and it has no thread of its own.

| part | state | operations | talks to |
|---|---|---|---|
| JWKS cache (`cache.rs`) | `Inner` (keys, `fetched_at`, `last_attempt`) under a mutex, a second mutex as the single-flight gate | `with_key`, with `snapshot`, `refresh`, `serve_within_ceiling` | the fetcher, synchronously; every caller through the two mutexes |
| claim policy (`lib.rs`) | none | `validate_claims`, `now_unix` and their helpers | |
| OIDC module (`lib.rs`) | config, two verifiers, the cache | `authenticate`; `begin_login`, `complete_login` | the cache; the engine's credential cache and its token exchange, by return value |
| JWKS documents (`jwks.rs`) | decoded key material, memoised | `parse`, `find_all`, `material` | |
| JWT signatures (`jwt.rs`) | none | `split`, `verify_signature`, `claims` | |
| plugin open (`plugin`, `lib.rs` 720-816) | the config being completed | `open_with`, `resolve_jwks_url`, `resolve_login_endpoints`, `fetch_discovery_doc` | the fetcher, at load only |
| HTTPS fetcher (`reqwest_fetcher.rs`) | a client | `fetch` | the identity provider |

A bearer request runs `authenticate`: capture both clocks, split the token, find
a key for its kid in the cache (refreshing it when cold, stale, or when the kid
is unknown), verify the signature with no lock held, check the claims, return an
identity with a suggested cache lifetime. A login asks `begin_login` for a URL,
brings the code to `complete_login`, lets the engine run the token exchange, and
calls `complete_login` again with the response, whose `id_token` takes the same
path with the OAuth client as audience.

What is hard, and what makes each part correct:

* **JWKS cache.** N threads, two mutexes with early returns between them, `now`
  captured before all of them, a fetch of seconds that may fail, answer with
  nothing, hang or panic, and a provider that rotates or revokes keys meanwhile.
  Correct means: no key set past the staleness ceiling is used on any path; a
  withdrawn key stops verifying within the ceiling; the refetch rate limit holds
  over all triggers and failures; a holder of keys is neither refused nor made to
  wait because of the provider; a refusal is for the reason it states; the cache
  never loses keys or goes back in time; every call returns.
* **Claim policy.** Saturating and rounding arithmetic on untrusted numbers, JSON
  values of any type, and a clock that may be broken. Correct means: exactly the
  tokens of the OIDC rules are accepted, the suggested lifetime never outlives the
  token, and a broken clock refuses.
* **OIDC module.** Two audiences over one key set, a time captured long before it
  is used, a credential cache that counts from later. Correct means: no token is
  taken for what it was not minted for, replay is bounded, and a conforming login
  succeeds.
* **Signatures, documents.** Served documents mix good, odd and undecodable
  entries under any ids; algorithm, key type, curve and use can meet in any
  combination; decoded material is memoised inside a shared key set. Correct means:
  exactly the tokens that a key of the installed document signed, under the
  algorithm and the id of their header, verify, and exactly the unpublished ids
  are misses.
* **Open, fetcher.** Two GETs that may bring two different answers, a provider that
  trickles, truncates, breaks off or stays silent, a restart with another
  configuration. Correct means: no url comes from a document of another issuer,
  nothing overrides an explicit setting, only the JWKS url is fatal, no gap is
  silent, no truncated body is used, and the host's start comes to an end.

## The modules

| module | models | proofs |
|---|---|---|
| `JwksCache` | `cache.rs`, with the provider | `JwksCache_proofs` |
| `KeyLookup` | the lookup of `JwksCache` in a key set (operators only) | |
| `KeyRing` | nothing: key sets and tokens as `JwksCache` takes them, which `TokenSignature` implements | refinement in `TokenSignature_proofs` |
| `KeyLease` | nothing: what a JWKS cache promises, which `JwksCache` implements | refinement in `JwksCache_proofs` |
| `TimedCache` | `JwksCache` with fetches that take up to a timeout of real time | `TimedCache_proofs` |
| `TokenSignature` | `jwks.rs`, `jwt.rs`, and `try_all` of `cache.rs` | `TokenSignature_proofs` |
| `ClaimPolicy` | `validate_claims`, `now_unix` (operators only) | `ClaimPolicy_proofs` |
| `ClaimCheck` | one token before one validator while the host's clock does anything; extends `ClaimPolicy` | `ClaimCheck_proofs` |
| `OidcModule` | `authenticate`, `verify_with`, the login; extends `ClaimPolicy` | `OidcModule_proofs` |
| `Gateway` | `verify_with` over `with_key`: `OidcModule` and `TimedCache` together; extends both | `Gateway_proofs` |
| `HttpsFetcher` | one GET of `reqwest_fetcher.rs` | `PluginOpen_proofs` |
| `PluginOpen` | `open`, `open_with` and the discovery of `lib.rs`; extends `HttpsFetcher` | `PluginOpen_proofs` |
| `MCJwksCache`, `MCTokenSignature`, `MCClaimCheck`, `MCOidcModule`, `MCGateway`, `MCPluginOpen` | instances for TLC | |

An operator named `Faulty...` is a plausible bug in the definition after it. No
action uses one; replacing the definition by it must break a property, which
shows that the property can fail.

### JwksCache

One action is one critical section of `inner`, one operation on `fetch_gate`, or
one step of the fetch. Between them anything may happen, as between the locks of
the code.

| action | code (`cache.rs`) |
|---|---|
| `Call` | `lib.rs` 527-533: `now` is captured and never read again |
| `Snapshot` | 127-142, 207-218 |
| `EnterRefresh` | 237-245: desperate or not, the first rate limit |
| `TryGate`, `ServeLost`, `WaitGate` | 249-260; the lock of the loser at 253 is a critical section of its own |
| `Recheck` | 263-278, under the gate: satisfied, held off, or the claim of `last_attempt` |
| `FetchAnswers`, `FetchPanics` | 281-284 |
| `Install` | 286-321: write back, fall back, or surface the error |
| `Release` | the drop of `_gate`; `with_key` goes on or returns the error |
| `Lookup` | 147-182: cold, found, the one retry, unknown kid; no lock held |
| `Tick`, `Rotate` | external: the clock, the provider |

`held` is the local `keys` of `with_key`. `heldAt`, `goneSince` and `fetches` are
history variables: the code has no such state and no guard reads them. A key set
is a set of keys and a token a kid with the key that signed it, so signatures
are perfect here; that documents and signatures come to this is `ImplementsRing`. A fetch returns what the provider publishes at that instant,
a document without keys, or a failure. Poisoned mutexes are recovered everywhere
(251, 258, 373), so a panic only frees the gate.

### TimedCache

In `JwksCache` the clock may pass at any point, which is right for safety and says
nothing about waiting. Here a thread that can run does so before the clock moves:
time passes only while every call is in a fetch or behind one, and for at most
`FetchTimeout` in one fetch. That is what `JwksFetcher::fetch` demands of its
implementations (47-56, "MUST be bounded both in TIME"), and a hypothesis of all
that is said here of real time, in `Gateway` too: the HTTPS fetcher keeps its
timeout against a provider that is silent from the start, but not against one
that pauses inside its answer (`HttpsFetcher` below). `fetchSince` is
a history variable, the real start of the last fetch; the code keeps only
`last_attempt`, the *captured* time of the call that claimed it. That the two agree
is what turns the rate limit on captured times into one on real requests.

`TimeoutAssumption` (a fetch ends before the interval does) is a condition on the
fetcher and on the configuration. With the default interval of 60 s it holds while
a fetch takes the 10 s that the plugin means it to. It fails when
`jwks_min_refetch_secs` is set shorter or the provider makes one GET last longer,
and then `WithinOneTimeout` is false: TLC finds cold callers that each get the gate
after a failed fetch, are permitted by an interval that is over, and make those
behind them wait for one fetch after another, which is what `cache.rs` 30-34
rules out ("ONE fetch, not N serial 10-second ones").

### TokenSignature

A document is a sequence of entries, an entry a record of the members the code
looks at or `NotAJwk`. `KeysOf` and `Parses` are `skip_unusable_keys` and `parse`,
`FromJwk` decodes, `Material` memoises (`decoded` is the `OnceLock` of each key),
`FindAll`, `Fits`, `VerifySignature` and `TryAll` are the code's functions in its
order. Encodings are abstracted to what they decode to: a key field to a public
key or `Broken`, a segment to its content or `Garbled`. `ring` is external: a
signature is its signer and the segments it was made over. The reference,
`Genuine`, knows no parser, memo, order or other entry.

`Ring` is the view that `JwksCache` has of all this, and `KeyRing` the
specification of that view: an entry is a key for each public half it can verify
with and one more for its id (`SlotsOf`), since an entry that can verify nothing
still keeps its id from being a miss; a token is signed by the key of its own id and
algorithm (`AsToken`), or by none. The two modules share the operator `TryAll` of
`KeyLookup`, so what the cache and the gateway assume of a lookup is what is shown
of `jwks.rs` and `jwt.rs`.

### ClaimPolicy and ClaimCheck

Claims are JSON values `[type, value]`; numbers count half seconds, so that the
rounding of fractional dates exists, and are not limited to i64. `Refusal` keeps
the order of the code's checks. `Admissible` states the same policy again,
independently: no rounding, no saturation, no order. The display name is left
out. Doubles are exact here: beyond 2^53 the code's `as_f64` rounds a date to a
neighbouring double before it floors, which only concerns dates millions of
years away. `ClaimCheck` is the state machine its properties are stated over: a
token, and a clock that ticks or is set to anything, a time before the epoch
included.

### OidcModule

`nowUnix` is captured by `StartVerify`, and `WithKey` stands for `with_key`: any
error is possible there at any time, a success only for a token that a key of the
provider signed. The claims follow in a step of their own. `CacheHit` and `Store`
are the engine's credential cache as the code's comments use it (`lib.rs` 59-67,
323-334): keyed by the token, for `ttl_secs`, from the moment it gets the
identity. `ProviderAnswers` is the exchange that the engine runs. The login
endpoints are any subset, what a config and a discovery may leave. `MaxDelay`
bounds a verification; here it is an assumption of `WallTick`, and `Gateway`
discharges it. In `Stages`, `MoveTo` and the rest the names are those of a module
that can stand beside the cache.

### Gateway

What `OidcModule` leaves open about `with_key`, its result and how long it takes,
is decided here by the cache. The two specifications are joined by conjunction:
a thread that presents a JWT is the cache's caller of the same name until
`with_key` returns.

| action | code |
|---|---|
| `Authenticate`, `CompleteWithResponse` with `AskCache` | `lib.rs` 479-497: both clocks are captured, the kid taken from the header, `with_key` called |
| `InCache` | `cache.rs` 121-183: one step of the thread inside `with_key` |
| `KeyReturn`, in the last of those steps | `lib.rs` 494-510: a verified signature goes on to the claims, every error rejects; a panic unwinds and leaves no identity |
| `Bearer`, `Login` | the other steps of `OidcModule`; the cache is not touched |
| `Elapse` | external: both clocks, together |
| `Rotate` | external: the provider |

`SignedBy` gives each JWT its kid and the key that signed it; `Genuine` is then no
longer a free set but the tokens that a key of the provider signed. The wall clock
is the monotonic one plus an offset, so an adjusted host clock is left to
`ClaimCheck`. Time passes only when no thread could take a step of its own: what
the gateway measures is waiting, in fetches and behind them, and the microseconds
of the claims check count as none. `GatewayModuleTheorem` says that all this is
`OidcModule` with `MaxDelay` equal to the fetch timeout.

The cache of the engine knows nothing of keys: an identity it holds is served
after its key was withdrawn. `WithdrawnKeyOpensNothing` adds up what that leaves:
the ceiling of the JWKS cache, one fetch between the capture of the clock and the
store, and the longest ttl.

### HttpsFetcher and PluginOpen

`Get`, `Respond`, `Read`, `ReadToEnd` and `Taken` are `fetch` and `read_capped`;
`Break`, `Elapse` and `ExpireFetch` are the network, the clock and the client's
timer. A page is its status, document, size and whether it is UTF-8. The client is
`reqwest::blocking`, whose `ClientBuilder::timeout` bounds one operation: `send`,
up to the head of the response, and then every read that `read_to_end` makes of
the body. So `waited` starts again with `Respond` and with each `Read`, and a
provider that sends a byte at a time keeps the fetch alive until `take` stops it
at the cap: `FetchBound` is the cap and two more timeouts, which for the 1 MiB and
the 10 s of the code is four months. Reqwest's source is not part of this
repository; this is what its documentation says of the blocking client.

`PluginOpen` is one load of the plugin, again after every restart with any
configuration: `Open` (`plugin` 27-57), `ResolveJwks` and `JwksDocument`
(`resolve_jwks_url`), `ResolveLogin` and `LoginDocument`
(`resolve_login_endpoints`, the match of `open_with`), `BuildClient` (the second
client, 107-108; a client that cannot be built ends the load in `no_client`). The two discovery GETs are
separate fetches and may be answered differently. `Base` is the issuer without its
trailing slashes. `received` and `spent` are history variables.

## The runs

| run | shows | instance |
|---|---|---|
| `safety` | the seven safety properties of the cache | 2 callers, 2 keys, clock to 5 |
| `promises` | `JwksCache` implements `KeyLease`; a holder of keys never waits, even if a fetch never ends; every call returns when fetches end and requests stop; each step of a call leaves it fewer, and none queues for a gate that nobody will free | 2 callers, 1 key, a known and an unknown kid, clock to 4 |
| `gateway` | the module over its cache is the module of `OidcModule`; no thread waits for more than one fetch; the provider's rate in real time; the end of a withdrawn key, and of the identities it gave | 1 request and 1 login with a good and a forged token, 2 keys, timeout 1, clock to 3 |
| `signature` | exactly the genuine tokens verify, exactly the unpublished ids miss; `TokenSignature` implements `KeyRing` | documents of up to 2 of 14 kinds of entry, tokens of 3 algorithms, 4 ids, 3 signers, critical extensions, garbled and foreign segments |
| `claims` | the claim policy is the exact one; ttl; broken clocks | i64 of 4 bits, every date of it and beyond both ends by half seconds, every shape of the other claims |
| `module` | token confusion, replay bound, conforming logins | 2 requests, 1 login, 5 tokens, clock to 5 |
| `open` | whole bodies only, provenance of every url, pinned keys boot, no silent gap, loading ends, in a time that the cap bounds | 28 configurations, 7 documents, sizes around a cap of 2, timeout 2, restarts |
| `lost_rotation`, `unusable_set`, `half_login`, `slow_fetch`, `cache_end` | five comments or messages that the code does not keep (below) | |

**Bounds.** `MaxTime` and `MaxWall` bound the clocks, `MaxDelay` the time from
the capture of the wall clock to the verdict, and nothing else is cut:
`fetches` is bounded by the rate limit, everything else by its type. In the
cache runs the interval is 2, the ttl 1 and the ceiling 3: the clock of `safety`
reaches a set past the ceiling, a failed recovery inside the interval and another
after it. Two callers give every pair of critical sections in every order, and two
keys under two ids make a rotation a miss. `gateway` has an interval of 2 and a
timeout of 1, the shortest that differ; its two threads are a bearer request and a
login, its clock lets a second attempt follow a failed one and a cached identity
outlive its key. The client is the audience there, the default of the
configuration; two audiences over one cache are in `module`. A waiter that gets the
gate while a third thread queues is left to the theorems, which are about any
number of threads. In `signature` two entries give every pair of entries that could
disturb each other, in both orders, and the memo is the only other state; nothing
bounds the length of a run. In `module` the bearer token expires at 2 and the skew
is 1, so that a token is accepted past its expiry, and a cached identity outlives
it, before the clock ends. In `open` a body of the cap, one byte less, one more and
two more are the cases of `read_capped`; `spent` stops counting one past its bound,
so that a violation is seen and the states stay finite. The cache's safety runs
use the symmetry of the callers and, where there are two, of the keys with their
ids and tokens; `module` uses that of requests; `gateway`, whose two threads differ,
and the runs with liveness use none.

**Fairness.** `SchedulerFairness` is weak fairness of each call's own steps: a
thread that can run does. It is weak also for the lock of a queued caller, since
std's `Mutex` is not fair. `FetcherFairness` is that a fetch ends, by an answer
or a panic: the contract of `JwksFetcher::fetch` (47-56), which the HTTPS fetcher
keeps because each of its operations has a timeout and the cap bounds how many
there are; `OpenEnds` shows it. It is not part of `HungProviderSpec`, under which
`HolderNeverWaits` holds; `CallsReturn` has it as a hypothesis, beside that
requests stop: with endless arrivals an unfair mutex may starve a waiter, and
nothing in the code forbids it. `PluginOpen` has weak fairness of the loading
thread, the clock and the client's timer, and none of the provider, so `OpenEnds`
holds against one that never answers. The thread includes `CutOff`, the end of a
read at the limit of `take`, which waits for nobody; fairness of `Open` is not assumed.

**What the comments say and the code does not do.**

* `lost_rotation`: a rotation refetch is lost to a gate holder that is not
  fetching (any more), although `cache.rs` 78 says nothing but the fetch is done
  under the gate. It needs a fetch or a stall longer than the configured
  interval: with the default of 60 s and a timeout of 10 s, a provider that pauses
  inside its answer, as in `slow_fetch`.
* `unusable_set`: `parse` refuses a document when no entry deserializes
  (`jwks.rs` 157), while its comment (146-151) speaks of zero *usable* keys and of
  the outage that installing one would cause. A document of entries that
  deserialize and can verify nothing replaces a working set.
* `half_login`: after the message that `begin_login` will refuse every attempt
  (`plugin` 117-120), `begin_login` sends users to the provider if the
  authorization endpoint alone is configured: a failed discovery keeps it, and
  `begin_login` looks at nothing else.
* `slow_fetch`: the comments of `reqwest_fetcher.rs` (37-38, 44) speak of a "total
  timeout" by which a slow provider can never hang auth. The timeout is one per
  operation, and a provider that stalls once after the head of its response already
  makes a GET last for two.
* `cache_end`: the ttl is counted from before the JWKS wait, so a cached identity
  may outlive its token by as long as that took. `ReplayIsBounded` is what holds.

One more comment is imprecise without consequence: a test comment (`cache.rs` 1183)
calls the ceiling error on the re-check under the gate unreachable, since a desperate
caller has no keys. A caller past the ceiling counts as desperate, too, and its next
call after a failed recovery comes there with no other caller in sight, as the test
at 833-891 has it. The outcome is the right one, and `RefusalIsTruthful` is about it.

## The proofs

For any number of callers, any keys and kids, any intervals and any length of run:
type correctness, `CeilingRespected`, `NoLongRevokedKey`, `FetchBudget`,
`RefusalIsTruthful`; and, when the refetch interval is positive,
`HolderNeverDenied`, `CacheNeverRegresses` and that `JwksCache` implements
`KeyLease`. The interval is a setting that may be 0, and then attempts of the
same or of an earlier `now` follow each other: stamps can go back, which is why
those three need it.

The properties are not inductive. `SafeInv` adds: exactly the caller between
taking and dropping the gate is its holder (`GateInv`); no stamp is ahead of the
clock (`TimeInv`); there is a stamp exactly when there are cached keys
(`StampInv`); no key of a cached, held or fetched set was gone before the set's
stamp, which is what turns the ceiling into a bound on withdrawn keys
(`AliveInv`); an answer is pending only before its install (`BodyInv`); an
accepted token's signer is a key (`SignerInv`). `OrderedInv` adds, for a positive
interval: the attempt in flight is the last one claimed (`FlightInv`), no set is
dated after it and no caller holds one newer than the cache's (`OrderInv`), and
an outcome is that of the call that ended (`OutcomeInv`). TLC checked both before
they were proved. The refinement goes action by action: `Recheck` is
`Begin` or `Read`, `Install` is `Succeed` or `Fail`, `FetchPanics` is `Fail`, and
what only moves a thread stutters.

Of the progress of a call, the part that is safety: `EveryStepCounts` (every step of
a call leaves it fewer, 17 in all with the retry, and no step of another gives it
more) and `WaitersHaveAHolder` (only a call with nothing to serve queues, and the
gate is then free or its holder is under way to release it, which is `GateInv` with
`QueueInv`, on who is desperate). They hold for any rate limit, and leave of
`CallsReturn` what fairness contributes: that a thread which can run does, and a
fetch ends. The same invariant is why `HolderNeverWaits` holds: a caller with keys
has no lock to queue for.

For `TimedCache`, with any number of callers and fetches bounded as the trait
demands: `WithinOneTimeout`, `RateLimited` and
`WithdrawnKeyEnds`. On top of `OrderedInv` the invariant says that the last real
start is the last stamp and that an attempt in flight is younger than the timeout
(`SinceInv`), and that a call which has lasted at all met an attempt in flight when
it came (`PromptInv`). From these follows `ClaimIsPrompt`, the step the argument
turns on: a call that waited is still within the interval of the attempt it waited
for, so only a call of this very moment claims the next one.

For `TokenSignature`, with any documents, keys and tokens: `VerdictIsExact` and
`MissIsUnpublished`. The invariant says where the installed keys come from
(`Origin`) and that every memo is what its own key decodes to (`Memo`). From the
same invariant `RingTheorem`: a refresh is `Install` or `Ignore`, a verification
`LookUp`, because an id stands in the ring exactly when it stands in the document
(`RingIds`) and a token's signer exactly when the token is genuine (`RingSigner`).
`RingTypes` and `TokenTypes` show that the view has the types that `JwksCache`
assumes of its keys and tokens.

For `PluginOpen`, with any pages, configurations, cap and timeout: every invariant
of the run. `FetchInv` says of a read in progress what `WholeBodyOrNothing` needs
at its end, `ConfigInv`, `KeysInv` and `LoadedInv` follow provenance through the
load. `LoadIsBounded` needs a measure of what a fetch may still take, `Spendable`:
the timeouts of the head, of the bytes in the buffer and of the operation waited for.
A read moves the time waited into it, because it brings a byte at least, and the cap
ends the sum; `TimeInv` splits the time spent among the two fetches.

For the claim policy, for all claims and configurations: `PolicyIsExact` (at any
time up to the last skew of i64, acceptance is `Admissible`), `TtlIsWithinLife` and
`UntrustedClockRefuses`, as lemmas about operators; and from them, with any set of
well-formed claims and any clock, the three properties of `ClaimCheck`.

For `OidcModule`, with any tokens, claims, requests and logins: `TypeOK`,
`NoTokenConfusion`, `ReplayIsBounded` and `ConformingLoginSucceeds`. What has to be
added is how old a captured time may be (`Captured`), what a request that is about
to hand an identity over was checked for (`Checked`), what a live entry of the
credential cache rests on (`Backed`: a genuine token for the API's audience whose
expiry is at most `MaxDelay` before the entry's end), and that every hop of a login
names the client that its id_token is checked against (`SameHop`).

For `Gateway`, with any number of requests and logins, any keys, tokens and claims:
`ImplementsModule`, `WithdrawnKeyOpensNothing`, and every property of the two modules
it is made of. The proof reuses theirs: `ToTimed` and `ToOidc` show that each step of
the gateway is a step of the cache or none of it, and one of the module or none of
it, so `TimedInv` and `OidcInv` are kept by the lemmas already proved. What joins the
two is `JointInv`: a thread is in the cache exactly while its verification asks for
a key (`InKeys`), for the token it presented and the instant at which it read the
wall clock (`SameCall`), and past the cache it has the verdict of a key and has
lost no time (`Verified`). The step that needs all of it is `ElapseIsTick`: the
clock may pass only because no call of the cache waits longer than one fetch,
which is `WithinOneTimeout`, an invariant of the cache, about a time captured by the
module. Hence `GatewayAdmissionTheorem` and `GatewayTimeTheorem`: the replay bound
holds with a delay that is measured, not assumed, and the bounds on waiting hold
for requests and logins together. For `WithdrawnKeyOpensNothing` the invariant
follows an identity into the engine's cache (`Entry`): no live entry of a withdrawn
key ends later than the ceiling, one fetch and one longest ttl after the withdrawal.

The assumptions are those of the constants: distinct markers, natural numbers, a
positive staleness floor (24 h in the code), skew, floor and ttl ceiling within
i64, claims that are JSON values, a wall clock that ends before the last skew of
i64, and in `TimedCache` and `Gateway` fetches that end within a time shorter than the
refetch interval (which the HTTPS fetcher guarantees only of a provider that does
not pause inside its answer, see above). `GatewayAssumption` ties the constants of the two modules to each other:
the same threads, tokens signed as the cache sees them, and one time scale.

Model-checked only: liveness (`HolderNeverWaits`, `CallsReturn`, `OpenEnds`), which
is out of the prover's reach; the two theorems on progress and `LoadIsBounded` are
as far as safety goes towards it.

## Not modelled, and why

* reqwest, TLS, `ring`, base64url and JSON syntax: libraries, modelled only as the
  code uses them.
* Wording, logs, percent-encoding, the display name, scopes, `state`, `nonce` and
  PKCE values: passed through by this module without a branch of its own (the
  scopes are deduplicated), bound and checked by the engine.
* What the configuration parser accepts, beyond what `PluginOpen` tells apart:
  serde's work.
* A refetch interval of 0, or shorter than the fetch timeout, in the runs: the
  theorems that need no positive interval hold there too, the others name it.
* An http `jwks_uri` of a discovered document: loads, and every fetch refuses it.
  It is in the documents of `open`, and no sentence of the repository promises
  more, so no property is about it.
* Test kit, example, packaging, the ABI export macro and the engine itself.

## Plan

Done, in this order: `JwksCache`, its proofs, `KeyLease` and the refinement;
`ClaimPolicy` and its proofs; `OidcModule`; `TokenSignature`, `HttpsFetcher` and
`PluginOpen` with their proofs; `TimedCache` and its proofs; the proofs of
`ClaimCheck` and `OidcModule`; `Gateway` and its proofs; `KeyRing` and the
refinement.

What could follow:

1. One specification of the whole path, with the documents of `TokenSignature` under
   the gateway. As it stands the three meet in `KeyLookup`: `Gateway` implements
   `OidcModule` over it and `TokenSignature` implements `KeyRing`, which uses it too.
2. `build_authorize_url` and `build_token_exchange` as values: that no scope,
   state or nonce can change another parameter of the URL.
