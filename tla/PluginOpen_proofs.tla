-------------------------- MODULE PluginOpen_proofs --------------------------
(***************************************************************************)
(* Theorems of PluginOpen and of the fetcher below it, for any pages, cap, *)
(* timeout and configurations.                                             *)
(***************************************************************************)
EXTENDS PluginOpen, TLAPS

(* The fetcher's own invariant: the buffer holds a part of the response    *)
(* that is being read, and an answer is that response's document.          *)
ReadingInv == /\ phase = "sending" => got = 0
              /\ phase = "reading" => page \in Pages /\ page.success /\ got <= ToRead
              /\ phase = "reading" /\ got = ReadLimit => waited = 0
FetchInv == FetchTypeOK /\ ReadingInv /\ WholeBodyOrNothing

(* The configuration a step works on, and what it has made of it so far.   *)
OpenTypeOK == /\ step \in Steps
              /\ cfg \in Configs \cup {NoConfig}
              /\ phase # "idle" <=> step \in {"jwks_doc", "login_doc"}
              /\ DOMAIN endpoints = Login
              /\ warned \in BOOLEAN
              /\ received \subseteq {p.doc : p \in Pages}
              /\ spent \in Nat
Loading == step \in {"jwks", "jwks_doc", "login", "login_doc"}
Resolved == step \in {"client", "loaded"}
ConfigInv == /\ Loading => endpoints = [e \in Login |-> cfg[e]] /\ ~warned
             /\ step = "jwks_doc" => cfg.jwks = None
KeysInv == step \in {"login", "login_doc"} \/ Resolved =>
              jwksUrl # None /\ Provenance(cfg.jwks, jwksUrl, "jwks")
LoadedInv == Resolved => \A e \in Login : Provenance(cfg[e], endpoints[e], e)
GapInv == Resolved /\ ~warned =>
            \A e \in Login : endpoints[e] = None =>
              \E d \in received \ {NotJson} : d.issuer = cfg.issuer /\ d[e] = None
LoadInv == /\ OpenTypeOK /\ ConfigInv /\ KeysInv /\ LoadedInv
           /\ PinnedKeysBoot /\ GapInv

(* The time a fetch may have taken so far: every operation that has ended  *)
(* but the first brought a byte.                                           *)
Spendable == CASE phase = "idle" -> 0
               [] phase = "sending" -> waited
               [] phase = "reading" -> (got + 1) * Timeout + waited
               [] phase = "done" -> FetchBound

(* Each of the two fetches has that much.                                  *)
TimeInv == /\ step = "jwks" => spent = 0
           /\ step = "jwks_doc" => spent <= Spendable
           /\ step = "login" => spent <= FetchBound
           /\ step = "login_doc" => spent <= FetchBound + Spendable
           /\ LoadIsBounded

OpenInv == FetchInv /\ LoadInv /\ TimeInv

USE DEF Login

-----------------------------------------------------------------------------
LEMMA ReadLimits ==
    ASSUME page \in Pages
    PROVE  /\ page.size \in Nat /\ Cap \in Nat /\ ToRead \in Nat
           /\ ToRead <= Cap + 1 /\ (ToRead <= Cap => ToRead = page.size)
BY FetcherAssumption DEF ReadLimit, ToRead

(* A wait within the timeout, for an operation that has n ahead of it.     *)
LEMMA OneMoreTimeout ==
    ASSUME NEW n \in Nat, NEW m \in Nat, n < m, NEW w \in 0..Timeout
    PROVE  n * Timeout + w <= m * Timeout
<1>. DEFINE d == m - n
<1>1. d \in Nat /\ d >= 1 /\ m = n + d /\ Timeout \in Nat
  BY FetcherAssumption
<1>. HIDE DEF d
<1>2. (n + d) * Timeout = n * Timeout + d * Timeout /\ d * Timeout >= Timeout
  BY <1>1
<1>3. n * Timeout \in Nat /\ d * Timeout \in Nat
  BY <1>1
<1>. QED  BY <1>1, <1>2, <1>3

(* A read that brings bytes makes up for the time it took.                 *)
LEMMA BytesForTime ==
    ASSUME NEW g \in 0..(Cap + 1), NEW h \in 0..(Cap + 1), g < h, NEW w \in 0..Timeout
    PROVE  (g + 1) * Timeout + w <= (h + 1) * Timeout /\ (h + 1) * Timeout \in Nat
<1>1. g + 1 \in Nat /\ h + 1 \in Nat /\ g + 1 < h + 1 /\ Timeout \in Nat
  BY FetcherAssumption
<1>2. (h + 1) * Timeout \in Nat
  BY <1>1
<1>. QED  BY <1>1, <1>2, OneMoreTimeout

LEMMA BoundType == FetchBound \in Nat /\ Timeout \in Nat /\ LoadBound \in Nat /\ LoadBound = FetchBound + FetchBound
BY FetcherAssumption DEF FetchBound, LoadBound

(* What can be spent is a time, up to the bound.                           *)
LEMMA SpendableType ==
    ASSUME FetchInv
    PROVE  Spendable \in Nat /\ Spendable <= FetchBound
<1>1. /\ phase \in Phases /\ got \in 0..(Cap + 1) /\ waited \in 0..Timeout
      /\ Cap \in Nat /\ Timeout \in Nat /\ FetchBound \in Nat
  BY FetcherAssumption, BoundType DEF FetchInv, FetchTypeOK
<1>2. CASE phase = "idle" \/ phase = "done"
  BY <1>1, <1>2 DEF Spendable
<1>3. CASE phase = "sending"
  <2>1. 0 * Timeout + waited <= (Cap + 2) * Timeout
    BY <1>1, OneMoreTimeout
  <2>. QED  BY <1>1, <1>3, <2>1 DEF Spendable, FetchBound
<1>4. CASE phase = "reading"
  <2>0. (got + 1) * Timeout \in Nat
    BY <1>1
  <2>1. CASE got < Cap + 1
    <3>1. (got + 1) * Timeout + waited <= (Cap + 2) * Timeout
      BY <1>1, <2>1, OneMoreTimeout
    <3>. QED  BY <1>1, <1>4, <2>0, <3>1 DEF Spendable, FetchBound
  <2>2. CASE got = Cap + 1
    <3>1. waited = 0 /\ (got + 1) * Timeout = (Cap + 2) * Timeout
      BY <1>1, <1>4, <2>2 DEF FetchInv, ReadingInv, ReadLimit
    <3>. QED  BY <1>1, <1>4, <2>0, <3>1 DEF Spendable, FetchBound
  <2>. QED  BY <1>1, <2>1, <2>2
<1>. QED  BY <1>1, <1>2, <1>3, <1>4 DEF Phases

LEMMA SpendableNext == FetchInv' => Spendable' \in Nat /\ Spendable' <= FetchBound
<1>1. FetchInv => Spendable \in Nat /\ Spendable <= FetchBound
  BY SpendableType
<1>2. FetchInv' => (Spendable \in Nat /\ Spendable <= FetchBound)'
  BY <1>1, PTL
<1>3. FetchBound' = FetchBound
  BY DEF FetchBound
<1>. QED  BY <1>2, <1>3

(* One step of the fetcher.                                                *)
LEMMA TransferFetch ==
    ASSUME FetchInv, Respond \/ Read \/ ReadToEnd \/ Break
    PROVE  FetchInv' /\ Spendable <= Spendable' /\ phase # "idle" /\ phase' # "idle"
<1>. USE DEF FetchInv
<1>type. /\ Spendable \in Nat /\ Spendable <= FetchBound /\ FetchBound \in Nat
         /\ got \in 0..(Cap + 1) /\ waited \in 0..Timeout /\ Timeout \in Nat /\ Cap \in Nat
  BY SpendableType, BoundType, FetcherAssumption DEF FetchTypeOK
<1>done. phase' = "done" => Spendable <= Spendable'
  BY <1>type DEF Spendable, FetchBound
<1>1. CASE Respond
  <2>1. PICK p \in Pages : /\ page' = p
                           /\ \/ p.success /\ phase' = "reading" /\ waited' = 0 /\ UNCHANGED answer
                              \/ ~p.success /\ Answer(Failed) /\ UNCHANGED waited
    BY <1>1 DEF Respond
  <2>2. phase = "sending" /\ got = 0 /\ got' = got
    BY <1>1 DEF Respond, ReadingInv
  <2>3. CASE p.success /\ phase' = "reading" /\ waited' = 0 /\ UNCHANGED answer
    <3>1. (ToRead \in Nat)'
      BY <2>1, FetcherAssumption DEF ReadLimit, ToRead
    <3>2. FetchInv'
      BY <1>type, <2>1, <2>2, <2>3, <3>1 DEF FetchTypeOK, ReadingInv, WholeBodyOrNothing, Phases
    <3>3. Spendable = waited /\ Spendable' = (0 + 1) * Timeout + 0
      BY <2>2, <2>3 DEF Spendable
    <3>. QED  BY <1>type, <2>2, <2>3, <3>2, <3>3
  <2>4. CASE ~p.success /\ Answer(Failed) /\ UNCHANGED waited
    BY <1>done, <2>1, <2>2, <2>4 DEF Answer, FetchTypeOK, ReadingInv, WholeBodyOrNothing, Phases
  <2>. QED  BY <2>1, <2>3, <2>4
<1>2. CASE Read
  <2>1. /\ phase = "reading" /\ phase' = "reading" /\ page' = page /\ answer' = answer
        /\ waited' = 0 /\ got' \in (got + 1)..ToRead
    BY <1>2 DEF Read
  <2>2. page \in Pages /\ page.success /\ got \in 0..(Cap + 1)
    BY <2>1 DEF ReadingInv, FetchTypeOK
  <2>3. ToRead' = ToRead
    BY <2>1 DEF ToRead, ReadLimit
  <2>4. got' \in 0..(Cap + 1) /\ got' <= ToRead
    BY <2>1, <2>2, ReadLimits
  <2>5. FetchInv'
    BY <1>type, <2>1, <2>2, <2>3, <2>4 DEF FetchTypeOK, ReadingInv, WholeBodyOrNothing
  <2>6. got < got'
    BY <1>type, <2>1, <2>4
  <2>7. Spendable = (got + 1) * Timeout + waited /\ Spendable' = (got' + 1) * Timeout + 0
    BY <2>1 DEF Spendable
  <2>8. /\ (got + 1) * Timeout + waited <= (got' + 1) * Timeout
        /\ (got' + 1) * Timeout \in Nat
    BY <1>type, <2>4, <2>6, BytesForTime
  <2>. QED  BY <2>1, <2>5, <2>6, <2>7, <2>8
<1>3. CASE ReadToEnd
  <2>1. /\ phase = "reading" /\ got = ToRead /\ phase' = "done"
        /\ answer' = (IF got > Cap \/ ~page.utf8 THEN Failed ELSE page.doc)
        /\ page' = page /\ got' = got /\ waited' = waited
    BY <1>3 DEF ReadToEnd, Answer
  <2>2. page \in Pages /\ page.success /\ got \in 0..(Cap + 1)
    BY <2>1 DEF ReadingInv, FetchTypeOK
  <2>3. answer' # Failed => got <= Cap /\ page.utf8 /\ answer' = page.doc /\ got = page.size
    BY <2>1, <2>2, ReadLimits
  <2>4. answer' \in {p.doc : p \in Pages} \cup {Failed}
    BY <2>1, <2>2
  <2>. QED  BY <1>done, <2>1, <2>2, <2>3, <2>4 DEF FetchTypeOK, ReadingInv, WholeBodyOrNothing, Phases
<1>4. CASE Break
  BY <1>done, <1>4 DEF Break, Pending, Answer, FetchTypeOK, ReadingInv, WholeBodyOrNothing, Phases
<1>. QED  BY <1>1, <1>2, <1>3, <1>4

(* The timer, and its end.                                                 *)
LEMMA TimerFetch ==
    ASSUME FetchInv
    PROVE  /\ Elapse => FetchInv' /\ Spendable' = Spendable + 1 /\ phase # "idle" /\ phase' # "idle"
           /\ ExpireFetch => FetchInv' /\ Spendable <= Spendable' /\ phase # "idle" /\ phase' # "idle"
<1>type. /\ Spendable \in Nat /\ Spendable <= FetchBound /\ FetchBound \in Nat
         /\ got \in 0..(Cap + 1) /\ waited \in 0..Timeout /\ Timeout \in Nat
  BY SpendableType, BoundType DEF FetchInv, FetchTypeOK
<1>1. CASE Elapse
  <2>1. /\ waited' = waited + 1 /\ waited < Timeout /\ UNCHANGED <<phase, page, got, answer>>
        /\ phase = "sending" \/ (phase = "reading" /\ got < ReadLimit)
    BY <1>1 DEF Elapse, Pending
  <2>2. FetchInv'
    BY <1>type, <2>1, FetcherAssumption
       DEF FetchInv, FetchTypeOK, ReadingInv, WholeBodyOrNothing, ToRead, ReadLimit
  <2>3. Spendable' = Spendable + 1
    <3>1. CASE phase = "sending"
      BY <2>1, <3>1 DEF Spendable
    <3>2. CASE phase = "reading"
      <4>1. (got + 1) * Timeout \in Nat
        BY <1>type, FetcherAssumption
      <4>2. /\ Spendable = (got + 1) * Timeout + waited
            /\ Spendable' = (got + 1) * Timeout + (waited + 1)
        BY <2>1, <3>2 DEF Spendable
      <4>. QED  BY <1>type, <4>1, <4>2
    <3>. QED  BY <2>1, <3>1, <3>2
  <2>. QED  BY <2>1, <2>2, <2>3 DEF ExpireFetch
<1>2. CASE ExpireFetch
  <2>1. Spendable' = FetchBound
    BY <1>2 DEF ExpireFetch, GiveUp, Answer, Spendable, FetchBound
  <2>2. FetchInv'
    BY <1>2 DEF ExpireFetch, GiveUp, Pending, Answer, FetchInv, FetchTypeOK, ReadingInv,
                WholeBodyOrNothing, Phases
  <2>. QED  BY <1>2, <1>type, <2>1, <2>2 DEF ExpireFetch, GiveUp, Pending, Answer, Elapse
<1>. QED  BY <1>1, <1>2

(* A fetch that starts, and one whose answer is taken.                     *)
LEMMA GetFetch ==
    ASSUME FetchInv, GetDiscovery
    PROVE  FetchInv' /\ phase = "idle" /\ phase' # "idle"
BY FetcherAssumption
   DEF GetDiscovery, Get, Answer, FetchInv, FetchTypeOK, ReadingInv, WholeBodyOrNothing, Phases

LEMMA TakenFetch ==
    ASSUME FetchInv, Receive
    PROVE  /\ FetchInv' /\ phase = "done" /\ phase' = "idle"
           /\ answer # Failed => answer \in {p.doc : p \in Pages} /\ answer \in received'
           /\ received \subseteq received' /\ Spendable = FetchBound
           /\ received' \subseteq received \cup {p.doc : p \in Pages}
BY FetcherAssumption
   DEF Receive, Taken, FetchInv, FetchTypeOK, ReadingInv, WholeBodyOrNothing, Phases, Spendable

(* What holds of the load while the fetcher works.                         *)
LEMMA LoadFrame ==
    ASSUME LoadInv, UNCHANGED <<step, cfg, jwksUrl, endpoints, warned, received>>,
           phase # "idle", phase' # "idle", spent' \in Nat
    PROVE  LoadInv'
BY DEF LoadInv, OpenTypeOK, ConfigInv, KeysInv, LoadedInv, PinnedKeysBoot, GapInv, Loading, Resolved,
       Provenance

-----------------------------------------------------------------------------
LEMMA OpenInit == Init => OpenInv
<1>. SUFFICES ASSUME Init PROVE OpenInv
  OBVIOUS
<1>1. FetchInv
  BY FetcherAssumption
     DEF Init, FetchInit, FetchInv, FetchTypeOK, WholeBodyOrNothing, ReadingInv, Phases
<1>2. OpenTypeOK
  <2>1. phase = "idle" /\ step = "off" /\ DOMAIN endpoints = Login /\ received = {} /\ spent = 0
    BY DEF Init, FetchInit
  <2>2. cfg = NoConfig /\ warned = FALSE
    BY DEF Init
  <2>. QED  BY <2>1, <2>2 DEF OpenTypeOK, Steps
<1>3. ConfigInv /\ KeysInv /\ LoadedInv /\ PinnedKeysBoot /\ GapInv
  BY DEF Init, ConfigInv, KeysInv, LoadedInv, PinnedKeysBoot, GapInv, Loading, Resolved
<1>4. TimeInv
  BY BoundType DEF Init, TimeInv, LoadIsBounded
<1>. QED  BY <1>1, <1>2, <1>3, <1>4 DEF OpenInv, LoadInv

LEMMA OpenStep ==
    ASSUME OpenInv, Open
    PROVE  OpenInv'
<1>1. PICK c \in Configs \cup {NoConfig} :
        /\ cfg' = c
        /\ IF c = NoConfig \/ c.ca = "invalid" THEN step' = "refused"
           ELSE step' \in {"jwks", "no_client"}
        /\ endpoints' = [e \in Login |-> IF c = NoConfig THEN None ELSE c[e]]
  BY DEF Open
<1>2. /\ UNCHANGED fetchVars /\ step \in {"off", "loaded", "refused", "no_client"}
      /\ jwksUrl' = None /\ warned' = FALSE /\ received' = {} /\ spent' = 0
  BY DEF Open, Stopped
<1>3. FetchInv'
  BY <1>2 DEF fetchVars, OpenInv, FetchInv, FetchTypeOK, ReadingInv, WholeBodyOrNothing,
              ToRead, ReadLimit
<1>4. phase' = "idle"
  BY <1>2 DEF fetchVars, OpenInv, LoadInv, OpenTypeOK
<1>5. step' \in {"jwks", "refused", "no_client"} /\ (step' = "jwks" => endpoints' = [e \in Login |-> c[e]])
  BY <1>1
<1>6. LoadInv'
  <2>1. /\ step' \in {"jwks", "refused", "no_client"}
        /\ c = NoConfig \/ c.ca = "invalid" \/ step' # "refused"
    BY <1>1
  <2>2. OpenTypeOK'
    <3>1. DOMAIN endpoints' = Login /\ cfg' \in Configs \cup {NoConfig}
      BY <1>1
    <3>. QED  BY <1>2, <1>4, <2>1, <3>1 DEF OpenTypeOK, Steps
  <2>3. ConfigInv'
    BY <1>1, <1>2, <1>5, <2>1 DEF ConfigInv, Loading
  <2>4. KeysInv' /\ LoadedInv' /\ GapInv'
    BY <2>1 DEF KeysInv, LoadedInv, GapInv, Resolved
  <2>5. PinnedKeysBoot'
    BY <1>1, <2>1 DEF PinnedKeysBoot
  <2>. QED  BY <2>2, <2>3, <2>4, <2>5 DEF LoadInv
<1>7. TimeInv'
  BY <1>1, <1>2, BoundType DEF TimeInv, LoadIsBounded
<1>. QED  BY <1>3, <1>6, <1>7 DEF OpenInv

LEMMA ResolveJwksStep ==
    ASSUME OpenInv, ResolveJwks
    PROVE  OpenInv'
<1>1. /\ step = "jwks" /\ UNCHANGED <<cfg, endpoints, warned, received, spent>> /\ spent = 0
      /\ FetchInv /\ LoadInv /\ phase = "idle"
  BY DEF ResolveJwks, OpenInv, TimeInv, LoadInv, OpenTypeOK
<1>2. CASE /\ cfg.jwks # None /\ jwksUrl' = cfg.jwks /\ UNCHANGED fetchVars
           /\ step' = IF cfg.jwks \in HttpsUrls THEN "login" ELSE "refused"
  <2>1. FetchInv' /\ phase' = "idle"
    BY <1>1, <1>2 DEF fetchVars, FetchInv, FetchTypeOK, ReadingInv, WholeBodyOrNothing, ToRead, ReadLimit
  <2>2. LoadInv'
    BY <1>1, <1>2, <2>1
       DEF LoadInv, OpenTypeOK, ConfigInv, KeysInv, LoadedInv, PinnedKeysBoot, GapInv, Loading, Resolved,
           Steps, Provenance
  <2>3. TimeInv'
    BY <1>1, <1>2, BoundType DEF TimeInv, LoadIsBounded
  <2>. QED  BY <2>1, <2>2, <2>3 DEF OpenInv
<1>3. CASE cfg.jwks = None /\ GetDiscovery /\ step' = "jwks_doc" /\ UNCHANGED jwksUrl
  <2>1. FetchInv' /\ phase' # "idle"
    BY <1>1, <1>3, GetFetch
  <2>2. LoadInv'
    BY <1>1, <1>3, <2>1
       DEF LoadInv, OpenTypeOK, ConfigInv, KeysInv, LoadedInv, PinnedKeysBoot, GapInv, Loading, Resolved, Steps
  <2>3. TimeInv'
    BY <1>1, <1>3, <2>1, BoundType, SpendableNext DEF TimeInv, LoadIsBounded
  <2>. QED  BY <2>1, <2>2, <2>3 DEF OpenInv
<1>. QED  BY <1>2, <1>3 DEF ResolveJwks

LEMMA JwksDocumentStep ==
    ASSUME OpenInv, JwksDocument, None \notin HttpsUrls
    PROVE  OpenInv'
<1>1. /\ step = "jwks_doc" /\ UNCHANGED <<cfg, endpoints, warned, spent>> /\ Receive
      /\ FetchInv /\ LoadInv /\ cfg.jwks = None /\ spent <= Spendable /\ spent \in Nat
  BY DEF JwksDocument, OpenInv, TimeInv, LoadInv, ConfigInv, OpenTypeOK
<1>2. /\ FetchInv' /\ phase' = "idle"
      /\ answer # Failed => answer \in {p.doc : p \in Pages} /\ answer \in received'
      /\ received' \subseteq received \cup {p.doc : p \in Pages} /\ Spendable = FetchBound
  BY <1>1, TakenFetch
<1>3. step' \in {"login", "refused"}
  BY DEF JwksDocument
<1>4. TimeInv'
  BY <1>1, <1>2, <1>3, BoundType DEF TimeInv, LoadIsBounded
<1>5. OpenTypeOK' /\ ConfigInv'
  BY <1>1, <1>2, <1>3 DEF LoadInv, OpenTypeOK, ConfigInv, Loading, Steps
<1>6. KeysInv'
  <2>1. CASE Usable(answer) /\ answer.jwks # None /\ jwksUrl' = answer.jwks /\ step' = "login"
    <3>1. answer \in received' \ {NotJson} /\ answer.issuer = cfg.issuer /\ answer["jwks"] = jwksUrl'
      BY <1>2, <2>1 DEF Usable, OwnIssuer
    <3>. QED  BY <1>1, <2>1, <3>1 DEF KeysInv, Provenance
  <2>2. CASE step' = "refused"
    BY <2>2 DEF KeysInv, Resolved
  <2>. QED  BY <2>1, <2>2 DEF JwksDocument
<1>7. LoadedInv' /\ GapInv'
  BY <1>3 DEF LoadedInv, GapInv, Resolved
<1>8. PinnedKeysBoot'
  BY <1>1 DEF PinnedKeysBoot
<1>. QED  BY <1>2, <1>4, <1>5, <1>6, <1>7, <1>8 DEF OpenInv, LoadInv

LEMMA ResolveLoginStep ==
    ASSUME OpenInv, ResolveLogin
    PROVE  OpenInv'
<1>1. /\ step = "login" /\ UNCHANGED <<cfg, jwksUrl, endpoints, warned, received, spent>>
      /\ FetchInv /\ LoadInv /\ phase = "idle" /\ spent <= FetchBound /\ spent \in Nat
      /\ endpoints = [e \in Login |-> cfg[e]] /\ ~warned
      /\ jwksUrl # None /\ Provenance(cfg.jwks, jwksUrl, "jwks")
  BY DEF ResolveLogin, OpenInv, TimeInv, LoadInv, OpenTypeOK, ConfigInv, KeysInv, Loading
<1>2. CASE (\A e \in Login : cfg[e] # None) /\ step' = "client" /\ UNCHANGED fetchVars
  <2>1. FetchInv' /\ phase' = "idle"
    BY <1>1, <1>2 DEF fetchVars, FetchInv, FetchTypeOK, ReadingInv, WholeBodyOrNothing, ToRead, ReadLimit
  <2>2. OpenTypeOK' /\ ConfigInv' /\ PinnedKeysBoot'
    BY <1>1, <1>2, <2>1 DEF LoadInv, OpenTypeOK, ConfigInv, PinnedKeysBoot, Loading, Steps
  <2>3. KeysInv' /\ LoadedInv'
    BY <1>1, <1>2 DEF KeysInv, LoadedInv, Provenance
  <2>4. GapInv'
    BY <1>1, <1>2 DEF GapInv
  <2>5. TimeInv'
    BY <1>1, <1>2, BoundType DEF TimeInv, LoadIsBounded
  <2>. QED  BY <2>1, <2>2, <2>3, <2>4, <2>5 DEF OpenInv, LoadInv
<1>3. CASE GetDiscovery /\ step' = "login_doc"
  <2>1. FetchInv' /\ phase' # "idle"
    BY <1>1, <1>3, GetFetch
  <2>2. OpenTypeOK' /\ ConfigInv' /\ PinnedKeysBoot'
    BY <1>1, <1>3, <2>1 DEF LoadInv, OpenTypeOK, ConfigInv, PinnedKeysBoot, Loading, Steps
  <2>3. KeysInv' /\ LoadedInv' /\ GapInv'
    BY <1>1, <1>3 DEF KeysInv, LoadedInv, GapInv, Provenance, Resolved
  <2>4. TimeInv'
    BY <1>1, <1>3, <2>1, BoundType, SpendableNext DEF TimeInv, LoadIsBounded
  <2>. QED  BY <2>1, <2>2, <2>3, <2>4 DEF OpenInv, LoadInv
<1>. QED  BY <1>2, <1>3 DEF ResolveLogin

LEMMA LoginDocumentStep ==
    ASSUME OpenInv, LoginDocument
    PROVE  OpenInv'
<1>1. /\ step = "login_doc" /\ step' = "client" /\ UNCHANGED <<cfg, jwksUrl, spent>> /\ Receive
      /\ FetchInv /\ LoadInv /\ spent <= FetchBound + Spendable /\ spent \in Nat
      /\ endpoints = [e \in Login |-> cfg[e]] /\ warned = FALSE
      /\ jwksUrl # None /\ Provenance(cfg.jwks, jwksUrl, "jwks")
  BY DEF LoginDocument, LoginFailed, OpenInv, TimeInv, LoadInv, OpenTypeOK, ConfigInv, KeysInv, Loading
<1>2. /\ FetchInv' /\ phase' = "idle"
      /\ answer # Failed => answer \in {p.doc : p \in Pages} /\ answer \in received'
      /\ received' \subseteq received \cup {p.doc : p \in Pages} /\ Spendable = FetchBound
      /\ received \subseteq received'
  BY <1>1, TakenFetch
<1>3. TimeInv'
  BY <1>1, <1>2, BoundType DEF TimeInv, LoadIsBounded
<1>4. PinnedKeysBoot' /\ ConfigInv'
  BY <1>1 DEF PinnedKeysBoot, ConfigInv, Loading
<1>5. KeysInv'
  BY <1>1, <1>2 DEF KeysInv, Provenance
<1>6. CASE Usable(answer) /\ endpoints' = Merged(answer) /\ UNCHANGED warned
  <2>1. answer \in received' \ {NotJson} /\ answer.issuer = cfg.issuer
    BY <1>2, <1>6 DEF Usable, OwnIssuer
  <2>2. endpoints' = [e \in Login |-> IF cfg[e] # None THEN cfg[e] ELSE answer[e]]
    BY <1>6 DEF Merged
  <2>3. OpenTypeOK'
    BY <1>1, <1>2, <1>6, <2>2 DEF LoadInv, OpenTypeOK, Steps
  <2>4. LoadedInv'
    <3>. SUFFICES ASSUME NEW e \in Login
                  PROVE  Provenance(cfg[e], endpoints[e], e)'
      BY DEF LoadedInv
    <3>. QED  BY <1>1, <2>1, <2>2 DEF Provenance
  <2>5. GapInv'
    <3>. SUFFICES ASSUME NEW e \in Login, endpoints'[e] = None
                  PROVE  \E d \in received' \ {NotJson} : d.issuer = cfg'.issuer /\ d[e] = None
      BY DEF GapInv
    <3>. QED  BY <1>1, <2>1, <2>2
  <2>. QED  BY <1>2, <1>3, <1>4, <1>5, <2>3, <2>4, <2>5 DEF OpenInv, LoadInv
<1>7. CASE warned' = TRUE /\ UNCHANGED endpoints
  <2>1. OpenTypeOK'
    BY <1>1, <1>2, <1>7 DEF LoadInv, OpenTypeOK, Steps
  <2>2. LoadedInv' /\ GapInv'
    BY <1>1, <1>7 DEF LoadedInv, GapInv, Provenance
  <2>. QED  BY <1>2, <1>3, <1>4, <1>5, <2>1, <2>2 DEF OpenInv, LoadInv
<1>. QED  BY <1>6, <1>7 DEF LoginDocument, LoginFailed

LEMMA BuildClientStep ==
    ASSUME OpenInv, BuildClient
    PROVE  OpenInv'
<1>1. /\ step = "client" /\ step' \in {"loaded", "no_client"} /\ FetchInv /\ LoadInv
      /\ UNCHANGED <<fetchVars, cfg, jwksUrl, endpoints, warned, received, spent>>
  BY DEF BuildClient, OpenInv
<1>2. FetchInv' /\ phase' = phase
  BY <1>1 DEF fetchVars, FetchInv, FetchTypeOK, ReadingInv, WholeBodyOrNothing, ToRead, ReadLimit
<1>3. LoadInv'
  BY <1>1, <1>2 DEF LoadInv, OpenTypeOK, ConfigInv, KeysInv, LoadedInv, PinnedKeysBoot, GapInv,
                    Loading, Resolved, Provenance, Steps
<1>4. TimeInv'
  BY <1>1 DEF OpenInv, TimeInv, LoadIsBounded, LoadBound, FetchBound
<1>. QED  BY <1>2, <1>3, <1>4 DEF OpenInv

LEMMA AddMore ==
    ASSUME NEW a \in Nat, NEW b \in Nat, NEW c \in Nat, NEW s \in Nat, s <= a + b, b <= c
    PROVE  s <= a + c
OBVIOUS

LEMMA OtherSteps ==
    ASSUME OpenInv, Transfer \/ Clock \/ Expire \/ UNCHANGED vars
    PROVE  OpenInv'
<1>0. /\ FetchInv /\ LoadInv /\ TimeInv /\ spent \in Nat /\ Spendable \in Nat
      /\ FetchBound \in Nat /\ LoadBound \in Nat /\ LoadBound = FetchBound + FetchBound
  BY SpendableType, BoundType DEF OpenInv, LoadInv, OpenTypeOK
<1>1. CASE Transfer \/ Expire
  <2>1. /\ UNCHANGED openVars /\ FetchInv' /\ phase # "idle" /\ phase' # "idle"
        /\ Spendable <= Spendable'
    BY <1>0, <1>1, TransferFetch, TimerFetch DEF Transfer, Expire
  <2>2. LoadInv'
    BY <1>0, <2>1, LoadFrame DEF openVars
  <2>3. Spendable' \in Nat
    BY <2>1, SpendableNext
  <2>4. step' = step /\ spent' = spent
    BY <2>1 DEF openVars
  <2>5. LoadIsBounded'
    BY <1>0, <2>4 DEF TimeInv, LoadIsBounded, LoadBound, FetchBound
  <2>6. TimeInv'
    <3>1. step' = "jwks_doc" => spent' <= Spendable'
      BY <1>0, <2>1, <2>3, <2>4 DEF TimeInv
    <3>2. step' = "login_doc" => spent' <= FetchBound + Spendable'
      <4>1. step = "login_doc" => spent <= FetchBound + Spendable
        BY <1>0 DEF TimeInv
      <4>2. step = "login_doc" => spent <= FetchBound + Spendable'
        BY <1>0, <2>1, <2>3, <4>1, AddMore
      <4>. QED  BY <2>4, <4>2
    <3>. QED  BY <1>0, <2>4, <2>5, <3>1, <3>2 DEF TimeInv, FetchBound
  <2>. QED  BY <2>1, <2>2, <2>6 DEF OpenInv
<1>2. CASE Clock
  <2>1. /\ UNCHANGED <<step, cfg, jwksUrl, endpoints, warned, received>>
        /\ spent' = IF spent > LoadBound THEN spent ELSE spent + 1
        /\ FetchInv' /\ phase # "idle" /\ phase' # "idle" /\ Spendable' = Spendable + 1
    BY <1>0, <1>2, TimerFetch DEF Clock
  <2>2. step \in {"jwks_doc", "login_doc"} /\ spent <= LoadBound
    BY <1>0, <2>1 DEF TimeInv, LoadIsBounded, LoadInv, OpenTypeOK
  <2>3. spent' = spent + 1
    BY <1>0, <2>1, <2>2
  <2>4. LoadInv'
    BY <1>0, <2>1, <2>3, LoadFrame
  <2>5. Spendable' <= FetchBound
    BY <2>1, SpendableNext
  <2>6. spent' <= LoadBound
    BY <1>0, <2>1, <2>2, <2>3, <2>5 DEF TimeInv
  <2>7. TimeInv'
    BY <1>0, <2>1, <2>2, <2>3, <2>6 DEF TimeInv, LoadIsBounded, LoadBound, FetchBound
  <2>. QED  BY <2>1, <2>4, <2>7 DEF OpenInv
<1>3. CASE UNCHANGED vars
  <2>1. UNCHANGED fetchVars /\ UNCHANGED openVars
    BY <1>3 DEF vars
  <2>2. FetchInv' /\ Spendable' = Spendable
    BY <1>0, <2>1 DEF fetchVars, FetchInv, FetchTypeOK, ReadingInv, WholeBodyOrNothing, ToRead, ReadLimit,
                      Spendable, FetchBound
  <2>3. LoadInv'
    BY <1>0, <2>1 DEF fetchVars, openVars, LoadInv, OpenTypeOK, ConfigInv, KeysInv, LoadedInv,
                      PinnedKeysBoot, GapInv, Loading, Resolved, Provenance
  <2>4. TimeInv'
    BY <1>0, <2>1, <2>2 DEF openVars, TimeInv, LoadIsBounded, LoadBound, FetchBound
  <2>. QED  BY <2>2, <2>3, <2>4 DEF OpenInv
<1>. QED  BY <1>1, <1>2, <1>3

LEMMA OpenAlways == Spec => []OpenInv
<1>1. OpenInv /\ [Next]_vars => OpenInv'
  BY OpenStep, ResolveJwksStep, JwksDocumentStep, ResolveLoginStep, LoginDocumentStep, BuildClientStep, OtherSteps,
     ConfigAssumption DEF Next, Load
<1>. QED  BY <1>1, OpenInit, PTL DEF Spec

-----------------------------------------------------------------------------
(* Every variable keeps its type; at most cap + 1 bytes are ever buffered. *)
THEOREM OpenTypeCorrect == Spec => []TypeOK
<1>1. OpenInv => TypeOK
  BY BoundType
     DEF OpenInv, FetchInv, LoadInv, TimeInv, OpenTypeOK, TypeOK, LoadIsBounded
<1>. QED  BY <1>1, OpenAlways, PTL

(* fetch returns the whole body of a successful response, or an error.     *)
THEOREM WholeBodyTheorem == Spec => []WholeBodyOrNothing
<1>1. OpenInv => WholeBodyOrNothing
  BY DEF OpenInv, FetchInv
<1>. QED  BY <1>1, OpenAlways, PTL

(* No url of a loaded module comes from a document of another issuer, and  *)
(* no explicit one is overridden.                                          *)
THEOREM ProvenanceTheorem == Spec => []NoForeignEndpoint
<1>1. OpenInv => NoForeignEndpoint
  BY DEF OpenInv, LoadInv, KeysInv, LoadedInv, Resolved, NoForeignEndpoint
<1>. QED  BY <1>1, OpenAlways, PTL

(* A pinned https jwks_url boots without a working discovery.              *)
THEOREM PinnedTheorem == Spec => []PinnedKeysBoot
<1>1. OpenInv => PinnedKeysBoot
  BY DEF OpenInv, LoadInv
<1>. QED  BY <1>1, OpenAlways, PTL

(* A missing login endpoint is announced, or left out by the issuer itself. *)
THEOREM GapTheorem == Spec => []GapIsKnown
<1>1. OpenInv => GapIsKnown
  BY DEF OpenInv, LoadInv, GapInv, Resolved, GapIsKnown
<1>. QED  BY <1>1, OpenAlways, PTL

(* Loading never takes more than two fetches, each of a timeout for the    *)
(* head of the response, one for every byte that the cap lets it read, and *)
(* one for the end.                                                        *)
THEOREM LoadTimeTheorem == Spec => []LoadIsBounded
<1>1. OpenInv => LoadIsBounded
  BY DEF OpenInv, TimeInv
<1>. QED  BY <1>1, OpenAlways, PTL
=============================================================================
