------------------------------ MODULE PluginOpen ------------------------------
(***************************************************************************)
(* Loading the plugin: `open` and `open_with` of auth-oidc-plugin/src/lib.rs*)
(* with the discovery of auth-oidc/src/lib.rs, over the HTTPS fetcher.     *)
(* Each of the two resolutions may GET the discovery document, and the     *)
(* provider may answer them differently; nothing is retried before the     *)
(* next restart.                                                           *)
(***************************************************************************)
EXTENDS HttpsFetcher

CONSTANTS
    Configs,        \* [issuer, jwks, authorize, token, ca]
    NoConfig,       \* a blank or malformed configuration
    None,           \* an optional setting, or a document's member, that is absent
    NotJson,        \* a body that is no JSON
    Base,           \* the issuer without its trailing slashes
    HttpsUrls       \* the issuers and urls that have the https scheme

ASSUME ConfigAssumption ==
    NoConfig \notin Configs /\ None \notin HttpsUrls

VARIABLES
    step,           \* where `open` is
    cfg,            \* its configuration
    jwksUrl,        \* the local jwks_url
    endpoints,      \* cfg's two login endpoints, as `open_with` completes them
    warned,         \* the operator has been told that login discovery failed
    received,       \* history: the documents that discovery received
    spent           \* history: time this load has taken

openVars == <<step, cfg, jwksUrl, endpoints, warned, received, spent>>
vars == <<fetchVars, openVars>>

Login == {"authorize", "token"}
Steps == {"off", "jwks", "jwks_doc", "login", "login_doc", "client",
          "loaded", "refused", "no_client"}
Stopped == step \in {"off", "loaded", "refused", "no_client"}

Init == /\ FetchInit
        /\ step = "off" /\ cfg = NoConfig /\ jwksUrl = None
        /\ endpoints = [e \in Login |-> None]
        /\ warned = FALSE /\ received = {} /\ spent = 0

(* open: the host (re)starts and passes a configuration; a blank, malformed*)
(* or unknown one, or a bad CA certificate, ends it here, and so does an   *)
(* HTTP client that cannot be built.                                       *)
Open ==
    /\ Stopped
    /\ \E c \in Configs \cup {NoConfig} :
         /\ cfg' = c
         /\ IF c = NoConfig \/ c.ca = "invalid" THEN step' = "refused"
            ELSE step' \in {"jwks", "no_client"}
         /\ endpoints' = [e \in Login |-> IF c = NoConfig THEN None ELSE c[e]]
    /\ jwksUrl' = None /\ warned' = FALSE /\ received' = {} /\ spent' = 0
    /\ UNCHANGED fetchVars

-----------------------------------------------------------------------------
(* fetch_discovery_doc: the GET below the issuer, and what it makes of the *)
(* answer.  Only the document that names the very issuer is used.          *)
GetDiscovery == Get(Base[cfg.issuer] \in HttpsUrls)

FaultyOwnIssuer(doc) == doc.issuer # None /\ Base[doc.issuer] = Base[cfg.issuer]
OwnIssuer(doc) == doc.issuer = cfg.issuer
Usable(a) == a \notin {Failed, NotJson} /\ OwnIssuer(a)

Receive == /\ Taken
           /\ received' = received \cup ({answer} \ {Failed})

(* resolve_jwks_url: the explicit url, https or refused, or discovery.     *)
ResolveJwks ==
    /\ step = "jwks"
    /\ \/ /\ cfg.jwks # None
          /\ jwksUrl' = cfg.jwks
          /\ step' = IF cfg.jwks \in HttpsUrls THEN "login" ELSE "refused"
          /\ UNCHANGED fetchVars
       \/ /\ cfg.jwks = None
          /\ GetDiscovery
          /\ step' = "jwks_doc"
          /\ UNCHANGED jwksUrl
    /\ UNCHANGED <<cfg, endpoints, warned, received, spent>>

JwksDocument ==
    /\ step = "jwks_doc"
    /\ Receive
    /\ \/ /\ Usable(answer) /\ answer.jwks # None
          /\ jwksUrl' = answer.jwks
          /\ step' = "login"
       \/ /\ ~(Usable(answer) /\ answer.jwks # None)
          /\ step' = "refused"
          /\ UNCHANGED jwksUrl
    /\ UNCHANGED <<cfg, endpoints, warned, spent>>

(* resolve_login_endpoints: nothing to discover when both are explicit.    *)
ResolveLogin ==
    /\ step = "login"
    /\ \/ /\ \A e \in Login : cfg[e] # None
          /\ step' = "client"
          /\ UNCHANGED fetchVars
       \/ /\ \E e \in Login : cfg[e] = None
          /\ GetDiscovery
          /\ step' = "login_doc"
    /\ UNCHANGED <<cfg, jwksUrl, endpoints, warned, received, spent>>

(* Where both are explicit or the document is usable: explicit ones win.   *)
FaultyMerged(doc) == [e \in Login |-> IF doc[e] # None THEN doc[e] ELSE cfg[e]]
Merged(doc) == [e \in Login |-> IF cfg[e] # None THEN cfg[e] ELSE doc[e]]

(* A failure is not fatal, but the operator is told.                       *)
FaultyLoginFailed == step' = "refused" /\ warned' = TRUE
FaultySilentLoginFailed == step' = "client" /\ UNCHANGED warned
LoginFailed == step' = "client" /\ warned' = TRUE

LoginDocument ==
    /\ step = "login_doc"
    /\ Receive
    /\ \/ /\ Usable(answer)
          /\ endpoints' = Merged(answer)
          /\ step' = "client"
          /\ UNCHANGED warned
       \/ /\ ~Usable(answer)
          /\ LoginFailed
          /\ UNCHANGED endpoints
    /\ UNCHANGED <<cfg, jwksUrl, spent>>

(* The cache gets a client of its own, whose build may fail.               *)
BuildClient ==
    /\ step = "client"
    /\ step' \in {"loaded", "no_client"}
    /\ UNCHANGED <<fetchVars, cfg, jwksUrl, endpoints, warned, received, spent>>

-----------------------------------------------------------------------------
Transfer == /\ Respond \/ Read \/ ReadToEnd \/ Break
            /\ UNCHANGED openVars
Expire == ExpireFetch /\ UNCHANGED openVars

(* Loading takes no time beside its fetches.  `spent` stops past the bound.*)
LoadBound == 2 * FetchBound
Clock == /\ Elapse
         /\ spent' = IF spent > LoadBound THEN spent ELSE spent + 1
         /\ UNCHANGED <<step, cfg, jwksUrl, endpoints, warned, received>>

Load == ResolveJwks \/ JwksDocument \/ ResolveLogin \/ LoginDocument \/ BuildClient
CutOff == ReadToEnd /\ got = ReadLimit /\ UNCHANGED openVars
Next == Open \/ Load \/ Transfer \/ Clock \/ Expire

(* The loading thread runs, and past the limit of the read it waits for    *)
(* nobody; the client's timer fires; the provider owes nothing.            *)
Spec == /\ Init /\ [][Next]_vars
        /\ WF_vars(Load \/ CutOff) /\ WF_vars(Clock) /\ WF_vars(Expire)

-----------------------------------------------------------------------------
(* Every variable keeps its type; the buffer holds at most a byte past the  *)
(* cap, and no single operation is waited for beyond the timeout.           *)
TypeOK == /\ FetchTypeOK
          /\ step \in Steps
          /\ cfg \in Configs \cup {NoConfig}
          /\ phase # "idle" <=> step \in {"jwks_doc", "login_doc"}
          /\ DOMAIN endpoints = Login
          /\ warned \in BOOLEAN
          /\ received \subseteq {p.doc : p \in Pages}
          /\ spent \in 0..(LoadBound + 1)

(* What the loaded module uses is what the operator set, or else what a     *)
(* document of the very issuer said, whichever of the two GETs brought it   *)
(* and whatever the provider, or something in front of it, answered to the  *)
(* other one; without keys to verify with it does not load.                 *)
Provenance(setting, used, field) ==
    IF setting # None THEN used = setting
    ELSE used # None => \E d \in received \ {NotJson} : d.issuer = cfg.issuer /\ d[field] = used
NoForeignEndpoint ==
    step = "loaded" =>
        /\ jwksUrl # None /\ Provenance(cfg.jwks, jwksUrl, "jwks")
        /\ \A e \in Login : Provenance(cfg[e], endpoints[e], e)

(* A verify-only deployment that pins an https jwks_url boots, whatever     *)
(* becomes of discovery, if its clients can be built.                       *)
PinnedKeysBoot ==
    step = "refused" => cfg = NoConfig \/ cfg.ca = "invalid" \/ cfg.jwks \notin HttpsUrls

(* A sign-in that will dead-end is never silent: if an endpoint is missing  *)
(* in the loaded module, then the operator was told, or the issuer's own    *)
(* document leaves that endpoint out.                                       *)
GapIsKnown ==
    step = "loaded" /\ ~warned =>
        \A e \in Login : endpoints[e] = None =>
            \E d \in received \ {NotJson} : d.issuer = cfg.issuer /\ d[e] = None

(* However slowly the provider answers, loading has an end that does not    *)
(* depend on it: since a read that brings nothing is given up after a       *)
(* timeout, it is the cap on the body that bounds the time, too.            *)
LoadIsBounded == spent <= LoadBound

(* The host's start never hangs on the provider.                            *)
OpenEnds == ~Stopped ~> Stopped

(* What the message of plugin lib.rs:116-119 tells the operator: until both *)
(* endpoints are configured or the host restarts, begin_login refuses every *)
(* attempt, so that no user is sent to sign in for nothing.                 *)
BeginLoginRefuses == endpoints["authorize"] = None
WarningIsTrue == step = "loaded" /\ warned => BeginLoginRefuses

(* What reqwest_fetcher.rs:37-44 says of the client, that it has a `connect *)
(* + total timeout`: a GET, here the first of a load, takes one at most.    *)
TotalTimeout == step = "jwks_doc" => spent <= Timeout
=============================================================================
