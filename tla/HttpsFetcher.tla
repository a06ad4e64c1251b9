----------------------------- MODULE HttpsFetcher -----------------------------
(***************************************************************************)
(* One GET of auth-oidc/src/reqwest_fetcher.rs: https only, a timeout on   *)
(* each operation, a status, and a body read into a capped buffer.         *)
(* Whoever fetches starts it with `Get` and takes `answer` with `Taken`;   *)
(* the actions in between are its own.                                     *)
(*                                                                         *)
(* External: reqwest, its TLS and HTTP framing, and the provider, which    *)
(* sends any page at any pace, or nothing, or breaks off.  The client is   *)
(* reqwest::blocking: its ClientBuilder::timeout bounds one operation, the *)
(* `send` up to the response's head and then every single read of the body,*)
(* and each of them gets the whole of it again.                            *)
(***************************************************************************)
EXTENDS Integers

CONSTANTS
    Pages,          \* responses: [success, doc, size in bytes, utf8]
    NoPage,         \* no response yet
    Cap,            \* MAX_JWKS_BYTES
    Timeout,        \* the client's timeout
    Failed          \* the fetch returned an error

ASSUME FetcherAssumption ==
    /\ Cap \in Nat /\ Timeout \in Nat \ {0}
    /\ \A p \in Pages : p.success \in BOOLEAN /\ p.utf8 \in BOOLEAN /\ p.size \in Nat

VARIABLES
    phase,          \* where the fetch is
    page,           \* the response being received
    got,            \* bytes of it in the buffer
    waited,         \* time since the operation that is waited for began
    answer          \* what `fetch` returned, when done

fetchVars == <<phase, page, got, waited, answer>>

Phases == {"idle", "sending", "reading", "done"}

FetchInit == phase = "idle" /\ page = NoPage /\ got = 0 /\ waited = 0 /\ answer = Failed

Answer(a) == phase' = "done" /\ answer' = a

(* client.get(url).send(): https_only refuses any other scheme.            *)
Get(https) ==
    /\ phase = "idle"
    /\ page' = NoPage /\ got' = 0 /\ waited' = 0
    /\ \/ https /\ phase' = "sending" /\ answer' = Failed
       \/ ~https /\ Answer(Failed)

(* The response starts: its status decides.                                *)
Respond ==
    /\ phase = "sending"
    /\ \E p \in Pages :
         /\ page' = p
         /\ \/ p.success /\ phase' = "reading" /\ waited' = 0 /\ UNCHANGED answer
            \/ ~p.success /\ Answer(Failed) /\ UNCHANGED waited
    /\ UNCHANGED got

(* read_capped: take(cap + 1) of the body, and the end of the read.        *)
FaultyReadLimitAtCap == Cap
FaultyReadLimitNone == page.size + 1
ReadLimit == Cap + 1
ToRead == IF page.size < ReadLimit THEN page.size ELSE ReadLimit

(* An operation is being waited for: past the limit nothing is read.       *)
Pending == phase = "sending" \/ (phase = "reading" /\ got < ReadLimit)

(* One read of the body ends with some bytes, and the next one starts.     *)
Read ==
    /\ phase = "reading"
    /\ got' \in (got + 1)..ToRead
    /\ waited' = 0
    /\ UNCHANGED <<phase, page, answer>>

(* The body ends, or take() stops asking for it.                           *)
ReadToEnd ==
    /\ phase = "reading" /\ got = ToRead
    /\ Answer(IF got > Cap \/ ~page.utf8 THEN Failed ELSE page.doc)
    /\ UNCHANGED <<page, got, waited>>

(* No connection, no trust in its certificate, or it breaks in the body.   *)
Break == Pending /\ Answer(Failed) /\ UNCHANGED <<page, got, waited>>

Elapse == /\ Pending /\ waited < Timeout
          /\ waited' = waited + 1
          /\ UNCHANGED <<phase, page, got, answer>>

(* The client gives up, unless an answer came at the last moment.          *)
FaultyGiveUp == UNCHANGED <<phase, answer>>
GiveUp == Answer(Failed)
ExpireFetch == /\ Pending /\ waited = Timeout
               /\ GiveUp
               /\ UNCHANGED <<page, got, waited>>

Taken == /\ phase = "done" /\ phase' = "idle"
         /\ page' = NoPage /\ got' = 0 /\ waited' = 0 /\ answer' = Failed

(* What a fetch can take: a timeout for the head of the response, one for   *)
(* each byte up to the cap if they come singly, and one for the end.        *)
FetchBound == (Cap + 2) * Timeout

FetchTypeOK == /\ phase \in Phases
               /\ page \in Pages \cup {NoPage}
               /\ got \in 0..(Cap + 1)
               /\ waited \in 0..Timeout
               /\ answer \in {p.doc : p \in Pages} \cup {Failed}

(* A truncated body is never taken for a document: an answer is the whole   *)
(* of what the provider sent, from a successful response, within the cap.   *)
WholeBodyOrNothing ==
    phase = "done" /\ answer # Failed =>
        /\ page.success /\ page.utf8 /\ answer = page.doc
        /\ got = page.size /\ got <= Cap
=============================================================================
