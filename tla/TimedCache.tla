------------------------------ MODULE TimedCache ------------------------------
(***************************************************************************)
(* JwksCache when the fetch is what takes time: a fetch ends within its    *)
(* timeout, and a thread that can run does so before the clock moves.      *)
(* What JwksCache says of the stamps then says something of real time.     *)
(***************************************************************************)
EXTENDS JwksCache

CONSTANT FetchTimeout   \* the bound that JwksFetcher demands of a fetch

(* A condition on the fetcher and on jwks_min_refetch_secs, 60 by default. *)
(* The client's 10 s are the bound only of a provider that sends its       *)
(* answer in one go: see TotalTimeout in PluginOpen.                       *)
ASSUME TimeoutAssumption == FetchTimeout \in Nat /\ FetchTimeout < MinRefetch

VARIABLE fetchSince     \* history: when the last fetch really started

timedVars == <<vars, fetchSince>>

(* A thread stands still only between calls, in a fetch, or behind one.    *)
Still(t) == pc[t] \in {"idle", "fetch"} \/ (pc[t] = "wait" /\ gate # Nobody)
MayPass == /\ \A t \in Callers : Still(t)
           /\ (\E t \in Callers : pc[t] = "fetch") => clock < fetchSince + FetchTimeout

TimedInit == Init /\ fetchSince = NoTime

TimedNext == /\ Next
             /\ clock' # clock => MayPass
             /\ fetchSince' = IF fetches' # fetches THEN clock ELSE fetchSince

TimedSpec == TimedInit /\ [][TimedNext]_timedVars

-----------------------------------------------------------------------------
(* cache.rs:30-34: a caller waits for one fetch at most, its own or the one *)
(* in flight, however many callers queue and however often fetches fail.    *)
WithinOneTimeout ==
    \A t \in Callers : pc[t] # "idle" => clock - now[t] <= FetchTimeout

(* cache.rs:36-42: the provider is asked once in an interval of real time,  *)
(* although the limit compares times that were read at the calls' start.    *)
RateLimited ==
    [][fetches' # fetches /\ fetchSince # NoTime => clock >= fetchSince + MinRefetch]_timedVars

(* A withdrawn key verifies nothing any more from the ceiling and a timeout *)
(* after its withdrawal on, by the clock of the verdict.                    *)
WithdrawnKeyEnds ==
    [][\A t \in Callers :
         outcome'[t] = "ok" /\ outcome[t] # "ok" /\ goneSince[token[t].signer] # NoTime =>
           clock < goneSince[token[t].signer] + MaxStale + FetchTimeout]_timedVars
=============================================================================
