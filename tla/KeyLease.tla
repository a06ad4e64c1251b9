------------------------------- MODULE KeyLease -------------------------------
(***************************************************************************)
(* What a JWKS cache promises, without saying how: one provider fetch at a *)
(* time, attempts an interval apart, every cached set dated by the attempt *)
(* that brought it, and callers that only ever use a set whose lease, the  *)
(* staleness ceiling, has not run out when they asked.                     *)
(***************************************************************************)
EXTENDS Integers

CONSTANTS Callers, KeySet, NoKeys, MinRefetch, MaxStale, MaxTime

NoTime == -1

VARIABLES
    clock,
    cached, stamp,      \* the cached set and the time it is dated
    anchor,             \* the time the last attempt is dated
    inFlight,           \* an attempt is in progress
    asked,              \* when each caller asked
    view, viewAt        \* the set each caller may use, and its date

leaseVars == <<clock, cached, stamp, anchor, inFlight, asked, view, viewAt>>

(* The lease of a set dated d has not run out at n.                        *)
Unexpired(n, d) == n - d < MaxStale

Init == /\ clock = 0
        /\ cached = NoKeys /\ stamp = NoTime
        /\ anchor = NoTime /\ inFlight = FALSE
        /\ asked = [t \in Callers |-> 0]
        /\ view = [t \in Callers |-> NoKeys]
        /\ viewAt = [t \in Callers |-> NoTime]

Grant(t, set, date) == /\ view' = [view EXCEPT ![t] = set]
                       /\ viewAt' = [viewAt EXCEPT ![t] = date]

Tick == /\ clock < MaxTime
        /\ clock' = clock + 1
        /\ UNCHANGED <<cached, stamp, anchor, inFlight, asked, view, viewAt>>

Ask(t) == /\ asked' = [asked EXCEPT ![t] = clock]
          /\ Grant(t, NoKeys, NoTime)
          /\ UNCHANGED <<clock, cached, stamp, anchor, inFlight>>

(* The cached set is granted only while its lease lasts.                   *)
Read(t) == /\ \/ cached = NoKeys
              \/ Unexpired(asked[t], stamp)
           /\ Grant(t, cached, stamp)
           /\ UNCHANGED <<clock, cached, stamp, anchor, inFlight, asked>>

(* An attempt starts: none is in flight, and it is dated an interval after *)
(* the one before.                                                         *)
Begin == /\ ~inFlight
         /\ \E t \in Callers :
              /\ anchor = NoTime \/ asked[t] >= anchor + MinRefetch
              /\ anchor' = asked[t]
         /\ inFlight' = TRUE
         /\ UNCHANGED <<clock, cached, stamp, asked, view, viewAt>>

(* It brings a set, dated by the attempt, for its caller and everyone.     *)
Succeed(t) == /\ inFlight /\ inFlight' = FALSE
              /\ \E set \in KeySet : cached' = set /\ Grant(t, set, anchor)
              /\ stamp' = anchor
              /\ UNCHANGED <<clock, anchor, asked>>

(* Or it does not: what is cached stays, and the caller may still read it. *)
Fail(t) == /\ inFlight /\ inFlight' = FALSE
           /\ \/ UNCHANGED <<view, viewAt>>
              \/ cached # NoKeys /\ Unexpired(asked[t], stamp) /\ Grant(t, cached, stamp)
           /\ UNCHANGED <<clock, cached, stamp, anchor, asked>>

Next == \/ Tick \/ Begin
        \/ \E t \in Callers : Ask(t) \/ Read(t) \/ Succeed(t) \/ Fail(t)

Spec == Init /\ [][Next]_leaseVars
=============================================================================
