------------------------------- MODULE KeyRing -------------------------------
(***************************************************************************)
(* What JwksCache takes parsing and signatures for: a set of keys that is  *)
(* replaced as a whole, and a verdict on a token that is TryAll's and      *)
(* depends on that set alone.  There is no order of the keys, no algorithm,*)
(* nothing memoised and no document here.                                  *)
(***************************************************************************)
EXTENDS KeyLookup

CONSTANTS Keys, Tokens, NoKeys

VARIABLES
    ring,       \* the installed keys
    last        \* the last token looked up with its verdict, or <<>>

ringVars == <<ring, last>>

Init == ring = NoKeys /\ last = << >>

(* Keys replace keys: no set is dropped, and none is installed empty.      *)
Install == ring' \notin {NoKeys, {}} /\ ring' \in SUBSET Keys /\ last' = << >>

(* A body that is refused, a bearer that is not a JWT: nothing is looked up.*)
Ignore == UNCHANGED ring /\ last' = << >>

LookUp == /\ ring # NoKeys
          /\ last' \in Tokens \X {"ok", "bad", "miss"}
          /\ last'[2] = TryAll(ring, last'[1])
          /\ UNCHANGED ring

Next == Install \/ Ignore \/ LookUp

Spec == Init /\ [][Next]_ringVars
=============================================================================
