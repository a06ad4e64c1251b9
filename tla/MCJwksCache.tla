---------------------------- MODULE MCJwksCache -----------------------------
(***************************************************************************)
(* Small instances of JwksCache for TLC.                                   *)
(***************************************************************************)
EXTENDS JwksCache, TLC

CONSTANTS c1, c2, c3, k1, k2, a, b

(* Two keys under their own ids: a rotation makes the other id unknown.    *)
OneKidEach == (k1 :> a) @@ (k2 :> b)

(* One key for ever: the token of its id is known, any other is not.       *)
OnlyKey == k1 :> a
KnownAndUnknown == {[kid |-> a, signer |-> k1], [kid |-> b, signer |-> Forger]}

GenuineTokens == {[kid |-> a, signer |-> k1], [kid |-> b, signer |-> k2]}

(* Callers are interchangeable, and with OneKidEach and GenuineTokens so   *)
(* are the two keys together with their ids.                               *)
SwapKeys == (k1 :> k2) @@ (k2 :> k1) @@ (a :> b) @@ (b :> a)
SameKeys == (k1 :> k1) @@ (k2 :> k2) @@ (a :> a) @@ (b :> b)
CallersAndKeys == {p @@ q : p \in Permutations(Callers), q \in {SwapKeys, SameKeys}}
CallersOnly == Permutations(Callers)
=============================================================================
