------------------------------ MODULE KeyLookup ------------------------------
(***************************************************************************)
(* A key set as the cache sees it: keys with an id each, and tokens that   *)
(* name an id and were signed by some key.                                 *)
(***************************************************************************)
CONSTANT KidOf          \* the id each key is published under

(* JwkSet::find_all and try_all: every key under the token's kid is tried. *)
FindAll(set, kid) == {k \in set : KidOf[k] = kid}
TryAll(set, tok)  == IF FindAll(set, tok.kid) = {} THEN "miss"
                     ELSE IF tok.signer \in FindAll(set, tok.kid) THEN "ok" ELSE "bad"
=============================================================================
