--------------------------- MODULE MCTokenSignature ---------------------------
(***************************************************************************)
(* Small instances of TokenSignature for TLC: documents of up to two       *)
(* entries out of every kind of key, and tokens of every algorithm and id  *)
(* against every signer.                                                   *)
(***************************************************************************)
EXTENDS TokenSignature, TLC

CONSTANTS rsa1, p256, p384

Schemes == (rsa1 :> "RS256") @@ (p256 :> "ES256") @@ (p384 :> "ES384")

Rsa(kid, use, n) == [kty |-> "RSA", kid |-> kid, use |-> use, crv |-> Absent,
                     rsa |-> n, ec |-> Broken]
Ec(kid, use, crv, xy) == [kty |-> "EC", kid |-> kid, use |-> use, crv |-> crv,
                          rsa |-> Broken, ec |-> xy]
Okp(kid) == [kty |-> "OKP", kid |-> kid, use |-> "sig", crv |-> "P-256", rsa |-> rsa1, ec |-> p256]

Entries == {NotAJwk}
    \cup {Rsa(kid, use, rsa1) : kid \in {"a", "", Absent}, use \in {"sig", "enc"}}
    \cup {Ec(kid, Absent, "P-256", p256) : kid \in {"a", Absent}}
    \cup {Rsa("a", Absent, Broken), Ec("a", "sig", "P-256", Broken), Ec("b", "sig", "P-384", p384),
          Ec("a", "sig", "P-256", p384), Okp("a")}

KeySetsOfTwo == {<<>>} \cup {<<e>> : e \in Entries} \cup {<<e, f>> : e, f \in Entries}

Headed == [alg : {"RS256", "ES256", "HS256"}, kid : {"a", "b", "", Absent}, crit : {Absent}]
Marked == [alg : {"RS256"}, kid : {"a"}, crit : {"empty", "named"}]

(* Signed as it stands, by every signer; or over another payload.          *)
By(k, h, p) == [by |-> k, over |-> <<h, p>>]
Presented == {<<h, "claims", By(k, h, "claims")>> : h \in Headed, k \in {rsa1, p256}}
             \cup {<<h, "claims", By(p384, h, "claims")>> : h \in {x \in Headed : x.alg = "ES256"}}
             \cup {<<h, p, By(rsa1, h, "claims")>> : h \in Marked, p \in {"claims", "other"}}
             \cup {<<h, NotClaims, By(rsa1, h, NotClaims)>> : h \in Marked}
             \cup {<<h, "claims", Garbled>> : h \in Marked} \cup {<<"claims">>}
=============================================================================
