------------------------------ MODULE MCGateway ------------------------------
(***************************************************************************)
(* A small instance of Gateway for TLC: a token that is good for requests  *)
(* and logins, the client being the audience, a forged one that names the  *)
(* same key, and another key to rotate to.                                 *)
(***************************************************************************)
EXTENDS Gateway, TLC

CONSTANTS r1, s1, k1, k2, a, b, good, forged, none

OneKidEach == (k1 :> a) @@ (k2 :> b)
Signed1 == [kid |-> a, signer |-> k1]
Forged1 == [kid |-> a, signer |-> Forger]
Signatures == (good :> Signed1) @@ (forged :> Forged1)
Presented  == {Signed1, Forged1}

Str(s) == [type |-> "string", value |-> s]
Payload == [iss |-> Str("us"), aud |-> Str("app"), azp |-> Absent,
            exp |-> [type |-> "number", value |-> 9], nbf |-> Absent,
            names |-> Absent, sources |-> Absent, groups |-> Absent, roles |-> Absent,
            oid |-> Absent, sub |-> Str("alice")]
Payloads == (good :> Payload) @@ (forged :> Payload)
=============================================================================
