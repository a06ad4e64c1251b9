---------------------------- MODULE MCOidcModule -----------------------------
(***************************************************************************)
(* Small instances of OidcModule for TLC: tokens for the API, for the      *)
(* OAuth client, for both, and ones that no verifier should take.          *)
(***************************************************************************)
EXTENDS OidcModule, TLC

CONSTANTS r1, r2, api, login, both, odd, forged, none

Str(s)   == [type |-> "string", value |-> s]
Num(h)   == [type |-> "number", value |-> h]
Arr(set) == [type |-> "array", value |-> set]

(* Valid for the API until two seconds.                                    *)
ForApi == [iss |-> Str("us"), aud |-> Str("app"), azp |-> Absent,
           exp |-> Num(4), nbf |-> Absent,
           names |-> Absent, sources |-> Absent, groups |-> Absent, roles |-> Absent,
           oid |-> Absent, sub |-> Str("alice")]
ForClient == [ForApi EXCEPT !.aud = Str("web"), !.exp = Num(7), !.nbf = Num(5)]
ForBoth == [ForClient EXCEPT !.aud = Arr({Str("app"), Str("web")}), !.azp = Str("web")]

Payloads == (api :> ForApi) @@ (login :> ForClient) @@ (both :> ForBoth) @@ (forged :> ForApi)
            @@ (odd :> Malformed)
AnyRequest == Permutations(Requests)
=============================================================================
