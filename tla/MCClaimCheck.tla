----------------------------- MODULE MCClaimCheck -----------------------------
(***************************************************************************)
(* Small instances of ClaimCheck for TLC.  i64 is four bits wide, so that  *)
(* every date of the type and dates beyond it on both sides are tried.     *)
(***************************************************************************)
EXTENDS ClaimCheck

Str(s)   == [type |-> "string", value |-> s]
Num(h)   == [type |-> "number", value |-> h]
Arr(set) == [type |-> "array", value |-> set]
Obj(set) == [type |-> "object", value |-> set]
Null     == [type |-> "null", value |-> "none"]
Bool     == [type |-> "bool", value |-> "none"]

Dates == {Num(h) : h \in -21..20}

(* A token that only its dates can make unacceptable.                      *)
Plain == [iss |-> Str("us"), aud |-> Str("app"), azp |-> Absent,
          exp |-> Num(8), nbf |-> Absent,
          names |-> Absent, sources |-> Absent, groups |-> Absent, roles |-> Absent,
          oid |-> Absent, sub |-> Str("alice")]

DatedTokens == {[Plain EXCEPT !.exp = e, !.nbf = n] :
                  e \in Dates \cup {Absent, Str("12")},
                  n \in Dates \cup {Absent, Null, Str("12")}}

Auds == {Str("app"), Str("other"), Absent}
        \cup {Arr(s) : s \in SUBSET {Str("app"), Str("other"), Num(2)}}
IssuedTokens == {[Plain EXCEPT !.iss = i, !.aud = a, !.azp = z] :
                   i \in {Str("us"), Str("them"), Absent, Num(2)}, a \in Auds,
                   z \in {Absent, Str("app"), Str("other")}}

GroupLists == {Absent, Null, Str("ops"), Arr({}), Arr({Str("ops"), Num(2)})}
IdentityTokens == {[Plain EXCEPT !.names = n, !.sources = s, !.groups = g, !.oid = o, !.sub = u] :
                     n \in {Absent, Null, Obj({}), Obj({"groups"}), Obj({"roles"})},
                     s \in {Absent, Obj({"src1"})}, g \in GroupLists,
                     o \in {Absent, Str(""), Str("o1"), Num(2)}, u \in {Absent, Str(" "), Str("s1")}}

AnyTokens == DatedTokens \cup IssuedTokens \cup IdentityTokens
=============================================================================
