----------------------------- MODULE ClaimPolicy -----------------------------
(***************************************************************************)
(* The claim policy of auth-oidc/src/lib.rs: what `validate_claims` does   *)
(* with the claims of a token whose signature is already verified, and the *)
(* clock it is given by `now_unix`.                                        *)
(*                                                                         *)
(* A claim is a JSON value, [type, value].  The value of a number is in    *)
(* half seconds, so that fractional NumericDates exist; an array is the    *)
(* set of its elements and an object the set of its member names.  `aud` is*)
(* the audience of the OidcValidator at work.                              *)
(***************************************************************************)
EXTENDS Integers

CONSTANTS
    Issuer,                 \* the configured iss
    RoleClaim,              \* the configured role_claim
    Blanks,                 \* strings that are empty or whitespace
    I64Max,                 \* i64::MAX; i64::MIN is -I64Max - 1
    ClockSkew,              \* CLOCK_SKEW_SECS
    MaxCacheTtl,            \* MAX_CACHE_TTL_SECS
    ClockFloor              \* CLOCK_SANITY_FLOOR_UNIX

ASSUME PolicyAssumption ==
    /\ I64Max \in Nat /\ ClockSkew \in Nat /\ MaxCacheTtl \in Nat /\ ClockFloor \in Nat
    /\ ClockSkew <= I64Max /\ MaxCacheTtl <= I64Max /\ ClockFloor <= I64Max

DefaultRoleClaim == "groups"
I64 == (-I64Max - 1)..I64Max

Absent == [type |-> "absent", value |-> "none"]
IsString(v, s) == v.type = "string" /\ v.value = s

(* A claims object as serde_json reads it.                                 *)
IsJson(v) == v = [type |-> v.type, value |-> v.value]
WellFormed(c) ==
    /\ IsJson(c.aud) /\ IsJson(c.azp)
    /\ c.aud.type = "array" => \A v \in c.aud.value : IsJson(v)
    /\ c.exp.type = "number" => c.exp.value \in Int
    /\ c.nbf.type = "number" => c.nbf.value \in Int

-----------------------------------------------------------------------------
(* i64 arithmetic: `as i64` of a float and the saturating operators.       *)
Saturate(x) == IF x > I64Max THEN I64Max ELSE IF x < -I64Max - 1 THEN -I64Max - 1 ELSE x
Clamp(x, low, high) == IF x < low THEN low ELSE IF x > high THEN high ELSE x

FloorHalf(h) == h \div 2
CeilHalf(h)  == -((-h) \div 2)

(* as_numeric_date: a whole i64 as it is, any other number rounded and     *)
(* cast; `exp` rounds down, `nbf` up.                                      *)
FaultyNumericDateFloor(v) == Saturate(CeilHalf(v.value))
NumericDateFloor(v) == Saturate(FloorHalf(v.value))
NumericDateCeil(v)  == Saturate(CeilHalf(v.value))

(* now_unix: a clock before the epoch, or before the sanity floor, is      *)
(* mapped to the end of time.                                              *)
FaultyNowUnix(reading) == IF reading >= 0 THEN reading ELSE I64Max
NowUnix(reading) == IF reading >= ClockFloor THEN reading ELSE I64Max

-----------------------------------------------------------------------------
(* The checks of validate_claims.                                          *)
IssuerOk(c) == IsString(c.iss, Issuer)

(* A lone audience, or an array that names it; other entries need azp.     *)
AudienceOk(c, aud) ==
    \/ IsString(c.aud, aud)
    \/ /\ c.aud.type = "array"
       /\ \E v \in c.aud.value : IsString(v, aud)
       /\ (\E v \in c.aud.value : ~IsString(v, aud)) => IsString(c.azp, aud)

ExpiryOk(v, now) == v.type = "number" /\ Saturate(NumericDateFloor(v) + ClockSkew) >= now

NotBeforeReadable(v) == v.type \in {"absent", "null", "number"}
NotBeforeOk(v, now) == v.type = "number" => Saturate(NumericDateCeil(v) - ClockSkew) <= now

(* is_groups_overage: Entra left the groups out and says where they are.   *)
GroupsOverage(c) ==
    \/ c.names.type = "object" /\ "groups" \in c.names.value
    \/ c.sources.type # "absent" /\ c.groups.type = "absent" /\ c.names.type # "absent"

(* non_empty_claim, and the identity of record: `oid`, else `sub`.         *)
NonEmpty(v) == v.type = "string" /\ v.value \notin Blanks
HasSubject(c) == NonEmpty(c.oid) \/ NonEmpty(c.sub)
Subject(c) == IF NonEmpty(c.oid) THEN c.oid.value ELSE c.sub.value

(* extract_string_list.                                                    *)
StringList(v) == IF v.type = "array" THEN {e.value : e \in {x \in v.value : x.type = "string"}}
                 ELSE IF v.type = "string" THEN {v.value} ELSE {}

(* The credential-cache lifetime suggested to the engine.                  *)
FaultyCacheTtl(v, now) == Clamp(Saturate(NumericDateFloor(v) + ClockSkew - now), 0, MaxCacheTtl)
CacheTtl(v, now) == Clamp(Saturate(NumericDateFloor(v) - now), 0, MaxCacheTtl)

(* Why validate_claims refuses, in the order of its checks.                *)
Refusal(c, now, aud) ==
    IF ~IssuerOk(c) THEN "issuer"
    ELSE IF ~AudienceOk(c, aud) THEN "audience"
    ELSE IF ~ExpiryOk(c.exp, now) THEN "expired"
    ELSE IF ~NotBeforeReadable(c.nbf) THEN "nbf_unreadable"
    ELSE IF ~NotBeforeOk(c.nbf, now) THEN "not_yet_valid"
    ELSE IF RoleClaim = DefaultRoleClaim /\ GroupsOverage(c) THEN "overage"
    ELSE IF ~HasSubject(c) THEN "subject"
    ELSE "none"

Accepts(c, now, aud) == Refusal(c, now, aud) = "none"
Principal(c, now) == [id |-> Subject(c), roles |-> StringList(c[RoleClaim]),
                      ttl |-> CacheTtl(c.exp, now)]

-----------------------------------------------------------------------------
(* The same policy stated without rounding, saturation or an order of      *)
(* checks: OIDC Core 3.1.3.7 and RFC 7519 over exact dates, `t` a second.  *)
Audiences(c) == IF c.aud.type = "string" THEN {c.aud}
                ELSE IF c.aud.type = "array" THEN c.aud.value ELSE {}
Trusted(aud) == [type |-> "string", value |-> aud]

WithinLife(c, t) ==
    /\ c.exp.type = "number" /\ 2 * (t - ClockSkew) <= c.exp.value
    /\ c.nbf.type \in {"absent", "null", "number"}
    /\ c.nbf.type = "number" => c.nbf.value <= 2 * (t + ClockSkew)

Admissible(c, t, aud) ==
    /\ c.iss.type = "string" /\ c.iss.value = Issuer
    /\ Trusted(aud) \in Audiences(c)
    /\ Audiences(c) = {Trusted(aud)} \/ c.azp = Trusted(aud)
    /\ WithinLife(c, t)
    /\ \E id \in {c.oid, c.sub} : id.type = "string" /\ id.value \notin Blanks
    /\ RoleClaim = "groups" =>
         ~(c.names.type = "object" /\ "groups" \in c.names.value)
         /\ ~(c.groups.type = "absent" /\ c.names.type # "absent" /\ c.sources.type # "absent")
=============================================================================
