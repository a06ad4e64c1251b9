-------------------------- MODULE ClaimPolicy_proofs --------------------------
(***************************************************************************)
(* Theorems of ClaimPolicy, for an i64 of any width, any skew and ceiling. *)
(***************************************************************************)
EXTENDS ClaimPolicy, TLAPS

(* Rounding to whole seconds, against the date in half seconds.            *)
LEMMA Rounding ==
    ASSUME NEW h \in Int
    PROVE  /\ FloorHalf(h) \in Int /\ CeilHalf(h) \in Int
           /\ 2 * FloorHalf(h) <= h /\ h < 2 * FloorHalf(h) + 2
           /\ 2 * CeilHalf(h) >= h /\ h > 2 * CeilHalf(h) - 2
BY DEF FloorHalf, CeilHalf

LEMMA SaturateType ==
    ASSUME NEW x \in Int
    PROVE  Saturate(x) \in I64
BY PolicyAssumption DEF Saturate, I64

(* Flooring `exp` and adding the skew with saturation is exact: a second   *)
(* is refused if and only if it is past exp + skew.                        *)
LEMMA ExpiryIsExact ==
    ASSUME NEW v, v.type = "number" => v.value \in Int, NEW t \in Nat, t <= I64Max
    PROVE  ExpiryOk(v, t) <=> v.type = "number" /\ 2 * (t - ClockSkew) <= v.value
<1>1. CASE v.type # "number"
  BY <1>1 DEF ExpiryOk
<1>2. CASE v.type = "number"
  <2>. DEFINE f == FloorHalf(v.value)
  <2>1. f \in Int /\ 2 * f <= v.value /\ v.value < 2 * f + 2 /\ v.value \in Int
    BY <1>2, Rounding
  <2>2. ExpiryOk(v, t) <=> Saturate(Saturate(f) + ClockSkew) >= t
    BY <1>2 DEF ExpiryOk, NumericDateFloor
  <2>. HIDE DEF f
  <2>3. Saturate(Saturate(f) + ClockSkew) >= t <=> f + ClockSkew >= t
    BY <2>1, PolicyAssumption DEF Saturate
  <2>. QED  BY <1>2, <2>1, <2>2, <2>3, PolicyAssumption
<1>. QED  BY <1>1, <1>2

(* Ceiling `nbf` and subtracting the skew is exact short of the last       *)
(* seconds of i64, where a saturated date can no longer be told apart.     *)
LEMMA NotBeforeIsExact ==
    ASSUME NEW v, v.type = "number" => v.value \in Int, NEW t \in Nat, t < I64Max - ClockSkew
    PROVE  NotBeforeOk(v, t) <=> (v.type = "number" => v.value <= 2 * (t + ClockSkew))
<1>1. CASE v.type # "number"
  BY <1>1 DEF NotBeforeOk
<1>2. CASE v.type = "number"
  <2>. DEFINE f == CeilHalf(v.value)
  <2>1. f \in Int /\ 2 * f >= v.value /\ v.value > 2 * f - 2 /\ v.value \in Int
    BY <1>2, Rounding
  <2>2. NotBeforeOk(v, t) <=> Saturate(Saturate(f) - ClockSkew) <= t
    BY <1>2 DEF NotBeforeOk, NumericDateCeil
  <2>. HIDE DEF f
  <2>3. Saturate(Saturate(f) - ClockSkew) <= t <=> f - ClockSkew <= t
    BY <2>1, PolicyAssumption DEF Saturate
  <2>. QED  BY <1>2, <2>1, <2>2, <2>3, PolicyAssumption
<1>. QED  BY <1>1, <1>2

(* The two `any` scans of the audience array are set equality with azp as  *)
(* the way out.                                                            *)
LEMMA AudienceIsExact ==
    ASSUME NEW c, WellFormed(c), NEW aud
    PROVE  AudienceOk(c, aud) <=> /\ Trusted(aud) \in Audiences(c)
                                  /\ Audiences(c) = {Trusted(aud)} \/ c.azp = Trusted(aud)
<1>1. \A v : IsJson(v) => (IsString(v, aud) <=> v = Trusted(aud))
  BY DEF IsJson, IsString, Trusted
<1>2. CASE c.aud.type = "string"
  BY <1>1, <1>2 DEF AudienceOk, Audiences, WellFormed
<1>3. CASE c.aud.type = "array"
  <2>1. \A v \in c.aud.value : IsString(v, aud) <=> v = Trusted(aud)
    BY <1>1, <1>3 DEF WellFormed
  <2>2. IsString(c.azp, aud) <=> c.azp = Trusted(aud)
    BY <1>1 DEF WellFormed
  <2>3. ~IsString(c.aud, aud) /\ Audiences(c) = c.aud.value
    BY <1>3 DEF IsString, Audiences
  <2>. QED  BY <1>3, <2>1, <2>2, <2>3 DEF AudienceOk
<1>4. CASE c.aud.type # "string" /\ c.aud.type # "array"
  BY <1>4 DEF AudienceOk, Audiences, IsString
<1>. QED  BY <1>2, <1>3, <1>4

(* validate_claims accepts exactly the admissible tokens: no rounding,     *)
(* saturation or order of its checks changes a verdict, for any width of   *)
(* the integers and at every second but the last of them.                  *)
THEOREM PolicyIsExact ==
    ASSUME NEW c, WellFormed(c), NEW aud, NEW t \in Nat, t < I64Max - ClockSkew
    PROVE  Accepts(c, t, aud) <=> Admissible(c, t, aud)
<1>1. Accepts(c, t, aud) <=>
        /\ IssuerOk(c) /\ AudienceOk(c, aud) /\ ExpiryOk(c.exp, t)
        /\ NotBeforeReadable(c.nbf) /\ NotBeforeOk(c.nbf, t)
        /\ ~(RoleClaim = DefaultRoleClaim /\ GroupsOverage(c)) /\ HasSubject(c)
  BY DEF Accepts, Refusal
<1>2. t <= I64Max
  BY PolicyAssumption
<1>3. ExpiryOk(c.exp, t) /\ NotBeforeReadable(c.nbf) /\ NotBeforeOk(c.nbf, t) <=> WithinLife(c, t)
  BY <1>2, ExpiryIsExact, NotBeforeIsExact DEF WellFormed, WithinLife, NotBeforeReadable
<1>4. HasSubject(c) <=> \E id \in {c.oid, c.sub} : id.type = "string" /\ id.value \notin Blanks
  BY DEF HasSubject, NonEmpty
<1>5. (RoleClaim = DefaultRoleClaim /\ GroupsOverage(c)) <=>
      ~(RoleClaim = "groups" =>
          ~(c.names.type = "object" /\ "groups" \in c.names.value)
          /\ ~(c.groups.type = "absent" /\ c.names.type # "absent" /\ c.sources.type # "absent"))
  BY DEF GroupsOverage, DefaultRoleClaim
<1>6. IssuerOk(c) <=> c.iss.type = "string" /\ c.iss.value = Issuer
  BY DEF IssuerOk, IsString
<1>. QED  BY <1>1, <1>3, <1>4, <1>5, <1>6, AudienceIsExact DEF Admissible

(* The lifetime suggested to the engine's credential cache is within the   *)
(* ceiling and, when positive, ends by the token's own expiry.             *)
THEOREM TtlIsWithinLife ==
    ASSUME NEW c, c.exp.type = "number", c.exp.value \in Int, NEW t \in Nat, t <= I64Max
    PROVE  /\ CacheTtl(c.exp, t) \in 0..MaxCacheTtl
           /\ CacheTtl(c.exp, t) > 0 => 2 * (t + CacheTtl(c.exp, t)) <= c.exp.value
<1>. DEFINE f == FloorHalf(c.exp.value)
<1>1. f \in Int /\ 2 * f <= c.exp.value
  BY Rounding
<1>2. CacheTtl(c.exp, t) = Clamp(Saturate(Saturate(f) - t), 0, MaxCacheTtl)
  BY DEF CacheTtl, NumericDateFloor
<1>. HIDE DEF f
<1>3. CacheTtl(c.exp, t) \in 0..MaxCacheTtl
  BY <1>1, <1>2, PolicyAssumption DEF Clamp, Saturate
<1>4. CacheTtl(c.exp, t) > 0 => t + CacheTtl(c.exp, t) <= f
  BY <1>1, <1>2, PolicyAssumption DEF Clamp, Saturate
<1>. QED  BY <1>1, <1>3, <1>4

(* A host clock below the sanity floor accepts only tokens whose expiry is *)
(* within the skew of the end of time.                                     *)
THEOREM UntrustedClockRefuses ==
    ASSUME NEW c, NEW aud, NEW reading \in Int, reading < ClockFloor, c.exp.value \in Int,
           Accepts(c, NowUnix(reading), aud)
    PROVE  c.exp.value >= 2 * (I64Max - ClockSkew)
<1>1. NowUnix(reading) = I64Max
  BY PolicyAssumption DEF NowUnix
<1>2. ExpiryOk(c.exp, I64Max)
  BY <1>1 DEF Accepts, Refusal
<1>3. I64Max \in Nat /\ I64Max <= I64Max
  BY PolicyAssumption
<1>. QED  BY <1>2, <1>3, ExpiryIsExact
=============================================================================
