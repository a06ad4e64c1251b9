--------------------------- MODULE ClaimCheck_proofs ---------------------------
(***************************************************************************)
(* The properties of ClaimCheck, for any set of well-formed claims and any *)
(* behaviour of the host's clock, from the lemmas on the policy's          *)
(* operators.                                                              *)
(***************************************************************************)
EXTENDS ClaimCheck, ClaimPolicy_proofs

TypeInv == claims \in AnyClaims /\ reading \in Readings

LEMMA TypeCorrect == Spec => []TypeInv
<1>1. Init => TypeInv
  BY PolicyAssumption DEF Init, TypeInv, Readings
<1>2. TypeInv /\ [Next]_<<claims, reading>> => TypeInv'
  <2>. SUFFICES ASSUME TypeInv, [Next]_<<claims, reading>>
                PROVE  TypeInv'
    OBVIOUS
  <2>1. CASE Tick
    BY <2>1, PolicyAssumption DEF Tick, TypeInv, Readings
  <2>2. CASE SetClock
    BY <2>2 DEF SetClock, TypeInv
  <2>3. CASE UNCHANGED <<claims, reading>>
    BY <2>3 DEF TypeInv
  <2>. QED  BY <2>1, <2>2, <2>3 DEF Next
<1>. QED  BY <1>1, <1>2, PTL DEF Spec

(* The captured time is a second of i64 whatever the clock says.           *)
LEMMA NowType ==
    ASSUME TypeInv
    PROVE  /\ reading \in Int /\ now \in Nat /\ now <= I64Max
           /\ reading >= ClockFloor => now = reading
BY PolicyAssumption DEF TypeInv, Readings, now, NowUnix

LEMMA AcceptedExpiry ==
    ASSUME TypeInv, Accepts(claims, now, Audience)
    PROVE  claims.exp.type = "number" /\ claims.exp.value \in Int
<1>1. ExpiryOk(claims.exp, now)
  BY DEF Accepts, Refusal
<1>2. WellFormed(claims)
  BY ClaimsAssumption DEF TypeInv
<1>. QED  BY <1>1, <1>2 DEF ExpiryOk, WellFormed

-----------------------------------------------------------------------------
(* At every reading away from the end of i64, validate_claims accepts      *)
(* exactly the admissible tokens.                                          *)
THEOREM MatchTheorem == Spec => []MatchesReference
<1>1. TypeInv => MatchesReference
  <2>. SUFFICES ASSUME TypeInv, reading \in ClockFloor..(I64Max - ClockSkew - 1)
                PROVE  Accepts(claims, now, Audience) <=> Admissible(claims, reading, Audience)
    BY DEF MatchesReference
  <2>1. reading \in Nat /\ reading < I64Max - ClockSkew /\ now = reading
    BY NowType, PolicyAssumption
  <2>2. WellFormed(claims)
    BY ClaimsAssumption DEF TypeInv
  <2>. QED  BY <2>1, <2>2, PolicyIsExact
<1>. QED  BY <1>1, TypeCorrect, PTL

(* The suggested lifetime never outlives the token or the ceiling.         *)
THEOREM TtlTheorem == Spec => []TtlWithinLife
<1>1. TypeInv => TtlWithinLife
  <2>. SUFFICES ASSUME TypeInv, Accepts(claims, now, Audience)
                PROVE  LET ttl == Principal(claims, now).ttl
                       IN  ttl \in 0..MaxCacheTtl
                           /\ (ttl > 0 => 2 * (now + ttl) <= claims.exp.value)
    BY DEF TtlWithinLife
  <2>1. Principal(claims, now).ttl = CacheTtl(claims.exp, now)
    BY DEF Principal
  <2>2. claims.exp.type = "number" /\ claims.exp.value \in Int /\ now \in Nat /\ now <= I64Max
    BY AcceptedExpiry, NowType
  <2>. QED  BY <2>1, <2>2, TtlIsWithinLife
<1>. QED  BY <1>1, TypeCorrect, PTL

(* A clock below the sanity floor accepts only tokens that practically     *)
(* never expire.                                                           *)
THEOREM ClockTheorem == Spec => []BrokenClockRefuses
<1>1. TypeInv => BrokenClockRefuses
  <2>. SUFFICES ASSUME TypeInv, reading < ClockFloor, Accepts(claims, now, Audience)
                PROVE  claims.exp.value >= 2 * (I64Max - ClockSkew)
    BY DEF BrokenClockRefuses
  <2>1. claims.exp.value \in Int /\ reading \in Int
    BY AcceptedExpiry, NowType
  <2>. QED  BY <2>1, UntrustedClockRefuses DEF now
<1>. QED  BY <1>1, TypeCorrect, PTL
=============================================================================
