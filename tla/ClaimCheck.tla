------------------------------ MODULE ClaimCheck ------------------------------
(***************************************************************************)
(* One token presented to one validator again and again, while the host's  *)
(* clock runs and is set to anything.                                      *)
(***************************************************************************)
EXTENDS ClaimPolicy

CONSTANTS Audience,     \* the validator's
          AnyClaims     \* claims of signed tokens

ASSUME ClaimsAssumption == \A c \in AnyClaims : WellFormed(c)

VARIABLES claims, reading

Readings == -1..I64Max

Init == /\ claims \in AnyClaims
        /\ reading = ClockFloor
Tick == reading < I64Max /\ reading' = reading + 1 /\ UNCHANGED claims
SetClock == reading' \in Readings /\ UNCHANGED claims
Next == Tick \/ SetClock
Spec == Init /\ [][Next]_<<claims, reading>>

now == NowUnix(reading)

-----------------------------------------------------------------------------
(* validate_claims accepts exactly the admissible tokens: neither rounding *)
(* to whole seconds, nor saturation at the ends of i64, nor the order of   *)
(* the checks ever changes a verdict (away from the last seconds of i64).  *)
MatchesReference ==
    reading \in ClockFloor..(I64Max - ClockSkew - 1) =>
        (Accepts(claims, now, Audience) <=> Admissible(claims, reading, Audience))

(* The engine is never told to keep an identity past the token's own       *)
(* expiry, nor longer than the ceiling, nor for a negative time.           *)
TtlWithinLife ==
    Accepts(claims, now, Audience) =>
        LET ttl == Principal(claims, now).ttl
        IN  ttl \in 0..MaxCacheTtl /\ (ttl > 0 => 2 * (now + ttl) <= claims.exp.value)

(* A clock that cannot be trusted accepts no token but one that practically *)
(* never expires.                                                          *)
BrokenClockRefuses ==
    reading < ClockFloor /\ Accepts(claims, now, Audience) => claims.exp.value >= 2 * (I64Max - ClockSkew)
=============================================================================
