----------------------------- MODULE FixedPoint -----------------------------
(***************************************************************************)
(* Fixed of crates/astra-types/src/fixed.rs: a decimal number held as an   *)
(* integer of one Scale-th, its checked operations, and the decimal text   *)
(* it is read from and written to.  With it the fee of maker_fee           *)
(* (crates/astra-exec/src/lib.rs), which rounds by itself.                 *)
(*                                                                         *)
(* A Fixed is its raw value.  An operation that overflows gives None.      *)
(***************************************************************************)
EXTENDS Integers, Sequences, Option

CONSTANTS
    Base,     \* ten
    Places,   \* DECIMAL_PLACES
    MaxRaw,   \* i128::MAX
    Bps       \* BPS_DENOMINATOR

\* The powers of ten, up to SCALE.
Power[i \in 0..Places] == IF i = 0 THEN 1 ELSE Base * Power[i - 1]

ASSUME FixedAssumption ==
    /\ Base \in Nat /\ Base > 1
    /\ Places \in Nat
    /\ MaxRaw \in Nat
    /\ Power[Places] \in 1..MaxRaw     \* SCALE is an i128
    /\ Bps \in Nat \ {0} /\ Bps % 2 = 0
    /\ None \notin Int

Scale == Power[Places]
MinRaw == -MaxRaw - 1
Raws == MinRaw..MaxRaw

\* The checked operations of i128.
Checked(n) == IF n \in Raws THEN n ELSE None
Magnitude(n) == IF n < 0 THEN -n ELSE n

\* Division of i128, toward zero; the divisor is positive wherever it is used.
Quotient(n, d) == IF n < 0 THEN -((-n) \div d) ELSE n \div d

CheckedAdd(a, b) == Checked(a + b)
CheckedSub(a, b) == Checked(a - b)

CheckedNeg(a) == Checked(-a)

\* The two branches of round_div once the divisor is positive: half of it is added
\* away from zero, which can overflow, and the rest is dropped.
RoundPositive(n, d) ==
    LET moved == Checked(IF n < 0 THEN n - (d \div 2) ELSE n + (d \div 2))
    IN  IF moved = None THEN None ELSE Quotient(moved, d)

\* Mutant of RoundDiv: a negative divisor is left as it is.
RoundDiv_signed_divisor(n, d) ==
    IF d > 0 THEN RoundPositive(n, d)
    ELSE LET moved == Checked(IF n < 0 THEN n - Quotient(d, 2) ELSE n + Quotient(d, 2))
         IN  IF moved = None THEN None ELSE -Quotient(moved, -d)

\* round_div.  Negating the smallest value is an overflow.
RoundDiv(n, d) ==
    IF d > 0 THEN RoundPositive(n, d)
    ELSE IF CheckedNeg(n) = None \/ CheckedNeg(d) = None THEN None
    ELSE RoundPositive(-n, -d)

CheckedMul(a, b) == IF a * b \in Raws THEN RoundDiv(a * b, Scale) ELSE None
CheckedDiv(a, b) == IF b # 0 /\ a * Scale \in Raws THEN RoundDiv(a * Scale, b) ELSE None

\* maker_fee, of a notional that is not negative.
MakerFee(notional, bps) ==
    LET scaled == notional * bps
        bump == IF Magnitude(scaled - Bps * Quotient(scaled, Bps)) >= Bps \div 2 THEN 1 ELSE 0
    IN  IF scaled \in Raws THEN Checked(Quotient(scaled, Bps) + bump) ELSE None

-----------------------------------------------------------------------------
\* A decimal literal: a sign, the value of the digits before the point, and the
\* digits after it, in order.
Digits == 0..Base - 1
Value(digits) ==
    LET upTo[i \in 0..Len(digits)] == IF i = 0 THEN 0 ELSE Base * upTo[i - 1] + digits[i]
    IN  upTo[Len(digits)]

Padded(digits) == [i \in 1..Places |-> IF i <= Len(digits) THEN digits[i] ELSE 0]

\* from_str.  The magnitude must fit before the sign is put on it.
Parse(literal) ==
    LET units == literal.whole * Scale
        magnitude == units + Value(Padded(literal.fraction))
    IN  IF \/ Len(literal.fraction) > Places
           \/ literal.whole \notin Raws
           \/ units \notin Raws
           \/ magnitude \notin Raws
        THEN None
        ELSE IF literal.sign = "-" THEN -magnitude ELSE magnitude

\* fmt: all places are written, also those that are zero.
Display(raw) ==
    LET rest == Magnitude(raw) % Scale
    IN  [sign |-> IF raw < 0 THEN "-" ELSE "",
         whole |-> Magnitude(raw) \div Scale,
         fraction |-> [i \in 1..Places |-> (rest \div Power[Places - i]) % Base]]

-----------------------------------------------------------------------------
\* r is n / d rounded to the nearest whole, ties away from zero.
IsNearest(r, n, d) ==
    LET off == Magnitude(r * d - n)
    IN  /\ 2 * off <= Magnitude(d)
        /\ 2 * off = Magnitude(d) => Magnitude(r * d) > Magnitude(n)

\* n is far enough from the ends of the width that rounding it cannot overflow.
HasRoom(n, d) == Magnitude(n) + (Magnitude(d) \div 2) <= MaxRaw
=============================================================================
