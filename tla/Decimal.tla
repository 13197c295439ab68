------------------------------ MODULE Decimal ------------------------------
(***************************************************************************)
(* The fixed-point arithmetic of prices, quantities and positions.  A      *)
(* decimal is unscaled / 10^scale, unscaled a signed machine integer of    *)
(* kLlMax + 1 positive values (2^63 in the build, less in a model); the    *)
(* wide intermediate results of the code never overflow and are TLA+       *)
(* integers.                                                               *)
(*                                                                         *)
(* A well-formed decimal text is its sign, its digits read as one number   *)
(* and how many of them follow the point: what parsing reads of it.        *)
(***************************************************************************)
EXTENDS Integers, FiniteSetsExt

CONSTANTS
    kMaxDecimalScale, \* fractional digits of an input
    kLlMax            \* the largest machine integer

ASSUME DecimalAssumption ==
    /\ kMaxDecimalScale \in Nat
    /\ kLlMax \in Nat \ {0}

kMaxInternalScale == 2 * kMaxDecimalScale
kLlMin == -kLlMax - 1

IsDecimal(d) == d.unscaled \in kLlMin..kLlMax /\ d.scale \in 0..kMaxInternalScale

Zero == [unscaled |-> 0, scale |-> 0]

\* The error of every operation below.
Failure == [unscaled |-> 0, scale |-> -1]

IsOk(result) == result # Failure

Text == [neg : BOOLEAN, digits : Nat, frac : Nat]

-----------------------------------------------------------------------------

Abs(n) == IF n < 0 THEN -n ELSE n

Larger(m, n) == IF m > n THEN m ELSE n

\* A wide integer cast to a machine integer.
Cast(n) == ((n - kLlMin) % (kLlMax - kLlMin + 1)) + kLlMin

fits_ll(n) == n \in kLlMin..kLlMax

\* d in units of 10^-scale (aligned).
Units(d, scale) == d.unscaled * 10^(scale - d.scale)

CommonScale(lhs, rhs) == Larger(lhs.scale, rhs.scale)

normalized(d) ==
    LET zeros == Max({k \in 0..d.scale : d.unscaled % 10^k = 0})
    IN  IF d.unscaled = 0 THEN Zero
        ELSE [unscaled |-> (IF d.unscaled < 0 THEN -1 ELSE 1) * (Abs(d.unscaled) \div 10^zeros),
              scale |-> d.scale - zeros]

\* Faulty variant: trailing zeros are kept.
Unnormalized(n, scale) ==
    IF fits_ll(n) THEN [unscaled |-> n, scale |-> scale] ELSE Failure

\* A wide result at a scale: a decimal, or an explicit error.
Checked(n, scale) ==
    IF fits_ll(n) THEN normalized([unscaled |-> n, scale |-> scale]) ELSE Failure

parse_signed_decimal(t) ==
    IF t.frac > kMaxDecimalScale \/ t.digits > kLlMax THEN Failure
    ELSE normalized([unscaled |-> IF t.neg THEN -t.digits ELSE t.digits, scale |-> t.frac])

parse_decimal(t) == IF t.neg THEN Failure ELSE parse_signed_decimal(t)

decimal_to_string(d) == [neg |-> d.unscaled < 0, digits |-> Abs(d.unscaled), frac |-> d.scale]

compare(lhs, rhs) ==
    LET scale == CommonScale(lhs, rhs)
        l == Units(lhs, scale)
        r == Units(rhs, scale)
    IN  IF l < r THEN -1 ELSE IF l > r THEN 1 ELSE 0

\* Negating the least machine integer is undefined; the build wraps.
negate(d) == [d EXCEPT !.unscaled = Cast(-@)]

add(lhs, rhs) ==
    LET scale == CommonScale(lhs, rhs) IN Checked(Units(lhs, scale) + Units(rhs, scale), scale)

sub(lhs, rhs) ==
    LET scale == CommonScale(lhs, rhs) IN Checked(Units(lhs, scale) - Units(rhs, scale), scale)

\* The difference is cast without a look at fits_ll.
sub_clamped_zero(lhs, rhs) ==
    LET scale == CommonScale(lhs, rhs)
        l == Units(lhs, scale)
        r == Units(rhs, scale)
    IN  IF l <= r THEN Zero ELSE normalized([unscaled |-> Cast(l - r), scale |-> scale])

mul(lhs, rhs) == Checked(lhs.unscaled * rhs.unscaled, lhs.scale + rhs.scale)

\* Faulty variant: the quotient is cut off.
div_truncating(lhs, rhs, max_scale) ==
    LET common == CommonScale(lhs, rhs)
        l == Units(lhs, common + max_scale)
        r == Units(rhs, common)
        down == Abs(l) \div Abs(r)
    IN  IF rhs.unscaled = 0 \/ max_scale \notin 0..kMaxInternalScale THEN Failure
        ELSE Checked(IF (l < 0) # (r < 0) THEN -down ELSE down, max_scale)

\* Rounds half away from zero at max_scale fractional digits.
div(lhs, rhs, max_scale) ==
    LET common == CommonScale(lhs, rhs)
        l == Units(lhs, common + max_scale)
        r == Units(rhs, common)
        down == Abs(l) \div Abs(r)
        quotient == IF 2 * (Abs(l) % Abs(r)) >= Abs(r) THEN down + 1 ELSE down
    IN  IF rhs.unscaled = 0 \/ max_scale \notin 0..kMaxInternalScale THEN Failure
        ELSE Checked(IF (l < 0) # (r < 0) THEN -quotient ELSE quotient, max_scale)

-----------------------------------------------------------------------------
(* Properties *)

\* The normalized decimals an input can denote, and their values as integers
\* in units of 10^-kMaxInternalScale.
Decimals ==
    {normalized([unscaled |-> n, scale |-> s]) : n \in kLlMin..kLlMax, s \in 0..kMaxDecimalScale}

Value(d) == Units(d, kMaxInternalScale)

\* A value that fits whatever the scale of its operands.
Fits(value) == Abs(value) <= kLlMax * 10^kMaxDecimalScale

ExactOrError(result, value) ==
    IF IsOk(result) THEN Value(result) = value ELSE ~Fits(value)

\* Sums, differences, products and comparisons are exact whatever the scales
\* of the operands, and an error is reported only for a result that is out of
\* range; a quotient is the nearest decimal of its scale, halves away from
\* zero; what decimal_to_string writes is read back as the same decimal.
DecimalsExact ==
    /\ \A l, r \in Decimals :
          /\ ExactOrError(add(l, r), Value(l) + Value(r))
          /\ ExactOrError(sub(l, r), Value(l) - Value(r))
          /\ LET product == mul(l, r) IN
             IF IsOk(product) THEN Value(product) * 10^kMaxInternalScale = Value(l) * Value(r)
             ELSE Abs(l.unscaled * r.unscaled) > kLlMax
          /\ compare(l, r) = IF Value(l) < Value(r) THEN -1
                             ELSE IF Value(l) > Value(r) THEN 1 ELSE 0
          /\ Fits(Value(l) - Value(r)) =>
                Value(sub_clamped_zero(l, r)) = Max({0, Value(l) - Value(r)})
          /\ LET q == div(l, r, kMaxDecimalScale)
                 error == Abs(Value(q) * Value(r)) - Abs(Value(l)) * 10^kMaxInternalScale
                 half == Abs(Value(r)) * 10^kMaxDecimalScale
             IN  IsOk(q) => -half < 2 * error /\ 2 * error <= half
    /\ \A d \in Decimals : d.unscaled # kLlMin =>
          parse_signed_decimal(decimal_to_string(d)) = d

=============================================================================
