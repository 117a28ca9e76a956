------------------------------ MODULE JsNumbers ------------------------------
(***************************************************************************)
(* The integer arithmetic of JavaScript that the models need: division of  *)
(* BigInts and % truncate, Math.sign, Math.abs, Math.min and Math.max.     *)
(***************************************************************************)
EXTENDS Integers

Sign(n) == IF n < 0 THEN -1 ELSE IF n > 0 THEN 1 ELSE 0

Magnitude(n) == IF n < 0 THEN -n ELSE n

\* Quotient and remainder with the sign of the dividend.
Quo(n, d) == Sign(n) * Sign(d) * (Magnitude(n) \div Magnitude(d))

Rem(n, d) == Sign(n) * (Magnitude(n) % Magnitude(d))

Smaller(m, n) == IF m < n THEN m ELSE n

Greater(m, n) == IF m < n THEN n ELSE m

\* ConstrainToRange.
ConstrainToRange(n, min, max) == Smaller(max, Greater(min, n))

\* RejectToRange does not throw.
InRange(n, min, max) == ~ (n < min \/ n > max)

\* NonNegativeBigIntDivmod: a remainder that is never negative.
NonNegative(q, r, d) ==
    IF r < 0 THEN [quotient |-> q - 1, remainder |-> r + d] ELSE [quotient |-> q, remainder |-> r]

NonNegativeDivmod(n, d) == NonNegative(Quo(n, d), Rem(n, d), d)

\* BigIntFloorDiv.
FloorDiv(n, d) ==
    IF Rem(n, d) = 0 \/ (n < 0) = (d < 0) THEN Quo(n, d) ELSE Quo(n, d) - 1
=============================================================================
