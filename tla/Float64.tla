------------------------------ MODULE Float64 ------------------------------
(***************************************************************************)
(* What the whole part of a float64 result may be. The code divides and    *)
(* multiplies int64s as float64s, and every conversion and operation       *)
(* rounds by less than one part in 2^52: the handful of roundings of one   *)
(* expression leave it within one part in Accuracy (2^50) of the exact     *)
(* value, to either side, so that the whole part may be the one above the  *)
(* exact quotient's or below it.                                           *)
(***************************************************************************)
EXTENDS Integers

CONSTANT Accuracy   \* 2^50 in the code

ASSUME AccuracyAssumption == Accuracy \in Nat \ {0}

\* Whole parts of the numbers within one part in Accuracy of n / d, n >= 0, d > 0
WholeParts(n, d) == ((Accuracy - 1) * n) \div (Accuracy * d)
                      .. ((Accuracy + 1) * n) \div (Accuracy * d)

\* What int64() may make of a float64 computed for n / d: it cuts towards zero
Truncated(n, d) == IF n >= 0 THEN WholeParts(n, d) ELSE {-q : q \in WholeParts(-n, d)}
=============================================================================
