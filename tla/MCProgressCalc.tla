--------------------------- MODULE MCProgressCalc ---------------------------
(* A small instance of ProgressCalc for TLC. *)
EXTENDS ProgressCalc

\* Up to three files. With a Width of 5 the last size is negative once
\* converted, and sums of 16 and more wrap.
SomeSizes == {0, 1, 4, 14, 30}
SmallRequests == UNION {[1 .. i -> SomeSizes] : i \in 0 .. 3}
SmallCounts == 0 .. 15
=============================================================================
