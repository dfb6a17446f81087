------------------------------ MODULE Various ------------------------------
(***************************************************************************)
(* The arithmetic of Various.cc that the tournament is computed with.      *)
(***************************************************************************)
EXTENDS Integers

CONSTANT IntMax     \* INT_MAX

ASSUME IntMaxAssumption == IntMax \in Nat \ {0}

(***************************************************************************)
(* binomial: the product of the top factors divided by the bottom ones, in *)
(* floating point, cut off at INT_MAX.                                     *)
(***************************************************************************)

\* n * (n - 1) * ... : the k factors of the numerator.
FallingFactorial(n, k) ==
    LET f[i \in 0 .. k] == IF i = 0 THEN 1 ELSE (n - i + 1) * f[i - 1]
    IN  f[k]

Factorial(k) ==
    LET f[i \in 0 .. k] == IF i = 0 THEN 1 ELSE i * f[i - 1]
    IN  f[k]

\* binomial(n, k); when k > n the loops are empty and the result is 1.
binomial(n, k) ==
    LET k2  == IF k <= n - k THEN k ELSE n - k
        bin == IF k2 <= 0 THEN 1 ELSE FallingFactorial(n, k2) \div Factorial(k2)
    IN  IF bin < IntMax THEN bin ELSE IntMax
=============================================================================
