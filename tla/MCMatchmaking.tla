--------------------------- MODULE MCMatchmaking ---------------------------
(***************************************************************************)
(* Instances of Matchmaking for TLC.                                       *)
(***************************************************************************)
EXTENDS Matchmaking

\* binomial counts the combinations, for every tournament up to this size.
BinomialSize == 7

\* The loops of binomial, checked against counting the combinations, wherever
\* the result is small enough not to be cut off; a combination of more robots
\* than there are is counted once (the loops are empty).
ASSUME BinomialCounts ==
    \A n \in 0 .. BinomialSize, k \in 0 .. BinomialSize :
       LET count == IF k > n THEN 1
                    ELSE Cardinality({s \in SUBSET (1 .. n) : Cardinality(s) = k})
       IN  binomial(n, k) = IF count < IntMax THEN count ELSE IntMax
=============================================================================
