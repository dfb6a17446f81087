------------------------------ MODULE MCArena ------------------------------
(***************************************************************************)
(* Instances of Arena for TLC.                                             *)
(***************************************************************************)
EXTENDS Arena, TLC

CONSTANTS r1, r2, r3

\* Robots are interchangeable: the code tells them apart only by their results.
RobotSymmetry == Permutations(Robots)
=============================================================================
