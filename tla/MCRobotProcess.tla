--------------------------- MODULE MCRobotProcess ---------------------------
(***************************************************************************)
(* RobotProcess with two robots and a few process numbers.                 *)
(***************************************************************************)
EXTENDS RobotProcess

CONSTANTS r1, r2, p1, p2, p3, p4
=============================================================================
