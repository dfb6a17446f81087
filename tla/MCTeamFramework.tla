-------------------------- MODULE MCTeamFramework --------------------------
(***************************************************************************)
(* TeamFramework with a small team.                                        *)
(***************************************************************************)
EXTENDS TeamFramework

CONSTANTS t1, t2
=============================================================================
