------------------------------ MODULE MCReplay ------------------------------
(***************************************************************************)
(* An instance of Replay for TLC.                                          *)
(***************************************************************************)
EXTENDS Replay
=============================================================================
