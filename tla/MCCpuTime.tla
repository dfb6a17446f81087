----------------------------- MODULE MCCpuTime -----------------------------
(***************************************************************************)
(* CpuTime with an allowance of a few jiffies.                             *)
(***************************************************************************)
EXTENDS CpuTime
=============================================================================
