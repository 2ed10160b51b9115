------------------------------ MODULE MCCpuTop ------------------------------
(* Instances of CpuTop for TLC. *)
EXTENDS CpuTop

=============================================================================
