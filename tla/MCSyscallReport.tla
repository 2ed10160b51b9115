-------------------------- MODULE MCSyscallReport --------------------------
(* Instances of SyscallReport for TLC. *)
EXTENDS SyscallReport, TLC

Symmetry == Permutations(Keys)
=============================================================================
