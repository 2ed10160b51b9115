---------------------------- MODULE MCSyscallLat ----------------------------
(* An instance of SyscallLat for TLC. *)
EXTENDS SyscallLat, TLC

Everything == {"evict_start", "evict_lat", "update_fails", "reuse"}

Symmetry == Permutations(Tids) \cup Permutations(StartNodes)
              \cup Permutations(LatNodes)

(* Around the widths log2_u64 compares with, and below them.  The theorem    *)
(* LatenciesCovered is about every length.                                  *)
NearPowers == {2^i + d : i \in {1, 2, 3, 4, 7, 8, 15, 16, 28}, d \in {-1, 0}}
=============================================================================
