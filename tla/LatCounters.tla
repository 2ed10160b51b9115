---------------------------- MODULE LatCounters ----------------------------
(***************************************************************************)
(* What the kernel side of syscall tracing promises to the process that     *)
(* polls it: histograms that appear empty, whose buckets grow by one while  *)
(* the entry lives, and that disappear when the LRU map evicts the entry.   *)
(* SyscallLat implements it; SyscallReport polls it.                        *)
(***************************************************************************)
EXTENDS Histogram

CONSTANT Keys      \* the keys of syscall_lat: process and system call

VARIABLE lat       \* the map: a function from the keys that have an entry

(* f with k mapped to v. *)
Put(f, k, v) == [j \in DOMAIN f \cup {k} |-> IF j = k THEN v ELSE f[j]]

Init == lat = <<>>

(* bpf_map_update_elem(..., BPF_NOEXIST) of the zero template. *)
Seed(k) == k \notin DOMAIN lat /\ lat' = Put(lat, k, ZeroHist)

(* The atomic addition of a sample. *)
AddSample(k, i) == k \in DOMAIN lat /\ lat' = [lat EXCEPT ![k][i] = @ + 1]

(* The LRU map reclaims the entry of any key. *)
Evict(k) ==
  k \in DOMAIN lat /\ lat' = [j \in DOMAIN lat \ {k} |-> lat[j]]

Next == \E k \in Keys : Seed(k) \/ Evict(k) \/ \E i \in Buckets : AddSample(k, i)

Spec == Init /\ [][Next]_lat
=============================================================================
