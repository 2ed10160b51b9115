---------------------------- MODULE FlowCounters ----------------------------
(***************************************************************************)
(* What the kernel side of flow tracking promises to the process that polls *)
(* it: for each flow a pair of counters that appear with the flow's first   *)
(* packet, only grow while the entry lives, and disappear when the LRU map  *)
(* evicts the entry.  FlowTable implements it; FlowAggregator polls it.     *)
(*                                                                          *)
(* A live entry has counted at least one packet, so NoEntry is told apart   *)
(* by packets = 0.                                                          *)
(***************************************************************************)
EXTENDS Naturals

CONSTANTS Flows,   \* the flow keys
          Lens     \* the lengths a packet may have

VARIABLE ctr       \* [Flows -> Counters]

NoEntry == [packets |-> 0, bytes |-> 0]

Live(k) == ctr[k].packets > 0

Init == ctr = [k \in Flows |-> NoEntry]

(* bpf_map_update_elem(..., BPF_NOEXIST) of a first packet. *)
Appear(k, len) ==
  /\ ~Live(k)
  /\ ctr' = [ctr EXCEPT ![k] = [packets |-> 1, bytes |-> len]]

(* The two atomic additions of a packet that found its entry are separate  *)
(* steps, so a reader may see one without the other.                        *)
CountPacket(k) ==
  /\ Live(k)
  /\ ctr' = [ctr EXCEPT ![k].packets = @ + 1]

CountBytes(k, len) ==
  /\ Live(k)
  /\ ctr' = [ctr EXCEPT ![k].bytes = @ + len]

(* The LRU map reclaims the entry of any flow. *)
Evict(k) ==
  /\ Live(k)
  /\ ctr' = [ctr EXCEPT ![k] = NoEntry]

Next ==
  \E k \in Flows :
    \/ \E len \in Lens : Appear(k, len) \/ CountBytes(k, len)
    \/ CountPacket(k)
    \/ Evict(k)

Spec == Init /\ [][Next]_ctr
=============================================================================
