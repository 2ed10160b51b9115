---------------------------- MODULE MCFlowTable ----------------------------
(***************************************************************************)
(* Instances of FlowTable for TLC: a TCP flow seen with SYN and with ACK    *)
(* frames of two lengths, a UDP flow, and frames that early returns pass    *)
(* through (not IP, an IPv4 header length below 20, a cut TCP header).      *)
(***************************************************************************)
EXTENDS FlowTable, TLC

Frame(et, proto, sp, dp, fl, ihl, len) ==
  [ethertype |-> et, proto |-> proto, ihl |-> ihl, len |-> len,
   saddr |-> "a", daddr |-> "b", sport |-> sp, dport |-> dp, flags |-> fl]

Syn   == Frame("ip4", TCP, 443, 50000, {"SYN", "ECE"}, 5, 54)
Ack   == Frame("ip4", TCP, 443, 50000, {"ACK"}, 5, 60)
Query == Frame("ip6", UDP, 53, 4000, {}, 0, 62)
Arp   == Frame("arp", 0, 0, 0, {}, 0, 42)
BadIhl == Frame("ip4", TCP, 443, 50000, {"ACK"}, 4, 54)
CutTcp == Frame("ip4", TCP, 443, 50000, {"ACK"}, 5, 40)

OneFlow   == {Syn, Ack}
AllFrames == {Syn, Ack, Query, Arp, BadIhl, CutTcp}

Symmetry == Permutations(Cpus) \cup Permutations(Nodes)
=============================================================================
