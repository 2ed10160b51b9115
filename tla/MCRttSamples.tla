---------------------------- MODULE MCRttSamples ----------------------------
(***************************************************************************)
(* Instances of RttSamples for TLC: an IPv4 and an IPv6 connection, a       *)
(* dual-stack socket whose packets are IPv4, a socket that is not IP, both  *)
(* ends of a connection over the loopback device, and a connection of a     *)
(* container whose addresses another container uses, too.                   *)
(***************************************************************************)
EXTENDS RttSamples

In(ns, family, num, dport, local, peer, et, wlocal, wpeer) ==
  [ns |-> ns, family |-> family, skc_num |-> num, skc_dport |-> Swap16(dport),
   local |-> local, peer |-> peer,
   ethertype |-> et, wlocal |-> wlocal, wpeer |-> wpeer]
Sock(family, num, dport, local, peer, et, wlocal, wpeer) ==
  In("host", family, num, dport, local, peer, et, wlocal, wpeer)

V4     == Sock(AF_INET, 50000, 443, "a", "b", "ip4", "a", "b")
V6     == Sock(AF_INET6, 50001, 22, "a6", "b6", "ip6", "a6", "b6")
Mapped == Sock(AF_INET6, 8080, 50002, "::ffff:a", "::ffff:b", "ip4", "a", "b")
Smc    == Sock(43, 1, 2, "a", "b", "ip4", "a", "b")
Client == Sock(AF_INET, 50003, 80, "lo", "lo", "ip4", "lo", "lo")
Server == Sock(AF_INET, 80, 50003, "lo", "lo", "ip4", "lo", "lo")
Twin(ns) == In(ns, AF_INET, 40000, 80, "c", "b", "ip4", "c", "b")

AllSockets ==
  {V4, V6, Mapped, Smc, Client, Server, Twin("c1"), Twin("c2")}

SomeEstimates == {<<800, 40>>, <<1200, 100>>}
=============================================================================
