------------------------------ MODULE FlowKey ------------------------------
(***************************************************************************)
(* The 5-tuple that names a flow: how bpf/c/flows.c builds it from a frame  *)
(* (process_packet, parse_l4) and from a socket (record_rtt), and how       *)
(* internal/flows reverses it to join round-trip samples and converts its   *)
(* ports for display.                                                       *)
(*                                                                          *)
(* A frame is a record of the header fields the program reads and of `len`, *)
(* the bytes skb->len holds, so that every bpf_skb_load_bytes may come up   *)
(* short.  Ports are 16-bit numbers in host order in frames and sockets;    *)
(* the key stores them as the little-endian host sees network order.        *)
(***************************************************************************)
EXTENDS Integers

CONSTANT NoFlow    \* what parsing yields for a packet that is not accounted

AF_INET  == 2
AF_INET6 == 10
TCP == 6
UDP == 17

IsPort(p) == p \in Nat /\ p < 65536   \* __be16, __u16

(* Byte swap of a 16-bit number: bpf_htons in the program, ntohs in Go. *)
Swap16(p) == (p % 256) * 256 + p \div 256

(* doff_flags & 0x3F keeps these six and drops ECE and CWR. *)
ObservedFlags == {"FIN", "SYN", "RST", "PSH", "ACK", "URG"}

ETH_HLEN == 14

(* bpf_skb_load_bytes(skb, off, n, ...) >= 0 *)
Loads(f, off, n) == off + n <= f.len

(* Offset of the L4 header, and -1 when an early return leaves the packet  *)
(* unaccounted before L4 is reached.                                        *)
L4Offset(f) ==
  CASE /\ f.ethertype = "ip4" /\ Loads(f, 12, 2)
       /\ f.ihl >= 5 /\ Loads(f, ETH_HLEN + 16, 4)  -> ETH_HLEN + 4 * f.ihl
    [] /\ f.ethertype = "ip6" /\ Loads(f, 12, 2)
       /\ Loads(f, ETH_HLEN + 24, 16)               -> ETH_HLEN + 40
    [] OTHER                                        -> -1

(* parse_l4 returns 0: the ports, and for TCP the flags, could be loaded.  *)
L4Readable(f, off) ==
  CASE f.proto = TCP -> Loads(f, off + 12, 2)
    [] f.proto = UDP -> Loads(f, off + 2, 2)
    [] OTHER         -> TRUE

HasPorts(f) == f.proto \in {TCP, UDP}

(* The key process_packet looks up, or NoFlow on an early TC_ACT_OK. *)
PacketKey(f) ==
  IF L4Offset(f) >= 0 /\ L4Readable(f, L4Offset(f))
  THEN [family |-> IF f.ethertype = "ip4" THEN AF_INET ELSE AF_INET6,
        proto  |-> f.proto,
        sport  |-> IF HasPorts(f) THEN Swap16(f.sport) ELSE 0,
        dport  |-> IF HasPorts(f) THEN Swap16(f.dport) ELSE 0,
        saddr  |-> f.saddr,
        daddr  |-> f.daddr]
  ELSE NoFlow

PacketFlags(f) == IF f.proto = TCP THEN f.flags \cap ObservedFlags ELSE {}

(* The key record_rtt builds: local end first, peer second.  skc_num is in *)
(* host order, skc_dport already in network order.                          *)
SocketKey(sk) ==
  IF sk.family \in {AF_INET, AF_INET6}
  THEN [family |-> sk.family,
        proto  |-> TCP,
        sport  |-> Swap16(sk.skc_num),
        dport  |-> sk.skc_dport,
        saddr  |-> sk.local,
        daddr  |-> sk.peer]
  ELSE NoFlow

(* The swapped key the aggregator tries second. *)
ReversePorts(k) ==   \* mutant: the addresses are not swapped
  [k EXCEPT !.sport = k.dport, !.dport = k.sport]
Reverse(k) == [k EXCEPT !.sport = k.dport, !.dport = k.sport,
                        !.saddr = k.daddr, !.daddr = k.saddr]

NoSample == [srtt |-> 0, mdev |-> 0]

(* The RTT fields of a record: `rtt` maps the keys that have a sample to   *)
(* it; the forward key is tried first, then its reverse, and only for TCP.  *)
JoinRtt(rtt, k) ==
  LET found == {k, Reverse(k)} \cap DOMAIN rtt IN
  IF k.proto # TCP \/ found = {} THEN NoSample
  ELSE rtt[IF k \in found THEN k ELSE Reverse(k)]

(* FlowKey.SrcPort, FlowKey.DstPort: back to host order. *)
SrcPort(k) == Swap16(k.sport)
DstPort(k) == Swap16(k.dport)
=============================================================================
