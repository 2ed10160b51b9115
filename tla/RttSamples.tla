----------------------------- MODULE RttSamples -----------------------------
(***************************************************************************)
(* The round-trip estimates of bpf/c/flows.c (record_rtt, attached with     *)
(* fentry to tcp_rcv_established) and their join with flow records in       *)
(* internal/flows/aggregator.go.                                            *)
(*                                                                          *)
(* The kernel runs tcp_rcv_established under the socket's lock, so the      *)
(* program runs once at a time per socket; sockets, and polls, interleave.  *)
(* fentry fires on entry to the function; the function then processes the   *)
(* acknowledgment and updates srtt_us and mdev_us (action Acknowledge).     *)
(*                                                                          *)
(* Left out: ts_last_ns, which nothing reads, and eviction (the map holds   *)
(* 65536 sockets; FlowTable models eviction).  Bound: MaxSegments.          *)
(*                                                                          *)
(* The names are other than FlowAggregator's, the reader of the other map,  *)
(* so that one module can extend both.                                      *)
(***************************************************************************)
EXTENDS FlowKey

CONSTANTS
  Sockets,      \* records: family, skc_num, skc_dport, local, peer as the
                \* socket stores them, the ethertype and addresses wlocal,
                \* wpeer its packets carry, and what tells it from a socket
                \* with the same ends
  Estimates,    \* values of <<srtt_us, mdev_us>> as stored in tcp_sock
  MaxSegments

NoEstimate == <<0, 0>>     \* srtt_us = 0: nothing measured yet

(* The family of a socket's packets is its own, except that an AF_INET6     *)
(* socket may carry IPv4 under mapped addresses.                            *)
PacketFamily(sk) == IF sk.ethertype = "ip4" THEN AF_INET ELSE AF_INET6
SocketsAreTcp ==
  \A sk \in Sockets :
    /\ IsPort(sk.skc_num) /\ IsPort(sk.skc_dport)
    /\ sk.ethertype \in {"ip4", "ip6"}
    /\ sk.family = PacketFamily(sk) =>
         sk.local = sk.wlocal /\ sk.peer = sk.wpeer

ASSUME SocketsAssumption   == SocketsAreTcp
ASSUME EstimatesAssumption == Estimates \subseteq Nat \X Nat
ASSUME SegmentsAssumption  == MaxSegments \in Nat

Keys == {SocketKey(sk) : sk \in Sockets} \ {NoFlow}

VARIABLES
  est,        \* srtt_us and mdev_us of each tcp_sock
  table,      \* rtt_samples, by key; samples = 0: no entry
  at,         \* where record_rtt is, per socket
  reg,        \* its locals srtt and mdev, shifted
  segments,   \* segments received (bound)
  atEntry,    \* history: the estimate the last recording run found
  recorded    \* history: runs that recorded a sample

rttVars == <<est, table, at, reg, segments, atEntry, recorded>>

NoEntry == [srtt |-> 0, mdev |-> 0, samples |-> 0]

RttInit ==
  /\ est = [sk \in Sockets |-> NoEstimate]
  /\ table = [k \in Keys |-> NoEntry]
  /\ at = [sk \in Sockets |-> "idle"]
  /\ reg = [sk \in Sockets |-> NoEstimate]
  /\ segments = 0
  /\ atEntry = [sk \in Sockets |-> NoEstimate]
  /\ recorded = [sk \in Sockets |-> 0]

Goto(sk, from, to) == at[sk] = from /\ at' = [at EXCEPT ![sk] = to]

(* srtt >>= 3, mdev >>= 2 *)
Shifted(e) == <<e[1] \div 8, e[2] \div 4>>

(* Segments are recorded only for IP sockets with a measured estimate. *)
Returns(sk) == SocketKey(sk) = NoFlow \/ est[sk][1] = 0

(* A segment arrives: fentry runs record_rtt up to its lookup. *)
Segment(sk) ==
  /\ segments < MaxSegments
  /\ segments' = segments + 1
  /\ IF Returns(sk)
     THEN Goto(sk, "idle", "ack") /\ UNCHANGED <<reg, atEntry>>
     ELSE /\ Goto(sk, "idle",
                  IF table[SocketKey(sk)].samples > 0 THEN "srtt" ELSE "insert")
          /\ reg' = [reg EXCEPT ![sk] = Shifted(est[sk])]
          /\ atEntry' = [atEntry EXCEPT ![sk] = est[sk]]
  /\ UNCHANGED <<est, table, recorded>>

(* existing->srtt_us = srtt *)
StoreSrtt(sk) ==
  /\ Goto(sk, "srtt", "mdev")
  /\ table' = [table EXCEPT ![SocketKey(sk)].srtt = reg[sk][1]]
  /\ UNCHANGED <<est, reg, segments, atEntry, recorded>>

(* existing->mdev_us = mdev *)
StoreMdev(sk) ==
  /\ Goto(sk, "mdev", "samples")
  /\ table' = [table EXCEPT ![SocketKey(sk)].mdev = reg[sk][2]]
  /\ UNCHANGED <<est, reg, segments, atEntry, recorded>>

(* __sync_fetch_and_add(&existing->samples, 1) *)
AddSample(sk) ==
  /\ Goto(sk, "samples", "ack")
  /\ table' = [table EXCEPT ![SocketKey(sk)].samples = @ + 1]
  /\ recorded' = [recorded EXCEPT ![sk] = @ + 1]
  /\ UNCHANGED <<est, reg, segments, atEntry>>

(* bpf_map_update_elem(&rtt_samples, &key, &s, BPF_NOEXIST) *)
FirstSampleUncounted(sk) ==   \* mutant: .samples left at zero
  [srtt |-> reg[sk][1], mdev |-> reg[sk][2], samples |-> 0]
FirstSample(sk) == [srtt |-> reg[sk][1], mdev |-> reg[sk][2], samples |-> 1]
Insert(sk) ==
  /\ Goto(sk, "insert", "ack")
  /\ table' = IF table[SocketKey(sk)].samples > 0 THEN table
              ELSE [table EXCEPT ![SocketKey(sk)] = FirstSample(sk)]
  /\ recorded' = [recorded EXCEPT ![sk] = @ + 1]
  /\ UNCHANGED <<est, reg, segments, atEntry>>

(* The traced function goes on: the kernel updates the estimate, or not,    *)
(* and releases the socket.                                                 *)
Acknowledge(sk, e) ==
  /\ Goto(sk, "ack", "idle")
  /\ est' = [est EXCEPT ![sk] = e]
  /\ UNCHANGED <<table, reg, segments, atEntry, recorded>>

Quiet ==
  /\ segments = MaxSegments /\ \A sk \in Sockets : at[sk] = "idle"
  /\ UNCHANGED rttVars

RttNext ==
  \/ \E sk \in Sockets :
       \/ Segment(sk) \/ StoreSrtt(sk) \/ StoreMdev(sk) \/ AddSample(sk)
       \/ Insert(sk)
       \/ \E e \in Estimates : Acknowledge(sk, e)
  \/ Quiet

RttSpec == RttInit /\ [][RttNext]_rttVars
-----------------------------------------------------------------------------
Held == Estimates \cup {NoEstimate}
RttTypeOK ==
  /\ est \in [Sockets -> Held] /\ atEntry \in [Sockets -> Held]
  /\ at \in [Sockets -> {"idle", "srtt", "mdev", "samples", "insert", "ack"}]
  /\ reg \in [Sockets -> {Shifted(e) : e \in Held}]
  /\ table \in [Keys -> [srtt : {Shifted(e)[1] : e \in Held},
                        mdev : {Shifted(e)[2] : e \in Held},
                        samples : Nat]]
  /\ segments \in 0..MaxSegments /\ recorded \in [Sockets -> Nat]

(* What the flow records of a connection's packets show: the classifier's   *)
(* key of a packet in either direction, joined with a poll of rtt_samples.  *)
Wire(sk, saddr, sport, daddr, dport) ==
  [ethertype |-> sk.ethertype, ihl |-> 5, len |-> 74, proto |-> TCP,
   flags |-> {"ACK"}, saddr |-> saddr, sport |-> sport,
   daddr |-> daddr, dport |-> dport]
PeerPort(sk) == Swap16(sk.skc_dport)
Egress(sk)  == Wire(sk, sk.wlocal, sk.skc_num, sk.wpeer, PeerPort(sk))
Ingress(sk) == Wire(sk, sk.wpeer, PeerPort(sk), sk.wlocal, sk.skc_num)

Polled == [k \in {key \in Keys : table[key].samples > 0} |->
             [srtt |-> table[k].srtt, mdev |-> table[k].mdev]]
Shows(frame, e) ==
  LET s == JoinRtt(Polled, PacketKey(frame)) IN <<s.srtt, s.mdev>> = Shifted(e)

(* The map outlives its sockets and is one for all network namespaces: a   *)
(* key may be that of several sockets, and over the loopback device the     *)
(* reverse of a socket's key is that of its peer.                           *)
KeyIsOwn(sk) ==
  \A other \in Sockets \ {sk} : SocketKey(other) # SocketKey(sk)
PeerIsRemote(sk) ==
  \A other \in Sockets \ {sk} : SocketKey(other) # Reverse(SocketKey(sk))

(* aggregator.go: each flow record is joined with the matching RTT sample.  *)
(* Between segments, the records of both directions of a sampled connection *)
(* show the estimate the kernel held when the last sample was taken (on     *)
(* entry to the function, before its segment updates the estimate), across  *)
(* the byte order of ports and the orientation of the keys.  Not so for an  *)
(* AF_INET6 socket whose packets are IPv4: it is keyed by mapped addresses; *)
(* and what comes from a peer that is a socket here, too, shows the peer's. *)
JoinBothDirections ==
  \A sk \in Sockets :
    /\ at[sk] = "idle" /\ recorded[sk] > 0
    /\ sk.family = PacketFamily(sk) /\ KeyIsOwn(sk)
    => /\ Shows(Egress(sk), atEntry[sk])
       /\ PeerIsRemote(sk) => Shows(Ingress(sk), atEntry[sk])

(* The socket lock makes the unlocked lookup-then-insert exact: between     *)
(* segments the sample counter of a socket whose key no other socket has is *)
(* the number of samples recorded.                                          *)
SamplesExact ==
  \A sk \in Sockets : at[sk] = "idle" /\ recorded[sk] > 0 /\ KeyIsOwn(sk) =>
    table[SocketKey(sk)].samples = recorded[sk]
=============================================================================
