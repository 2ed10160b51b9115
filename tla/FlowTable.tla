----------------------------- MODULE FlowTable -----------------------------
(***************************************************************************)
(* bpf/c/flows.c: the classifier programs flows_ingress and flows_egress    *)
(* run process_packet on every CPU at once over one shared LRU hash map,    *)
(* flow_table.  A CPU runs one packet at a time (the programs run with      *)
(* bottom halves disabled); between CPUs nothing is ordered but the         *)
(* individual map operations and the two atomic additions.                  *)
(*                                                                          *)
(* The map is the kernel's: its entries live in preallocated nodes, a       *)
(* lookup returns a pointer to a node, and a node that is evicted may be    *)
(* taken by another flow while a CPU still holds the pointer.               *)
(*                                                                          *)
(* Bounds: MaxPackets on the packets received, MaxEvictions on evictions.   *)
(***************************************************************************)
EXTENDS FlowKey, FiniteSets

CONSTANTS Cpus, Nodes,
          Frames,         \* the frames that may arrive (records, see FlowKey)
          NoNode,         \* the NULL of a lookup
          MaxPackets, MaxEvictions

ASSUME CpusAssumption   == IsFiniteSet(Cpus) /\ Cpus # {}
ASSUME NodesAssumption  == NoNode \notin Nodes
ASSUME FramesAssumption == \A f \in Frames : f.len \in Nat
ASSUME BoundsAssumption == MaxPackets \in Nat /\ MaxEvictions \in Nat

Flows == {PacketKey(f) : f \in Frames} \ {NoFlow}
Lens  == {f.len : f \in Frames}

ASSUME LensAssumption == IsFiniteSet(Lens)   \* pkt_len is a __u32

VARIABLES
  table,      \* flow_table's index: [Flows -> Nodes \cup {NoNode}]
  node,       \* the values (struct flow_value) in the preallocated nodes
  pc,         \* where each CPU is in process_packet
  pkt,        \* the locals key, pkt_len, tcp_flags and now of that run
  val,        \* the local val: the pointer the lookup returned
  reg,        \* the register of the unlocked read-modify-write of tcp_flags
  clock,      \* bpf_ktime_get_ns
  received,   \* packets received so far (bound)
  evictions,  \* entries evicted so far (bound)
  seen,       \* history: packets of each flow that reached the table update
  seenFlags,  \* history: the flags of those packets
  missed,     \* history: packets of each flow the table refused (EEXIST)
  overlapped  \* history: flows that two CPUs handled packets of at once

vars == <<table, node, pc, pkt, val, reg, clock, received, evictions,
          seen, seenFlags, missed, overlapped>>

Locations == {"idle", "lookup", "packets", "bytes", "ts", "flags_read",
              "flags_write", "insert"}

Values == [packets : Nat, bytes : Nat, first : Nat, last : Nat,
           flags : SUBSET ObservedFlags]
Packets == [key : Flows, len : Lens, flags : SUBSET ObservedFlags, now : Nat]
NoPacket == [key |-> NoFlow, len |-> 0, flags |-> {}, now |-> 0]

Present(k)  == table[k] # NoNode
FreeNodes   == Nodes \ {table[k] : k \in Flows}
NodeOf(c)   == node[val[c]]
KeyOf(c)    == pkt[c].key

Init ==
  /\ table = [k \in Flows |-> NoNode]
  /\ node = [n \in Nodes |-> [packets |-> 0, bytes |-> 0, first |-> 0,
                              last |-> 0, flags |-> {}]]
  /\ pc = [c \in Cpus |-> "idle"]
  /\ pkt = [c \in Cpus |-> NoPacket]
  /\ val = [c \in Cpus |-> NoNode]
  /\ reg = [c \in Cpus |-> {}]
  /\ clock = 0 /\ received = 0 /\ evictions = 0
  /\ seen = [k \in Flows |-> 0]
  /\ seenFlags = [k \in Flows |-> {}]
  /\ missed = [k \in Flows |-> 0]
  /\ overlapped = {}

(* No CPU is handling a packet of flow k. *)
Settled(k) == \A c \in Cpus : pc[c] = "idle" \/ KeyOf(c) # k

Goto(c, from, to) == pc[c] = from /\ pc' = [pc EXCEPT ![c] = to]

(* The packet of c is done with the table's packet counter. *)
Account(c) ==
  /\ seen' = [seen EXCEPT ![KeyOf(c)] = @ + 1]
  /\ seenFlags' = [seenFlags EXCEPT ![KeyOf(c)] = @ \cup pkt[c].flags]

(* A frame arrives on c: it is parsed, and unless an early return passes it *)
(* through unaccounted the time stamp is taken, before the lookup.  The     *)
(* clock is monotone across CPUs; it may not advance between two packets.   *)
Receive(c, f) ==
  /\ pc[c] = "idle" /\ received < MaxPackets
  /\ received' = received + 1
  /\ IF PacketKey(f) = NoFlow
     THEN UNCHANGED <<pc, pkt, clock, overlapped>>
     ELSE \E d \in {0, 1} :
            /\ Goto(c, "idle", "lookup")
            /\ clock' = clock + d
            /\ pkt' = [pkt EXCEPT ![c] = [key |-> PacketKey(f), len |-> f.len,
                                          flags |-> PacketFlags(f),
                                          now |-> clock + d]]
            /\ overlapped' = IF Settled(PacketKey(f)) THEN overlapped
                             ELSE overlapped \cup {PacketKey(f)}
  /\ UNCHANGED <<table, node, val, reg, evictions, seen, seenFlags, missed>>

(* bpf_map_lookup_elem *)
AfterLookupUnchecked(c) == "packets"   \* mutant: no test of val against NULL
AfterLookup(c) == IF Present(KeyOf(c)) THEN "packets" ELSE "insert"
Lookup(c) ==
  /\ Goto(c, "lookup", AfterLookup(c))
  /\ val' = [val EXCEPT ![c] = table[KeyOf(c)]]
  /\ UNCHANGED <<table, node, pkt, reg, clock, received, evictions,
                 seen, seenFlags, missed, overlapped>>

(* __sync_fetch_and_add(&val->packets, 1) *)
AddPackets(c) ==
  /\ Goto(c, "packets", "bytes")
  /\ node' = [node EXCEPT ![val[c]].packets = @ + 1]
  /\ Account(c)
  /\ UNCHANGED <<table, pkt, val, reg, clock, received, evictions, missed,
                 overlapped>>

(* __sync_fetch_and_add(&val->bytes, pkt_len) *)
AddBytesStores(c) ==   \* mutant: val->bytes = pkt_len
  /\ Goto(c, "bytes", "ts")
  /\ node' = [node EXCEPT ![val[c]].bytes = pkt[c].len]
  /\ UNCHANGED <<table, pkt, val, reg, clock, received, evictions,
                 seen, seenFlags, missed, overlapped>>
AddBytes(c) ==
  /\ Goto(c, "bytes", "ts")
  /\ node' = [node EXCEPT ![val[c]].bytes = @ + pkt[c].len]
  /\ UNCHANGED <<table, pkt, val, reg, clock, received, evictions,
                 seen, seenFlags, missed, overlapped>>

(* val->ts_last_ns = now, a plain store. *)
StoreTs(c) ==
  /\ Goto(c, "ts", "flags_read")
  /\ node' = [node EXCEPT ![val[c]].last = pkt[c].now]
  /\ UNCHANGED <<table, pkt, val, reg, clock, received, evictions,
                 seen, seenFlags, missed, overlapped>>

(* val->tcp_flags |= tcp_flags: a load, an or and a store. *)
ReadFlags(c) ==
  /\ Goto(c, "flags_read", "flags_write")
  /\ reg' = [reg EXCEPT ![c] = NodeOf(c).flags]
  /\ UNCHANGED <<table, node, pkt, val, clock, received, evictions,
                 seen, seenFlags, missed, overlapped>>

WriteFlagsStores(c) ==   \* mutant: val->tcp_flags = tcp_flags
  /\ Goto(c, "flags_write", "idle")
  /\ node' = [node EXCEPT ![val[c]].flags = pkt[c].flags]
  /\ UNCHANGED <<table, pkt, val, reg, clock, received, evictions,
                 seen, seenFlags, missed, overlapped>>
WriteFlags(c) ==
  /\ Goto(c, "flags_write", "idle")
  /\ node' = [node EXCEPT ![val[c]].flags = reg[c] \cup pkt[c].flags]
  /\ UNCHANGED <<table, pkt, val, reg, clock, received, evictions,
                 seen, seenFlags, missed, overlapped>>

(* bpf_map_update_elem(&flow_table, &key, &new_val, BPF_NOEXIST): another   *)
(* CPU may have inserted the flow since the lookup, and then the update     *)
(* fails with EEXIST, which the program ignores.  Otherwise the value goes  *)
(* to a free node.                                                          *)
NewValueNoBytes(c) ==   \* mutant: the first packet's bytes are forgotten
  [packets |-> 1, bytes |-> 0, first |-> pkt[c].now,
   last |-> pkt[c].now, flags |-> pkt[c].flags]
NewValue(c) == [packets |-> 1, bytes |-> pkt[c].len, first |-> pkt[c].now,
                last |-> pkt[c].now, flags |-> pkt[c].flags]
StoreNew(c) ==
  \E n \in FreeNodes :
    /\ table' = [table EXCEPT ![KeyOf(c)] = n]
    /\ node' = [node EXCEPT ![n] = NewValue(c)]
InsertAny(c) ==   \* mutant: BPF_ANY instead of BPF_NOEXIST
  /\ Goto(c, "insert", "idle")
  /\ Account(c)
  /\ StoreNew(c)
  /\ UNCHANGED <<pkt, val, reg, clock, received, evictions, missed, overlapped>>
Insert(c) ==
  /\ Goto(c, "insert", "idle")
  /\ Account(c)
  /\ \/ /\ Present(KeyOf(c))
        /\ missed' = [missed EXCEPT ![KeyOf(c)] = @ + 1]
        /\ UNCHANGED <<table, node>>
     \/ /\ ~Present(KeyOf(c))
        /\ StoreNew(c)
        /\ UNCHANGED missed
  /\ UNCHANGED <<pkt, val, reg, clock, received, evictions, overlapped>>

(* The kernel reclaims the node of some flow; what it holds stays in memory *)
(* until the node is used again.                                            *)
Evict(k) ==
  /\ Present(k) /\ evictions < MaxEvictions
  /\ table' = [table EXCEPT ![k] = NoNode]
  /\ evictions' = evictions + 1
  /\ UNCHANGED <<node, pc, pkt, val, reg, clock, received,
                 seen, seenFlags, missed, overlapped>>

(* Traffic has stopped at the bound. *)
Quiet ==
  /\ received = MaxPackets /\ \A c \in Cpus : pc[c] = "idle"
  /\ UNCHANGED vars

Step(c) == \/ Lookup(c) \/ AddPackets(c) \/ AddBytes(c) \/ StoreTs(c)
           \/ ReadFlags(c) \/ WriteFlags(c) \/ Insert(c)

Next == \/ \E c \in Cpus : Step(c) \/ \E f \in Frames : Receive(c, f)
        \/ \E k \in Flows : Evict(k)
        \/ Quiet

Spec == Init /\ [][Next]_vars
-----------------------------------------------------------------------------
TypeOK ==
  /\ table \in [Flows -> Nodes \cup {NoNode}]
  /\ node \in [Nodes -> Values]
  /\ pc \in [Cpus -> Locations]
  /\ \A c \in Cpus : pc[c] # "idle" => pkt[c] \in Packets
  /\ pkt \in [Cpus -> Packets \cup {NoPacket}]
  /\ val \in [Cpus -> Nodes \cup {NoNode}]
  /\ \A c \in Cpus :
       pc[c] \in {"packets", "bytes", "ts", "flags_read", "flags_write"}
         => val[c] \in Nodes
  /\ reg \in [Cpus -> SUBSET ObservedFlags]
  /\ clock \in Nat /\ received \in Nat /\ evictions \in Nat
  /\ seen \in [Flows -> Nat]
  /\ seenFlags \in [Flows -> SUBSET ObservedFlags]
  /\ missed \in [Flows -> Nat]
  /\ overlapped \subseteq Flows

(* The counters a poll of the map can read. *)
Visible(k) == IF Present(k)
              THEN [packets |-> node[table[k]].packets,
                    bytes   |-> node[table[k]].bytes]
              ELSE [packets |-> 0, bytes |-> 0]

(* Refinement: whatever the CPUs and the LRU do, also through pointers to   *)
(* reclaimed nodes, what a poll reads behaves as FlowCounters promises.     *)
C == INSTANCE FlowCounters WITH ctr <- [k \in Flows |-> Visible(k)]
Counters == C!Spec

(* While nothing has been evicted, a flow's counter trails the packets that *)
(* reached process_packet by less than one packet per CPU: only CPUs that   *)
(* looked the flow up before its first insertion can be refused.            *)
CountWithinCpus ==
  evictions = 0 =>
    \A k \in Flows : Present(k) =>
      /\ node[table[k]].packets <= seen[k]
      /\ seen[k] < node[table[k]].packets + Cardinality(Cpus)

(* While nothing has been evicted, a snapshot taken at any moment has bytes *)
(* that fit its packets: at most MaxLen each, and at least MinLen each but   *)
(* for the packet each CPU may be between its two additions with.           *)
MaxLen == CHOOSE m \in Lens : \A l \in Lens : l <= m
MinLen == CHOOSE m \in Lens : \A l \in Lens : m <= l
Between(k) == {c \in Cpus : pc[c] = "bytes" /\ KeyOf(c) = k}
BytesFitPackets ==
  evictions = 0 =>
    \A k \in Flows : Present(k) =>
      LET v == node[table[k]] IN
      /\ v.bytes <= v.packets * MaxLen
      /\ (v.packets - Cardinality(Between(k))) * MinLen <= v.bytes

(* A flow whose packets never met on two CPUs is recorded exactly, however  *)
(* the other flows' packets interleave with them: every packet is counted,  *)
(* tcp_flags is the "OR of all observed TCP flags", and the stamp of the    *)
(* first packet is not after the stamp of the last.                         *)
SerialExact ==
  evictions = 0 =>
    \A k \in Flows \ overlapped :
      Present(k) /\ Settled(k) =>
        LET v == node[table[k]] IN
        v.packets = seen[k] /\ v.flags = seenFlags[k] /\ v.first <= v.last

(* flows.c: tcp_flags is the "OR of all observed TCP flags", at least while *)
(* nobody handles a packet of the flow, no packet of it was refused and     *)
(* nothing was evicted.                                                     *)
FlagsObserved ==
  evictions = 0 =>
    \A k \in Flows :
      Present(k) /\ Settled(k) /\ missed[k] = 0
        => node[table[k]].flags = seenFlags[k]
=============================================================================
