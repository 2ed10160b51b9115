-------------------------- MODULE FlowTable_proofs --------------------------
(***************************************************************************)
(* Proofs about FlowTable: its type invariant, that it implements          *)
(* FlowCounters, that a flow's counter trails its packets by less than one *)
(* packet per CPU, that the record of a flow whose packets never met on    *)
(* two CPUs is exact, and that the bytes of a snapshot fit its packets.    *)
(***************************************************************************)
EXTENDS FlowTable, FoldTheorems

Found == {"packets", "bytes", "ts", "flags_read", "flags_write"}

(* The CPUs about to try an insertion of k. *)
Late(k) == {c \in Cpus : pc[c] = "insert" /\ KeyOf(c) = k}

(* No node is the entry of two flows, and an entry has counted a packet.    *)
NodesExclusive ==
  \A j, k \in Flows : Present(j) /\ table[j] = table[k] => j = k
EntriesCounted ==
  \A k \in Flows : Present(k) => node[table[k]].packets > 0

(* While nothing has been evicted: the pointers held are current, and the   *)
(* packets of a flow are those counted and those refused, and the refused   *)
(* and the late ones are fewer than the CPUs, for the CPU whose insertion   *)
(* succeeded is neither.                                                    *)
PointersCurrent ==
  \A c \in Cpus : pc[c] \in Found =>
    Present(KeyOf(c)) /\ val[c] = table[KeyOf(c)]
Accounted ==
  \A k \in Flows :
    /\ Present(k) => node[table[k]].packets + missed[k] = seen[k]
    /\ ~Present(k) => seen[k] = 0 /\ missed[k] = 0
FewMissed ==
  \A k \in Flows : Present(k) =>
    missed[k] + Cardinality(Late(k)) < Cardinality(Cpus)

Inv1 == TypeOK /\ NodesExclusive /\ EntriesCounted
Inv2 == evictions = 0 => PointersCurrent /\ Accounted /\ FewMissed

(* The initial states have the types the declarations give. *)
LEMMA InitInv1 == Init => Inv1
  BY NodesAssumption, BoundsAssumption
  DEF Init, Inv1, TypeOK, NodesExclusive, EntriesCounted, Present, Values,
      Locations, Packets, NoPacket

(* Every step preserves the types and the exclusive use of nodes. *)
LEMMA NextInv1 == Inv1 /\ [Next]_vars => Inv1'
<1> SUFFICES ASSUME Inv1, [Next]_vars PROVE Inv1'
  OBVIOUS
<1> USE NodesAssumption DEF Inv1
<1>1. ASSUME NEW c \in Cpus, NEW f \in Frames, Receive(c, f)
      PROVE Inv1'
  <2>1. PacketKey(f) # NoFlow => PacketKey(f) \in Flows
    BY DEF Flows
  <2>2. PacketFlags(f) \in SUBSET ObservedFlags /\ f.len \in Lens
    BY DEF PacketFlags, Lens
  <2>3. CASE PacketKey(f) = NoFlow
    BY <1>1, <2>3 DEF Receive, TypeOK, NodesExclusive, EntriesCounted, Present
  <2>4. CASE PacketKey(f) # NoFlow
    <3> PICK d \in {0, 1} :
          /\ Goto(c, "idle", "lookup")
          /\ clock' = clock + d
          /\ pkt' = [pkt EXCEPT ![c] = [key |-> PacketKey(f), len |-> f.len,
                                        flags |-> PacketFlags(f),
                                        now |-> clock + d]]
      BY <1>1, <2>4 DEF Receive
    <3> DEFINE p == [key |-> PacketKey(f), len |-> f.len,
                     flags |-> PacketFlags(f), now |-> clock + d]
    <3>1. p \in Packets
      BY <2>1, <2>2, <2>4 DEF Packets, TypeOK
    <3>2. pkt' = [pkt EXCEPT ![c] = p]
      OBVIOUS
    <3>3. overlapped' \subseteq Flows
      BY <1>1, <2>1, <2>4 DEF Receive, TypeOK
    <3>4. TypeOK'
      <4> HIDE DEF p
      <4> QED BY <1>1, <3>1, <3>2, <3>3 DEF Receive, Goto, TypeOK, Locations
    <3> QED BY <1>1, <3>4 DEF Receive, NodesExclusive, EntriesCounted, Present
  <2> QED BY <2>3, <2>4
<1>2. ASSUME NEW c \in Cpus, Lookup(c)
      PROVE Inv1'
  <2>1. KeyOf(c) \in Flows
    BY <1>2 DEF Lookup, Goto, TypeOK, KeyOf, Packets
  <2>2. TypeOK'
    BY <1>2, <2>1
    DEF Lookup, Goto, TypeOK, AfterLookup, Present, Locations
  <2> QED BY <1>2, <2>2 DEF Lookup, NodesExclusive, EntriesCounted, Present
<1>3. ASSUME NEW c \in Cpus, AddPackets(c)
      PROVE Inv1'
  <2>1. KeyOf(c) \in Flows /\ val[c] \in Nodes
    BY <1>3 DEF AddPackets, Goto, TypeOK, KeyOf, Packets
  <2>2. node' \in [Nodes -> Values]
    BY <1>3, <2>1 DEF AddPackets, TypeOK, Values
  <2>3. seen' \in [Flows -> Nat] /\ seenFlags' \in [Flows -> SUBSET ObservedFlags]
    BY <1>3, <2>1 DEF AddPackets, Account, TypeOK, KeyOf, Packets, NoPacket
  <2>4. TypeOK'
    BY <1>3, <2>2, <2>3 DEF AddPackets, Goto, TypeOK, Locations
  <2>5. EntriesCounted'
    BY <1>3, <2>1 DEF AddPackets, EntriesCounted, Present, TypeOK, Values
  <2> QED BY <1>3, <2>4, <2>5 DEF AddPackets, NodesExclusive, Present
<1>4. ASSUME NEW c \in Cpus, AddBytes(c)
      PROVE Inv1'
  <2>1. val[c] \in Nodes /\ pkt[c].len \in Nat
    BY <1>4, FramesAssumption DEF AddBytes, Goto, TypeOK, Packets, Lens
  <2>2. node' \in [Nodes -> Values]
    BY <1>4, <2>1 DEF AddBytes, TypeOK, Values
  <2>3. TypeOK'
    BY <1>4, <2>2 DEF AddBytes, Goto, TypeOK, Locations
  <2>4. EntriesCounted'
    BY <1>4, <2>1 DEF AddBytes, EntriesCounted, Present, TypeOK, Values
  <2> QED BY <1>4, <2>3, <2>4 DEF AddBytes, NodesExclusive, Present
<1>5. ASSUME NEW c \in Cpus, StoreTs(c)
      PROVE Inv1'
  <2>1. val[c] \in Nodes /\ pkt[c].now \in Nat
    BY <1>5 DEF StoreTs, Goto, TypeOK, Packets
  <2>2. node' \in [Nodes -> Values]
    BY <1>5, <2>1 DEF StoreTs, TypeOK, Values
  <2>3. TypeOK'
    BY <1>5, <2>2 DEF StoreTs, Goto, TypeOK, Locations
  <2>4. EntriesCounted'
    BY <1>5, <2>1 DEF StoreTs, EntriesCounted, Present, TypeOK, Values
  <2> QED BY <1>5, <2>3, <2>4 DEF StoreTs, NodesExclusive, Present
<1>6. ASSUME NEW c \in Cpus, ReadFlags(c)
      PROVE Inv1'
  <2>1. NodeOf(c).flags \in SUBSET ObservedFlags
    BY <1>6 DEF ReadFlags, Goto, TypeOK, NodeOf, Values
  <2>2. TypeOK'
    BY <1>6, <2>1 DEF ReadFlags, Goto, TypeOK, Locations
  <2> QED BY <1>6, <2>2 DEF ReadFlags, NodesExclusive, EntriesCounted, Present
<1>7. ASSUME NEW c \in Cpus, WriteFlags(c)
      PROVE Inv1'
  <2>1. val[c] \in Nodes /\ reg[c] \cup pkt[c].flags \in SUBSET ObservedFlags
    BY <1>7 DEF WriteFlags, Goto, TypeOK, Packets
  <2>2. node' \in [Nodes -> Values]
    BY <1>7, <2>1 DEF WriteFlags, TypeOK, Values
  <2>3. TypeOK'
    BY <1>7, <2>2 DEF WriteFlags, Goto, TypeOK, Locations
  <2>4. EntriesCounted'
    BY <1>7, <2>1 DEF WriteFlags, EntriesCounted, Present, TypeOK, Values
  <2> QED BY <1>7, <2>3, <2>4 DEF WriteFlags, NodesExclusive, Present
<1>8. ASSUME NEW c \in Cpus, Insert(c)
      PROVE Inv1'
  <2>1. KeyOf(c) \in Flows /\ pkt[c] \in Packets
    BY <1>8 DEF Insert, Goto, TypeOK, KeyOf, Packets
  <2>2. seen' \in [Flows -> Nat] /\ seenFlags' \in [Flows -> SUBSET ObservedFlags]
    BY <1>8, <2>1 DEF Insert, Account, TypeOK, Packets
  <2>3. missed' \in [Flows -> Nat]
    BY <1>8, <2>1 DEF Insert, TypeOK
  <2>4. CASE Present(KeyOf(c))
    BY <1>8, <2>2, <2>3, <2>4
    DEF Insert, Goto, TypeOK, Locations, NodesExclusive, EntriesCounted, Present
  <2>5. CASE ~Present(KeyOf(c))
    <3> PICK n \in FreeNodes :
          /\ table' = [table EXCEPT ![KeyOf(c)] = n]
          /\ node' = [node EXCEPT ![n] = NewValue(c)]
      BY <1>8, <2>5 DEF Insert, StoreNew
    <3>1. NewValue(c) \in Values /\ NewValue(c).packets = 1
      BY <2>1, FramesAssumption DEF NewValue, Values, Packets, Lens
    <3>2. n \in Nodes /\ n # NoNode /\ \A k \in Flows : table[k] # n
      BY DEF FreeNodes
    <3>3. TypeOK'
      BY <1>8, <2>1, <2>2, <2>3, <3>1, <3>2
      DEF Insert, Goto, TypeOK, Locations
    <3>4. NodesExclusive'
      BY <2>1, <3>2 DEF NodesExclusive, Present, TypeOK
    <3>5. EntriesCounted'
      BY <2>1, <3>1, <3>2 DEF EntriesCounted, Present, TypeOK
    <3> QED BY <3>3, <3>4, <3>5
  <2> QED BY <2>4, <2>5
<1>9. ASSUME NEW k \in Flows, Evict(k)
      PROVE Inv1'
  BY <1>9 DEF Evict, TypeOK, NodesExclusive, EntriesCounted, Present
<1>10. CASE UNCHANGED vars
  BY <1>10 DEF vars, TypeOK, NodesExclusive, EntriesCounted, Present
<1> QED
  BY <1>1, <1>2, <1>3, <1>4, <1>5, <1>6, <1>7, <1>8, <1>9, <1>10
  DEF Next, Step, Quiet
-----------------------------------------------------------------------------
(* flow_table and the locals of every CPU keep their types, for any number  *)
(* of CPUs, nodes, frames and evictions.                                    *)
THEOREM TypeCorrect == Spec => []TypeOK
<1>1. Inv1 => TypeOK
  BY DEF Inv1
<1> QED
  BY <1>1, InitInv1, NextInv1, PTL DEF Spec

(* What changes the counters of a flow: nothing but a step through a node   *)
(* that is its entry.                                                       *)
LEMMA UnchangedVisible ==
  ASSUME UNCHANGED table, \A k \in Flows : Present(k) =>
           /\ node'[table[k]].packets = node[table[k]].packets
           /\ node'[table[k]].bytes = node[table[k]].bytes
  PROVE  UNCHANGED [k \in Flows |-> Visible(k)]
  BY DEF Visible, Present

(* Every step of the programs or of the LRU is a step FlowCounters allows,  *)
(* or changes no counter.                                                   *)
LEMMA StepRefines ==
  ASSUME Inv1, [Next]_vars
  PROVE  [C!Next]_([k \in Flows |-> Visible(k)])
<1> DEFINE ctr == [k \in Flows |-> Visible(k)]
<1> USE NodesAssumption DEF Inv1
<1>1. ASSUME UNCHANGED <<table, node>>
      PROVE UNCHANGED ctr
  BY <1>1 DEF Visible, Present
<1>2. ASSUME NEW c \in Cpus, AddPackets(c)
      PROVE UNCHANGED ctr \/ \E k \in Flows : C!CountPacket(k)
  <2>1. val[c] \in Nodes
    BY <1>2 DEF AddPackets, Goto, TypeOK
  <2>2. CASE \E k \in Flows : Present(k) /\ table[k] = val[c]
    <3> PICK k \in Flows : Present(k) /\ table[k] = val[c]
      BY <2>2
    <3>1. \A j \in Flows : j # k => Visible(j)' = Visible(j)
      BY <1>2, <2>1
      DEF AddPackets, Visible, Present, NodesExclusive, TypeOK
    <3>2. /\ Visible(k).packets > 0
          /\ Visible(k)' = [Visible(k) EXCEPT !.packets = @ + 1]
      BY <1>2, <2>1
      DEF AddPackets, Visible, Present, EntriesCounted, TypeOK, Values
    <3>3. ctr' = [ctr EXCEPT ![k].packets = @ + 1]
      BY <3>1, <3>2
    <3> QED BY <3>2, <3>3 DEF C!CountPacket, C!Live
  <2>3. CASE \A k \in Flows : Present(k) => table[k] # val[c]
    BY <1>2, <2>1, <2>3, UnchangedVisible DEF AddPackets, TypeOK, Present
  <2> QED BY <2>2, <2>3
<1>3. ASSUME NEW c \in Cpus, AddBytes(c)
      PROVE UNCHANGED ctr
            \/ \E k \in Flows, len \in Lens : C!CountBytes(k, len)
  <2>1. val[c] \in Nodes /\ pkt[c].len \in Lens
    BY <1>3 DEF AddBytes, Goto, TypeOK, Packets
  <2>2. CASE \E k \in Flows : Present(k) /\ table[k] = val[c]
    <3> PICK k \in Flows : Present(k) /\ table[k] = val[c]
      BY <2>2
    <3>1. \A j \in Flows : j # k => Visible(j)' = Visible(j)
      BY <1>3, <2>1
      DEF AddBytes, Visible, Present, NodesExclusive, TypeOK
    <3>2. /\ Visible(k).packets > 0
          /\ Visible(k)' = [Visible(k) EXCEPT !.bytes = @ + pkt[c].len]
      BY <1>3, <2>1
      DEF AddBytes, Visible, Present, EntriesCounted, TypeOK, Values
    <3>3. ctr' = [ctr EXCEPT ![k].bytes = @ + pkt[c].len]
      BY <3>1, <3>2
    <3> QED BY <2>1, <3>2, <3>3 DEF C!CountBytes, C!Live
  <2>3. CASE \A k \in Flows : Present(k) => table[k] # val[c]
    BY <1>3, <2>1, <2>3, UnchangedVisible DEF AddBytes, TypeOK, Present
  <2> QED BY <2>2, <2>3
<1>4. ASSUME NEW c \in Cpus, StoreTs(c) \/ WriteFlags(c)
      PROVE UNCHANGED ctr
  <2>1. val[c] \in Nodes
    BY <1>4 DEF StoreTs, WriteFlags, Goto, TypeOK
  <2>2. /\ UNCHANGED table
        /\ \A n \in Nodes : /\ node'[n].packets = node[n].packets
                            /\ node'[n].bytes = node[n].bytes
    BY <1>4, <2>1 DEF StoreTs, WriteFlags, TypeOK, Values
  <2>3. \A k \in Flows : Present(k) => table[k] \in Nodes
    BY DEF TypeOK, Present
  <2> HIDE DEF ctr, Inv1
  <2> QED
    BY <2>2, <2>3, UnchangedVisible DEF ctr
<1>5. ASSUME NEW c \in Cpus, Insert(c)
      PROVE UNCHANGED ctr \/ \E k \in Flows, len \in Lens : C!Appear(k, len)
  <2>1. KeyOf(c) \in Flows /\ pkt[c].len \in Lens
    BY <1>5 DEF Insert, Goto, TypeOK, KeyOf, Packets
  <2>2. CASE Present(KeyOf(c))
    BY <1>1, <1>5, <2>2 DEF Insert
  <2>3. CASE ~Present(KeyOf(c))
    <3> PICK k \in Flows : k = KeyOf(c)
      BY <2>1
    <3> PICK n \in FreeNodes :
          /\ table' = [table EXCEPT ![k] = n]
          /\ node' = [node EXCEPT ![n] = NewValue(c)]
      BY <1>5, <2>3 DEF Insert, StoreNew
    <3>1. n \in Nodes /\ n # NoNode /\ \A j \in Flows : table[j] # n
      BY DEF FreeNodes
    <3>2. ~Present(k)
      BY <2>3
    <3>3. \A j \in Flows : j # k => Visible(j)' = Visible(j)
      BY <3>1, <3>2 DEF Visible, Present, TypeOK
    <3>4. Visible(k).packets = 0
      BY <3>2 DEF Visible
    <3>5. Visible(k)' = [packets |-> 1, bytes |-> pkt[c].len]
      BY <3>1, <3>2 DEF Visible, Present, NewValue, TypeOK
    <3>6. ctr' = [ctr EXCEPT ![k] = [packets |-> 1, bytes |-> pkt[c].len]]
      BY <3>2, <3>3, <3>5
    <3>7. ~C!Live(k)
      BY <3>4 DEF C!Live
    <3>8. C!Appear(k, pkt[c].len)
      BY <3>6, <3>7 DEF C!Appear
    <3> QED BY <2>1, <3>8
  <2> QED BY <2>2, <2>3
<1>6. ASSUME NEW k \in Flows, Evict(k)
      PROVE C!Evict(k)
  <2>1. Visible(k).packets > 0 /\ Visible(k)' = C!NoEntry
    BY <1>6 DEF Evict, Visible, Present, EntriesCounted, TypeOK, C!NoEntry
  <2>2. \A j \in Flows : j # k => Visible(j)' = Visible(j)
    BY <1>6 DEF Evict, Visible, Present, TypeOK
  <2>3. ctr' = [ctr EXCEPT ![k] = C!NoEntry]
    BY <2>1, <2>2
  <2> QED BY <2>1, <2>3 DEF C!Evict, C!Live
<1>7. ASSUME NEW c \in Cpus, Lookup(c) \/ ReadFlags(c)
                             \/ \E f \in Frames : Receive(c, f)
      PROVE UNCHANGED <<table, node>>
  BY <1>7 DEF Lookup, ReadFlags, Receive
<1>8. ASSUME UNCHANGED vars
      PROVE UNCHANGED <<table, node>>
  BY <1>8 DEF vars
<1> QED
  BY <1>1, <1>2, <1>3, <1>4, <1>5, <1>6, <1>7, <1>8
  DEF Next, Step, Quiet, C!Next

(* The programs implement FlowCounters: a flow's counters appear at one     *)
(* packet, only grow while its entry lives and vanish with it, although     *)
(* lookups, additions and insertions of all CPUs interleave and pointers    *)
(* outlive the entries they were looked up for.                             *)
THEOREM ImplementsCounters == Spec => Counters
<1>1. Init => C!Init
  BY DEF Init, C!Init, Visible, Present, C!NoEntry
<1>2. Inv1 /\ [Next]_vars => [C!Next]_([k \in Flows |-> Visible(k)])
  BY StepRefines
<1> QED
  BY <1>1, <1>2, InitInv1, NextInv1, PTL DEF Spec, Counters, C!Spec
-----------------------------------------------------------------------------
(* Late CPUs are some of finitely many. *)
LEMMA LateFinite ==
  ASSUME NEW k \in Flows
  PROVE  /\ IsFiniteSet(Late(k)) /\ Cardinality(Late(k)) \in Nat
         /\ Cardinality(Late(k)) <= Cardinality(Cpus)
         /\ Cardinality(Cpus) \in Nat
<1>1. Late(k) \subseteq Cpus
  BY DEF Late
<1> QED
  BY <1>1, CpusAssumption, FS_Subset, FS_CardinalityType

(* A CPU that is done with its insertion is late no more. *)
LEMMA LateLeaves ==
  ASSUME Inv1, NEW c \in Cpus, Insert(c)
  PROVE  /\ Cardinality(Late(KeyOf(c))') = Cardinality(Late(KeyOf(c))) - 1
         /\ \A k \in Flows : k # KeyOf(c) => Late(k)' = Late(k)
         /\ KeyOf(c) \in Flows
<1>1. KeyOf(c) \in Flows /\ KeyOf(c)' = KeyOf(c) /\ c \in Late(KeyOf(c))
  BY DEF Insert, Goto, Inv1, TypeOK, KeyOf, Packets, Late
<1>2. Late(KeyOf(c))' = Late(KeyOf(c)) \ {c}
  BY <1>1 DEF Insert, Goto, Inv1, TypeOK, KeyOf, Late
<1>3. \A k \in Flows : k # KeyOf(c) => Late(k)' = Late(k)
  BY DEF Insert, Goto, Inv1, TypeOK, KeyOf, Late
<1>4. Cardinality(Late(KeyOf(c)) \ {c}) = Cardinality(Late(KeyOf(c))) - 1
  BY <1>1, LateFinite, FS_RemoveElement
<1> QED
  BY <1>1, <1>2, <1>3, <1>4

(* The initial states: there is no entry and no packet. *)
LEMMA InitInv2 == Init => Inv2
  BY DEF Init, Inv2, PointersCurrent, Accounted, FewMissed, Present, Found

(* The account of a flow's packets is kept by every step. *)
LEMMA NextInv2 == Inv1 /\ Inv2 /\ [Next]_vars => Inv2'
<1> SUFFICES ASSUME Inv1, Inv2, [Next]_vars, evictions' = 0
             PROVE  PointersCurrent' /\ Accounted' /\ FewMissed'
  BY DEF Inv2
<1>0. PointersCurrent /\ Accounted /\ FewMissed
  <2>1. evictions = 0
    <3>1. CASE \E k \in Flows : Evict(k)
      BY <3>1 DEF Inv1, TypeOK, Evict
    <3>2. CASE \E c \in Cpus : Step(c) \/ \E f \in Frames : Receive(c, f)
      BY <3>2 DEF Step, Receive, Lookup, AddPackets, AddBytes, StoreTs,
                  ReadFlags, WriteFlags, Insert
    <3>3. CASE UNCHANGED vars
      BY <3>3 DEF vars
    <3> QED BY <3>1, <3>2, <3>3 DEF Next, Quiet
  <2> QED BY <2>1 DEF Inv2
<1> USE NodesAssumption, <1>0 DEF Inv1
<1>1. ASSUME NEW c \in Cpus, NEW f \in Frames, Receive(c, f)
      PROVE PointersCurrent' /\ Accounted' /\ FewMissed'
  <2>1. Accounted'
    BY <1>1 DEF Receive, Accounted, Present
  <2>2. \A k \in Flows : Late(k)' = Late(k)
    BY <1>1 DEF Receive, Goto, Late, TypeOK, KeyOf
  <2>3. FewMissed'
    BY <1>1, <2>2 DEF Receive, FewMissed, Present
  <2>4. PointersCurrent'
    BY <1>1 DEF Receive, Goto, PointersCurrent, Present, Found, TypeOK, KeyOf
  <2> QED BY <2>1, <2>3, <2>4
<1>2. ASSUME NEW c \in Cpus, Lookup(c)
      PROVE PointersCurrent' /\ Accounted' /\ FewMissed'
  <2>1. KeyOf(c) \in Flows
    BY <1>2 DEF Lookup, Goto, TypeOK, KeyOf, Packets
  <2>2. Accounted'
    BY <1>2 DEF Lookup, Accounted, Present
  <2>3. \A k \in Flows : Present(k) => Late(k)' = Late(k)
    BY <1>2, <2>1 DEF Lookup, AfterLookup, Goto, Late, TypeOK, KeyOf
  <2>4. FewMissed'
    BY <1>2, <2>3 DEF Lookup, FewMissed, Present
  <2>5. PointersCurrent'
    BY <1>2, <2>1 DEF Lookup, AfterLookup, Goto, PointersCurrent, Present,
       Found, TypeOK, KeyOf
  <2> QED BY <2>2, <2>4, <2>5
<1>3. ASSUME NEW c \in Cpus, AddPackets(c)
      PROVE PointersCurrent' /\ Accounted' /\ FewMissed'
  <2>1. PICK k \in Flows : k = KeyOf(c) /\ Present(k) /\ val[c] = table[k]
    BY <1>3 DEF AddPackets, Goto, TypeOK, KeyOf, Packets, PointersCurrent, Found
  <2>2. Accounted'
    <3>1. /\ node'[table[k]].packets = node[table[k]].packets + 1
          /\ \A j \in Flows : Present(j) /\ j # k =>
               node'[table[j]] = node[table[j]]
      BY <1>3, <2>1 DEF AddPackets, TypeOK, Values, Present, NodesExclusive
    <3>2. seen' = [seen EXCEPT ![k] = @ + 1]
      BY <1>3, <2>1 DEF AddPackets, Account
    <3>3. node[table[k]].packets \in Nat
      BY <2>1 DEF TypeOK, Values, Present
    <3>4. UNCHANGED <<table, missed>>
      BY <1>3 DEF AddPackets
    <3>5. /\ node'[table[k]].packets + missed[k] = seen'[k]
          /\ seen[k] \in Nat /\ missed[k] \in Nat
      BY <2>1, <3>1, <3>2, <3>3 DEF Accounted, TypeOK
    <3>6. \A j \in Flows : j # k => seen'[j] = seen[j]
      BY <3>2 DEF TypeOK
    <3> QED BY <2>1, <3>1, <3>4, <3>5, <3>6 DEF Accounted, Present
  <2>3. \A j \in Flows : Late(j)' = Late(j)
    BY <1>3 DEF AddPackets, Goto, Late, TypeOK, KeyOf
  <2>4. FewMissed'
    BY <1>3, <2>3 DEF AddPackets, FewMissed, Present
  <2>5. PointersCurrent'
    BY <1>3 DEF AddPackets, Goto, PointersCurrent, Present, Found, TypeOK, KeyOf
  <2> QED BY <2>2, <2>4, <2>5
<1>4. ASSUME NEW c \in Cpus, AddBytes(c) \/ StoreTs(c) \/ WriteFlags(c)
      PROVE PointersCurrent' /\ Accounted' /\ FewMissed'
  <2>1. val[c] \in Nodes
    BY <1>4 DEF AddBytes, StoreTs, WriteFlags, Goto, TypeOK
  <2>2. \A k \in Flows : Present(k) =>
          node'[table[k]].packets = node[table[k]].packets
    <3>1. CASE AddBytes(c)
      BY <2>1, <3>1 DEF AddBytes, TypeOK, Present, Values
    <3>2. CASE StoreTs(c)
      BY <2>1, <3>2 DEF StoreTs, TypeOK, Present, Values
    <3>3. CASE WriteFlags(c)
      BY <2>1, <3>3 DEF WriteFlags, TypeOK, Present, Values
    <3> QED BY <1>4, <3>1, <3>2, <3>3
  <2>3. Accounted'
    BY <1>4, <2>2 DEF AddBytes, StoreTs, WriteFlags, Accounted, Present
  <2>4. \A j \in Flows : Late(j)' = Late(j)
    BY <1>4 DEF AddBytes, StoreTs, WriteFlags, Goto, Late, TypeOK, KeyOf
  <2>5. FewMissed'
    BY <1>4, <2>4 DEF AddBytes, StoreTs, WriteFlags, FewMissed, Present
  <2>6. PointersCurrent'
    BY <1>4 DEF AddBytes, StoreTs, WriteFlags, Goto, PointersCurrent, Present,
                Found, TypeOK, KeyOf
  <2> QED BY <2>3, <2>5, <2>6
<1>5. ASSUME NEW c \in Cpus, ReadFlags(c)
      PROVE PointersCurrent' /\ Accounted' /\ FewMissed'
  <2>1. \A j \in Flows : Late(j)' = Late(j)
    BY <1>5 DEF ReadFlags, Goto, Late, TypeOK, KeyOf
  <2>2. Accounted' /\ FewMissed'
    BY <1>5, <2>1 DEF ReadFlags, Accounted, FewMissed, Present
  <2>3. PointersCurrent'
    BY <1>5 DEF ReadFlags, Goto, PointersCurrent, Present, Found, TypeOK, KeyOf
  <2> QED BY <2>2, <2>3
<1>6. ASSUME NEW c \in Cpus, Insert(c)
      PROVE PointersCurrent' /\ Accounted' /\ FewMissed'
  <2>1. PICK k \in Flows : k = KeyOf(c) /\ KeyOf(c)' = k
    BY <1>6, LateLeaves DEF Insert, KeyOf
  <2>2. /\ Cardinality(Late(k)') = Cardinality(Late(k)) - 1
        /\ \A j \in Flows : j # k => Late(j)' = Late(j)
    BY <1>6, <2>1, LateLeaves DEF Late, KeyOf
  <2>3. seen' = [seen EXCEPT ![k] = @ + 1]
    BY <1>6, <2>1 DEF Insert, Account
  <2>4. CASE Present(k)
    <3>1. UNCHANGED <<table, node>> /\ missed' = [missed EXCEPT ![k] = @ + 1]
      BY <1>6, <2>1, <2>4 DEF Insert
    <3>2. node[table[k]].packets \in Nat /\ Cardinality(Late(k)) \in Nat
          /\ Cardinality(Cpus) \in Nat
      BY <2>4, LateFinite DEF TypeOK, Values, Present
    <3>3. Accounted'
      BY <2>3, <2>4, <3>1, <3>2 DEF Accounted, Present, TypeOK
    <3>4. FewMissed'
      BY <2>2, <2>4, <3>1, <3>2 DEF FewMissed, Present, TypeOK
    <3>5. PointersCurrent'
      BY <1>6, <3>1 DEF Insert, Goto, PointersCurrent, Present, Found, TypeOK,
         KeyOf
    <3> QED BY <3>3, <3>4, <3>5
  <2>5. CASE ~Present(k)
    <3> PICK n \in FreeNodes :
          /\ table' = [table EXCEPT ![k] = n]
          /\ node' = [node EXCEPT ![n] = NewValue(c)]
      BY <1>6, <2>1, <2>5 DEF Insert, StoreNew
    <3>1. n \in Nodes /\ n # NoNode /\ \A j \in Flows : table[j] # n
      BY DEF FreeNodes
    <3>2. missed' = missed
      BY <1>6, <2>1, <2>5 DEF Insert
    <3>3. node'[table'[k]].packets = 1 /\ table'[k] = n
      BY <3>1 DEF NewValue, TypeOK
    <3>4. \A j \in Flows : j # k => /\ table'[j] = table[j]
                                    /\ Present(j) => node'[table[j]] = node[table[j]]
      BY <3>1 DEF TypeOK, Present
    <3>5. Accounted'
      BY <2>3, <2>5, <3>1, <3>2, <3>3, <3>4 DEF Accounted, Present, TypeOK
    <3>6. FewMissed'
      <4>1. missed'[k] + Cardinality(Late(k)') < Cardinality(Cpus)
        BY <2>2, <2>5, <3>2, LateFinite DEF Accounted
      <4>2. \A j \in Flows : j # k /\ Present(j)' =>
              missed'[j] + Cardinality(Late(j)') < Cardinality(Cpus)
        BY <2>2, <3>2, <3>4 DEF FewMissed, Present
      <4> QED BY <4>1, <4>2 DEF FewMissed
    <3>7. PointersCurrent'
      BY <1>6, <2>1, <2>5, <3>1, <3>3, <3>4
      DEF Insert, Goto, PointersCurrent, Present, Found, TypeOK, KeyOf, Packets
    <3> QED BY <3>5, <3>6, <3>7
  <2> QED BY <2>4, <2>5
<1>7. CASE \E k \in Flows : Evict(k)
  BY <1>7 DEF Evict, TypeOK
<1>8. CASE UNCHANGED vars
  <2>1. \A j \in Flows : Late(j)' = Late(j)
    BY <1>8 DEF vars, Late, KeyOf
  <2> QED
    BY <1>8, <2>1
    DEF vars, PointersCurrent, Accounted, FewMissed, Present, KeyOf
<1> QED
  BY <1>1, <1>2, <1>3, <1>4, <1>5, <1>6, <1>7, <1>8 DEF Next, Step, Quiet

(* A live flow's counter misses fewer packets than there are CPUs, as long  *)
(* as the LRU has not had to evict anything.                                *)
THEOREM CountsTrailByLessThanCpus == Spec => []CountWithinCpus
<1>1. Inv1 /\ Inv2 => CountWithinCpus
  <2> SUFFICES ASSUME Inv1, Inv2, evictions = 0, NEW k \in Flows, Present(k)
               PROVE  /\ node[table[k]].packets <= seen[k]
                      /\ seen[k] < node[table[k]].packets + Cardinality(Cpus)
    BY DEF CountWithinCpus
  <2>1. /\ node[table[k]].packets + missed[k] = seen[k]
        /\ missed[k] + Cardinality(Late(k)) < Cardinality(Cpus)
    BY DEF Inv2, Accounted, FewMissed
  <2>2. node[table[k]].packets \in Nat /\ missed[k] \in Nat /\ seen[k] \in Nat
    BY NodesAssumption DEF Inv1, TypeOK, Values, Present
  <2> QED BY <2>1, <2>2, LateFinite
<1> QED
  BY <1>1, InitInv1, InitInv2, NextInv1, NextInv2, PTL DEF Spec
-----------------------------------------------------------------------------
(* Exact records.  A flow whose packets have not met is handled by one CPU *)
(* at a time; where that CPU is tells how far the record is behind.        *)
Handles(c, k) == pc[c] # "idle" /\ KeyOf(c) = k
Merging == {"bytes", "ts", "flags_read", "flags_write"}

OneAtATime(k) == \A c, d \in Cpus : Handles(c, k) /\ Handles(d, k) => c = d

Behind(k) ==
  \A c \in Cpus : Handles(c, k) =>
    /\ pkt[c].now <= clock
    /\ pc[c] = "insert" => ~Present(k)
    /\ Present(k) => node[table[k]].first <= pkt[c].now
    /\ pc[c] \in Merging => seenFlags[k] = node[table[k]].flags \cup pkt[c].flags
    /\ pc[c] = "flags_write" => reg[c] = node[table[k]].flags

Recorded(k) ==
  /\ ~Present(k) => seenFlags[k] = {}
  /\ Present(k) =>
       /\ node[table[k]].packets = seen[k]
       /\ node[table[k]].first <= node[table[k]].last
       /\ node[table[k]].first <= clock
       /\ (\A c \in Cpus : Handles(c, k) => pc[c] \notin Merging) =>
            seenFlags[k] = node[table[k]].flags

Inv3 == evictions = 0 =>
          \A k \in Flows \ overlapped : OneAtATime(k) /\ Behind(k) /\ Recorded(k)

(* The bytes of the packets that are past both additions. *)
Fits(k) ==
  Present(k) =>
    LET v == node[table[k]]
        done == v.packets - Cardinality(Between(k))
    IN  done >= 0 /\ done * MinLen <= v.bytes /\ v.bytes <= done * MaxLen
Inv4 == evictions = 0 => \A k \in Flows : Fits(k)

(* The initial states: no flow has been seen. *)
LEMMA InitInv3 == Init => Inv3
  BY DEF Init, Inv3, OneAtATime, Behind, Recorded, Handles, Present

(* Evictions are counted. *)
LEMMA NoneEvicted ==
  ASSUME Inv1, [Next]_vars, evictions' = 0
  PROVE  evictions = 0 /\ \A k \in Flows : ~Evict(k)
<1>1. \A k \in Flows : ~Evict(k)
  BY DEF Inv1, TypeOK, Evict
<1>2. CASE \E c \in Cpus : Step(c) \/ \E f \in Frames : Receive(c, f)
  BY <1>1, <1>2 DEF Step, Receive, Lookup, AddPackets, AddBytes, StoreTs,
              ReadFlags, WriteFlags, Insert
<1>3. CASE UNCHANGED vars
  BY <1>1, <1>3 DEF vars
<1> QED BY <1>1, <1>2, <1>3 DEF Next, Quiet

(* A step that handles no packet of k leaves what is known of k as it is. *)
LEMMA Elsewhere ==
  ASSUME Inv1, PointersCurrent, NEW k \in Flows, NEW c \in Cpus,
         Step(c) \/ \E f \in Frames : Receive(c, f),
         ~Handles(c, k), pc'[c] = "idle" \/ pkt'[c].key # k
  PROVE  /\ table'[k] = table[k] /\ seen'[k] = seen[k]
         /\ seenFlags'[k] = seenFlags[k]
         /\ Present(k) => node'[table[k]] = node[table[k]]
         /\ clock \in Nat /\ clock' \in Nat /\ clock <= clock'
         /\ \A d \in Cpus : d # c => /\ pc'[d] = pc[d] /\ pkt'[d] = pkt[d]
                                     /\ reg'[d] = reg[d]
<1> USE NodesAssumption DEF Inv1
<1>1. CASE \E f \in Frames : Receive(c, f)
  BY <1>1 DEF Receive, Goto, TypeOK
<1>2. CASE Insert(c)
  <2>1. KeyOf(c) \in Flows /\ KeyOf(c) # k
    BY <1>2 DEF Insert, Goto, TypeOK, KeyOf, Packets, Handles
  <2>2. CASE Present(KeyOf(c))
    BY <1>2, <2>1, <2>2 DEF Insert, Account, Goto, TypeOK
  <2>3. CASE ~Present(KeyOf(c))
    <3> PICK n \in FreeNodes :
          /\ table' = [table EXCEPT ![KeyOf(c)] = n]
          /\ node' = [node EXCEPT ![n] = NewValue(c)]
      BY <1>2, <2>3 DEF Insert, StoreNew
    <3>1. n \in Nodes /\ \A j \in Flows : table[j] # n
      BY DEF FreeNodes
    <3> QED
      BY <1>2, <2>1, <3>1 DEF Insert, Account, Goto, TypeOK, Present
  <2> QED BY <2>2, <2>3
<1>3. CASE Lookup(c) \/ ReadFlags(c)
  BY <1>3 DEF Lookup, ReadFlags, Goto, TypeOK
<1>4. CASE AddPackets(c) \/ AddBytes(c) \/ StoreTs(c) \/ WriteFlags(c)
  <2>1. /\ KeyOf(c) \in Flows /\ KeyOf(c) # k
        /\ Present(KeyOf(c)) /\ val[c] = table[KeyOf(c)] /\ val[c] \in Nodes
    BY <1>4 DEF AddPackets, AddBytes, StoreTs, WriteFlags, Goto, TypeOK,
       KeyOf, Packets, Handles, Found, PointersCurrent
  <2>2. Present(k) => table[k] # val[c]
    BY <2>1 DEF NodesExclusive
  <2> QED
    BY <1>4, <2>1, <2>2 DEF AddPackets, Account, AddBytes, StoreTs,
       WriteFlags, Goto, TypeOK, Present
<1> QED
  BY <1>1, <1>2, <1>3, <1>4 DEF Step

(* A step of a CPU on a packet of another flow leaves what is recorded of k *)
(* exact.                                                                   *)
LEMMA ElsewhereInv3 ==
  ASSUME Inv1, PointersCurrent, NEW k \in Flows, NEW c \in Cpus,
         Step(c) \/ \E f \in Frames : Receive(c, f),
         ~Handles(c, k), pc'[c] = "idle" \/ pkt'[c].key # k,
         OneAtATime(k), Behind(k), Recorded(k)
  PROVE  OneAtATime(k)' /\ Behind(k)' /\ Recorded(k)'
<1>1. \A d \in Cpus : (pc'[d] # "idle" /\ pkt'[d].key = k) <=> Handles(d, k)
  BY Elsewhere DEF Handles, KeyOf
<1>2. \A d \in Cpus : Handles(d, k) => pc'[d] = pc[d] /\ pkt'[d] = pkt[d] /\ reg'[d] = reg[d]
  BY Elsewhere
<1>3. OneAtATime(k)'
  BY <1>1 DEF OneAtATime, Handles, KeyOf
<1>4. Behind(k)'
  <2>1. SUFFICES ASSUME NEW d \in Cpus, pc'[d] # "idle" /\ pkt'[d].key = k
        PROVE  /\ pkt'[d].now <= clock'
               /\ pc'[d] = "insert" => table'[k] = NoNode
               /\ table'[k] # NoNode => node'[table'[k]].first <= pkt'[d].now
               /\ pc'[d] \in Merging =>
                    seenFlags'[k] = node'[table'[k]].flags \cup pkt'[d].flags
               /\ pc'[d] = "flags_write" => reg'[d] = node'[table'[k]].flags
    BY DEF Behind, Handles, KeyOf, Present
  <2>2. Handles(d, k) /\ pc'[d] = pc[d] /\ pkt'[d] = pkt[d] /\ reg'[d] = reg[d]
    BY <1>1, <1>2, <2>1
  <2>3. pkt[d].now \in Nat
    BY <2>2 DEF Inv1, TypeOK, Packets, Handles
  <2>4. pc[d] \in Merging => Present(k)
    BY <2>2 DEF PointersCurrent, Found, Merging, Handles
  <2> QED
    BY <2>2, <2>3, <2>4, Elsewhere DEF Behind, Present, Merging
<1>5. Recorded(k)'
  <2>1. Present(k) => node[table[k]].first \in Nat
    BY NodesAssumption DEF Inv1, TypeOK, Values, Present
  <2>2. (\A d \in Cpus : (pc'[d] # "idle" /\ pkt'[d].key = k) => pc'[d] \notin Merging)
          <=> (\A d \in Cpus : Handles(d, k) => pc[d] \notin Merging)
    BY <1>1, <1>2
  <2> QED
    BY <2>1, <2>2, Elsewhere DEF Recorded, Handles, KeyOf, Present
<1> QED
  BY <1>3, <1>4, <1>5

(* A step that handles a packet of k, which no other CPU does.             *)
LEMMA OwnInv3 ==
  ASSUME Inv1, PointersCurrent, Accounted, NEW k \in Flows, NEW c \in Cpus,
         Step(c), Handles(c, k),
         OneAtATime(k), Behind(k), Recorded(k)
  PROVE  OneAtATime(k)' /\ Behind(k)' /\ Recorded(k)'
<1> USE NodesAssumption DEF Inv1
<1> DEFINE v == node[table[k]]
           w == node'[table'[k]]
<1>1. /\ UNCHANGED <<pkt, clock>> /\ clock \in Nat
      /\ KeyOf(c) = k /\ pc[c] # "idle"
      /\ \A d \in Cpus : d # c => ~Handles(d, k) /\ pc'[d] = pc[d]
  BY DEF Step, Lookup, AddPackets, AddBytes, StoreTs, ReadFlags, WriteFlags,
         Insert, Goto, TypeOK, Handles, OneAtATime
<1>2. \A d \in Cpus : pc'[d] # "idle" /\ pkt'[d].key = k => d = c
  BY <1>1 DEF Handles, KeyOf
<1>3. /\ pkt[c].now \in Nat /\ pkt[c].now <= clock
      /\ Present(k) => /\ v.first \in Nat /\ v.last \in Nat /\ v.packets \in Nat
                       /\ v.first <= pkt[c].now
  BY <1>1 DEF Behind, Handles, TypeOK, Packets, Values, Present
<1>4. /\ pc[c] \in Found => Present(k) /\ val[c] = table[k]
      /\ Present(k) => table[k] \in Nodes
  BY <1>1 DEF PointersCurrent, TypeOK, Present
<1> DEFINE Told ==
  /\ pc'[c] = "insert" => table'[k] = NoNode
  /\ table'[k] # NoNode => w.first <= pkt[c].now
  /\ pc'[c] \in Merging => seenFlags'[k] = w.flags \cup pkt[c].flags
  /\ pc'[c] = "flags_write" => reg'[c] = w.flags
  /\ table'[k] = NoNode => seenFlags'[k] = {}
  /\ table'[k] # NoNode =>
       /\ w.packets = seen'[k]
       /\ w.first <= w.last
       /\ w.first <= clock
       /\ pc'[c] \notin Merging => seenFlags'[k] = w.flags
<1>5. Told
  <2>1. pc[c] \in Merging => seenFlags[k] = v.flags \cup pkt[c].flags
    BY <1>1 DEF Behind
  <2>2. pc[c] \notin Merging /\ Present(k) => seenFlags[k] = v.flags
    BY <1>1 DEF Recorded, Handles
  <2>3. Present(k) => v.packets = seen[k] /\ v.first <= v.last /\ v.first <= clock
    BY DEF Recorded
  <2>4. CASE Lookup(c)
    <3>1. /\ pc[c] = "lookup"
          /\ pc'[c] = IF Present(k) THEN "packets" ELSE "insert"
          /\ UNCHANGED <<table, node, seen, seenFlags>>
      BY <1>1, <2>4 DEF Lookup, AfterLookup, Goto, TypeOK
    <3>2. w = v /\ (~Present(k) => seenFlags[k] = {})
      BY <3>1 DEF Recorded
    <3> HIDE DEF v, w
    <3> QED
      BY <1>3, <2>2, <2>3, <3>1, <3>2 DEF Merging, Present
  <2>5. CASE ReadFlags(c)
    <3>1. /\ pc[c] = "flags_read" /\ pc'[c] = "flags_write"
          /\ UNCHANGED <<table, node, seen, seenFlags>>
      BY <2>5 DEF ReadFlags, Goto, TypeOK
    <3>2. w = v /\ reg'[c] = v.flags
      BY <1>4, <2>5, <3>1 DEF ReadFlags, NodeOf, TypeOK, Found
    <3> HIDE DEF v, w
    <3> QED
      BY <1>3, <1>4, <2>1, <2>3, <3>1, <3>2 DEF Merging, Found, Present
  <2>6. CASE AddPackets(c)
    <3>1. /\ pc[c] = "packets" /\ pc'[c] = "bytes" /\ table' = table
          /\ seen'[k] = seen[k] + 1
          /\ seenFlags'[k] = seenFlags[k] \cup pkt[c].flags
      BY <1>1, <2>6 DEF AddPackets, Account, Goto, TypeOK
    <3>2. /\ w.packets = v.packets + 1 /\ w.first = v.first
          /\ w.last = v.last /\ w.flags = v.flags
      BY <1>4, <2>6, <3>1 DEF AddPackets, TypeOK, Values, Found
    <3> HIDE DEF v, w
    <3> QED
      BY <1>3, <1>4, <2>2, <2>3, <3>1, <3>2 DEF Merging, Found, Present
  <2>7. CASE AddBytes(c) \/ StoreTs(c)
    <3>1. /\ pc[c] \in {"bytes", "ts"} /\ pc'[c] \in {"ts", "flags_read"}
          /\ UNCHANGED <<table, seen, seenFlags>>
      BY <2>7 DEF AddBytes, StoreTs, Goto, TypeOK
    <3>2. /\ w.packets = v.packets /\ w.first = v.first
          /\ w.last \in {v.last, pkt[c].now} /\ w.flags = v.flags
      BY <1>4, <2>7, <3>1 DEF AddBytes, StoreTs, TypeOK, Values, Found
    <3> HIDE DEF v, w
    <3> QED
      BY <1>3, <1>4, <2>1, <2>3, <3>1, <3>2 DEF Merging, Found, Present
  <2>8. CASE WriteFlags(c)
    <3>1. /\ pc[c] = "flags_write" /\ pc'[c] = "idle"
          /\ UNCHANGED <<table, seen, seenFlags>>
      BY <2>8 DEF WriteFlags, Goto, TypeOK
    <3>2. reg[c] = v.flags
      BY <1>1, <3>1 DEF Behind
    <3>3. /\ w.packets = v.packets /\ w.first = v.first
          /\ w.last = v.last /\ w.flags = v.flags \cup pkt[c].flags
      BY <1>4, <2>8, <3>1, <3>2 DEF WriteFlags, TypeOK, Values, Found
    <3> HIDE DEF v, w
    <3> QED
      BY <1>3, <1>4, <2>1, <2>3, <3>1, <3>3 DEF Merging, Found, Present
  <2>9. CASE Insert(c)
    <3>1. /\ pc[c] = "insert" /\ pc'[c] = "idle"
          /\ seen'[k] = seen[k] + 1
          /\ seenFlags'[k] = seenFlags[k] \cup pkt[c].flags
      BY <1>1, <2>9 DEF Insert, Account, Goto, TypeOK
    <3>2. ~Present(k) /\ seen[k] = 0 /\ seenFlags[k] = {}
      BY <1>1, <3>1 DEF Behind, Accounted, Recorded
    <3> PICK n \in FreeNodes :
          /\ table' = [table EXCEPT ![k] = n]
          /\ node' = [node EXCEPT ![n] = NewValue(c)]
      BY <1>1, <2>9, <3>2 DEF Insert, StoreNew
    <3>3. w = NewValue(c) /\ table'[k] # NoNode
      BY DEF FreeNodes, TypeOK
    <3> QED
      BY <1>3, <3>1, <3>2, <3>3 DEF NewValue, Merging
  <2> QED
    BY <2>4, <2>5, <2>6, <2>7, <2>8, <2>9 DEF Step
<1> HIDE DEF w, v
<1>6. OneAtATime(k)'
  BY <1>2 DEF OneAtATime, Handles, KeyOf
<1>7. Behind(k)'
  BY <1>1, <1>2, <1>3, <1>5 DEF Behind, Handles, KeyOf, Present, w
<1>8. Recorded(k)'
  BY <1>1, <1>2, <1>5 DEF Recorded, Handles, KeyOf, Present, w, Merging
<1> QED
  BY <1>6, <1>7, <1>8

(* A packet of k arrives: unless a CPU is handling another, it is the only *)
(* one, and has a stamp that no earlier packet's is after.                 *)
LEMMA ArrivalInv3 ==
  ASSUME Inv1, NEW k \in Flows, NEW c \in Cpus, NEW f \in Frames,
         Receive(c, f), PacketKey(f) = k, k \notin overlapped',
         OneAtATime(k), Behind(k), Recorded(k)
  PROVE  OneAtATime(k)' /\ Behind(k)' /\ Recorded(k)'
<1> USE DEF Inv1
<1>1. PICK d \in {0, 1} :
        /\ clock' = clock + d
        /\ pkt' = [pkt EXCEPT ![c] = [key |-> PacketKey(f), len |-> f.len,
                                      flags |-> PacketFlags(f),
                                      now |-> clock + d]]
        /\ Goto(c, "idle", "lookup")
        /\ overlapped' = IF Settled(PacketKey(f)) THEN overlapped
                         ELSE overlapped \cup {PacketKey(f)}
  BY DEF Receive, Flows
<1>2. \A e \in Cpus : ~Handles(e, k)
  BY <1>1 DEF Settled, Handles
<1>3. /\ pc'[c] = "lookup" /\ pkt'[c].now = clock + d
      /\ \A e \in Cpus : pc'[e] # "idle" /\ pkt'[e].key = k => e = c
      /\ UNCHANGED <<table, node, reg, seen, seenFlags>>
      /\ clock \in Nat /\ clock' = clock + d
  BY <1>1, <1>2 DEF Receive, Goto, TypeOK, Handles, KeyOf
<1>4. Present(k) => node[table[k]].first \in Nat
  BY NodesAssumption DEF TypeOK, Values, Present
<1>5. OneAtATime(k)'
  BY <1>3 DEF OneAtATime, Handles, KeyOf
<1>6. Behind(k)'
  BY <1>3, <1>4 DEF Behind, Recorded, Handles, KeyOf, Present, Merging
<1>7. Recorded(k)'
  BY <1>2, <1>3, <1>4 DEF Recorded, Handles, KeyOf, Present, Merging
<1> QED
  BY <1>5, <1>6, <1>7

(* Every step preserves the exactness of the flows whose packets never met. *)
LEMMA NextInv3 == Inv1 /\ Inv2 /\ Inv3 /\ [Next]_vars => Inv3'
<1> SUFFICES ASSUME Inv1, Inv2, Inv3, [Next]_vars, evictions' = 0,
                    NEW k \in Flows \ overlapped'
             PROVE  OneAtATime(k)' /\ Behind(k)' /\ Recorded(k)'
  BY DEF Inv3
<1>1. evictions = 0 /\ \A j \in Flows : ~Evict(j)
  BY NoneEvicted
<1>2. PointersCurrent /\ Accounted
  BY <1>1 DEF Inv2
<1>3. overlapped \subseteq overlapped'
  BY <1>1 DEF Next, Step, Receive, Lookup, AddPackets, AddBytes, StoreTs,
              ReadFlags, WriteFlags, Insert, Quiet, vars
<1>4. OneAtATime(k) /\ Behind(k) /\ Recorded(k)
  BY <1>1, <1>3 DEF Inv3
<1>5. ASSUME NEW c \in Cpus, Step(c)
      PROVE  OneAtATime(k)' /\ Behind(k)' /\ Recorded(k)'
  <2>1. CASE Handles(c, k)
    BY <1>2, <1>4, <1>5, <2>1, OwnInv3
  <2>2. CASE ~Handles(c, k)
    <3>1. pc'[c] = "idle" \/ pkt'[c].key # k
      BY <1>5, <2>2 DEF Step, Lookup, AddPackets, AddBytes, StoreTs,
         ReadFlags, WriteFlags, Insert, Goto, Inv1, TypeOK, Handles, KeyOf
    <3> QED
      BY <1>2, <1>4, <1>5, <2>2, <3>1, ElsewhereInv3
  <2> QED BY <2>1, <2>2
<1>6. ASSUME NEW c \in Cpus, NEW f \in Frames, Receive(c, f)
      PROVE  OneAtATime(k)' /\ Behind(k)' /\ Recorded(k)'
  <2>1. CASE PacketKey(f) = k
    BY <1>4, <1>6, <2>1, ArrivalInv3
  <2>2. CASE PacketKey(f) # k
    <3>1. ~Handles(c, k) /\ (pc'[c] = "idle" \/ pkt'[c].key # k)
      BY <1>6, <2>2 DEF Receive, Goto, Inv1, TypeOK, Handles
    <3> QED
      BY <1>2, <1>4, <1>6, <3>1, ElsewhereInv3
  <2> QED BY <2>1, <2>2
<1>7. CASE UNCHANGED vars
  BY <1>4, <1>7 DEF vars, OneAtATime, Behind, Recorded, Handles, KeyOf, Present
<1> QED
  BY <1>1, <1>5, <1>6, <1>7 DEF Next, Quiet

(* SerialExact: while the LRU has had to evict nothing, a flow whose       *)
(* packets never met on two CPUs is recorded exactly, however the packets  *)
(* of other flows interleave with them: every packet, every flag, and a    *)
(* first stamp that is not after the last.                                 *)
THEOREM SerialFlowsExact == Spec => []SerialExact
<1>1. Inv1 /\ Inv3 => SerialExact
  BY DEF Inv3, SerialExact, Recorded, Settled, Handles
<1> QED
  BY <1>1, InitInv1, InitInv2, InitInv3, NextInv1, NextInv2, NextInv3,
     PTL DEF Spec
-----------------------------------------------------------------------------
(* The lengths have bounds, if there is a flow at all. *)
LEMMA LenBounds ==
  ASSUME NEW k \in Flows
  PROVE  /\ MinLen \in Nat /\ MaxLen \in Nat
         /\ \A l \in Lens : l \in Nat /\ MinLen <= l /\ l <= MaxLen
<1>1. Lens \in SUBSET Nat /\ Lens # {} /\ IsFiniteSet(Lens)
  BY FramesAssumption, LensAssumption DEF Lens, Flows
<1>2. \E m \in Lens : \A l \in Lens : l <= m
  BY <1>1, GreatestNumber
<1>3. \E m \in Lens : \A l \in Lens : m <= l
  <2>1. PICK m \in Lens : \A l \in Nat : l < m => l \notin Lens
    BY <1>1, SmallestNumber
  <2>2. \A l \in Lens : m <= l
    BY <1>1, <2>1
  <2> QED BY <2>2
<1> QED
  BY <1>1, <1>2, <1>3 DEF MaxLen, MinLen

(* The CPUs between two additions are some of finitely many. *)
LEMMA BetweenFinite ==
  ASSUME NEW k \in Flows
  PROVE  IsFiniteSet(Between(k)) /\ Cardinality(Between(k)) \in Nat
<1>1. Between(k) \subseteq Cpus
  BY DEF Between
<1> QED
  BY <1>1, CpusAssumption, FS_Subset, FS_CardinalityType

(* n packets of a length between lo and hi, and one more. *)
LEMMA OneMore ==
  ASSUME NEW n \in Nat, NEW lo \in Nat, NEW hi \in Nat, NEW bytes \in Nat,
         NEW len \in Nat, lo <= len, len <= hi,
         n * lo <= bytes, bytes <= n * hi
  PROVE  (n + 1) * lo <= bytes + len /\ bytes + len <= (n + 1) * hi
<1>1. (n + 1) * lo = n * lo + lo /\ (n + 1) * hi = n * hi + hi
  OBVIOUS
<1>2. n * lo \in Nat /\ n * hi \in Nat
  OBVIOUS
<1> DEFINE a == n * lo
           b == n * hi
           c == (n + 1) * lo
           d == (n + 1) * hi
<1>3. a \in Nat /\ b \in Nat /\ c = a + lo /\ d = b + hi /\ a <= bytes /\ bytes <= b
  BY <1>1, <1>2
<1> SUFFICES c <= bytes + len /\ bytes + len <= d
  OBVIOUS
<1> HIDE DEF a, b, c, d
<1> QED
  BY <1>3

(* The initial states: there is no entry whose bytes could be wrong. *)
LEMMA InitInv4 == Init => Inv4
  BY DEF Init, Inv4, Fits, Present

(* The bytes of k fit its packets after every step of a CPU. *)
LEMMA StepFits ==
  ASSUME Inv1, PointersCurrent, NEW k \in Flows, NEW c \in Cpus,
         Step(c) \/ \E f \in Frames : Receive(c, f), Fits(k)
  PROVE  Fits(k)'
<1> USE NodesAssumption DEF Inv1
<1> DEFINE v == node[table[k]]
           w == node'[table'[k]]
           p == v.packets
           b == v.bytes
           q == Cardinality(Between(k))
           lo == MinLen
           hi == MaxLen
<1>1. /\ Present(k) => p \in Nat /\ b \in Nat /\ table[k] \in Nodes
      /\ q \in Nat /\ lo \in Nat /\ hi \in Nat
      /\ IsFiniteSet(Between(k))
  BY LenBounds, BetweenFinite DEF TypeOK, Values, Present
<1>2. Present(k) => p - q >= 0 /\ (p - q) * lo <= b /\ b <= (p - q) * hi
  BY DEF Fits
<1>3. SUFFICES ASSUME table'[k] # NoNode
               PROVE  /\ w.packets - Cardinality(Between(k)') >= 0
                      /\ (w.packets - Cardinality(Between(k)')) * lo <= w.bytes
                      /\ w.bytes <= (w.packets - Cardinality(Between(k)')) * hi
  BY DEF Fits, Present, MinLen, MaxLen, Lens
<1>4. pc[c] \in Found /\ KeyOf(c) = k => Present(k) /\ val[c] = table[k]
  BY DEF PointersCurrent
<1>5. CASE AddPackets(c) /\ KeyOf(c) = k
  <2>1. Between(k)' = Between(k) \cup {c} /\ c \notin Between(k)
    BY <1>5 DEF AddPackets, Goto, TypeOK, Between, KeyOf
  <2>2. Cardinality(Between(k)') = q + 1
    BY <1>1, <2>1, FS_AddElement
  <2>3. Present(k) /\ w.packets = p + 1 /\ w.bytes = b
    BY <1>4, <1>5 DEF AddPackets, Goto, Found, TypeOK, Values
  <2>4. (p + 1) - (q + 1) = p - q
    BY <1>1, <2>3
  <2> HIDE DEF p, q, b, lo, hi, v, w
  <2> QED
    BY <1>2, <2>2, <2>3, <2>4
<1>6. CASE AddBytes(c) /\ KeyOf(c) = k
  <2>1. Between(k)' = Between(k) \ {c} /\ c \in Between(k)
    BY <1>6 DEF AddBytes, Goto, TypeOK, Between, KeyOf
  <2>2. Cardinality(Between(k)') = q - 1
    BY <1>1, <2>1, FS_RemoveElement
  <2>3. Present(k) /\ w.packets = p /\ w.bytes = b + pkt[c].len
    BY <1>4, <1>6 DEF AddBytes, Goto, Found, TypeOK, Values
  <2>4. pkt[c].len \in Nat /\ lo <= pkt[c].len /\ pkt[c].len <= hi
    BY <1>6, LenBounds DEF AddBytes, Goto, TypeOK, Packets
  <2> DEFINE n == p - q
             len == pkt[c].len
  <2>5. n \in Nat /\ p - (q - 1) = n + 1
    BY <1>1, <1>2, <2>3
  <2>6. n * lo <= b /\ b <= n * hi /\ b \in Nat /\ len \in Nat /\ lo <= len /\ len <= hi
    BY <1>1, <1>2, <2>3, <2>4
  <2> HIDE DEF p, q, b, lo, hi, v, w, n, len
  <2>7. (n + 1) * lo <= b + len /\ b + len <= (n + 1) * hi
    BY <1>1, <2>5, <2>6, OneMore
  <2>8. n + 1 >= 0 /\ w.packets - Cardinality(Between(k)') = n + 1 /\ w.bytes = b + len
    BY <2>2, <2>3, <2>5 DEF len
  <2> QED
    BY <2>7, <2>8
<1>7. CASE Insert(c) /\ KeyOf(c) = k /\ ~Present(k)
  <2>1. Between(k)' = {}
    BY <1>7 DEF Insert, Goto, TypeOK, Between, KeyOf, PointersCurrent, Found
  <2>2. w.packets = 1 /\ w.bytes = pkt[c].len
    <3> PICK n \in FreeNodes :
          /\ table' = [table EXCEPT ![k] = n]
          /\ node' = [node EXCEPT ![n] = NewValue(c)]
      BY <1>7 DEF Insert, StoreNew
    <3> QED
      BY DEF FreeNodes, TypeOK, NewValue
  <2>3. pkt[c].len \in Nat /\ lo <= pkt[c].len /\ pkt[c].len <= hi
    BY <1>7, LenBounds DEF Insert, Goto, TypeOK, Packets
  <2>4. Cardinality(Between(k)') = 0
    BY <2>1, FS_EmptySet
  <2> HIDE DEF lo, hi, w
  <2> QED
    BY <1>1, <2>2, <2>3, <2>4
<1>8. ASSUME ~(AddPackets(c) /\ KeyOf(c) = k), ~(AddBytes(c) /\ KeyOf(c) = k),
             ~(Insert(c) /\ KeyOf(c) = k /\ ~Present(k))
      PROVE  Present(k) /\ w.packets = p /\ w.bytes = b /\ Between(k)' = Between(k)
  <2>1. CASE \E f \in Frames : Receive(c, f)
    <3>1. /\ UNCHANGED <<table, node>>
          /\ pc'[c] # "bytes" /\ pc[c] # "bytes"
          /\ \A d \in Cpus : d # c => pc'[d] = pc[d] /\ pkt'[d] = pkt[d]
      BY <2>1 DEF Receive, Goto, TypeOK
    <3>2. Between(k)' = Between(k)
      BY <3>1 DEF Between, KeyOf
    <3> QED
      BY <1>3, <3>1, <3>2 DEF Present
  <2>2. CASE Step(c) /\ KeyOf(c) = k
    <3>1. /\ Lookup(c) \/ StoreTs(c) \/ ReadFlags(c) \/ WriteFlags(c)
             \/ (Insert(c) /\ Present(k))
          /\ UNCHANGED <<table, pkt>>
          /\ pc'[c] # "bytes" /\ pc[c] # "bytes"
          /\ \A d \in Cpus : d # c => pc'[d] = pc[d]
      BY <1>8, <2>2 DEF Step, Lookup, StoreTs, ReadFlags, WriteFlags, Insert,
         AfterLookup, Goto, TypeOK
    <3>2. Between(k)' = Between(k)
      BY <3>1 DEF Between, KeyOf
    <3>3. w.packets = p /\ w.bytes = b
      BY <1>1, <1>3, <1>4, <2>2, <3>1 DEF Lookup, StoreTs, ReadFlags,
         WriteFlags, Insert, Goto, Found, TypeOK, Values, Present
    <3> QED
      BY <1>3, <3>1, <3>2, <3>3 DEF Present
  <2>3. CASE Step(c) /\ KeyOf(c) # k
    <3>1. ~Handles(c, k) /\ pkt' = pkt
      BY <2>3 DEF Handles, Step, Lookup, AddPackets, AddBytes, StoreTs,
         ReadFlags, WriteFlags, Insert
    <3>2. /\ table'[k] = table[k]
          /\ Present(k) => node'[table[k]] = node[table[k]]
          /\ \A d \in Cpus : d # c => pc'[d] = pc[d]
      BY <2>3, <3>1, Elsewhere DEF KeyOf
    <3>3. Between(k)' = Between(k)
      BY <2>3, <3>1, <3>2 DEF Between, KeyOf
    <3> QED
      BY <1>3, <3>2, <3>3 DEF Present
  <2> QED
    BY <2>1, <2>2, <2>3
<1>9. CASE /\ ~(AddPackets(c) /\ KeyOf(c) = k) /\ ~(AddBytes(c) /\ KeyOf(c) = k)
           /\ ~(Insert(c) /\ KeyOf(c) = k /\ ~Present(k))
  <2> HIDE DEF p, q, b, lo, hi, v, w
  <2> QED
    BY <1>2, <1>8, <1>9 DEF q
<1> QED
  BY <1>5, <1>6, <1>7, <1>9

(* Every step preserves the bounds of the bytes. *)
LEMMA NextInv4 == Inv1 /\ Inv2 /\ Inv4 /\ [Next]_vars => Inv4'
<1> SUFFICES ASSUME Inv1, Inv2, Inv4, [Next]_vars, evictions' = 0,
                    NEW k \in Flows
             PROVE  Fits(k)'
  BY DEF Inv4
<1>1. /\ \A j \in Flows : ~Evict(j)
      /\ PointersCurrent /\ Fits(k)
  BY NoneEvicted DEF Inv2, Inv4
<1>2. CASE UNCHANGED vars
  <2>1. Between(k)' = Between(k)
    BY <1>2 DEF vars, Between, KeyOf
  <2> QED
    BY <1>1, <1>2, <2>1 DEF vars, Fits, Present, MinLen, MaxLen, Lens
<1> QED
  BY <1>1, <1>2, StepFits DEF Next, Quiet

(* BytesFitPackets: while the LRU has had to evict nothing, a snapshot     *)
(* taken at any moment, between the two additions of any CPUs, has no more *)
(* bytes than its packets can have, and no fewer but for the packet each   *)
(* of those CPUs is adding.                                                *)
THEOREM SnapshotsFit == Spec => []BytesFitPackets
<1>1. Inv1 /\ Inv4 => BytesFitPackets
  <2> SUFFICES ASSUME Inv1, Inv4, evictions = 0, NEW k \in Flows, Present(k)
               PROVE  LET v == node[table[k]] IN
                      /\ v.bytes <= v.packets * MaxLen
                      /\ (v.packets - Cardinality(Between(k))) * MinLen <= v.bytes
    BY DEF BytesFitPackets
  <2> DEFINE p == node[table[k]].packets
             b == node[table[k]].bytes
             q == Cardinality(Between(k))
             hi == MaxLen
             lo == MinLen
  <2>1. p \in Nat /\ b \in Nat /\ q \in Nat /\ hi \in Nat
    BY NodesAssumption, LenBounds, BetweenFinite DEF Inv1, TypeOK, Values,
       Present
  <2>2. p - q >= 0 /\ (p - q) * lo <= b /\ b <= (p - q) * hi
    BY DEF Inv4, Fits
  <2> HIDE DEF p, q, b, lo, hi
  <2>3. p * hi = (p - q) * hi + q * hi /\ q * hi >= 0
    BY <2>1
  <2>4. p * hi \in Int /\ (p - q) * hi \in Int /\ q * hi \in Int
    BY <2>1
  <2>5. b <= p * hi
    BY <2>1, <2>2, <2>3, <2>4
  <2> QED
    BY <2>2, <2>5 DEF p, q, b, lo, hi
<1> QED
  BY <1>1, InitInv1, InitInv2, InitInv4, NextInv1, NextInv2, NextInv4,
     PTL DEF Spec
=============================================================================
