------------------------ MODULE FlowAggregator_proofs ------------------------
(***************************************************************************)
(* Proofs about FlowAggregator: its type invariant, that a poll's batch is  *)
(* between the table when the poll began and the table now, and that what   *)
(* is rendered adds up from one table to the next; and, in the last part,   *)
(* about RttSamples, which fills the other map a poll reads.                *)
(***************************************************************************)
EXTENDS FlowAggregator, RttSamples, TLAPS

Pairs == [packets : Nat, bytes : Nat]
Rows  == [packets : Nat, bytes : Nat,
          dPackets : 0 .. Word - 1, dBytes : 0 .. Word - 1]
Snapshots == UNION {[D -> Pairs] : D \in SUBSET Flows}
Batches == [now : 0 .. MaxPolls, elapsed : 0 .. MaxPolls,
            rec : UNION {[D -> Rows] : D \in SUBSET Flows}]

(* The types, with the domains and fields TypeOK reads but does not name,   *)
(* and no batch is of a poll that is still to come.                         *)
Types ==
  /\ ctr \in [Flows -> Pairs] /\ atStart \in Snapshots
  /\ traffic \in 0 .. MaxTraffic /\ evictions \in 0 .. MaxEvictions
  /\ pc \in {"select", "scan", "send", "returned"}
  /\ polls \in 0 .. MaxPolls
  /\ todo \subseteq Flows /\ last \in Flows \cup {NoKey}
  /\ current \in Snapshots /\ prev \in Snapshots
  /\ records \in Batches /\ shown \in Batches
  /\ ch \in Seq(Batches) /\ Len(ch) <= Cap
  /\ main \in {"running", "returned"}
Flags == tick \in BOOLEAN /\ cancelled \in BOOLEAN /\ open \in BOOLEAN
Past(b) == b.now <= polls /\ b.elapsed <= b.now
Times ==
  /\ prevTime \in 0 .. polls
  /\ pc = "scan" => prevTime < polls
  /\ tick => polls < MaxPolls
  /\ Past(records) /\ Past(shown) /\ \A i \in DOMAIN ch : Past(ch[i])
Emptied == \A k \in Flows : ctr[k].packets = 0 => ctr[k].bytes = 0
Inv == Types /\ Flags /\ Times /\ Emptied

(* A snapshot is a function of some of the flows. *)
LEMMA SnapshotParts ==
  /\ \A f \in Snapshots :
       /\ DOMAIN f \in SUBSET Flows /\ f \in [DOMAIN f -> Pairs]
       /\ \A k \in DOMAIN f : f[k] \in Pairs /\ k \in Flows
  /\ \A D \in SUBSET Flows : \A f \in [D -> Pairs] : f \in Snapshots
BY DEF Snapshots

(* The initial states. *)
LEMMA InitInv == Init => Inv
<1> SUFFICES ASSUME Init PROVE Inv
  OBVIOUS
<1> USE CapAssumption, WordAssumption, AggBoundsAssumption
<1>1. ctr \in [Flows -> Pairs]
  BY DEF Init, Kernel!Init, Kernel!NoEntry, Pairs
<1>2. <<>> \in Snapshots /\ NoBatch \in Batches
  <2>1. \A S : <<>> \in [{} -> S]
    OBVIOUS
  <2>2. {} \in SUBSET Flows /\ 0 \in 0 .. MaxPolls
    OBVIOUS
  <2> QED BY <2>1, <2>2 DEF Snapshots, Batches, NoBatch
<1>3. Types
  <2>1. ch \in Seq(Batches) /\ Len(ch) <= Cap
    BY DEF Init
  <2>2. atStart \in Snapshots
    BY <1>1, SnapshotParts DEF Init
  <2> QED BY <1>1, <1>2, <2>1, <2>2 DEF Init, Types
<1>4. Times
  BY DEF Init, Times, Past, NoBatch
<1>5. Emptied
  BY DEF Init, Emptied, Kernel!Init, Kernel!NoEntry
<1> QED BY <1>3, <1>4, <1>5 DEF Inv, Init, Flags

(* Packets add to the counters of a flow and leave the others alone.       *)
Grown(old, new) ==
  \A k \in Flows : old[k].packets <= new[k].packets /\ old[k].bytes <= new[k].bytes

(* A packet: the types hold, and no counter shrinks. *)
LEMMA TrafficGrows ==
  ASSUME Inv, NEW k \in Flows, Traffic(k)
  PROVE  ctr' \in [Flows -> Pairs] /\ Emptied' /\ Grown(ctr, ctr')
<1> USE FlowsAssumption DEF Inv, Types
<1>1. ASSUME NEW len \in Lens, Kernel!Appear(k, len)
      PROVE  ctr' \in [Flows -> Pairs] /\ Emptied' /\ Grown(ctr, ctr')
  <2>1. len \in Nat /\ ctr[k] \in Pairs /\ ctr \in [Flows -> Pairs]
    OBVIOUS
  <2>2. /\ ctr' = [ctr EXCEPT ![k] = [packets |-> 1, bytes |-> len]]
        /\ ctr[k].packets = 0 /\ Emptied
    BY <1>1, <2>1 DEF Kernel!Appear, Kernel!Live, Pairs
  <2> HIDE DEF Inv, Types
  <2>3. \A j \in Flows : ctr[j].packets \in Nat /\ ctr[j].bytes \in Nat
    BY <2>1 DEF Pairs
  <2> QED BY <2>1, <2>2, <2>3 DEF Pairs, Emptied, Grown
<1>2. ASSUME NEW len \in Lens, Kernel!CountBytes(k, len)
      PROVE  ctr' \in [Flows -> Pairs] /\ Emptied' /\ Grown(ctr, ctr')
  <2>1. len \in Nat /\ ctr[k] \in Pairs /\ ctr \in [Flows -> Pairs]
    OBVIOUS
  <2>2. ctr' = [ctr EXCEPT ![k] = [ctr[k] EXCEPT !.bytes = ctr[k].bytes + len]]
    BY <1>2 DEF Kernel!CountBytes
  <2>3. [ctr[k] EXCEPT !.bytes = ctr[k].bytes + len] \in Pairs
    <3> HIDE DEF Inv, Types
    <3> QED BY <2>1 DEF Pairs
  <2>4. ctr' \in [Flows -> Pairs]
    BY <2>1, <2>2, <2>3
  <2>5. ctr[k].packets > 0 /\ Emptied
    BY <1>2 DEF Kernel!CountBytes, Kernel!Live
  <2>6. /\ ctr'[k].packets = ctr[k].packets
        /\ ctr'[k].bytes = ctr[k].bytes + len
        /\ \A j \in Flows \ {k} : ctr'[j] = ctr[j]
    <3> HIDE DEF Inv, Types
    <3> QED BY <2>1, <2>2 DEF Pairs
  <2> HIDE DEF Inv, Types
  <2>7. /\ \A j \in Flows : ctr[j].packets \in Nat /\ ctr[j].bytes \in Nat
        /\ ctr[k].bytes <= ctr[k].bytes + len
    BY <2>1 DEF Pairs
  <2>8. Emptied'
    BY <2>5, <2>6 DEF Emptied
  <2>9. Grown(ctr, ctr')
    BY <2>6, <2>7 DEF Grown
  <2> QED
    BY <2>4, <2>8, <2>9
<1>3. CASE Kernel!CountPacket(k)
  <2>1. /\ ctr \in [Flows -> Pairs] /\ Emptied /\ ctr[k].packets > 0
        /\ ctr' = [ctr EXCEPT ![k].packets = @ + 1]
    BY <1>3 DEF Kernel!CountPacket, Kernel!Live
  <2> HIDE DEF Inv, Types
  <2>2. \A j \in Flows : ctr[j].packets \in Nat /\ ctr[j].bytes \in Nat
    BY <2>1 DEF Pairs
  <2>3. /\ ctr'[k].packets = ctr[k].packets + 1 /\ ctr'[k].bytes = ctr[k].bytes
        /\ \A j \in Flows \ {k} : ctr'[j] = ctr[j]
        /\ ctr' \in [Flows -> Pairs]
    BY <2>1, <2>2 DEF Pairs
  <2> QED BY <2>1, <2>2, <2>3 DEF Emptied, Grown
<1> QED BY <1>1, <1>2, <1>3 DEF Traffic

(* A key read goes to the snapshot as it is in the table. *)
LEMMA PutSnapshot ==
  ASSUME NEW f \in Snapshots, NEW k \in Flows, NEW v \in Pairs
  PROVE  /\ Put(f, k, v) \in Snapshots
         /\ DOMAIN Put(f, k, v) = DOMAIN f \cup {k}
         /\ Put(f, k, v)[k] = v
         /\ \A j \in DOMAIN f : j # k => Put(f, k, v)[j] = f[j]
<1>1. DOMAIN f \cup {k} \in SUBSET Flows
  BY SnapshotParts
<1>2. Put(f, k, v) \in [DOMAIN f \cup {k} -> Pairs]
  BY SnapshotParts DEF Put
<1> QED BY <1>1, <1>2, SnapshotParts DEF Put

(* The records of a scan have the flows of the snapshot. *)
LEMMA RecordsTyped ==
  ASSUME Inv, pc = "scan"
  PROVE  [now |-> polls, elapsed |-> Elapsed,
          rec |-> [k \in DOMAIN current |-> Record(k, Elapsed)]] \in Batches
<1> USE WordAssumption, AggBoundsAssumption DEF Inv, Types, Times
<1>1. Elapsed \in 0 .. MaxPolls /\ polls \in 0 .. MaxPolls
  BY DEF Elapsed
<1>2. ASSUME NEW k \in DOMAIN current PROVE Record(k, Elapsed) \in Rows
  <2>1. current[k] \in Pairs /\ (k \in DOMAIN prev => prev[k] \in Pairs)
    BY SnapshotParts
  <2>2. \A a, b \in Nat : Sub(a, b) \in 0 .. Word - 1
    BY DEF Sub
  <2>3. 0 \in 0 .. Word - 1
    OBVIOUS
  <2> HIDE DEF Inv
  <2> QED BY <2>1, <2>2, <2>3 DEF Record, Rows, Pairs
<1>3. DOMAIN current \in SUBSET Flows
  BY SnapshotParts
<1> QED BY <1>1, <1>2, <1>3 DEF Batches

(* Every step preserves the types and the order of the polls. *)
LEMMA NextInv == Inv /\ [Next]_vars => Inv'
<1> SUFFICES ASSUME Inv, [Next]_vars PROVE Inv'
  OBVIOUS
<1> USE CapAssumption, WordAssumption, AggBoundsAssumption DEF Inv
<1>1. ASSUME NEW k \in Flows, Traffic(k) PROVE Inv'
  BY <1>1, TrafficGrows DEF Traffic, Types, Flags, Times, Past, poll, loop
<1>2. ASSUME NEW k \in Flows, Evict(k) PROVE Inv'
  <2>1. ctr' \in [Flows -> Pairs] /\ Emptied'
    BY <1>2 DEF Evict, Kernel!Evict, Kernel!NoEntry, Types, Pairs, Emptied
  <2>2. atStart' \in Snapshots
    <3>1. /\ DOMAIN atStart \in SUBSET Flows
          /\ \A j \in DOMAIN atStart : atStart[j] \in Pairs
      BY SnapshotParts DEF Types
    <3>2. DOMAIN atStart \ {k} \in SUBSET Flows
      BY <3>1
    <3>3. [j \in DOMAIN atStart \ {k} |-> atStart[j]]
            \in [DOMAIN atStart \ {k} -> Pairs]
      BY <3>1
    <3> QED BY <1>2, <3>2, <3>3, SnapshotParts DEF Evict
  <2> QED BY <1>2, <2>1, <2>2 DEF Evict, Types, Flags, Times, Past, loop
<1>3. ASSUME NEW k \in Flows, ReadKey(k) PROVE Inv'
  <2>1. ctr[k] \in Pairs /\ current \in Snapshots
    BY DEF Types
  <2>2. Put(current, k, ctr[k]) \in Snapshots
    BY <2>1, PutSnapshot
  <2>3. current' \in Snapshots /\ last' \in Flows \cup {NoKey}
    BY <1>3, <2>2 DEF ReadKey, Types
  <2> QED
    BY <1>3, <2>3 DEF ReadKey, Types, Flags, Times, Past, Emptied, kernel, loop
<1>4. ASSUME Tick PROVE Inv'
  BY <1>4 DEF Tick, Types, Flags, Times, Past, Emptied, kernel, loop
<1>5. ASSUME StartPoll PROVE Inv'
  <2>1. <<>> \in Snapshots
    BY DEF Snapshots
  <2>2. polls < MaxPolls /\ polls \in Nat
    BY <1>5 DEF StartPoll, Types, Times
  <2>3. Types'
    <3>1. ctr \in Snapshots
      BY SnapshotParts DEF Types
    <3> QED BY <1>5, <2>1, <2>2, <3>1 DEF StartPoll, Types, kernel, loop
  <2>5. Flags'
    BY <1>5 DEF StartPoll, Flags, kernel, loop
  <2>4. Times'
    <3>1. \A b \in Batches : Past(b) => Past(b)'
      BY <1>5, <2>2 DEF StartPoll, Past, Batches
    <3>2. (Past(records) /\ Past(shown) /\ \A i \in DOMAIN ch : Past(ch[i]))'
      BY <1>5, <3>1 DEF StartPoll, Types, Flags, Times, Past
    <3>3. prevTime' \in 0 .. polls' /\ prevTime' < polls'
      BY <1>5, <2>2 DEF StartPoll, Times
    <3>4. ~tick'
      BY <1>5 DEF StartPoll
    <3> QED BY <3>2, <3>3, <3>4 DEF Times
  <2> QED BY <1>5, <2>3, <2>4, <2>5 DEF StartPoll, Emptied, kernel
<1>6. ASSUME Rescan PROVE Inv'
  BY <1>6 DEF Rescan, Types, Flags, Times, Past, Emptied, kernel, loop
<1>7. ASSUME PollFails PROVE Inv'
  <2>1. <<>> \in Snapshots
    BY DEF Snapshots
  <2> QED
    BY <1>7, <2>1 DEF PollFails, Types, Flags, Times, Past, Emptied, kernel,
       loop
<1>8. ASSUME FinishPoll PROVE Inv'
  <2>1. records' \in Batches
    BY <1>8, RecordsTyped DEF FinishPoll
  <2>2. Types'
    BY <1>8, <2>1 DEF FinishPoll, Types, kernel, loop
  <2>3. Times'
    BY <1>8 DEF FinishPoll, Types, Flags, Times, Past, kernel, loop, Elapsed
  <2> QED BY <1>8, <2>2, <2>3 DEF FinishPoll, Flags, Emptied, kernel, loop
<1>9. ASSUME Send PROVE Inv'
  <2>1. ch' \in Seq(Batches) /\ Len(ch') <= Cap
    BY <1>9 DEF Send, Types, poll
  <2>2. \A i \in DOMAIN ch' : Past(ch'[i])
    BY <1>9 DEF Send, Types, Times, poll
  <2> QED
    BY <1>9, <2>1, <2>2 DEF Send, Types, Flags, Times, Past, Emptied, kernel,
       poll, loop
<1>10. ASSUME Render PROVE Inv'
  <2>1. /\ ch' \in Seq(Batches) /\ Len(ch') <= Cap /\ shown' \in Batches
        /\ \A i \in DOMAIN ch' : ch'[i] = ch[i + 1] /\ i + 1 \in DOMAIN ch
        /\ shown' = ch[1] /\ 1 \in DOMAIN ch
    BY <1>10 DEF Render, Types
  <2> QED
    BY <1>10, <2>1 DEF Render, Types, Flags, Times, Past, Emptied, kernel,
       poll, loop
<1>11. ASSUME Return PROVE Inv'
  BY <1>11 DEF Return, Types, Flags, Times, Past, Emptied, kernel, poll, loop
<1>12. ASSUME MainReturns PROVE Inv'
  BY <1>12 DEF MainReturns, Types, Flags, Times, Past, Emptied, kernel, poll
<1>13. ASSUME Cancel PROVE Inv'
  BY <1>13 DEF Cancel, Types, Flags, Times, Past, Emptied, kernel, poll
<1>14. CASE UNCHANGED vars
  BY <1>14 DEF vars, kernel, poll, loop, Types, Flags, Times, Past, Emptied
<1> QED
  BY <1>1, <1>2, <1>3, <1>4, <1>5, <1>6, <1>7, <1>8, <1>9, <1>10, <1>11,
     <1>12, <1>13, <1>14
  DEF Next
-----------------------------------------------------------------------------
(* The aggregator's state keeps its types, for any table, channel capacity  *)
(* and width of the counters.                                               *)
THEOREM TypeCorrect == Spec => []TypeOK
<1>1. ASSUME Inv PROVE TypeOK
  <2>1. PairOf(current) /\ PairOf(prev)
    BY <1>1, SnapshotParts DEF Inv, Types, PairOf, Pairs
  <2>2. ASSUME NEW b \in Batches, Past(b) PROVE BatchOK(b)
    <3>1. PICK D \in SUBSET Flows : b.rec \in [D -> Rows]
      BY DEF Batches
    <3> QED BY <1>1, <2>2, <3>1 DEF BatchOK, Batches, Past, Rows, Inv, Types, Times
  <2> QED BY <1>1, <2>1, <2>2 DEF Inv, Types, Flags, Times, TypeOK, Pairs
<1> QED BY <1>1, InitInv, NextInv, PTL DEF Spec
-----------------------------------------------------------------------------
(* A flow that is not evicted only grows, so what a scan has read of it is  *)
(* between the table at its start and the table now, and such a flow it has *)
(* passed without finding it was not there at the start.                    *)
GrownSince(old, new) ==
  \A k \in DOMAIN old :
    old[k].packets <= new[k].packets /\ old[k].bytes <= new[k].bytes
Between(old, f, new) ==
  \A k \in DOMAIN old \cap DOMAIN f :
    /\ old[k].packets <= f[k].packets /\ f[k].packets <= new[k].packets
    /\ old[k].bytes <= f[k].bytes /\ f[k].bytes <= new[k].bytes
ScanSandwich ==
  pc = "scan" =>
    /\ GrownSince(atStart, ctr)
    /\ Between(atStart, current, ctr)
    /\ \A k \in DOMAIN atStart \ todo : atStart[k].packets > 0 => k \in DOMAIN current
ReadLive == pc = "scan" => \A k \in DOMAIN current : current[k].packets > 0
Sandwich == ScanSandwich /\ SnapshotSandwich /\ ReadLive

(* Of a table that only grows, what has been read stays between its ends.   *)
LEMMA GrownTransitive ==
  ASSUME NEW a \in Snapshots, NEW b \in [Flows -> Pairs],
         NEW c \in [Flows -> Pairs], Grown(b, c)
  PROVE  /\ GrownSince(a, b) => GrownSince(a, c)
         /\ \A f \in Snapshots : Between(a, f, b) => Between(a, f, c)
<1>0. ASSUME NEW f \in Snapshots, NEW k \in DOMAIN f
      PROVE  /\ f[k].packets <= b[k].packets => f[k].packets <= c[k].packets
             /\ f[k].bytes <= b[k].bytes => f[k].bytes <= c[k].bytes
  <2>1. k \in Flows /\ f[k] \in Pairs /\ b[k] \in Pairs /\ c[k] \in Pairs
    BY SnapshotParts
  <2>2. b[k].packets <= c[k].packets /\ b[k].bytes <= c[k].bytes
    BY <2>1 DEF Grown
  <2> HIDE DEF Snapshots
  <2> QED BY <2>1, <2>2 DEF Pairs
<1>1. GrownSince(a, b) => GrownSince(a, c)
  BY <1>0 DEF GrownSince
<1>2. ASSUME NEW f \in Snapshots, Between(a, f, b) PROVE Between(a, f, c)
  BY <1>0, <1>2 DEF Between
<1> QED BY <1>1, <1>2

(* No poll has begun in the initial states. *)
LEMMA InitSandwich == Init => Sandwich
BY DEF Init, Sandwich, ScanSandwich, SnapshotSandwich, ReadLive

(* Every step keeps the scan between the two tables. *)
LEMMA NextSandwich == Inv /\ Sandwich /\ [Next]_vars => Sandwich'
<1> SUFFICES ASSUME Inv, Sandwich, [Next]_vars PROVE Sandwich'
  OBVIOUS
<1>0. /\ ctr \in [Flows -> Pairs] /\ atStart \in Snapshots
      /\ current \in Snapshots /\ evictions \in Nat
      /\ \A k \in DOMAIN current : k \in Flows /\ current[k] \in Pairs
  BY SnapshotParts, AggBoundsAssumption DEF Inv, Types
<1>1. ASSUME NEW k \in Flows, Traffic(k) PROVE Sandwich'
  <2>1. ctr' \in [Flows -> Pairs] /\ Grown(ctr, ctr')
    BY <1>1, TrafficGrows
  <2>2. UNCHANGED <<evictions, pc, todo, current, records, atStart>>
    BY <1>1 DEF Traffic, poll
  <2>3. ScanSandwich'
    BY <1>0, <2>1, <2>2, GrownTransitive DEF Sandwich, ScanSandwich
  <2>4. SnapshotSandwich'
    <3> SUFFICES ASSUME pc = "send", NEW j \in DOMAIN atStart
                 PROVE  (/\ atStart[j].packets > 0 => j \in DOMAIN records.rec
                         /\ j \in DOMAIN records.rec =>
                              /\ atStart[j].packets <= records.rec[j].packets
                              /\ records.rec[j].packets <= ctr[j].packets
                              /\ atStart[j].bytes <= records.rec[j].bytes
                              /\ records.rec[j].bytes <= ctr[j].bytes)'
      BY <2>2 DEF SnapshotSandwich
    <3>1. j \in DOMAIN records.rec => /\ records.rec[j].packets \in Nat
                                      /\ records.rec[j].bytes \in Nat
      <4> PICK D \in SUBSET Flows : records.rec \in [D -> Rows]
        BY DEF Inv, Types, Batches
      <4> QED BY DEF Rows
    <3>2. j \in Flows /\ ctr[j] \in Pairs /\ ctr'[j] \in Pairs
      BY <1>0, <2>1, SnapshotParts
    <3> QED
      BY <2>1, <2>2, <3>1, <3>2 DEF Sandwich, SnapshotSandwich, Grown, Pairs
  <2> QED BY <2>2, <2>3, <2>4 DEF Sandwich, ReadLive
<1>2. ASSUME NEW k \in Flows, Evict(k) PROVE Sandwich'
  <2>1. /\ DOMAIN atStart' = DOMAIN atStart \ {k}
        /\ \A j \in DOMAIN atStart' : atStart'[j] = atStart[j]
        /\ UNCHANGED <<pc, todo, current, records>>
    BY <1>2 DEF Evict
  <2>2. \A j \in DOMAIN atStart' : j \in Flows /\ ctr'[j] = ctr[j]
    BY <1>0, <1>2, <2>1, SnapshotParts DEF Evict, Kernel!Evict
  <2> QED
    BY <2>1, <2>2
    DEF Sandwich, ScanSandwich, SnapshotSandwich, ReadLive, GrownSince, Between
<1>3. ASSUME NEW k \in Flows, ReadKey(k) PROVE Sandwich'
  <2>1. /\ UNCHANGED <<ctr, evictions, pc, records, atStart>>
        /\ todo' = todo \ {k} /\ pc = "scan"
    BY <1>3 DEF ReadKey, kernel
  <2>2. CASE Kernel!Live(k)
    <3>1. current' = Put(current, k, ctr[k]) /\ ctr[k] \in Pairs
      BY <1>0, <1>3, <2>2 DEF ReadKey
    <3>2. /\ DOMAIN current' = DOMAIN current \cup {k} /\ current'[k] = ctr[k]
          /\ \A j \in DOMAIN current : j # k => current'[j] = current[j]
      <4>1. current \in Snapshots
        BY <1>0
      <4>2. current' = Put(current, k, ctr[k])
        BY <3>1
      <4>3. ctr[k] \in Pairs
        BY <3>1
      <4> HIDE DEF Put
      <4> QED BY <4>1, <4>2, <4>3, PutSnapshot, ZenonT(20)
    <3>3. Between(atStart, current', ctr)
      <4>1. GrownSince(atStart, ctr) /\ Between(atStart, current, ctr)
        BY <2>1 DEF Sandwich, ScanSandwich
      <4>2. ctr[k].packets <= ctr[k].packets /\ ctr[k].bytes <= ctr[k].bytes
        BY <3>1 DEF Pairs
      <4> QED BY <3>2, <4>1, <4>2 DEF Between, GrownSince
    <3>4. ScanSandwich'
      BY <2>1, <3>2, <3>3 DEF Sandwich, ScanSandwich
    <3>5. ReadLive'
      BY <2>1, <2>2, <3>2 DEF Sandwich, ReadLive, Kernel!Live
    <3> QED BY <2>1, <3>4, <3>5 DEF Sandwich, SnapshotSandwich
  <2>3. CASE ~Kernel!Live(k)
    <3>1. current' = current
      BY <1>3, <2>3 DEF ReadKey
    <3>2. k \in DOMAIN atStart /\ GrownSince(atStart, ctr)
            => ~ (atStart[k].packets > 0)
      <4>1. k \in DOMAIN atStart => atStart[k].packets \in Nat
        BY <1>0, SnapshotParts DEF Pairs
      <4>2. ctr[k].packets \in Nat /\ ~ (ctr[k].packets > 0)
        BY <1>0, <2>3 DEF Pairs, Kernel!Live
      <4> QED BY <4>1, <4>2 DEF GrownSince
    <3> QED
      BY <2>1, <3>1, <3>2
      DEF Sandwich, ScanSandwich, SnapshotSandwich, ReadLive
  <2> QED BY <2>2, <2>3
<1>4. ASSUME StartPoll PROVE Sandwich'
  <2>1. GrownSince(ctr, ctr)
    BY <1>0 DEF GrownSince, Pairs
  <2>2. /\ pc' = "scan" /\ todo' = Flows /\ DOMAIN current' = {}
        /\ atStart' = ctr /\ ctr' = ctr /\ DOMAIN ctr = Flows
    BY <1>0, <1>4 DEF StartPoll, kernel
  <2> QED
    BY <2>1, <2>2
    DEF Sandwich, ScanSandwich, SnapshotSandwich, ReadLive, Between
<1>5. ASSUME FinishPoll PROVE Sandwich'
  <2>1. /\ pc = "scan" /\ todo = {} /\ UNCHANGED <<ctr, evictions, atStart>>
        /\ DOMAIN records'.rec = DOMAIN current
        /\ pc' \in {"select", "send"}
        /\ \A k \in DOMAIN current : /\ records'.rec[k].packets = current[k].packets
                                     /\ records'.rec[k].bytes = current[k].bytes
    BY <1>5 DEF FinishPoll, ScanComplete, kernel, Record
  <2> QED
    BY <2>1 DEF Sandwich, ScanSandwich, SnapshotSandwich, ReadLive, Between
<1>6. ASSUME Rescan PROVE Sandwich'
  <2>1. /\ pc = "scan" /\ todo' = Flows
        /\ UNCHANGED <<ctr, pc, current, records, atStart>>
        /\ DOMAIN atStart \subseteq Flows
    BY <1>0, <1>6, SnapshotParts DEF Rescan, kernel
  <2> QED BY <2>1 DEF Sandwich, ScanSandwich, SnapshotSandwich, ReadLive
<1>7. ASSUME PollFails \/ Send \/ Return PROVE Sandwich'
  BY <1>7 DEF PollFails, Send, Return, kernel, poll, Cancellable, Sandwich,
     ScanSandwich, SnapshotSandwich, ReadLive
<1>8. ASSUME Tick \/ Render \/ MainReturns \/ Cancel \/ UNCHANGED vars
      PROVE  Sandwich'
  <2>1. UNCHANGED <<ctr, evictions, pc, todo, current, records, atStart>>
    BY <1>8 DEF Tick, Render, MainReturns, Cancel, vars, kernel, poll
  <2> QED BY <2>1 DEF Sandwich, ScanSandwich, SnapshotSandwich, ReadLive
<1> QED
  BY <1>1, <1>2, <1>3, <1>4, <1>5, <1>6, <1>7, <1>8 DEF Next

(* A poll is not atomic, but of the flows not evicted since it began the    *)
(* batch it returns is between the table then and the table now, however    *)
(* often an eviction sends its iterator back to the start.                  *)
THEOREM PollsAreSandwiched == Spec => []SnapshotSandwich
<1>1. Sandwich => SnapshotSandwich
  BY DEF Sandwich
<1> QED
  BY <1>1, InitInv, NextInv, InitSandwich, NextSandwich, PTL DEF Spec
-----------------------------------------------------------------------------
(* The batches on their way to the terminal, oldest first: the one shown    *)
(* and those in the channel, and the newest of them.                        *)
Sent(i) == IF i = 0 THEN shown ELSE ch[i]
Newest  == Sent(Len(ch))

(* b's deltas are over a, if b's interval starts at a's poll; and it does,  *)
(* if no poll has come between that found the table empty.                  *)
Follows(a, b) == a.now = b.now - b.elapsed
Link(a, b) ==
  a # NoBatch =>
    /\ evictions = 0 => Follows(a, b)
    /\ Follows(a, b) => \A k \in DOMAIN a.rec \cap DOMAIN b.rec :
         b.rec[k].dPackets = Sub(b.rec[k].packets, a.rec[k].packets)

(* prev is the snapshot behind the newest batch, or a later one. *)
SomeLive ==
  \E k \in Flows :
    /\ Kernel!Live(k)
    /\ pc = "scan" => k \in DOMAIN atStart /\ atStart[k].packets > 0
Behind(a) ==
  a # NoBatch =>
    /\ 0 < a.now /\ a.now <= prevTime
    /\ evictions = 0 => a.now = prevTime /\ SomeLive
    /\ a.now = prevTime => /\ DOMAIN a.rec = DOMAIN prev
                           /\ \A k \in DOMAIN prev :
                                a.rec[k].packets = prev[k].packets
Chain ==
  /\ \A i \in DOMAIN ch : Link(Sent(i - 1), ch[i])
  /\ pc = "send" => Link(Newest, records) /\ Behind(records)
  /\ pc \in {"select", "scan"} => Behind(Newest)

(* The table at the start of a poll is all there until the first eviction.  *)
Whole == evictions = 0 => DOMAIN atStart = Flows

LEMMA WholeKept ==
  /\ Init => Whole
  /\ Inv /\ Whole /\ [Next]_vars => Whole'
<1>1. Init => Whole
  BY DEF Init, Whole, Kernel!Init
<1>2. ASSUME Inv, Whole, [Next]_vars PROVE Whole'
  <2>0. evictions \in Nat /\ DOMAIN ctr = Flows
    BY <1>2, AggBoundsAssumption DEF Inv, Types
  <2>1. ASSUME NEW k \in Flows, Evict(k) PROVE Whole'
    BY <2>0, <2>1 DEF Evict, Whole
  <2>2. CASE StartPoll
    BY <2>0, <2>2 DEF StartPoll, Whole
  <2>3. CASE UNCHANGED <<evictions, atStart>>
    BY <1>2, <2>3 DEF Whole
  <2>4. ASSUME NEW k \in Flows, Traffic(k) \/ ReadKey(k)
        PROVE  UNCHANGED <<evictions, atStart>>
    BY <2>4 DEF Traffic, ReadKey, kernel, poll
  <2> QED
    BY <1>2, <2>1, <2>2, <2>3, <2>4 DEF Next, Tick, Rescan, PollFails,
       FinishPoll, Send, Return, Render, MainReturns, Cancel, vars, kernel, poll
<1> QED BY <1>1, <1>2

(* Evictions are never taken back, and without one a live flow stays live.  *)
LEMMA LiveKept ==
  ASSUME Inv, [Next]_vars, evictions' = 0
  PROVE  /\ evictions = 0
         /\ \A k \in Flows : Kernel!Live(k) => Kernel!Live(k)'
<1> USE AggBoundsAssumption DEF Inv
<1>0. evictions \in Nat /\ ctr \in [Flows -> Pairs]
  BY DEF Types
<1>1. ASSUME NEW k \in Flows, Traffic(k)
      PROVE  /\ evictions = 0
             /\ \A j \in Flows : Kernel!Live(j) => Kernel!Live(j)'
  <2>1. evictions' = evictions /\ ctr' \in [Flows -> Pairs] /\ Grown(ctr, ctr')
    BY <1>1, TrafficGrows DEF Traffic
  <2> QED BY <1>0, <2>1 DEF Grown, Kernel!Live, Pairs
<1>2. ASSUME NEW k \in Flows, Evict(k) PROVE FALSE
  BY <1>0, <1>2 DEF Evict
<1>3. CASE UNCHANGED <<ctr, evictions>>
  BY <1>3 DEF Kernel!Live
<1>4. ASSUME NEW k \in Flows, ReadKey(k) PROVE UNCHANGED <<ctr, evictions>>
  BY <1>4 DEF ReadKey, kernel
<1> QED
  BY <1>1, <1>2, <1>3, <1>4 DEF Next, Tick, StartPoll, Rescan, PollFails,
     FinishPoll, Send, Return, Render, MainReturns, Cancel, vars, kernel

(* No batch was made in the initial states. *)
LEMMA InitChain == Init => Chain
BY DEF Init, Chain, Newest, Sent, Behind

(* Every step keeps the batches linked. *)
LEMMA NextChain == Inv /\ Sandwich /\ Whole /\ Chain /\ [Next]_vars => Chain'
<1> SUFFICES ASSUME Inv, Sandwich, Whole, Chain, [Next]_vars PROVE Chain'
  OBVIOUS
<1>0. /\ ch \in Seq(Batches) /\ Len(ch) \in Nat /\ DOMAIN ch = 1 .. Len(ch)
      /\ polls \in Nat /\ prevTime \in Nat /\ evictions \in Nat
      /\ records \in Batches /\ shown \in Batches
  BY AggBoundsAssumption DEF Inv, Types, Times
<1>a. evictions' = 0 => /\ evictions = 0
                        /\ \A k \in Flows : Kernel!Live(k) => Kernel!Live(k)'
  BY LiveKept
<1>1. ASSUME UNCHANGED <<pc, ch, shown, records, prev, prevTime, atStart>>
      PROVE  Chain'
  <2>1. evictions' = 0 /\ SomeLive => SomeLive'
    BY <1>1, <1>a DEF SomeLive
  <2>2. (\A i \in DOMAIN ch : Link(Sent(i - 1), ch[i]))'
    BY <1>1, <1>a DEF Chain, Link, Sent
  <2>3. (pc = "send" => Link(Newest, records) /\ Behind(records))'
    BY <1>1, <1>a, <2>1 DEF Chain, Link, Behind, Newest, Sent
  <2>4. (pc \in {"select", "scan"} => Behind(Newest))'
    BY <1>1, <1>a, <2>1 DEF Chain, Behind, Newest, Sent
  <2> QED BY <2>2, <2>3, <2>4 DEF Chain
<1>2. ASSUME StartPoll PROVE Chain'
  <2>1. /\ pc = "select" /\ pc' = "scan" /\ atStart' = ctr
        /\ UNCHANGED <<ctr, evictions, ch, shown, records, prev, prevTime>>
    BY <1>2 DEF StartPoll, kernel
  <2>2. SomeLive => SomeLive'
    <3>1. DOMAIN ctr = Flows
      BY DEF Inv, Types
    <3> QED BY <2>1, <3>1 DEF SomeLive, Kernel!Live
  <2>3. Behind(Newest)'
    BY <2>1, <2>2 DEF Chain, Behind, Newest, Sent
  <2> QED BY <2>1, <2>3 DEF Chain, Link, Sent
<1>3. ASSUME PollFails PROVE Chain'
  <2>1. /\ pc = "scan" /\ pc' = "select"
        /\ UNCHANGED <<ctr, evictions, ch, shown, records, prev, prevTime>>
    BY <1>3 DEF PollFails, kernel
  <2>2. SomeLive => SomeLive'
    BY <2>1 DEF SomeLive, Kernel!Live
  <2>3. Behind(Newest)'
    BY <2>1, <2>2 DEF Chain, Behind, Newest, Sent
  <2> QED BY <2>1, <2>3 DEF Chain, Link, Sent
<1>4. ASSUME Send PROVE Chain'
  <2>1. /\ pc = "send" /\ pc' = "select"
        /\ Len(ch') = Len(ch) + 1 /\ ch'[Len(ch) + 1] = records
        /\ \A i \in DOMAIN ch : ch'[i] = ch[i]
        /\ DOMAIN ch' = 1 .. Len(ch) + 1
        /\ UNCHANGED <<ctr, evictions, shown, records, prev, prevTime, atStart>>
    BY <1>0, <1>4 DEF Send, kernel, poll
  <2>2. SomeLive => SomeLive'
    BY <2>1 DEF SomeLive, Kernel!Live
  <2>3. Newest' = records
    BY <1>0, <2>1 DEF Newest, Sent
  <2>4. Behind(Newest)'
    BY <2>1, <2>2, <2>3 DEF Chain, Behind
  <2>5. ASSUME NEW i \in DOMAIN ch' PROVE Link(Sent(i - 1), ch[i])'
    <3>1. CASE i = Len(ch) + 1
      <4>1. Sent(i - 1)' = Newest
        BY <1>0, <2>1, <3>1 DEF Newest, Sent
      <4> QED BY <2>1, <3>1, <4>1 DEF Chain, Link
    <3>2. CASE i \in DOMAIN ch
      <4>1. Sent(i - 1)' = Sent(i - 1)
        BY <1>0, <2>1, <3>2 DEF Sent
      <4> QED BY <2>1, <3>2, <4>1 DEF Chain, Link
    <3> QED BY <1>0, <2>1, <3>1, <3>2
  <2> QED BY <2>1, <2>4, <2>5 DEF Chain
<1>5. ASSUME Render PROVE Chain'
  <2>1. /\ Len(ch') = Len(ch) - 1 /\ shown' = ch[1] /\ Len(ch) > 0
        /\ \A i \in DOMAIN ch' : ch'[i] = ch[i + 1]
        /\ DOMAIN ch' = 1 .. Len(ch) - 1
        /\ UNCHANGED <<ctr, evictions, pc, records, prev, prevTime, atStart>>
    BY <1>0, <1>5 DEF Render, kernel, poll
  <2>2. \A i \in 0 .. Len(ch) - 1 : Sent(i)' = Sent(i + 1)
    BY <1>0, <2>1 DEF Sent
  <2>3. Newest' = Newest /\ (SomeLive => SomeLive')
    BY <1>0, <2>1, <2>2 DEF Newest, Sent, SomeLive, Kernel!Live
  <2>4. ASSUME NEW i \in DOMAIN ch' PROVE Link(Sent(i - 1), ch[i])'
    <3>1. Sent(i - 1)' = Sent(i) /\ ch'[i] = ch[i + 1] /\ i + 1 \in DOMAIN ch
      BY <1>0, <2>1, <2>2
    <3> QED BY <1>0, <2>1, <3>1 DEF Chain, Link
  <2> QED BY <2>1, <2>3, <2>4 DEF Chain, Link, Behind
<1>6. ASSUME FinishPoll PROVE Chain'
  <2>1. /\ pc = "scan" /\ todo = {}
        /\ records' = [now |-> polls, elapsed |-> Elapsed,
                       rec |-> [k \in DOMAIN current |-> Record(k, Elapsed)]]
        /\ prev' = current /\ prevTime' = polls /\ prevTime < polls
        /\ pc' = IF DOMAIN current = {} THEN "select" ELSE "send"
        /\ UNCHANGED <<ctr, evictions, ch, shown, atStart>>
    BY <1>6 DEF FinishPoll, ScanComplete, kernel, Inv, Times
  <2>2. Newest' = Newest /\ Newest \in Batches
    BY <1>0, <2>1 DEF Newest, Sent
  <2>3. (\A i \in DOMAIN ch : Link(Sent(i - 1), ch[i]))'
    BY <2>1 DEF Chain, Link, Sent
  <2>4. ASSUME evictions = 0, Newest # NoBatch PROVE DOMAIN current # {}
    BY <2>1, <2>4 DEF Chain, Behind, SomeLive, Sandwich, ScanSandwich
  <2>5. Link(Newest, records)'
    <3> DEFINE a == Newest
    <3> SUFFICES ASSUME a # NoBatch
                 PROVE  /\ evictions = 0 => Follows(a, records')
                        /\ Follows(a, records') =>
                             \A k \in DOMAIN a.rec \cap DOMAIN records'.rec :
                               records'.rec[k].dPackets
                                 = Sub(records'.rec[k].packets, a.rec[k].packets)
      BY <2>1, <2>2 DEF Link
    <3>1. a.now \in Nat /\ a.now <= prevTime
      BY <2>1, <2>2 DEF Chain, Behind, Batches
    <3>2. Follows(a, records') <=> prevTime # 0 /\ a.now = prevTime
      BY <1>0, <2>1, <3>1 DEF Follows, Elapsed
    <3>3. evictions = 0 => a.now = prevTime
      BY <2>1 DEF Chain, Behind
    <3>4. prevTime # 0 => Elapsed > 0
      BY <1>0, <2>1 DEF Elapsed
    <3>5. ASSUME prevTime # 0, a.now = prevTime,
                 NEW k \in DOMAIN a.rec \cap DOMAIN records'.rec
          PROVE  records'.rec[k].dPackets
                   = Sub(records'.rec[k].packets, a.rec[k].packets)
      <4>1. k \in DOMAIN current /\ records'.rec[k] = Record(k, Elapsed)
        BY <2>1, <3>5
      <4>2. k \in DOMAIN prev /\ a.rec[k].packets = prev[k].packets
        BY <2>1, <3>5 DEF Chain, Behind
      <4> QED BY <3>4, <3>5, <4>1, <4>2 DEF Record
    <3>6. 0 < a.now
      BY <2>1 DEF Chain, Behind
    <3> QED BY <3>1, <3>2, <3>3, <3>5, <3>6
  <2>6. ASSUME DOMAIN current # {} PROVE Behind(records)'
    <3>1. PICK k \in DOMAIN current : TRUE
      BY <2>6
    <3>2. k \in Flows /\ current[k].packets \in Nat /\ ctr[k].packets \in Nat
      BY SnapshotParts DEF Inv, Types, Pairs
    <3>3. evictions = 0 => Kernel!Live(k)
      <4>1. evictions = 0 => current[k].packets <= ctr[k].packets
        BY <2>1, <3>2 DEF Sandwich, ScanSandwich, Between, Whole
      <4>2. current[k].packets > 0
        BY <2>1, <3>1 DEF Sandwich, ReadLive
      <4> QED BY <3>2, <4>1, <4>2 DEF Kernel!Live
    <3>4. (evictions = 0 => SomeLive)'
      BY <2>1, <2>6, <3>2, <3>3 DEF SomeLive, Kernel!Live
    <3>5. /\ DOMAIN records'.rec = DOMAIN prev' /\ records'.now = prevTime'
          /\ \A j \in DOMAIN prev' : records'.rec[j].packets = prev'[j].packets
      BY <2>1 DEF Record
    <3> QED BY <1>0, <2>1, <3>4, <3>5 DEF Behind
  <2>7. ASSUME DOMAIN current = {} PROVE Behind(Newest)'
    <3>1. Newest # NoBatch => /\ evictions # 0 /\ 0 < Newest.now
                              /\ Newest.now <= prevTime /\ Newest.now \in Nat
      BY <2>1, <2>2, <2>4, <2>7 DEF Chain, Behind, Batches
    <3> QED BY <1>0, <2>1, <2>2, <3>1 DEF Behind
  <2> QED BY <2>1, <2>3, <2>5, <2>6, <2>7 DEF Chain
<1>7. ASSUME Return PROVE Chain'
  BY <1>7 DEF Return, kernel, poll, Chain, Link, Sent
<1>8. ASSUME NEW k \in Flows, Traffic(k) \/ Evict(k) \/ ReadKey(k)
      PROVE  Chain'
  <2>1. CASE Evict(k)
    <3>1. /\ UNCHANGED <<pc, ch, shown, records, prev, prevTime>>
          /\ evictions' # 0
      BY <1>0, <2>1 DEF Evict
    <3> QED BY <3>1 DEF Chain, Link, Behind, Newest, Sent
  <2>2. CASE Traffic(k) \/ ReadKey(k)
    BY <1>1, <2>2 DEF Traffic, ReadKey, poll
  <2> QED BY <1>8, <2>1, <2>2
<1>9. ASSUME Tick \/ Rescan \/ MainReturns \/ Cancel \/ UNCHANGED vars
      PROVE  Chain'
  BY <1>1, <1>9 DEF Tick, Rescan, MainReturns, Cancel, vars, poll
<1> QED
  BY <1>2, <1>3, <1>4, <1>5, <1>6, <1>7, <1>8, <1>9 DEF Next

(* What is rendered adds up: a table whose interval starts at the poll of   *)
(* the table before shows what was added since, and while nothing is        *)
(* evicted every table is such a table, whatever polls fail and however     *)
(* long the channel stays full.                                             *)
THEOREM RenderedTablesAddUp == Spec => RenderedDeltas
<1>1. Inv /\ Chain /\ [Next]_vars =>
        (shown' # shown /\ shown # NoBatch =>
           /\ evictions = 0 => Consecutive
           /\ Consecutive =>
                \A k \in DOMAIN shown.rec \cap DOMAIN shown'.rec :
                  shown'.rec[k].dPackets =
                    Sub(shown'.rec[k].packets, shown.rec[k].packets))
  <2> SUFFICES ASSUME Inv, Chain, [Next]_vars, shown' # shown, shown # NoBatch
               PROVE  /\ evictions = 0 => Consecutive
                      /\ Consecutive =>
                           \A k \in DOMAIN shown.rec \cap DOMAIN shown'.rec :
                             shown'.rec[k].dPackets =
                               Sub(shown'.rec[k].packets, shown.rec[k].packets)
    OBVIOUS
  <2>1. Render
    <3>1. ASSUME NEW k \in Flows, Traffic(k) \/ Evict(k) \/ ReadKey(k) PROVE FALSE
      BY <3>1 DEF Traffic, Evict, ReadKey
    <3> QED
      BY <3>1 DEF Next, Tick, StartPoll, Rescan, PollFails, FinishPoll, Send,
                  Return, MainReturns, Cancel, vars
  <2>2. shown' = ch[1] /\ 1 \in DOMAIN ch
    BY <2>1 DEF Render, Inv, Types
  <2>3. Link(shown, ch[1])
    BY <2>2 DEF Chain, Sent
  <2> QED BY <2>2, <2>3 DEF Link, Follows, Consecutive
<1>2. Inv /\ Sandwich /\ Whole /\ Chain /\ [Next]_vars =>
        (Inv /\ Sandwich /\ Whole /\ Chain)'
  BY NextInv, NextSandwich, WholeKept, NextChain
<1>3. Init => Inv /\ Sandwich /\ Whole /\ Chain
  BY InitInv, InitSandwich, WholeKept, InitChain
<1> QED
  BY <1>1, <1>2, <1>3, PTL DEF Spec, RenderedDeltas
-----------------------------------------------------------------------------
(* RttSamples, the other map a poll reads.  Its theorems hold whatever the  *)
(* aggregator does: the variables are its own.                              *)
SampleKey(sk) == SocketKey(sk)

(* What is stored: the estimates without their fractions. *)
Shown   == {Shifted(e) : e \in Held}
Samples == [srtt : {Shifted(e)[1] : e \in Held},
            mdev : {Shifted(e)[2] : e \in Held}, samples : Nat]

(* RttTypeOK, with these names. *)
RttTypes ==
  /\ est \in [Sockets -> Held] /\ atEntry \in [Sockets -> Held]
  /\ at \in [Sockets -> {"idle", "srtt", "mdev", "samples", "insert", "ack"}]
  /\ reg \in [Sockets -> Shown] /\ table \in [Keys -> Samples]
  /\ segments \in 0..MaxSegments /\ recorded \in [Sockets -> Nat]

(* A run that has come to the map has a key, and the estimate it found.     *)
RttLocals ==
  \A sk \in Sockets :
    /\ at[sk] \in {"srtt", "mdev", "samples", "insert"} =>
         SampleKey(sk) \in Keys /\ reg[sk] = Shifted(atEntry[sk])
    /\ recorded[sk] > 0 => SampleKey(sk) \in Keys

(* The entry of a socket that shares its key with none counts its samples,  *)
(* and where record_rtt is tells which of its fields are those of the       *)
(* newest.                                                                  *)
RttEntries ==
  \A sk \in Sockets :
    KeyIsOwn(sk) /\ SampleKey(sk) \in Keys =>
      LET entry == table[SampleKey(sk)] IN
      /\ entry.samples = recorded[sk]
      /\ at[sk] = "insert" => recorded[sk] = 0
      /\ at[sk] \in {"mdev", "samples"} => entry.srtt = reg[sk][1]
      /\ at[sk] = "samples" => entry.mdev = reg[sk][2]
      /\ at[sk] \in {"idle", "ack"} /\ recorded[sk] > 0 =>
           <<entry.srtt, entry.mdev>> = Shifted(atEntry[sk])

RttInv == RttTypes /\ RttLocals /\ RttEntries

(* A socket that shares its key with none shares it with none. *)
LEMMA OwnKey ==
  ASSUME NEW sk \in Sockets, NEW o \in Sockets, o # sk, KeyIsOwn(sk)
  PROVE  SampleKey(o) # SampleKey(sk)
BY DEF KeyIsOwn, SampleKey

(* What is shown is a pair. *)
LEMMA ShownParts ==
  /\ \A e \in Held : Shifted(e) \in Shown
  /\ \A v \in Shown : /\ v = <<v[1], v[2]>>
                      /\ v[1] \in {Shifted(e)[1] : e \in Held}
                      /\ v[2] \in {Shifted(e)[2] : e \in Held}
BY DEF Shown, Shifted

LEMMA RttInvInit == RttInit => RttInv
<1> SUFFICES ASSUME RttInit PROVE RttInv
  OBVIOUS
<1>1. <<0, 0>> \in Shown /\ NoEstimate \in Held
  <2>1. NoEstimate \in Held
    BY DEF Held
  <2>2. Shifted(NoEstimate) = <<0, 0>>
    BY DEF NoEstimate, Shifted
  <2> QED BY <2>1, <2>2, ShownParts
<1>2. NoEntry \in Samples
  <2>1. /\ 0 \in {Shifted(e)[1] : e \in Held}
        /\ 0 \in {Shifted(e)[2] : e \in Held}
    <3>1. <<0, 0>>[1] = 0 /\ <<0, 0>>[2] = 0
      OBVIOUS
    <3> QED BY <1>1, <3>1, ShownParts
  <2> QED BY <2>1 DEF Samples, NoEntry
<1>3. NoEstimate = <<0, 0>>
  BY DEF NoEstimate
<1>4. RttTypes
  BY <1>1, <1>2, <1>3, SegmentsAssumption DEF RttInit, RttTypes
<1>5. \A sk \in Sockets : at[sk] = "idle" /\ recorded[sk] = 0
  BY DEF RttInit
<1>6. \A k \in Keys : table[k].samples = 0
  BY DEF RttInit, NoEntry
<1> QED BY <1>4, <1>5, <1>6 DEF RttInv, RttLocals, RttEntries

(* What a step does to the entry of a socket's key, if it writes one.       *)
LEMMA RttWrites ==
  ASSUME RttInv, NEW sk \in Sockets,
         \/ StoreSrtt(sk) \/ StoreMdev(sk) \/ AddSample(sk)
         \/ Insert(sk)
  PROVE  LET k == SampleKey(sk) IN
         /\ k \in Keys /\ table' \in [Keys -> Samples]
         /\ \A j \in Keys \ {k} : table'[j] = table[j]
         /\ StoreSrtt(sk) =>
              table'[k] = [table[k] EXCEPT !.srtt = reg[sk][1]]
         /\ StoreMdev(sk) =>
              table'[k] = [table[k] EXCEPT !.mdev = reg[sk][2]]
         /\ AddSample(sk) =>
              table'[k] = [table[k] EXCEPT !.samples = @ + 1]
         /\ Insert(sk) /\ table[k].samples = 0 =>
              table'[k] = [srtt |-> reg[sk][1], mdev |-> reg[sk][2],
                           samples |-> 1]
<1> DEFINE k == SampleKey(sk)
<1>1. /\ k \in Keys /\ table \in [Keys -> Samples]
      /\ reg[sk] \in Shown /\ table[k] \in Samples
  BY DEF RttInv, RttTypes, RttLocals, StoreSrtt, StoreMdev,
     AddSample, Insert, Goto
<1>2. /\ reg[sk][1] \in {Shifted(e)[1] : e \in Held}
      /\ reg[sk][2] \in {Shifted(e)[2] : e \in Held}
  BY <1>1, ShownParts
<1> DEFINE s == [table[k] EXCEPT !.srtt = reg[sk][1]]
           m == [table[k] EXCEPT !.mdev = reg[sk][2]]
           a == [table[k] EXCEPT !.samples = @ + 1]
           i == [srtt |-> reg[sk][1], mdev |-> reg[sk][2], samples |-> 1]
<1>3. s \in Samples /\ m \in Samples /\ a \in Samples /\ i \in Samples
  BY <1>1, <1>2 DEF Samples
<1>4. /\ StoreSrtt(sk) => table' = [table EXCEPT ![k] = s]
      /\ StoreMdev(sk) => table' = [table EXCEPT ![k] = m]
      /\ AddSample(sk) => table' = [table EXCEPT ![k] = a]
      /\ Insert(sk) => table' = IF table[k].samples > 0 THEN table
                                    ELSE [table EXCEPT ![k] = i]
  BY DEF StoreSrtt, StoreMdev, AddSample, Insert,
     FirstSample, SampleKey
<1> HIDE DEF s, m, a, i, k
<1> QED BY <1>1, <1>3, <1>4 DEF k, s, m, a, i

(* Any step of record_rtt or of the kernel. *)
LEMMA RttInvNext == RttInv /\ [RttNext]_rttVars => RttInv'
<1> SUFFICES ASSUME RttInv, [RttNext]_rttVars PROVE RttInv'
  OBVIOUS
<1> USE DEF RttInv
<1>1. ASSUME NEW sk \in Sockets, Segment(sk) PROVE RttInv'
  <2> DEFINE k == SampleKey(sk)
  <2>1. /\ UNCHANGED <<est, table, recorded>>
        /\ \A o \in Sockets \ {sk} : /\ at'[o] = at[o] /\ reg'[o] = reg[o]
                                      /\ atEntry'[o] = atEntry[o]
    BY <1>1 DEF Segment, Goto, RttTypes
  <2>s. segments' \in 0..MaxSegments
    BY <1>1, SegmentsAssumption DEF Segment, RttTypes
  <2>2. CASE Returns(sk)
    <3>1. /\ UNCHANGED <<reg, atEntry>> /\ at[sk] = "idle"
          /\ at' = [at EXCEPT ![sk] = "ack"]
      BY <1>1, <2>2 DEF Segment, Goto
    <3>2. RttTypes'
      BY <2>1, <2>s, <3>1 DEF RttTypes
    <3>3. RttLocals'
      BY <2>1, <3>1 DEF RttTypes, RttLocals
    <3>4. RttEntries'
      BY <2>1, <3>1 DEF RttTypes, RttEntries
    <3> QED BY <3>2, <3>3, <3>4
  <2>3. CASE ~Returns(sk)
    <3>1. /\ at[sk] = "idle"
          /\ at' = [at EXCEPT ![sk] =
                       IF table[k].samples > 0 THEN "srtt" ELSE "insert"]
          /\ reg' = [reg EXCEPT ![sk] = Shifted(est[sk])]
          /\ atEntry' = [atEntry EXCEPT ![sk] = est[sk]]
      BY <1>1, <2>3 DEF Segment, Goto, SampleKey
    <3>2. k \in Keys
      BY <2>3 DEF Returns, Keys, SampleKey
    <3>3. est[sk] \in Held /\ Shifted(est[sk]) \in Shown
      BY ShownParts DEF RttTypes
    <3> HIDE DEF k
    <3>4. RttTypes'
      BY <2>1, <2>s, <3>1, <3>3 DEF RttTypes
    <3>5. /\ at'[sk] \in {"srtt", "insert"}
          /\ at'[sk] = "insert" => ~(table[k].samples > 0)
          /\ reg'[sk] = Shifted(atEntry'[sk])
      BY <3>1 DEF RttTypes
    <3>6. RttLocals'
      BY <2>1, <3>2, <3>5 DEF RttLocals, k
    <3>7. RttEntries'
      <4> SUFFICES ASSUME NEW o \in Sockets, KeyIsOwn(o),
                          SampleKey(o) \in Keys
                   PROVE  LET entry == table'[SampleKey(o)] IN
                          /\ entry.samples = recorded'[o]
                          /\ at'[o] = "insert" => recorded'[o] = 0
                          /\ at'[o] \in {"mdev", "samples"} =>
                               entry.srtt = reg'[o][1]
                          /\ at'[o] = "samples" => entry.mdev = reg'[o][2]
                          /\ at'[o] \in {"idle", "ack"} /\ recorded'[o] > 0 =>
                               <<entry.srtt, entry.mdev>>
                                 = Shifted(atEntry'[o])
        BY DEF RttEntries
      <4>1. CASE o # sk
        BY <2>1, <4>1 DEF RttEntries
      <4>2. CASE o = sk
        <5>1. table[k].samples = recorded[sk] /\ recorded[sk] \in Nat
          BY <4>2 DEF RttEntries, RttTypes, k
        <5> QED BY <2>1, <3>5, <4>2, <5>1 DEF k
      <4> QED BY <4>1, <4>2
    <3> QED BY <3>4, <3>6, <3>7
  <2> QED BY <2>2, <2>3
<1>2. ASSUME NEW sk \in Sockets,
             \/ StoreSrtt(sk) \/ StoreMdev(sk) \/ AddSample(sk)
             \/ Insert(sk)
      PROVE  RttInv'
  <2> DEFINE k == SampleKey(sk)
  <2>1. /\ UNCHANGED <<est, reg, segments, atEntry>> /\ k \in Keys
        /\ at[sk] \in {"srtt", "mdev", "samples", "insert"}
        /\ table' \in [Keys -> Samples]
        /\ \A j \in Keys \ {k} : table'[j] = table[j]
    BY <1>2, RttWrites DEF StoreSrtt, StoreMdev, AddSample,
       Insert, Goto
  <2>2. /\ at' \in [Sockets -> {"idle", "srtt", "mdev", "samples", "insert",
                               "ack"}]
        /\ recorded' \in [Sockets -> Nat]
        /\ \A o \in Sockets \ {sk} : at'[o] = at[o] /\ recorded'[o] = recorded[o]
    BY <1>2 DEF StoreSrtt, StoreMdev, AddSample, Insert,
       Goto, RttTypes
  <2>3. RttTypes'
    BY <2>1, <2>2 DEF RttTypes
  <2>4. reg[sk] = Shifted(atEntry[sk])
    BY <2>1 DEF RttLocals
  <2>5. RttLocals'
    BY <2>1, <2>2, <2>4 DEF RttLocals
  <2>6. ASSUME NEW o \in Sockets \ {sk}, KeyIsOwn(o),
               SampleKey(o) \in Keys
        PROVE  table'[SampleKey(o)] = table[SampleKey(o)]
    BY <2>1, <2>6, OwnKey
  <2>7. ASSUME KeyIsOwn(sk)
        PROVE  LET entry == table'[k] IN
               /\ entry.samples = recorded'[sk]
               /\ at'[sk] = "insert" => recorded'[sk] = 0
               /\ at'[sk] \in {"mdev", "samples"} => entry.srtt = reg[sk][1]
               /\ at'[sk] = "samples" => entry.mdev = reg[sk][2]
               /\ at'[sk] = "ack" =>
                    <<entry.srtt, entry.mdev>> = Shifted(atEntry[sk])
               /\ at'[sk] # "idle"
    <3>1. /\ table[k] \in Samples /\ table[k].samples = recorded[sk]
          /\ at[sk] = "insert" => recorded[sk] = 0
          /\ at[sk] \in {"mdev", "samples"} => table[k].srtt = reg[sk][1]
          /\ at[sk] = "samples" => table[k].mdev = reg[sk][2]
          /\ recorded[sk] \in Nat
      BY <2>1, <2>7 DEF RttTypes, RttEntries
    <3>2. Shifted(atEntry[sk]) = <<reg[sk][1], reg[sk][2]>>
      BY <2>4 DEF Shifted
    <3>3. CASE StoreSrtt(sk)
      <4>1. at'[sk] = "mdev" /\ recorded' = recorded
        BY <3>3 DEF StoreSrtt, Goto, RttTypes
      <4>2. table'[k] = [table[k] EXCEPT !.srtt = reg[sk][1]]
        BY <3>3, RttWrites
      <4> QED BY <3>1, <4>1, <4>2 DEF Samples
    <3>4. CASE StoreMdev(sk)
      <4>1. at[sk] = "mdev" /\ at'[sk] = "samples" /\ recorded' = recorded
        BY <3>4 DEF StoreMdev, Goto, RttTypes
      <4>2. table'[k] = [table[k] EXCEPT !.mdev = reg[sk][2]]
        BY <3>4, RttWrites
      <4> QED BY <3>1, <4>1, <4>2 DEF Samples
    <3>5. CASE AddSample(sk)
      <4>1. /\ at[sk] = "samples" /\ at'[sk] = "ack"
            /\ recorded'[sk] = recorded[sk] + 1
        BY <3>5 DEF AddSample, Goto, RttTypes
      <4>2. table'[k] = [table[k] EXCEPT !.samples = @ + 1]
        BY <3>5, RttWrites
      <4> QED BY <3>1, <3>2, <4>1, <4>2 DEF Samples
    <3>6. CASE Insert(sk)
      <4>1. /\ at[sk] = "insert" /\ at'[sk] = "ack"
            /\ recorded'[sk] = recorded[sk] + 1
        BY <3>6 DEF Insert, Goto, RttTypes
      <4>2. table'[k] = [srtt |-> reg[sk][1], mdev |-> reg[sk][2],
                         samples |-> 1]
        BY <3>1, <3>6, <4>1, RttWrites
      <4> QED BY <3>1, <3>2, <4>1, <4>2
    <3> QED BY <1>2, <3>3, <3>4, <3>5, <3>6
  <2>8. RttEntries'
    <3> SUFFICES ASSUME NEW o \in Sockets, KeyIsOwn(o),
                        SampleKey(o) \in Keys
                 PROVE  LET entry == table'[SampleKey(o)] IN
                        /\ entry.samples = recorded'[o]
                        /\ at'[o] = "insert" => recorded'[o] = 0
                        /\ at'[o] \in {"mdev", "samples"} =>
                             entry.srtt = reg'[o][1]
                        /\ at'[o] = "samples" => entry.mdev = reg'[o][2]
                        /\ at'[o] \in {"idle", "ack"} /\ recorded'[o] > 0 =>
                             <<entry.srtt, entry.mdev>>
                               = Shifted(atEntry'[o])
      BY DEF RttEntries
    <3>1. CASE o # sk
      BY <2>1, <2>2, <2>6, <3>1 DEF RttEntries
    <3>2. CASE o = sk
      BY <2>1, <2>7, <3>2
    <3> QED BY <3>1, <3>2
  <2> QED BY <2>3, <2>5, <2>8
<1>3. ASSUME NEW sk \in Sockets, NEW e \in Estimates, Acknowledge(sk, e)
      PROVE  RttInv'
  <2>1. /\ UNCHANGED <<table, reg, segments, atEntry, recorded>> /\ at[sk] = "ack"
        /\ at' = [at EXCEPT ![sk] = "idle"] /\ est' = [est EXCEPT ![sk] = e]
        /\ e \in Held
    BY <1>3 DEF Acknowledge, Goto, Held
  <2>2. RttTypes'
    BY <2>1 DEF RttTypes
  <2>3. RttLocals' /\ RttEntries'
    BY <2>1 DEF RttTypes, RttLocals, RttEntries
  <2> QED BY <2>2, <2>3
<1>4. CASE UNCHANGED rttVars
  BY <1>4 DEF rttVars, RttTypes, RttLocals, RttEntries
<1> QED BY <1>1, <1>2, <1>3, <1>4 DEF RttNext, Quiet, rttVars

THEOREM RttHolds == RttSpec => []RttInv
<1>1. RttInv /\ [RttNext]_rttVars => RttInv'
  BY RttInvNext
<1> QED BY <1>1, RttInvInit, PTL DEF RttSpec

(* What is stored are estimates without their fractions, for any number of  *)
(* sockets and segments.                                                    *)
THEOREM RttTypeCorrect == RttSpec => []RttTypeOK
<1>1. RttInv => RttTypeOK
  BY DEF RttInv, RttTypes, RttTypeOK, Shown, Samples
<1> QED BY <1>1, RttHolds, PTL

(* SamplesExact: the unlocked lookup and insertion lose no sample of a      *)
(* socket that has its key for itself.                                      *)
THEOREM SamplesAreExact == RttSpec => []SamplesExact
<1>1. RttInv => SamplesExact
  BY DEF RttInv, RttLocals, RttEntries, SamplesExact, SampleKey
<1> QED BY <1>1, RttHolds, PTL

(* The two bytes of a number. *)
LEMMA TwoBytes ==
  ASSUME NEW a \in Int, NEW b \in Int, 0 <= a, a < 256, 0 <= b, b < 256
  PROVE  (a * 256 + b) % 256 = b /\ (a * 256 + b) \div 256 = a
<1>1. (a * 256 + b) % 256 = b
  OBVIOUS
<1>2. (a * 256 + b) \div 256 = a
  OBVIOUS
<1> QED BY <1>1, <1>2

(* Two swaps of the bytes of a port are none. *)
LEMMA SwapTwice ==
  ASSUME NEW p, IsPort(p)
  PROVE  IsPort(Swap16(p)) /\ Swap16(Swap16(p)) = p
<1> DEFINE low == p % 256  high == p \div 256
<1>1. p \in Int /\ 0 <= p /\ p < 65536
  BY DEF IsPort
<1>2. low \in Int /\ high \in Int /\ p = high * 256 + low
  BY <1>1
<1>3. 0 <= low /\ low < 256 /\ 0 <= high /\ high < 256
  <2>1. 0 <= low /\ low < 256
    BY <1>1
  <2>2. 0 <= high
    BY <1>1
  <2>3. high < 256
    BY <1>1
  <2> QED BY <2>1, <2>2, <2>3
<1>4. Swap16(p) = low * 256 + high
  BY DEF Swap16
<1> HIDE DEF low, high
<1>5. IsPort(low * 256 + high)
  BY <1>2, <1>3 DEF IsPort
<1>6. (low * 256 + high) % 256 = high
  BY <1>2, <1>3, TwoBytes
<1>7. (low * 256 + high) \div 256 = low
  BY <1>2, <1>3, TwoBytes
<1>8. Swap16(low * 256 + high) = high * 256 + low
  BY <1>6, <1>7 DEF Swap16
<1> QED BY <1>2, <1>4, <1>5, <1>8

(* The reverse of a key, in full. *)
LEMMA ReverseOf ==
  ASSUME NEW f, NEW p, NEW sp, NEW dp, NEW s, NEW d
  PROVE  Reverse([family |-> f, proto |-> p, sport |-> sp, dport |-> dp,
                      saddr |-> s, daddr |-> d])
           = [family |-> f, proto |-> p, sport |-> dp, dport |-> sp,
              saddr |-> d, daddr |-> s]
<1> DEFINE Make(a, b, c, e) == [family |-> f, proto |-> p, sport |-> a,
                                dport |-> b, saddr |-> c, daddr |-> e]
           k == Make(sp, dp, s, d)
<1>1. k.sport = sp /\ k.dport = dp /\ k.saddr = s /\ k.daddr = d
  OBVIOUS
<1>2. Reverse(k)
        = [[[[k EXCEPT !.sport = dp] EXCEPT !.dport = sp] EXCEPT !.saddr = d]
             EXCEPT !.daddr = s]
  BY <1>1 DEF Reverse
<1>3. [k EXCEPT !.sport = dp] = Make(dp, dp, s, d)
  OBVIOUS
<1>4. [Make(dp, dp, s, d) EXCEPT !.dport = sp] = Make(dp, sp, s, d)
  OBVIOUS
<1>5. [Make(dp, sp, s, d) EXCEPT !.saddr = d] = Make(dp, sp, d, d)
  OBVIOUS
<1>6. [Make(dp, sp, d, d) EXCEPT !.daddr = s] = Make(dp, sp, d, s)
  OBVIOUS
<1>7. Reverse(k) = Make(dp, sp, d, s)
  <2> HIDE DEF Make
  <2> QED BY <1>2, <1>3, <1>4, <1>5, <1>6
<1> QED BY <1>7

(* The keys of a connection's packets, whose family is the socket's: the    *)
(* socket's one way, its reverse the other way.                             *)
LEMMA PacketKeys ==
  ASSUME NEW sk \in Sockets, sk.family = PacketFamily(sk)
  PROVE  /\ PacketKey(Egress(sk)) = SampleKey(sk)
         /\ PacketKey(Ingress(sk)) = Reverse(SampleKey(sk))
         /\ Reverse(Reverse(SampleKey(sk))) = SampleKey(sk)
         /\ SampleKey(sk).proto = TCP
         /\ Reverse(SampleKey(sk)).proto = TCP
<1>1. /\ IsPort(sk.skc_num) /\ IsPort(sk.skc_dport)
      /\ sk.ethertype \in {"ip4", "ip6"}
      /\ sk.local = sk.wlocal /\ sk.peer = sk.wpeer
  BY SocketsAssumption DEF SocketsAreTcp
<1>2. Swap16(PeerPort(sk)) = sk.skc_dport
  BY <1>1, SwapTwice DEF PeerPort
<1>3. SampleKey(sk) = [family |-> sk.family, proto |-> TCP,
                       sport |-> Swap16(sk.skc_num),
                       dport |-> sk.skc_dport,
                       saddr |-> sk.local, daddr |-> sk.peer]
  BY <1>1 DEF SampleKey, SocketKey, PacketFamily
<1> DEFINE Carried(s, sp, d, dp) == Wire(sk, s, sp, d, dp)
<1>4. ASSUME NEW s, NEW sp, NEW d, NEW dp
      PROVE  PacketKey(Carried(s, sp, d, dp)) =
               [family |-> sk.family, proto |-> TCP,
                sport |-> Swap16(sp), dport |-> Swap16(dp),
                saddr |-> s, daddr |-> d]
  <2> DEFINE f == Carried(s, sp, d, dp)
  <2>1. /\ f.ethertype = sk.ethertype /\ f.ihl = 5 /\ f.len = 74
        /\ f.proto = TCP /\ f.saddr = s /\ f.sport = sp
        /\ f.daddr = d /\ f.dport = dp
    BY DEF Wire
  <2> HIDE DEF f
  <2>2. L4Offset(f) \in {34, 54}
    BY <1>1, <2>1 DEF L4Offset, Loads, ETH_HLEN
  <2>3. L4Readable(f, L4Offset(f)) /\ HasPorts(f)
    BY <2>1, <2>2 DEF L4Readable, Loads, HasPorts, TCP
  <2>4. sk.family = IF f.ethertype = "ip4" THEN AF_INET ELSE AF_INET6
    BY <2>1 DEF PacketFamily
  <2>5. PacketKey(f) =
          [family |-> sk.family, proto |-> TCP,
           sport |-> Swap16(sp), dport |-> Swap16(dp),
           saddr |-> s, daddr |-> d]
    BY <2>1, <2>2, <2>3, <2>4 DEF PacketKey
  <2> QED BY <2>5 DEF f
<1> HIDE DEF Carried
<1>5. PacketKey(Egress(sk)) = SampleKey(sk)
  BY <1>1, <1>2, <1>3, <1>4 DEF Egress, Carried
<1>r. Reverse(SampleKey(sk))
        = [family |-> sk.family, proto |-> TCP, sport |-> sk.skc_dport,
           dport |-> Swap16(sk.skc_num),
           saddr |-> sk.peer, daddr |-> sk.local]
  BY <1>3, ReverseOf
<1>6. PacketKey(Ingress(sk)) = Reverse(SampleKey(sk))
  BY <1>1, <1>2, <1>4, <1>r DEF Ingress, Carried
<1>7. Reverse(Reverse(SampleKey(sk))) = SampleKey(sk)
  BY <1>3, <1>r, ReverseOf
<1>8. /\ SampleKey(sk).proto = TCP
      /\ Reverse(SampleKey(sk)).proto = TCP
  BY <1>3, <1>r
<1> QED BY <1>5, <1>6, <1>7, <1>8

(* JoinBothDirections: the records of both directions of a connection show  *)
(* the estimate of its newest sample.                                       *)
THEOREM RecordsShowSamples == RttSpec => []JoinBothDirections
<1>1. ASSUME RttInv PROVE JoinBothDirections
  <2> SUFFICES ASSUME NEW sk \in Sockets, at[sk] = "idle", recorded[sk] > 0,
                      sk.family = PacketFamily(sk), KeyIsOwn(sk)
               PROVE  /\ Shows(Egress(sk), atEntry[sk])
                      /\ PeerIsRemote(sk) =>
                           Shows(Ingress(sk), atEntry[sk])
    BY DEF JoinBothDirections
  <2> DEFINE k == SampleKey(sk)  r == Reverse(k)
             sample == [srtt |-> table[k].srtt, mdev |-> table[k].mdev]
  <2>1. /\ k \in Keys /\ table[k].samples > 0
        /\ <<table[k].srtt, table[k].mdev>> = Shifted(atEntry[sk])
    BY <1>1 DEF RttInv, RttLocals, RttEntries
  <2>2. k \in DOMAIN Polled /\ Polled[k] = sample
    BY <2>1 DEF Polled
  <2>3. DOMAIN Polled \subseteq {SocketKey(o) : o \in Sockets}
    BY DEF Polled, Keys
  <2>4. /\ PacketKey(Egress(sk)) = k
        /\ PacketKey(Ingress(sk)) = r
        /\ Reverse(r) = k /\ k.proto = TCP /\ r.proto = TCP
    BY <1>1, PacketKeys
  <2> HIDE DEF k, r
  <2>5. JoinRtt(Polled, k) = sample
    BY <2>2, <2>4 DEF JoinRtt
  <2>6. ASSUME PeerIsRemote(sk) PROVE JoinRtt(Polled, r) = sample
    <3>1. r \in DOMAIN Polled => r = k
      BY <2>3, <2>6 DEF PeerIsRemote, SampleKey, k, r
    <3> QED BY <2>2, <2>4, <3>1 DEF JoinRtt
  <2>7. sample.srtt = table[k].srtt /\ sample.mdev = table[k].mdev
    OBVIOUS
  <2> HIDE DEF sample
  <2> QED BY <2>1, <2>4, <2>5, <2>6, <2>7 DEF Shows
<1>2. RttInv => JoinBothDirections
  BY <1>1
<1> QED BY <1>2, RttHolds, PTL
=============================================================================
