-------------------------- MODULE SyscallLat_proofs -------------------------
(***************************************************************************)
(* Proofs about SyscallLat: its type invariant, that it implements          *)
(* LatCounters, that every call that returned is counted once while nothing *)
(* is evicted or recycled, that none is counted twice whatever is, and that *)
(* a latency's bucket covers it; and, in the last part, about               *)
(* SyscallReport, which reads these histograms: the columns of its rows are *)
(* in order, and while nothing is evicted its deltas add up.                *)
(***************************************************************************)
EXTENDS SyscallLat, SyscallReport, FoldTheorems

Running == {"find", "seed", "refind", "add"}
Regs == [start : StartNodes \cup {NoNode}, now : 0 .. MaxClock,
         delta : -MaxClock .. MaxClock, nr : Nrs \cup {BadNr},
         val : LatNodes \cup {NoNode}]

Types ==
  /\ start \in [Tids -> StartNodes \cup {NoNode}]
  /\ snode \in [StartNodes -> Notes] /\ call \in [Tids -> Notes]
  /\ lat \in [Nrs -> LatNodes \cup {NoNode}] /\ lnode \in [LatNodes -> Hist]
  /\ pc \in [Tids -> Locations] /\ clock \in 0 .. MaxClock
  /\ reg \in [Tids -> Regs]
  /\ losses \in Nat /\ reused \in Nat
  /\ done \in [Nrs -> Hist]

(* What a run of sys_exit holds, step by step. *)
Held ==
  \A t \in Tids :
    /\ pc[t] \in {"now", "load", "loadnr"} => reg[t].start \in StartNodes
    /\ pc[t] \in Running => reg[t].delta > 0 /\ reg[t].nr \in Nrs
    /\ pc[t] = "delete" /\ reg[t].delta > 0 => reg[t].nr \in Nrs
    /\ pc[t] = "add" => reg[t].val \in LatNodes

(* The notes that can be read are of system calls sys_enter takes. *)
Noted ==
  \A t \in Tids :
    /\ start[t] # NoNode => snode[start[t]].nr \in Nrs
    /\ pc[t] \in {"now", "load", "loadnr"} => snode[reg[t].start].nr \in Nrs

(* No node is of two entries. *)
Distinct ==
  /\ \A t, u \in Tids : start[t] = start[u] /\ start[t] # NoNode => t = u
  /\ \A j, k \in Nrs : lat[j] = lat[k] /\ lat[j] # NoNode => j = k
Inv == Types /\ Held /\ Noted /\ Distinct
-----------------------------------------------------------------------------
(* The accumulator of log2_u64 stays a pair of numbers. *)
Accumulator == [r : Nat, v : Nat]

(* One step of log2_u64. *)
LEMMA HalveTyped ==
  ASSUME NEW a \in Accumulator, NEW k \in {16, 8, 4, 2, 1}
  PROVE  Halve(a, k) \in Accumulator
<1>1. 2^16 \in Nat \ {0} /\ 2^8 \in Nat \ {0} /\ 2^4 \in Nat \ {0}
      /\ 2^2 \in Nat \ {0} /\ 2^1 \in Nat \ {0}
  OBVIOUS
<1>2. 2^k \in Nat \ {0} /\ k \in Nat
  <2>1. CASE k = 16
    BY <1>1, <2>1
  <2>2. CASE k = 8
    BY <1>1, <2>2
  <2>3. CASE k = 4
    BY <1>1, <2>3
  <2>4. CASE k = 2
    BY <1>1, <2>4
  <2>5. CASE k = 1
    BY <1>1, <2>5
  <2> QED BY <2>1, <2>2, <2>3, <2>4, <2>5
<1> DEFINE w == 2^k
<1>3. w \in Nat \ {0}
  BY <1>2
<1>4. Halve(a, k) = IF a.v >= w THEN [r |-> a.r + k, v |-> a.v \div w] ELSE a
  BY DEF Halve
<1>5. a.r \in Nat /\ a.v \in Nat
  BY DEF Accumulator
<1> HIDE DEF w
<1>6. a.v \div w \in Nat /\ a.r + k \in Nat
  BY <1>2, <1>3, <1>5
<1> QED BY <1>4, <1>6 DEF Accumulator

(* The first step of log2_u64 leaves a pair of numbers, too. *)
LEMMA Halve64Typed ==
  ASSUME NEW v \in Nat
  PROVE  Halve64(v) \in Accumulator
<1>1. High32(v) \in Nat
  BY DEF High32
<1> QED BY <1>1 DEF Halve64, Accumulator

(* log2_u64 is its six steps, one after the other. *)
LEMMA Log2Steps ==
  ASSUME NEW v \in Nat
  PROVE  Log2(v)
           = Halve(Halve(Halve(Halve(Halve(Halve64(v), 16), 8), 4), 2), 1).r
<1> DEFINE q == <<16, 8, 4, 2, 1>>
           S == 1 .. 5
           base == Halve64(v)
           A(it) == it = [s \in SUBSET S |-> IF s = {} THEN base
                            ELSE Halve(it[s \ {Max(s)}], q[Max(s)])]
           G == [i \in S |-> [a \in Accumulator |-> Halve(a, q[i])]]
           c == [s \in SUBSET S |-> Max(s)]
<1>1. FoldLeft(Halve, base, q) = (CHOOSE it : A(it))[S]
  <2>1. DOMAIN q = S
    OBVIOUS
  <2> QED BY <2>1 DEF FoldLeft, MapThenFoldSet
<1>2. base \in Accumulator
  BY Halve64Typed
<1>3. \A i \in S : q[i] \in {16, 8, 4, 2, 1}
  OBVIOUS
<1>q. q[1] = 16 /\ q[2] = 8 /\ q[3] = 4 /\ q[4] = 2 /\ q[5] = 1
  OBVIOUS
<1>4. /\ \A s \in SUBSET S : s # {} => Max(s) \in s
      /\ \A k \in S : Max(1 .. k) = k /\ (1 .. k) \ {k} = 1 .. (k - 1)
  BY GreatestIndex
<1>5. IsFiniteSet(S)
  <2>1. 1 \in Int /\ 5 \in Int
    OBVIOUS
  <2> QED BY <2>1, FS_Interval
<1> HIDE DEF q, base
<1>6. \E it : A(it)
  <2>1. PICK it : IsFold(it, G, base, c, S)
    <3>1. \A s \in SUBSET S : s # {} => c[s] \in s
      BY <1>4
    <3> HIDE DEF G, c, S
    <3> QED BY <1>5, <3>1, FoldExists
  <2>2. \A s \in SUBSET S :
          it[s] = IF s = {} THEN base ELSE G[Max(s)][it[s \ {Max(s)}]]
    BY <2>1 DEF IsFold
  <2> DEFINE Bad == {s \in SUBSET S : it[s] \notin Accumulator}
  <2>3. Bad = {}
    <3> SUFFICES ASSUME Bad # {} PROVE FALSE
      OBVIOUS
    <3>1. PICK s \in Bad : \A t \in SUBSET s : t # s => t \notin Bad
      <4>1. Bad \in SUBSET SUBSET S /\ Bad # {}
        OBVIOUS
      <4> HIDE DEF Bad, S
      <4> QED BY <1>5, <4>1, SmallestSet
    <3>2. s # {}
      BY <1>2, <2>2
    <3>3. Max(s) \in s /\ it[s \ {Max(s)}] \in Accumulator
      BY <1>4, <3>1, <3>2
    <3>4. it[s] = Halve(it[s \ {Max(s)}], q[Max(s)])
      BY <2>2, <3>2, <3>3
    <3>5. q[Max(s)] \in {16, 8, 4, 2, 1}
      BY <1>3, <3>1, <3>3
    <3>6. it[s] \in Accumulator
      BY <3>3, <3>4, <3>5, HalveTyped
    <3> QED BY <3>1, <3>6
  <2>4. \A s \in SUBSET S : s # {} =>
          it[s] = Halve(it[s \ {Max(s)}], q[Max(s)])
    BY <1>4, <2>2, <2>3
  <2>5. it = [s \in SUBSET S |-> IF s = {} THEN base
                 ELSE Halve(it[s \ {Max(s)}], q[Max(s)])]
    BY <2>1, <2>2, <2>4 DEF IsFold
  <2> QED BY <2>5
<1> DEFINE it == CHOOSE it : A(it)
<1>7. A(it)
  BY <1>6
<1> HIDE DEF it
<1>8. it[{}] = base
  BY <1>7
<1>9. \A k \in S : it[1 .. k] = Halve(it[1 .. (k - 1)], q[k])
  <2> SUFFICES ASSUME NEW k \in S PROVE it[1 .. k] = Halve(it[1 .. (k - 1)], q[k])
    OBVIOUS
  <2>1. 1 .. k \in SUBSET S /\ 1 .. k # {}
    OBVIOUS
  <2>2. it[1 .. k] = Halve(it[(1 .. k) \ {Max(1 .. k)}], q[Max(1 .. k)])
    BY <1>7, <2>1
  <2> QED BY <1>4, <2>2
<1>10. it[1 .. 0] = base
  <2>1. 1 .. 0 = {}
    OBVIOUS
  <2> QED BY <1>8, <2>1
<1>11. it[1 .. 5] = Halve(Halve(Halve(Halve(Halve(base, 16), 8), 4), 2), 1)
  <2>1. it[1 .. 1] = Halve(base, 16)
    BY <1>9, <1>10, <1>q
  <2>2. it[1 .. 2] = Halve(it[1 .. 1], 8)
    BY <1>9, <1>q
  <2>3. it[1 .. 3] = Halve(it[1 .. 2], 4)
    BY <1>9, <1>q
  <2>4. it[1 .. 4] = Halve(it[1 .. 3], 2)
    BY <1>9, <1>q
  <2>5. it[1 .. 5] = Halve(it[1 .. 4], 1)
    BY <1>9, <1>q
  <2> QED BY <2>1, <2>2, <2>3, <2>4, <2>5
<1> QED BY <1>1, <1>11 DEF it, Log2, q, base

(* The logarithm is a number, and so the bucket is one that exists. *)
LEMMA Log2Type == \A v \in Nat : Log2(v) \in Nat
<1> SUFFICES ASSUME NEW v \in Nat PROVE Log2(v) \in Nat
  OBVIOUS
<1> DEFINE a0 == Halve64(v)    a1 == Halve(a0, 16)  a2 == Halve(a1, 8)
           a3 == Halve(a2, 4)  a4 == Halve(a3, 2)   a5 == Halve(a4, 1)
<1>1. a0 \in Accumulator
  BY Halve64Typed
<1> HIDE DEF a0, a1, a2, a3, a4, a5
<1>2. a1 \in Accumulator
  BY <1>1, HalveTyped DEF a1
<1>3. a2 \in Accumulator
  BY <1>2, HalveTyped DEF a2
<1>4. a3 \in Accumulator
  BY <1>3, HalveTyped DEF a3
<1>5. a4 \in Accumulator
  BY <1>4, HalveTyped DEF a4
<1>6. a5 \in Accumulator
  BY <1>5, HalveTyped DEF a5
<1>7. Log2(v) = a5.r
  BY Log2Steps DEF a0, a1, a2, a3, a4, a5
<1> QED BY <1>6, <1>7 DEF Accumulator

(* The bucket of a latency exists. *)
LEMMA BucketInRange == \A v \in Nat : BucketOf(v) \in Buckets
BY Log2Type, HistBucketsAssumption DEF BucketOf, Lesser, Buckets
-----------------------------------------------------------------------------
(* The initial states. *)
LEMMA InitInv == Init => Inv
<1> SUFFICES ASSUME Init PROVE Inv
  OBVIOUS
<1>1. NoNote \in Notes /\ NoReg \in Regs /\ ZeroHist \in Hist /\ 0 \in 0 .. MaxClock
  BY BoundsAssumption DEF NoNote, NoReg, Notes, Regs, ZeroHist, Hist
<1>2. Types
  BY <1>1 DEF Init, Types, Locations
<1>3. Held /\ Noted /\ Distinct
  BY DEF Init, Held, Noted, Distinct, Running
<1> QED BY <1>2, <1>3 DEF Inv

(* A note is written to a node no entry has. *)
LEMMA NoteInv ==
  ASSUME Inv, NEW t \in Tids, NEW nr \in Nrs, Note(t, nr),
         UNCHANGED <<lat, reg>>,
         \A u \in Tids : pc'[u] \in {"now", "load", "loadnr"} => pc'[u] = pc[u]
  PROVE  /\ start' \in [Tids -> StartNodes \cup {NoNode}]
         /\ snode' \in [StartNodes -> Notes]
         /\ Noted' /\ Distinct'
<1> USE DEF Inv, Types
<1>1. PICK n \in FreeStart :
        /\ start' = [start EXCEPT ![t] = n]
        /\ snode' = [snode EXCEPT ![n] = [ts |-> clock, nr |-> nr]]
  BY DEF Note
<1>2. n \in StartNodes /\ \A u \in Tids : start[u] # n
  BY DEF FreeStart
<1>3. [ts |-> clock, nr |-> nr] \in Notes
  BY DEF Notes
<1> QED
  <2>1. start' \in [Tids -> StartNodes \cup {NoNode}]
        /\ snode' \in [StartNodes -> Notes]
    BY <1>1, <1>2, <1>3
  <2>2. Distinct'
    BY <1>1, <1>2 DEF Distinct
  <2>3. \A m \in StartNodes : snode[m].nr \in Nrs => snode'[m].nr \in Nrs
    BY <1>1, <1>2
  <2>4. Noted'
    <3> SUFFICES ASSUME NEW u \in Tids
                 PROVE  /\ start'[u] # NoNode => snode'[start'[u]].nr \in Nrs
                        /\ pc'[u] \in {"now", "load", "loadnr"} =>
                             snode'[reg[u].start].nr \in Nrs
      BY DEF Noted
    <3>1. start'[u] # NoNode => snode'[start'[u]].nr \in Nrs
      <4>1. CASE u = t
        BY <1>1, <1>2, <4>1
      <4>2. CASE u # t
        BY <1>1, <2>3, <4>2 DEF Noted
      <4> QED BY <4>1, <4>2
    <3>2. pc[u] \in {"now", "load", "loadnr"} => snode'[reg[u].start].nr \in Nrs
      BY <2>3 DEF Noted, Held
    <3> QED BY <3>1, <3>2
  <2> QED BY <2>1, <2>2, <2>4

(* A histogram is seeded in a node no entry has. *)
LEMMA PutZeroInv ==
  ASSUME Inv, NEW k \in Nrs, PutZero(k)
  PROVE  /\ lat' \in [Nrs -> LatNodes \cup {NoNode}]
         /\ lnode' \in [LatNodes -> Hist]
         /\ \A i, j \in Nrs : lat'[i] = lat'[j] /\ lat'[i] # NoNode => i = j
         /\ lat'[k] # NoNode
         /\ \A j \in Nrs \ {k} :
              /\ lat'[j] = lat[j]
              /\ lat[j] # NoNode => lnode'[lat[j]] = lnode[lat[j]]
         /\ lnode'[lat'[k]] = ZeroHist
<1> USE DEF Inv, Types
<1>1. PICK n \in LatNodes \ {lat[j] : j \in Nrs} :
        lat' = [lat EXCEPT ![k] = n] /\ lnode' = [lnode EXCEPT ![n] = ZeroHist]
  BY DEF PutZero, FreeLat
<1>2. n \in LatNodes /\ n # NoNode /\ \A j \in Nrs : lat[j] # n
  BY NodesAssumption
<1>3. ZeroHist \in Hist
  BY DEF ZeroHist, Hist
<1> QED BY <1>1, <1>2, <1>3 DEF Distinct

(* One more in a bucket. *)
LEMMA HistPlus ==
  ASSUME NEW h \in Hist, NEW b \in Buckets
  PROVE  [h EXCEPT ![b] = @ + 1] \in Hist
BY DEF Hist

(* A step of a thread within its locations. *)
LEMMA GotoTyped ==
  ASSUME Types, NEW t \in Tids, NEW from, NEW to \in Locations,
         Goto(t, from, to)
  PROVE  pc' \in [Tids -> Locations]
BY DEF Types, Goto

(* An addition leaves the other nodes and buckets alone, and the histograms *)
(* histograms.                                                              *)
LEMMA AddInv ==
  ASSUME Inv, NEW t \in Tids, Add(t)
  PROVE  /\ reg[t].val \in LatNodes
         /\ lnode' \in [LatNodes -> Hist]
         /\ \A n \in LatNodes \ {reg[t].val} : lnode'[n] = lnode[n]
         /\ lnode'[reg[t].val] = [lnode[reg[t].val] EXCEPT ![Bucket(t)] = @ + 1]
         /\ Bucket(t) \in Buckets
<1> USE DEF Inv, Types
<1>1. pc[t] = "add" /\ reg[t].val \in LatNodes /\ reg[t].delta > 0
  BY DEF Add, Goto, Held, Running
<1>2. Bucket(t) \in Buckets
  BY <1>1, BucketInRange DEF Bucket, Regs
<1>3. lnode[reg[t].val] \in Hist
  BY <1>1
<1>4. [lnode[reg[t].val] EXCEPT ![Bucket(t)] = @ + 1] \in Hist
  BY <1>2, <1>3, HistPlus
<1>5. lnode' = [lnode EXCEPT ![reg[t].val] =
                  [lnode[reg[t].val] EXCEPT ![Bucket(t)] = @ + 1]]
  BY DEF Add
<1> HIDE DEF Bucket
<1> QED BY <1>1, <1>2, <1>4, <1>5

(* The call a run of sys_exit returned from is put into a bucket at most.   *)
LEMMA NowInv ==
  ASSUME Inv, NEW t \in Tids, Now(t)
  PROVE  done' \in [Nrs -> Hist]
<1> USE DEF Inv, Types
<1>1. CASE Returned(t, clock)
  <2> DEFINE k == call[t].nr  b == BucketOf(clock - call[t].ts)
  <2>1. k \in Nrs
    BY <1>1 DEF Returned, Notes
  <2>2. done' = [done EXCEPT ![k] = [done[k] EXCEPT ![b] = @ + 1]]
    BY <1>1 DEF Now
  <2>3. b \in Buckets
    <3>1. clock - call[t].ts \in Nat
      BY <1>1 DEF Returned, Notes
    <3> QED BY <3>1, BucketInRange
  <2> HIDE DEF b, k
  <2>4. [done[k] EXCEPT ![b] = @ + 1] \in Hist
    BY <2>1, <2>3, HistPlus
  <2> QED BY <2>1, <2>2, <2>4
<1>2. CASE ~Returned(t, clock)
  BY <1>2 DEF Now
<1> QED BY <1>1, <1>2

(* The invariant is inductive. *)
LEMMA NextInv == Inv /\ [Next]_vars => Inv'
<1> SUFFICES ASSUME Inv, [Next]_vars PROVE Inv'
  OBVIOUS
<1> USE DEF Inv, Types
<1>1. ASSUME Tick PROVE Inv'
  BY <1>1, BoundsAssumption DEF Tick, maps, bounds, Held, Noted, Distinct
<1>2. ASSUME NEW t \in Tids, NEW nr \in Nrs \cup {BadNr}, Enter(t, nr) PROVE Inv'
  <2>1. /\ pc' = [pc EXCEPT ![t] = "call"] /\ UNCHANGED <<lat, lnode, reg>>
        /\ call' \in [Tids -> Notes] /\ pc' \in [Tids -> Locations]
        /\ UNCHANGED <<clock, losses, done, reused>>
    BY <1>2 DEF Enter, Goto, Locations, Notes
  <2>2. Held'
    BY <2>1 DEF Held, Running
  <2>3. CASE nr = BadNr
    <3>1. UNCHANGED <<start, snode>>
      BY <1>2, <2>3 DEF Enter
    <3>2. Noted' /\ Distinct'
      BY <2>1, <3>1 DEF Noted, Distinct
    <3> QED BY <2>1, <2>2, <3>1, <3>2
  <2>4. CASE nr # BadNr
    <3>1. Note(t, nr) /\ nr \in Nrs
      BY <1>2, <2>4 DEF Enter
    <3>2. \A u \in Tids : pc'[u] \in {"now", "load", "loadnr"} => pc'[u] = pc[u]
      BY <2>1
    <3> QED BY <2>1, <2>2, <3>1, <3>2, NoteInv
  <2> QED BY <2>3, <2>4
<1>3. ASSUME NEW t \in Tids, Vanish(t) \/ Fork(t) PROVE Inv'
  <2>1. NoNote \in Notes
    BY BoundsAssumption DEF NoNote, Notes
  <2>2. \A u \in Tids :
         pc'[u] \in {"now", "load", "loadnr", "delete"} \cup Running =>
           pc'[u] = pc[u]
    BY <1>3 DEF Vanish, Fork, Goto, Running
  <2>3. Held' /\ Noted' /\ Distinct'
    BY <1>3, <2>2
    DEF Vanish, Fork, maps, bounds, Held, Noted, Distinct, Running
  <2> QED
    BY <1>3, <2>1, <2>3 DEF Vanish, Fork, Goto, Locations, maps, bounds
<1>4. ASSUME NEW t \in Tids, Leave(t) PROVE Inv'
  <2>1. Types'
    <3>1. reg' \in [Tids -> Regs]
      <4>1. /\ reg' = [reg EXCEPT ![t].start = start[t]]
            /\ start[t] \in StartNodes \cup {NoNode}
            /\ reg \in [Tids -> Regs]
        BY <1>4 DEF Leave
      <4> HIDE DEF Inv, Types
      <4> QED BY <4>1 DEF Regs
    <3>2. pc' \in [Tids -> Locations]
      BY <1>4 DEF Leave, Locations
    <3> QED BY <1>4, <3>1, <3>2 DEF Leave, maps, bounds
  <2>2. Held' /\ Noted' /\ Distinct'
    BY <1>4 DEF Leave, Held, Noted, Distinct, Running, maps, Regs
  <2> QED BY <2>1, <2>2
<1>5. ASSUME NEW t \in Tids, Now(t) PROVE Inv'
  <2>1. Types'
    <3>1. reg' \in [Tids -> Regs]
      <4>1. reg' = [reg EXCEPT ![t].now = clock]
        BY <1>5 DEF Now
      <4>2. clock \in 0 .. MaxClock /\ reg \in [Tids -> Regs]
        OBVIOUS
      <4> HIDE DEF Inv, Types
      <4> QED BY <4>1, <4>2 DEF Regs
    <3>2. pc' \in [Tids -> Locations]
      BY <1>5, GotoTyped DEF Now, Locations
    <3>3. UNCHANGED <<start, snode, lat, lnode, clock, losses, call, reused>>
      BY <1>5 DEF Now, maps, bounds
    <3> QED BY <1>5, <3>1, <3>2, <3>3, NowInv
  <2>2. Held' /\ Noted' /\ Distinct'
    BY <1>5 DEF Now, Goto, Held, Noted, Distinct, Running, maps, Regs
  <2> QED BY <2>1, <2>2
<1>6. ASSUME NEW t \in Tids, Load(t) \/ LoadNr(t) PROVE Inv'
  <2>1. /\ snode[reg[t].start] \in Notes /\ snode[reg[t].start].nr \in Nrs
    BY <1>6 DEF Load, LoadNr, Goto, Held, Noted
  <2>2. reg[t].now - snode[reg[t].start].ts \in -MaxClock .. MaxClock
    BY <2>1, BoundsAssumption DEF Regs, Notes
  <2>3. Types'
    <3>1. reg' \in [Tids -> Regs]
      <4> DEFINE delta == reg[t].now - snode[reg[t].start].ts
                 nr == snode[reg[t].start].nr
      <4>1. \/ reg' = [reg EXCEPT ![t].delta = delta]
            \/ reg' = [reg EXCEPT ![t].nr = nr]
        BY <1>6 DEF Load, LoadNr
      <4>2. delta \in -MaxClock .. MaxClock /\ nr \in Nrs /\ reg \in [Tids -> Regs]
        BY <2>1, <2>2
      <4> HIDE DEF delta, nr, Inv, Types
      <4>3. /\ [reg[t] EXCEPT !.delta = delta] \in Regs
            /\ [reg[t] EXCEPT !.nr = nr] \in Regs
        BY <4>2 DEF Regs
      <4>4. \/ reg' = [reg EXCEPT ![t] = [reg[t] EXCEPT !.delta = delta]]
            \/ reg' = [reg EXCEPT ![t] = [reg[t] EXCEPT !.nr = nr]]
        BY <4>1, <4>2 DEF Regs
      <4> QED BY <4>2, <4>3, <4>4
    <3>2. pc' \in [Tids -> Locations]
      BY <1>6, GotoTyped DEF Load, LoadNr, Locations
    <3>3. UNCHANGED <<start, snode, lat, lnode, clock, losses, call, done,
                      reused>>
      BY <1>6 DEF Load, LoadNr, maps, bounds
    <3> QED BY <3>1, <3>2, <3>3
  <2>4. Held' /\ Noted' /\ Distinct'
    <3>1. /\ UNCHANGED <<start, snode, lat, lnode>>
          /\ \/ pc[t] = "load" /\ pc'[t] = "loadnr"
             \/ pc'[t] = "delete" /\ reg'[t].nr = snode[reg[t].start].nr
          /\ pc[t] \in {"load", "loadnr"} /\ reg'[t].start = reg[t].start
          /\ \A u \in Tids \ {t} : pc'[u] = pc[u] /\ reg'[u] = reg[u]
      BY <1>6 DEF Load, LoadNr, Goto, maps, Regs
    <3>2. Held'
      BY <2>1, <3>1 DEF Held, Running
    <3>3. Noted' /\ Distinct'
      BY <3>1 DEF Noted, Distinct
    <3> QED BY <3>2, <3>3
  <2> QED BY <2>3, <2>4
<1>7. ASSUME NEW t \in Tids, Delete(t) PROVE Inv'
  <2>1. Types'
    <3>1. pc' \in [Tids -> Locations]
      BY <1>7, GotoTyped DEF Delete, Locations
    <3> QED BY <1>7, <3>1 DEF Delete, bounds
  <2>2. Held' /\ Noted' /\ Distinct'
    BY <1>7 DEF Delete, Goto, KeepsPositive, Held, Noted, Distinct, Running
  <2> QED BY <2>1, <2>2
<1>8. ASSUME NEW t \in Tids, Find(t) \/ Refind(t) PROVE Inv'
  <2>1. reg[t].nr \in Nrs
    BY <1>8 DEF Find, Refind, Goto, Held, Running
  <2>2. Types'
    <3>1. lat[reg[t].nr] \in LatNodes \cup {NoNode}
      BY <2>1
    <3>2. reg' \in [Tids -> Regs]
      <4> DEFINE n == lat[reg[t].nr]
      <4>1. reg' = [reg EXCEPT ![t].val = n] /\ reg \in [Tids -> Regs]
        BY <1>8 DEF Find, Refind
      <4> HIDE DEF n, Inv, Types
      <4> QED BY <3>1, <4>1 DEF Regs, n
    <3>3. pc' \in [Tids -> Locations]
      BY <1>8, GotoTyped DEF Find, Refind, Locations
    <3> QED BY <1>8, <3>2, <3>3 DEF Find, Refind, maps, bounds
  <2>3. /\ pc[t] \in Running /\ pc'[t] \in Running \cup {"user"}
        /\ pc'[t] = "add" => reg'[t].val \in LatNodes
        /\ reg'[t].nr = reg[t].nr /\ reg'[t].delta = reg[t].delta
        /\ \A u \in Tids \ {t} : pc'[u] = pc[u] /\ reg'[u] = reg[u]
    BY <1>8, <2>1 DEF Find, Refind, Goto, Running, Regs
  <2>4. Held' /\ Noted' /\ Distinct'
    BY <1>8, <2>3
    DEF Find, Refind, Held, Noted, Distinct, Running, maps
  <2> QED BY <2>2, <2>4
<1>9. ASSUME NEW t \in Tids, Seed(t) PROVE Inv'
  <2>1. reg[t].nr \in Nrs
    BY <1>9 DEF Seed, Goto, Held, Running
  <2>2. /\ lat' \in [Nrs -> LatNodes \cup {NoNode}]
        /\ lnode' \in [LatNodes -> Hist]
        /\ \A i, j \in Nrs : lat'[i] = lat'[j] /\ lat'[i] # NoNode => i = j
    <3>1. CASE PutZero(reg[t].nr)
      BY <2>1, <3>1, PutZeroInv
    <3>2. CASE UNCHANGED <<lat, lnode>>
      BY <3>2 DEF Distinct
    <3> QED BY <1>9, <3>1, <3>2 DEF Seed
  <2>3. Types' /\ Distinct'
    <3>1. pc' \in [Tids -> Locations]
      BY <1>9, GotoTyped DEF Seed, Locations
    <3>2. UNCHANGED <<start, snode, reg, clock, losses, call, done, reused>>
      BY <1>9 DEF Seed, bounds
    <3>3. lat' \in [Nrs -> LatNodes \cup {NoNode}] /\ lnode' \in [LatNodes -> Hist]
      BY <2>2
    <3> QED BY <2>2, <3>1, <3>2, <3>3 DEF Distinct
  <2>4. Held' /\ Noted'
    BY <1>9 DEF Seed, Goto, Held, Noted, Running
  <2> QED BY <2>3, <2>4
<1>10. ASSUME NEW t \in Tids, Add(t) PROVE Inv'
  <2>1. Types'
    <3>1. pc' \in [Tids -> Locations]
      BY <1>10, GotoTyped DEF Add, Locations
    <3>2. lnode' \in [LatNodes -> Hist]
      BY <1>10, AddInv
    <3>3. UNCHANGED <<start, snode, lat, reg, clock, losses, call, done,
                      reused>>
      BY <1>10 DEF Add, bounds
    <3> QED BY <3>1, <3>2, <3>3
  <2>2. Held' /\ Noted' /\ Distinct'
    BY <1>10 DEF Add, Goto, Held, Noted, Distinct, Running
  <2> QED BY <2>1, <2>2
<1>11. ASSUME NEW t \in Tids, EvictStart(t) PROVE Inv'
  BY <1>11 DEF EvictStart, Held, Noted, Distinct
<1>12. ASSUME NEW k \in Nrs, EvictLat(k) PROVE Inv'
  BY <1>12 DEF EvictLat, Held, Noted, Distinct
<1>13. ASSUME NEW t \in Tids, NEW nr \in Nrs \cup {BadNr}, EnterUnnoted(t, nr)
      PROVE  Inv'
  <2>1. /\ pc' = [pc EXCEPT ![t] = "call"] /\ call' \in [Tids -> Notes]
        /\ pc' \in [Tids -> Locations] /\ losses' \in Nat
        /\ UNCHANGED <<start, snode, lat, lnode, reg, clock, done, reused>>
    BY <1>13 DEF EnterUnnoted, Goto, Locations, Notes, maps
  <2>2. Held' /\ Noted' /\ Distinct'
    BY <2>1 DEF Held, Noted, Distinct, Running
  <2> QED BY <2>1, <2>2
<1>14. ASSUME NEW t \in Tids, SeedRefused(t) PROVE Inv'
  <2>1. /\ pc' \in [Tids -> Locations] /\ losses' \in Nat
        /\ UNCHANGED <<start, snode, lat, lnode, reg, clock, call, done, reused>>
    BY <1>14, GotoTyped DEF SeedRefused, Locations, maps
  <2>2. Held' /\ Noted' /\ Distinct'
    BY <1>14, <2>1 DEF SeedRefused, Goto, Held, Noted, Distinct, Running
  <2> QED BY <2>1, <2>2
<1>15. CASE UNCHANGED vars
  BY <1>15 DEF vars, maps, bounds, Held, Noted, Distinct
<1> QED
  BY <1>1, <1>2, <1>3, <1>4, <1>5, <1>6, <1>7, <1>8, <1>9, <1>10, <1>11,
     <1>12, <1>13, <1>14, <1>15
  DEF Next, Exits

(* The maps, the nodes and the runs of the programs keep their types, for   *)
(* any number of threads, system calls and nodes.                           *)
THEOREM TypeCorrect == Spec => []TypeOK
<1>1. Inv => TypeOK
  BY DEF Inv, Types, Held, TypeOK, Running
<1> QED BY <1>1, InitInv, NextInv, PTL DEF Spec
-----------------------------------------------------------------------------
(* What a poll can see of the map: the histograms that have an entry.       *)
Listed == {j \in Nrs : lat[j] # NoNode}
Seen   == [k \in Listed |-> lnode[lat[k]]]

(* A step that touches neither the index nor a node of the histograms.      *)
LEMMA SeenUnchanged ==
  ASSUME UNCHANGED <<lat, lnode>>
  PROVE  Seen' = Seen
BY DEF Seen, Listed

(* The refinement: every step appears to a poll as one of LatCounters, or   *)
(* as none.                                                                 *)
LEMMA SeedRefines ==
  ASSUME Inv, NEW t \in Tids, Seed(t)
  PROVE  Seen' = Seen \/ \E k \in Nrs : L!Seed(k)
<1>0. reg[t].nr \in Nrs
  BY DEF Seed, Goto, Inv, Held, Running
<1>1. PICK k \in Nrs : k = reg[t].nr
  BY <1>0
<1>2. CASE lat[k] = NoNode
  <2>1. /\ lat'[k] # NoNode /\ lnode'[lat'[k]] = ZeroHist
        /\ \A j \in Nrs \ {k} :
             /\ lat'[j] = lat[j]
             /\ lat[j] # NoNode => lnode'[lat[j]] = lnode[lat[j]]
    BY <1>1, <1>2, PutZeroInv DEF Seed
  <2>2. Listed' = Listed \cup {k} /\ k \notin Listed
    BY <1>1, <1>2, <2>1 DEF Listed
  <2>3. Seen' = L!Put(Seen, k, ZeroHist)
    BY <2>1, <2>2 DEF Seen, Listed, L!Put
  <2>4. k \notin DOMAIN Seen
    BY <2>2 DEF Seen
  <2>5. L!Seed(k)
    <3>1. L!ZeroHist = ZeroHist
      BY DEF L!ZeroHist, ZeroHist, L!Buckets, Buckets
    <3>2. L!Put(Seen, k, L!ZeroHist) = Seen'
      BY <2>3, <3>1
    <3> QED BY <2>4, <3>2 DEF L!Seed, Seen, Listed
  <2> QED BY <2>5
<1>3. CASE lat[k] # NoNode
  <2>1. UNCHANGED <<lat, lnode>>
    BY <1>1, <1>3 DEF Seed
  <2> QED BY <2>1, SeenUnchanged
<1> QED BY <1>2, <1>3

(* An addition to a bucket is one of LatCounters, or hits a node of no      *)
(* entry.                                                                   *)
LEMMA AddRefines ==
  ASSUME Inv, NEW t \in Tids, Add(t)
  PROVE  \/ Seen' = Seen
         \/ \E k \in Nrs, i \in Buckets :
              k \in DOMAIN Seen /\ Seen' = [Seen EXCEPT ![k][i] = @ + 1]
<1> DEFINE n == reg[t].val  i == Bucket(t)
<1>1. /\ lat' = lat /\ i \in Buckets
      /\ lnode'[n] = [lnode[n] EXCEPT ![i] = @ + 1]
      /\ \A m \in LatNodes \ {n} : lnode'[m] = lnode[m]
  BY AddInv DEF Add
<1>2. \A j \in Nrs : lat[j] # NoNode => lat[j] \in LatNodes
  BY DEF Inv, Types
<1>3. Listed' = Listed
  BY <1>1 DEF Listed
<1> HIDE DEF n, i
<1>4. CASE \E k \in Nrs : lat[k] = n /\ lat[k] # NoNode
  <2> PICK k \in Nrs : lat[k] = n /\ lat[k] # NoNode
    BY <1>4
  <2>1. k \in Listed /\ \A j \in Listed : j # k => lat[j] # n
    BY DEF Listed, Inv, Distinct
  <2>2. Seen[k] = lnode[n]
    BY <2>1 DEF Seen
  <2>3. Seen' = [Seen EXCEPT ![k] = [lnode[n] EXCEPT ![i] = @ + 1]]
    BY <1>1, <1>2, <1>3, <2>1 DEF Seen, Listed
  <2>4. Seen' = [Seen EXCEPT ![k][i] = @ + 1]
    BY <2>2, <2>3
  <2>5. k \in DOMAIN Seen /\ i \in Buckets
    BY <1>1, <2>1 DEF Seen
  <2> HIDE DEF Seen
  <2> QED BY <2>4, <2>5
<1>5. CASE ~ \E k \in Nrs : lat[k] = n /\ lat[k] # NoNode
  <2>1. \A k \in Listed : lnode'[lat'[k]] = lnode[lat[k]]
    BY <1>1, <1>2, <1>5 DEF Listed
  <2> QED BY <1>3, <2>1 DEF Seen
<1> QED BY <1>4, <1>5

(* An eviction is one of LatCounters. *)
LEMMA EvictRefines ==
  ASSUME Inv, NEW k \in Nrs, EvictLat(k)
  PROVE  L!Evict(k)
<1>1. lat' = [lat EXCEPT ![k] = NoNode] /\ lnode' = lnode /\ k \in Listed
  BY DEF EvictLat, Listed
<1>2. Listed' = Listed \ {k}
  BY <1>1 DEF Listed, Inv, Types
<1>3. Seen' = [j \in Listed \ {k} |-> Seen[j]]
  BY <1>1, <1>2 DEF Seen, Listed, Inv, Types
<1> QED BY <1>1, <1>3 DEF L!Evict, Seen, Listed

(* A poll sees histograms that appear empty, grow by one sample at a time   *)
(* and are never set back while their entry lives: SyscallLat implements    *)
(* LatCounters, which SyscallReport is checked against.                     *)
THEOREM Refinement == Spec => Counters
<1>1. Init => L!Init
  <2> SUFFICES ASSUME Init PROVE L!Init
    OBVIOUS
  <2>1. Listed = {}
    BY DEF Init, Listed
  <2>2. Seen = <<>>
    BY <2>1 DEF Seen
  <2> QED BY <2>2 DEF L!Init, Seen, Listed
<1>2. Inv /\ [Next]_vars => L!Next \/ Seen' = Seen
  <2> SUFFICES ASSUME Inv, [Next]_vars PROVE L!Next \/ Seen' = Seen
    OBVIOUS
  <2>1. ASSUME NEW t \in Tids, Seed(t) PROVE L!Next \/ Seen' = Seen
    BY <2>1, SeedRefines DEF L!Next
  <2>2. ASSUME NEW t \in Tids, Add(t) PROVE L!Next \/ Seen' = Seen
    <3>1. L!Buckets = Buckets
      BY DEF L!Buckets, Buckets
    <3>2. ASSUME NEW k \in Nrs, NEW i \in Buckets, k \in DOMAIN Seen,
                 Seen' = [Seen EXCEPT ![k][i] = @ + 1]
          PROVE  L!Next
      <4>1. L!AddSample(k, i)
        BY <3>2 DEF L!AddSample, Seen, Listed
      <4> QED BY <3>1, <4>1 DEF L!Next
    <3> QED BY <2>2, <3>2, AddRefines
  <2>3. ASSUME NEW k \in Nrs, EvictLat(k) PROVE L!Next \/ Seen' = Seen
    <3>1. L!Evict(k)
      BY <2>3, EvictRefines
    <3> QED BY <3>1 DEF L!Next
  <2>4. ASSUME ~ \E t \in Tids : Seed(t) \/ Add(t), ~ \E k \in Nrs : EvictLat(k)
        PROVE  UNCHANGED <<lat, lnode>>
    BY <2>4
    DEF Next, Exits, Tick, Vanish, Fork, Leave, Now, Load, LoadNr, Delete, Find,
        Refind, SeedRefused, EvictStart, Enter, EnterUnnoted, vars, maps
  <2> QED BY <2>1, <2>2, <2>3, <2>4, SeenUnchanged
<1>3. Seen = [k \in {j \in Nrs : lat[j] # NoNode} |-> lnode[lat[k]]]
  BY DEF Seen, Listed
<1>4. Inv /\ [Next]_vars => [L!Next]_[k \in {j \in Nrs : lat[j] # NoNode} |-> lnode[lat[k]]]
  BY <1>2 DEF Seen, Listed
<1> QED BY <1>1, <1>4, InitInv, NextInv, PTL DEF Spec, Counters, L!Spec
-----------------------------------------------------------------------------
(* Between its calls a thread has no note, and a new thread has entered no  *)
(* call.                                                                    *)
Unnoted ==
  \A t \in Tids :
    /\ pc[t] \in {"none", "user"} \cup Running => start[t] = NoNode
    /\ pc[t] = "call" /\ call[t].nr = BadNr => start[t] = NoNode
    /\ pc[t] = "fork" => call[t].nr = BadNr

(* While nothing is lost or recycled: the note is of the call the thread *)
(* is in, also through the pointer of a run of sys_exit, and the histogram  *)
(* a run has found or seeded is the system call's.                          *)
Clean == losses = 0 /\ reused = 0
JoinsCall(t) ==
  /\ pc[t] = "fork" => start[t] = NoNode
  /\ pc[t] = "call" /\ call[t].nr # BadNr =>
       start[t] # NoNode /\ snode[start[t]] = call[t]
  /\ pc[t] \in {"now", "load", "loadnr"} =>
       start[t] = reg[t].start /\ snode[reg[t].start] = call[t]
  /\ pc[t] = "loadnr" => reg[t].delta = reg[t].now - call[t].ts
FindsEntry(t) ==
  /\ pc[t] \in {"refind", "add"} => lat[reg[t].nr] # NoNode
  /\ pc[t] = "add" => reg[t].val = lat[reg[t].nr]
Joined == Unnoted /\ (Clean => \A t \in Tids : JoinsCall(t) /\ FindsEntry(t))

(* A step after which nothing has been evicted or recycled is one before    *)
(* which nothing had been.                                                  *)
LEMMA CleanBefore ==
  ASSUME Inv, [Next]_vars, Clean'
  PROVE  /\ Clean
         /\ ~ \E t \in Tids : EvictStart(t)
         /\ ~ \E k \in Nrs : EvictLat(k)
         /\ ~ \E t \in Tids : SeedRefused(t)
         /\ ~ \E t \in Tids, nr \in Nrs \cup {BadNr} : EnterUnnoted(t, nr)
         /\ \A t \in Tids : Fork(t) => pc[t] = "none"
<1> USE DEF Inv, Types
<1>1. losses' = 0 /\ reused' = 0 /\ losses \in Nat /\ reused \in Nat
  BY DEF Clean
<1>2. ~ \E t \in Tids : EvictStart(t)
  BY <1>1 DEF EvictStart
<1>3. ~ \E k \in Nrs : EvictLat(k)
  BY <1>1 DEF EvictLat
<1>4. \A t \in Tids : Fork(t) => pc[t] = "none"
  BY <1>1 DEF Fork, Goto
<1>5. ASSUME NEW t \in Tids, Fork(t) PROVE UNCHANGED <<losses, reused>>
  BY <1>4, <1>5 DEF Fork, Goto, bounds
<1>6. ~ \E t \in Tids : SeedRefused(t)
  BY <1>1 DEF SeedRefused
<1>7. ~ \E t \in Tids, nr \in Nrs \cup {BadNr} : EnterUnnoted(t, nr)
  BY <1>1 DEF EnterUnnoted
<1>8. UNCHANGED <<losses, reused>>
  BY <1>2, <1>3, <1>5, <1>6, <1>7
  DEF Next, Exits, Tick, Vanish, Leave, Now, Load, LoadNr, Delete, Find, Refind,
      Seed, Add, Enter, vars, bounds
<1> QED BY <1>1, <1>2, <1>3, <1>4, <1>6, <1>7, <1>8 DEF Clean

(* Between calls no thread comes to have a note. *)
LEMMA NextUnnoted ==
  ASSUME Inv, Unnoted, [Next]_vars
  PROVE  Unnoted'
<1> USE DEF Inv, Types
<1>1. ASSUME NEW t \in Tids, NEW nr \in Nrs \cup {BadNr}, Enter(t, nr)
      PROVE  Unnoted'
  <2>1. /\ pc' = [pc EXCEPT ![t] = "call"] /\ pc[t] = "user"
        /\ call' = [call EXCEPT ![t] = [ts |-> clock, nr |-> nr]]
    BY <1>1 DEF Enter, Goto
  <2>2. \A u \in Tids \ {t} : start'[u] = start[u]
    BY <1>1 DEF Enter, Note
  <2>3. nr = BadNr => start'[t] = NoNode
    BY <1>1, <2>1 DEF Enter, Unnoted
  <2> QED BY <2>1, <2>2, <2>3 DEF Unnoted, Running
<1>2. ASSUME NEW t \in Tids, Vanish(t) \/ Fork(t) PROVE Unnoted'
  BY <1>2 DEF Vanish, Fork, Goto, Unnoted, Running, NoNote, maps
<1>3. ASSUME NEW t \in Tids, Leave(t) \/ Now(t) \/ Load(t) \/ LoadNr(t)
      PROVE  Unnoted'
  <2>1. UNCHANGED <<start, call>>
    BY <1>3 DEF Leave, Now, Load, LoadNr, maps
  <2>2. /\ \A u \in Tids \ {t} : pc'[u] = pc[u]
        /\ pc'[t] \in {"user", "now", "load", "loadnr", "delete"}
        /\ pc'[t] = "user" => start[t] = NoNode
    BY <1>3 DEF Leave, Now, Load, LoadNr, Goto
  <2> QED BY <2>1, <2>2 DEF Unnoted, Running
<1>4. ASSUME NEW t \in Tids, Delete(t) PROVE Unnoted'
  BY <1>4 DEF Delete, Goto, Unnoted, Running
<1>5. ASSUME NEW t \in Tids,
             Find(t) \/ Seed(t) \/ SeedRefused(t) \/ Refind(t) \/ Add(t)
      PROVE  Unnoted'
  <2>1. UNCHANGED <<start, call>>
    BY <1>5 DEF Find, Seed, SeedRefused, Refind, Add, maps
  <2>2. /\ pc[t] \in Running /\ pc'[t] \in {"user"} \cup Running
        /\ \A u \in Tids \ {t} : pc'[u] = pc[u]
    BY <1>5 DEF Find, Seed, SeedRefused, Refind, Add, Goto, Running
  <2>3. start[t] = NoNode
    BY <2>2 DEF Unnoted
  <2> QED BY <2>1, <2>2, <2>3 DEF Unnoted, Running
<1>6. ASSUME NEW t \in Tids, EvictStart(t) PROVE Unnoted'
  BY <1>6 DEF EvictStart, Unnoted
<1>7. CASE Tick \/ (\E k \in Nrs : EvictLat(k)) \/ UNCHANGED vars
  BY <1>7 DEF Tick, EvictLat, vars, maps, Unnoted
<1>8. ASSUME NEW t \in Tids, NEW nr \in Nrs \cup {BadNr}, EnterUnnoted(t, nr)
      PROVE  Unnoted'
  BY <1>8 DEF EnterUnnoted, Goto, maps, Unnoted, Running
<1> QED
  BY <1>1, <1>2, <1>3, <1>4, <1>5, <1>6, <1>7, <1>8 DEF Next, Exits

(* A thread that does nothing keeps what it has joined with, unless another *)
(* one seeds or notes; and that leaves the nodes in use alone.              *)
LEMMA OthersJoined ==
  ASSUME Inv, NEW u \in Tids, JoinsCall(u), FindsEntry(u),
         pc'[u] = pc[u], reg'[u] = reg[u], call'[u] = call[u],
         start'[u] = start[u],
         start[u] # NoNode => snode'[start[u]] = snode[start[u]],
         pc[u] \in Running /\ lat[reg[u].nr] # NoNode =>
           lat'[reg[u].nr] = lat[reg[u].nr]
  PROVE  JoinsCall(u)' /\ FindsEntry(u)'
<1>1. pc[u] \in {"now", "load", "loadnr"} => reg[u].start # NoNode
  BY NodesAssumption DEF Inv, Held
<1>2. JoinsCall(u)'
  BY <1>1 DEF JoinsCall
<1> QED BY <1>2 DEF FindsEntry, Running

(* The join is kept by every step. *)
LEMMA NextJoined == Inv /\ Joined /\ [Next]_vars => Joined'
<1> SUFFICES ASSUME Inv, Joined, [Next]_vars, Clean'
             PROVE  \A t \in Tids : JoinsCall(t)' /\ FindsEntry(t)'
  BY NextUnnoted DEF Joined
<1>0. /\ Unnoted /\ \A t \in Tids : JoinsCall(t) /\ FindsEntry(t)
      /\ ~ \E t \in Tids : EvictStart(t)
      /\ ~ \E k \in Nrs : EvictLat(k)
      /\ ~ \E t \in Tids : SeedRefused(t)
      /\ ~ \E t \in Tids, nr \in Nrs \cup {BadNr} : EnterUnnoted(t, nr)
      /\ \A t \in Tids : Fork(t) => pc[t] = "none"
  BY CleanBefore DEF Joined
<1> DEFINE Goal == \A t \in Tids : JoinsCall(t)' /\ FindsEntry(t)'
<1> USE DEF Inv, Types
<1>1. ASSUME NEW t \in Tids, NEW nr \in Nrs \cup {BadNr}, Enter(t, nr) PROVE Goal
  <2>1. /\ pc' = [pc EXCEPT ![t] = "call"] /\ pc[t] = "user"
        /\ call' = [call EXCEPT ![t] = [ts |-> clock, nr |-> nr]]
        /\ UNCHANGED <<lat, reg>>
    BY <1>1 DEF Enter, Goto
  <2>2. CASE nr = BadNr
    <3>1. UNCHANGED <<start, snode>>
      BY <1>1, <2>2 DEF Enter
    <3>2. JoinsCall(t)' /\ FindsEntry(t)'
      BY <2>1, <2>2 DEF JoinsCall, FindsEntry
    <3>3. ASSUME NEW u \in Tids \ {t} PROVE JoinsCall(u)' /\ FindsEntry(u)'
      BY <1>0, <2>1, <3>1, OthersJoined
    <3> QED BY <3>2, <3>3
  <2>3. CASE nr # BadNr
    <3>1. PICK n \in FreeStart :
            /\ start' = [start EXCEPT ![t] = n]
            /\ snode' = [snode EXCEPT ![n] = [ts |-> clock, nr |-> nr]]
      BY <1>1, <2>3 DEF Enter, Note
    <3>2. n \in StartNodes /\ \A u \in Tids : start[u] # n
      BY DEF FreeStart
    <3>3. JoinsCall(t)' /\ FindsEntry(t)'
      BY <2>1, <3>1, <3>2, NodesAssumption DEF JoinsCall, FindsEntry
    <3>4. ASSUME NEW u \in Tids \ {t} PROVE JoinsCall(u)' /\ FindsEntry(u)'
      <4>1. start'[u] = start[u]
            /\ (start[u] # NoNode => snode'[start[u]] = snode[start[u]])
        BY <3>1, <3>2
      <4>2. pc'[u] = pc[u] /\ reg'[u] = reg[u] /\ call'[u] = call[u]
        BY <2>1
      <4> QED BY <1>0, <2>1, <4>1, <4>2, OthersJoined
    <3> QED BY <3>3, <3>4
  <2> QED BY <2>2, <2>3
<1>a. ASSUME NEW t \in Tids, UNCHANGED <<snode, lat>>,
             \A u \in Tids \ {t} :
               /\ pc'[u] = pc[u] /\ reg'[u] = reg[u]
               /\ call'[u] = call[u] /\ start'[u] = start[u],
             JoinsCall(t)' /\ FindsEntry(t)'
      PROVE  Goal
  BY <1>0, <1>a, OthersJoined
<1>2. ASSUME NEW t \in Tids, Vanish(t) \/ Fork(t) PROVE Goal
  <2>1. /\ UNCHANGED <<start, snode, lat, reg>>
        /\ \A u \in Tids \ {t} : pc'[u] = pc[u] /\ call'[u] = call[u]
        /\ pc'[t] = "gone" \/ (pc'[t] = "fork" /\ pc[t] = "none")
    BY <1>0, <1>2 DEF Vanish, Fork, Goto, maps
  <2>2. JoinsCall(t)' /\ FindsEntry(t)'
    BY <1>0, <2>1 DEF Unnoted, JoinsCall, FindsEntry
  <2> QED BY <1>a, <2>1, <2>2
<1>3. ASSUME NEW t \in Tids, Leave(t) PROVE Goal
  <2>1. /\ UNCHANGED <<start, snode, lat, call>>
        /\ \A u \in Tids \ {t} : pc'[u] = pc[u] /\ reg'[u] = reg[u]
        /\ pc[t] \in {"call", "fork"} /\ reg'[t].start = start[t]
        /\ IF start[t] = NoNode THEN pc'[t] = "user" ELSE pc'[t] = "now"
    BY <1>3 DEF Leave, maps, Regs
  <2>2. start[t] # NoNode => snode[start[t]] = call[t]
    BY <1>0, <2>1 DEF Unnoted, JoinsCall
  <2>3. JoinsCall(t)' /\ FindsEntry(t)'
    BY <2>1, <2>2 DEF JoinsCall, FindsEntry
  <2> QED BY <1>a, <2>1, <2>3
<1>4. ASSUME NEW t \in Tids, Now(t) \/ Load(t) \/ LoadNr(t) PROVE Goal
  <2>1. /\ UNCHANGED <<start, snode, lat, call>>
        /\ \A u \in Tids \ {t} : pc'[u] = pc[u] /\ reg'[u] = reg[u]
        /\ pc[t] \in {"now", "load", "loadnr"}
        /\ \/ pc'[t] \in {"load", "delete"}
           \/ /\ pc'[t] = "loadnr" /\ reg'[t].now = reg[t].now
              /\ reg'[t].delta = reg[t].now - snode[reg[t].start].ts
        /\ reg'[t].start = reg[t].start
    BY <1>4 DEF Now, Load, LoadNr, Goto, maps, Regs
  <2>2. JoinsCall(t)' /\ FindsEntry(t)'
    BY <1>0, <2>1 DEF JoinsCall, FindsEntry
  <2> QED BY <1>a, <2>1, <2>2
<1>5. ASSUME NEW t \in Tids, Delete(t) PROVE Goal
  <2>1. /\ UNCHANGED <<snode, lat, call, reg>>
        /\ \A u \in Tids \ {t} : pc'[u] = pc[u] /\ start'[u] = start[u]
        /\ pc'[t] \in {"find", "user"}
    BY <1>5 DEF Delete, Goto
  <2>2. JoinsCall(t)' /\ FindsEntry(t)'
    BY <2>1 DEF JoinsCall, FindsEntry
  <2> QED BY <1>a, <2>1, <2>2
<1>6. ASSUME NEW t \in Tids, Find(t) \/ Refind(t) PROVE Goal
  <2>1. /\ UNCHANGED <<start, snode, lat, call>>
        /\ \A u \in Tids \ {t} : pc'[u] = pc[u] /\ reg'[u] = reg[u]
        /\ pc'[t] \in {"seed", "user", "add"} /\ reg'[t].nr = reg[t].nr
        /\ reg'[t].val = lat[reg[t].nr]
        /\ pc'[t] = "add" => lat[reg[t].nr] # NoNode
    BY <1>6 DEF Find, Refind, Goto, maps, Regs
  <2>2. JoinsCall(t)' /\ FindsEntry(t)'
    BY <2>1 DEF JoinsCall, FindsEntry
  <2> QED BY <1>a, <2>1, <2>2
<1>7. ASSUME NEW t \in Tids, Seed(t) PROVE Goal
  <2>1. /\ UNCHANGED <<start, snode, call, reg>>
        /\ \A u \in Tids \ {t} : pc'[u] = pc[u]
        /\ pc'[t] = "refind" /\ pc[t] = "seed" /\ reg[t].nr \in Nrs
    BY <1>7 DEF Seed, Goto, Held, Running
  <2>2. /\ lat'[reg[t].nr] # NoNode
        /\ \A j \in Nrs : lat[j] # NoNode => lat'[j] = lat[j]
    <3>1. CASE lat[reg[t].nr] = NoNode
      BY <1>7, <2>1, <3>1, PutZeroInv DEF Seed
    <3>2. CASE lat[reg[t].nr] # NoNode
      BY <1>7, <3>2 DEF Seed
    <3> QED BY <3>1, <3>2
  <2>3. JoinsCall(t)' /\ FindsEntry(t)'
    BY <2>1, <2>2 DEF JoinsCall, FindsEntry
  <2>4. ASSUME NEW u \in Tids \ {t} PROVE JoinsCall(u)' /\ FindsEntry(u)'
    <3>1. pc[u] \in Running => reg[u].nr \in Nrs
      BY DEF Held
    <3> QED BY <1>0, <2>1, <2>2, <3>1, OthersJoined
  <2> QED BY <2>3, <2>4
<1>8. ASSUME NEW t \in Tids, Add(t) PROVE Goal
  <2>1. /\ UNCHANGED <<start, snode, lat, call, reg>>
        /\ \A u \in Tids \ {t} : pc'[u] = pc[u]
        /\ pc'[t] = "user"
    BY <1>8 DEF Add, Goto
  <2>2. JoinsCall(t)' /\ FindsEntry(t)'
    BY <2>1 DEF JoinsCall, FindsEntry
  <2> QED BY <1>a, <2>1, <2>2
<1>9. CASE Tick \/ UNCHANGED vars
  BY <1>0, <1>9 DEF Tick, vars, maps, JoinsCall, FindsEntry
<1> QED
  BY <1>0, <1>1, <1>2, <1>3, <1>4, <1>5, <1>6, <1>7, <1>8, <1>9
  DEF Next, Exits
-----------------------------------------------------------------------------
(* A thread's run of sys_exit is still to count in bucket i of k. *)
Due(t, k, i) ==
  \/ pc[t] = "delete" /\ reg[t].delta > 0 /\ reg[t].nr = k /\ Bucket(t) = i
  \/ pc[t] \in {"find", "seed", "refind", "add"} /\ reg[t].nr = k /\ Bucket(t) = i
  \/ pc[t] \in {"load", "loadnr"} /\ Returned(t, reg[t].now) /\ call[t].nr = k
     /\ BucketOf(reg[t].now - call[t].ts) = i

(* There are finitely many threads in any state. *)
LEMMA SubsetOfTids ==
  ASSUME NEW S \in SUBSET Tids
  PROVE  IsFiniteSet(S) /\ Cardinality(S) \in Nat
BY TidsAssumption, FS_Subset, FS_CardinalityType

(* A step of one thread changes what is pending by that thread's run. *)
LEMMA PendingChange ==
  ASSUME Inv, NEW t \in Tids, NEW k, NEW i,
         \A u \in Tids \ {t} :
           pc'[u] = pc[u] /\ reg'[u] = reg[u] /\ call'[u] = call[u]
  PROVE  /\ Pending(k, i) \in Nat
         /\ (Due(t, k, i)' <=> Due(t, k, i)) => Pending(k, i)' = Pending(k, i)
         /\ Due(t, k, i)' /\ ~Due(t, k, i) => Pending(k, i)' = Pending(k, i) + 1
         /\ ~Due(t, k, i)' /\ Due(t, k, i) => Pending(k, i)' = Pending(k, i) - 1
<1> DEFINE W == {u \in Tids : Due(u, k, i)}
<1>1. Pending(k, i) = Cardinality(W) /\ Pending(k, i)' = Cardinality(W')
  BY DEF Pending, Due
<1>2. ASSUME NEW u \in Tids, u # t PROVE Due(u, k, i)' <=> Due(u, k, i)
  BY <1>2 DEF Due, Bucket, Returned
<1>3. IsFiniteSet(W) /\ Cardinality(W) \in Nat
  BY SubsetOfTids
<1>4. CASE Due(t, k, i)' <=> Due(t, k, i)
  <2>1. W' = W
    BY <1>2, <1>4
  <2> QED BY <1>1, <1>3, <1>4, <2>1
<1>5. CASE Due(t, k, i)' /\ ~Due(t, k, i)
  <2>1. W' = W \cup {t} /\ t \notin W
    BY <1>2, <1>5
  <2> HIDE DEF W
  <2>2. Cardinality(W') = Cardinality(W) + 1
    BY <1>3, <2>1, FS_AddElement
  <2> QED BY <1>1, <1>3, <1>5, <2>2
<1>6. CASE ~Due(t, k, i)' /\ Due(t, k, i)
  <2>1. W' = W \ {t} /\ t \in W
    BY <1>2, <1>6
  <2> HIDE DEF W
  <2>2. Cardinality(W') = Cardinality(W) - 1
    BY <1>3, <2>1, FS_RemoveElement
  <2> QED BY <1>1, <1>3, <1>6, <2>2
<1> QED BY <1>1, <1>3, <1>4, <1>5, <1>6

(* What is counted and what returned are numbers. *)
LEMMA CountsTyped ==
  ASSUME Inv, NEW k \in Nrs, NEW i \in Buckets
  PROVE  Counted(k)[i] \in Nat /\ done[k][i] \in Nat
<1>1. ZeroHist \in Hist
  BY DEF ZeroHist, Hist
<1>2. Counted(k) \in Hist /\ done[k] \in Hist
  BY <1>1 DEF Counted, Inv, Types
<1> QED BY <1>2 DEF Hist

(* Every step keeps the count: what returns becomes due, what is due comes  *)
(* to be counted.                                                           *)
LEMMA NextCounted == Inv /\ Joined /\ EveryCallCounted /\ [Next]_vars
                       => EveryCallCounted'
<1> SUFFICES ASSUME Inv, Joined, EveryCallCounted, [Next]_vars, Clean',
                    NEW k \in Nrs, NEW i \in Buckets
             PROVE  Counted(k)'[i] + Pending(k, i)' = done'[k][i]
  BY DEF EveryCallCounted, Clean
<1>0. /\ Clean /\ \A t \in Tids : JoinsCall(t) /\ FindsEntry(t)
      /\ ~ \E t \in Tids : EvictStart(t)
      /\ ~ \E j \in Nrs : EvictLat(j)
      /\ ~ \E t \in Tids : SeedRefused(t)
      /\ ~ \E t \in Tids, nr \in Nrs \cup {BadNr} : EnterUnnoted(t, nr)
  BY CleanBefore DEF Joined
<1>1. Counted(k)[i] + Pending(k, i) = done[k][i]
  BY <1>0 DEF EveryCallCounted, Clean
<1>2. Counted(k)[i] \in Nat /\ done[k][i] \in Nat
  BY CountsTyped
<1> DEFINE Goal == Counted(k)'[i] + Pending(k, i)' = done'[k][i]
           OnlyBy(t) == \A u \in Tids \ {t} :
             pc'[u] = pc[u] /\ reg'[u] = reg[u] /\ call'[u] = call[u]
<1> USE DEF Inv, Types
<1>a. ASSUME UNCHANGED <<lat, lnode>> PROVE Counted(k)' = Counted(k)
  BY <1>a DEF Counted
(* The steps that count nothing, and after which as much is due. *)
<1>b. ASSUME NEW t \in Tids, OnlyBy(t), Due(t, k, i)' <=> Due(t, k, i),
             Counted(k)'[i] = Counted(k)[i], done' = done
      PROVE  Goal
  <2>1. Pending(k, i)' = Pending(k, i)
    BY <1>b, PendingChange
  <2> QED BY <1>1, <1>b, <2>1
<1>3. ASSUME NEW t \in Tids,
             \/ Vanish(t) \/ Fork(t) \/ Leave(t)
             \/ \E nr \in Nrs \cup {BadNr} : Enter(t, nr)
      PROVE  Goal
  <2>1. UNCHANGED <<lat, lnode, done>>
    BY <1>3 DEF Vanish, Fork, Leave, Enter, maps
  <2>2. OnlyBy(t)
    BY <1>3 DEF Vanish, Fork, Leave, Enter, Goto, maps
  <2>3. /\ pc[t] \in {"none", "gone", "user", "call", "fork"}
        /\ pc'[t] \in {"fork", "gone", "user", "call", "now"}
    BY <1>3 DEF Vanish, Fork, Leave, Enter, Goto
  <2>4. ~Due(t, k, i) /\ ~Due(t, k, i)'
    BY <2>3 DEF Due
  <2> QED BY <1>a, <1>b, <2>1, <2>2, <2>4
<1>4. ASSUME NEW t \in Tids, Now(t) PROVE Goal
  <2> DEFINE b == BucketOf(clock - call[t].ts)
  <2>1. /\ UNCHANGED <<lat, lnode, call, clock>> /\ OnlyBy(t)
        /\ pc[t] = "now" /\ pc'[t] = "load" /\ reg'[t].now = clock
    BY <1>4 DEF Now, Goto, maps, Regs
  <2>2. ~Due(t, k, i)
    BY <2>1 DEF Due
  <2>3. Due(t, k, i)' <=> Returned(t, clock) /\ call[t].nr = k /\ b = i
    BY <2>1 DEF Due, Returned
  <2>4. CASE Due(t, k, i)'
    <3>1. done' = [done EXCEPT ![k] = [done[k] EXCEPT ![i] = @ + 1]]
      BY <1>4, <2>3, <2>4 DEF Now
    <3>2. done[k] \in [Buckets -> Nat]
      BY DEF Hist
    <3>3. done'[k][i] = done[k][i] + 1
      BY <3>1, <3>2
    <3>4. Pending(k, i)' = Pending(k, i) + 1 /\ Pending(k, i) \in Nat
      BY <2>1, <2>2, <2>4, PendingChange
    <3> QED BY <1>1, <1>2, <1>a, <2>1, <3>3, <3>4
  <2>5. CASE ~Due(t, k, i)'
    <3>1. done'[k][i] = done[k][i]
      <4>1. CASE ~Returned(t, clock) \/ call[t].nr # k
        BY <1>4, <4>1 DEF Now
      <4>2. CASE Returned(t, clock) /\ call[t].nr = k
        <5>1. done' = [done EXCEPT ![k] = [done[k] EXCEPT ![b] = @ + 1]]
              /\ b # i
          BY <1>4, <2>3, <2>5, <4>2 DEF Now
        <5>2. done[k] \in [Buckets -> Nat]
          BY DEF Hist
        <5> HIDE DEF b
        <5> QED BY <5>1, <5>2
      <4> QED BY <4>1, <4>2
    <3>2. Pending(k, i)' = Pending(k, i)
      BY <2>1, <2>2, <2>5, PendingChange
    <3> QED BY <1>1, <1>a, <2>1, <3>1, <3>2
  <2> QED BY <2>4, <2>5
<1>5. ASSUME NEW t \in Tids, Load(t) PROVE Goal
  <2>1. /\ UNCHANGED <<lat, lnode, call, done>> /\ OnlyBy(t)
        /\ pc[t] = "load" /\ pc'[t] = "loadnr" /\ reg'[t].now = reg[t].now
    BY <1>5 DEF Load, Goto, maps, Regs
  <2>2. Due(t, k, i)' <=> Due(t, k, i)
    BY <2>1 DEF Due, Returned
  <2> QED BY <1>a, <1>b, <2>1, <2>2
<1>10. ASSUME NEW t \in Tids, LoadNr(t) PROVE Goal
  <2>1. /\ UNCHANGED <<lat, lnode, call, done>> /\ OnlyBy(t)
        /\ pc[t] = "loadnr" /\ pc'[t] = "delete"
        /\ reg'[t].delta = reg[t].delta
        /\ reg'[t].nr = snode[reg[t].start].nr
    BY <1>10 DEF LoadNr, Goto, maps, Regs
  <2>2. /\ snode[reg[t].start] = call[t] /\ call[t].nr \in Nrs
        /\ reg[t].delta = reg[t].now - call[t].ts
    BY <1>0, <2>1 DEF JoinsCall, Noted
  <2>3. reg[t].now \in Nat /\ call[t].ts \in Nat
    BY DEF Regs, Notes
  <2>4. reg[t].now > call[t].ts <=> reg[t].now - call[t].ts > 0
    BY <2>3
  <2>5. Due(t, k, i)' <=> Due(t, k, i)
    BY <2>1, <2>2, <2>4, NrsAssumption DEF Due, Returned, Bucket
  <2> QED BY <1>a, <1>b, <2>1, <2>5
<1>6. ASSUME NEW t \in Tids, Delete(t) PROVE Goal
  <2>1. /\ UNCHANGED <<lat, lnode, call, done, reg>> /\ OnlyBy(t)
        /\ pc[t] = "delete"
        /\ pc'[t] = IF reg[t].delta > 0 THEN "find" ELSE "user"
    BY <1>6 DEF Delete, Goto, KeepsPositive
  <2>2. Due(t, k, i)' <=> Due(t, k, i)
    BY <2>1 DEF Due, Bucket
  <2> QED BY <1>a, <1>b, <2>1, <2>2
<1>7. ASSUME NEW t \in Tids, Find(t) \/ Seed(t) \/ Refind(t) PROVE Goal
  <2>1. /\ UNCHANGED <<call, done>> /\ OnlyBy(t)
        /\ reg'[t].nr = reg[t].nr /\ reg'[t].delta = reg[t].delta
        /\ pc[t] \in {"find", "seed", "refind"} /\ reg[t].nr \in Nrs
        /\ pc'[t] \in {"seed", "refind", "add"}
    BY <1>0, <1>7
    DEF Find, Seed, Refind, Goto, FindsEntry, Regs, Held, Running
  <2>2. Due(t, k, i)' <=> Due(t, k, i)
    BY <2>1 DEF Due, Bucket
  <2>3. Counted(k)'[i] = Counted(k)[i]
    <3>1. CASE UNCHANGED <<lat, lnode>>
      BY <1>a, <3>1
    <3>2. CASE Seed(t) /\ lat[reg[t].nr] = NoNode
      BY <2>1, <3>2, PutZeroInv DEF Seed, Counted
    <3> QED BY <1>7, <3>1, <3>2 DEF Find, Seed, Refind, maps
  <2> QED BY <1>b, <2>1, <2>2, <2>3
<1>8. ASSUME NEW t \in Tids, Add(t) PROVE Goal
  <2> DEFINE n == reg[t].val  h == lnode[n]
  <2>1. /\ UNCHANGED <<lat, call, done, reg>> /\ OnlyBy(t)
        /\ pc[t] = "add" /\ pc'[t] = "user"
    BY <1>8 DEF Add, Goto
  <2>2. /\ n \in LatNodes /\ lnode'[n] = [h EXCEPT ![Bucket(t)] = @ + 1]
        /\ \A m \in LatNodes \ {n} : lnode'[m] = lnode[m]
    BY <1>8, AddInv
  <2>3. n = lat[reg[t].nr] /\ n # NoNode /\ reg[t].nr \in Nrs
    BY <1>0, <2>1 DEF FindsEntry, Held, Running
  <2>4. lat[k] = n <=> reg[t].nr = k
    BY <2>3 DEF Distinct
  <2>5. h \in [Buckets -> Nat]
    BY <2>2 DEF Hist
  <2>6. ~Due(t, k, i)' /\ (Due(t, k, i) <=> reg[t].nr = k /\ Bucket(t) = i)
    BY <2>1 DEF Due
  <2>7. CASE Due(t, k, i)
    <3>1. Counted(k) = h /\ Counted(k)' = [h EXCEPT ![i] = @ + 1]
      BY <2>1, <2>2, <2>3, <2>4, <2>6, <2>7 DEF Counted
    <3>2. Counted(k)'[i] = Counted(k)[i] + 1
      BY <2>5, <3>1
    <3>3. Pending(k, i)' = Pending(k, i) - 1 /\ Pending(k, i) \in Nat
      BY <2>1, <2>6, <2>7, PendingChange
    <3> QED BY <1>1, <1>2, <2>1, <3>2, <3>3
  <2>8. CASE ~Due(t, k, i)
    <3>1. Counted(k)'[i] = Counted(k)[i]
      <4>1. CASE reg[t].nr # k
        BY <2>1, <2>2, <2>4, <4>1 DEF Counted
      <4>2. CASE reg[t].nr = k
        <5>1. Bucket(t) # i /\ lat[k] = n
          BY <2>4, <2>6, <2>8, <4>2
        <5>2. Counted(k) = h /\ Counted(k)' = lnode'[n]
          BY <2>1, <2>3, <5>1 DEF Counted
        <5> HIDE DEF Bucket, h
        <5> QED BY <2>2, <2>5, <5>1, <5>2
      <4> QED BY <4>1, <4>2
    <3> QED BY <1>b, <2>1, <2>6, <2>8, <3>1
  <2> QED BY <2>7, <2>8
<1>9. CASE Tick \/ UNCHANGED vars
  <2>1. UNCHANGED <<lat, lnode, pc, reg, call, done>>
    BY <1>9 DEF Tick, vars, maps
  <2>2. Pending(k, i)' = Pending(k, i)
    BY <2>1 DEF Pending, Bucket, Returned
  <2> QED BY <1>1, <1>a, <2>1, <2>2
<1> QED
  BY <1>0, <1>3, <1>4, <1>5, <1>6, <1>7, <1>8, <1>9, <1>10 DEF Next, Exits

(* Nothing has returned at first. *)
LEMMA InitCounted == Init => Joined /\ EveryCallCounted
<1> SUFFICES ASSUME Init PROVE Joined /\ EveryCallCounted
  OBVIOUS
<1>1. Joined
  BY DEF Init, Joined, Unnoted, JoinsCall, FindsEntry, Running, NoNote
<1>2. ASSUME NEW k \in Nrs, NEW i \in Buckets
      PROVE  Counted(k)[i] + Pending(k, i) = done[k][i]
  <2>1. Counted(k)[i] = 0 /\ done[k][i] = 0
    BY DEF Init, Counted, ZeroHist
  <2>2. \A t \in Tids : ~Due(t, k, i)
    BY DEF Init, Due
  <2>3. Pending(k, i) = Cardinality({t \in Tids : Due(t, k, i)})
    BY DEF Pending, Due
  <2>4. Pending(k, i) = 0
    BY <2>2, <2>3, FS_EmptySet
  <2> QED BY <2>1, <2>4
<1> QED BY <1>1, <1>2 DEF EveryCallCounted

(* While nothing is evicted and no thread id is used again, every call that *)
(* returned is counted once, in the bucket of its latency, however the      *)
(* threads race for the first count of a system call.                       *)
THEOREM CallsAreCounted == Spec => []EveryCallCounted
<1> QED
  BY InitInv, NextInv, InitCounted, NextJoined, NextCounted, PTL DEF Spec
-----------------------------------------------------------------------------
(* The times a note and a run of sys_exit have are of the past. *)
Times == \A t \in Tids : call[t].ts <= clock /\ reg[t].now <= clock

(* A note that is joined with is not older than the call: if it is another  *)
(* thread's, in a node that was taken again, it is younger.                 *)
NotedLater ==
  \A t \in Tids :
    /\ pc[t] = "call" /\ start[t] # NoNode =>
         snode[start[t]].ts >= call[t].ts
    /\ pc[t] = "now" /\ call[t].nr # BadNr =>
         snode[reg[t].start].ts >= call[t].ts

(* The threads that can still count a call that is among those returned, or *)
(* one that a thread whose id was used again had noted.                     *)
Owes(t) ==
  \/ pc[t] = "fork" /\ start[t] # NoNode
  \/ pc[t] = "now" /\ call[t].nr = BadNr
  \/ pc[t] = "load" /\ reg[t].now > snode[reg[t].start].ts
  \/ pc[t] \in {"loadnr", "delete"} /\ reg[t].delta > 0
  \/ pc[t] \in Running
Owed == {t \in Tids : Owes(t)}

AllCounted  == SumOf([k \in Nrs |-> Total(Counted(k))], Nrs)
AllReturned == SumOf([k \in Nrs |-> Total(done[k])], Nrs)
Balance == AllCounted + Cardinality(Owed) <= AllReturned + reused

(* The sums as NothingCountedTwice writes them. *)
LEMMA AllIsSum ==
  /\ MapThenSumSet(LAMBDA k : Total(Counted(k)), Nrs) = AllCounted
  /\ MapThenSumSet(LAMBDA k : Total(done[k]), Nrs) = AllReturned
<1>1. ASSUME NEW g, \A k \in Nrs : g[k] = Total(Counted(k))
      PROVE  MapThenSumSet(LAMBDA k : Total(Counted(k)), Nrs) = SumOf(g, Nrs)
  <2> DEFINE A(sum) == sum = [s \in SUBSET Nrs |-> IF s = {} THEN 0
                         ELSE Total(Counted(Chosen(s))) + sum[s \ {Chosen(s)}]]
  <2>1. MapThenSumSet(LAMBDA k : Total(Counted(k)), Nrs) = (CHOOSE sum : A(sum))[Nrs]
    BY DEF MapThenSumSet, MapThenFoldSet, Chosen
  <2>2. \A sum : A(sum) <=> IsSumUpTo(sum, g, Nrs)
    <3>1. \A s \in SUBSET Nrs : s # {} => g[Chosen(s)] = Total(Counted(Chosen(s)))
      BY <1>1 DEF Chosen
    <3> QED BY <3>1 DEF IsSumUpTo
  <2>3. (CHOOSE sum : A(sum)) = CHOOSE sum : IsSumUpTo(sum, g, Nrs)
    <3> HIDE DEF A
    <3> QED BY <2>2
  <2> QED BY <2>1, <2>3, SumOfUnfolded
<1>2. ASSUME NEW g, \A k \in Nrs : g[k] = Total(done[k])
      PROVE  MapThenSumSet(LAMBDA k : Total(done[k]), Nrs) = SumOf(g, Nrs)
  <2> DEFINE A(sum) == sum = [s \in SUBSET Nrs |-> IF s = {} THEN 0
                         ELSE Total(done[Chosen(s)]) + sum[s \ {Chosen(s)}]]
  <2>1. MapThenSumSet(LAMBDA k : Total(done[k]), Nrs) = (CHOOSE sum : A(sum))[Nrs]
    BY DEF MapThenSumSet, MapThenFoldSet, Chosen
  <2>2. \A sum : A(sum) <=> IsSumUpTo(sum, g, Nrs)
    <3>1. \A s \in SUBSET Nrs : s # {} => g[Chosen(s)] = Total(done[Chosen(s)])
      BY <1>2 DEF Chosen
    <3> QED BY <3>1 DEF IsSumUpTo
  <2>3. (CHOOSE sum : A(sum)) = CHOOSE sum : IsSumUpTo(sum, g, Nrs)
    <3> HIDE DEF A
    <3> QED BY <2>2
  <2> QED BY <2>1, <2>3, SumOfUnfolded
<1> QED BY <1>1, <1>2 DEF AllCounted, AllReturned

(* The total of a histogram. *)
LEMMA TotalIs ==
  /\ \A h \in Hist : Total(h) \in Nat
  /\ Total(ZeroHist) = 0 /\ ZeroHist \in Hist
  /\ \A h \in Hist, b \in Buckets : Total([h EXCEPT ![b] = @ + 1]) = Total(h) + 1
<1>1. IsFiniteSet(Buckets)
  <2>1. 0 \in Int /\ HistBuckets - 1 \in Int
    BY HistBucketsAssumption
  <2> QED BY <2>1, FS_Interval DEF Buckets
<1>2. \A h : Total(h) = SumOf(h, Buckets)
  BY DEF Total, SumOver, SumOf
<1>3. \A h \in Hist : \A i \in Buckets : h[i] \in Nat /\ h[i] \in Int
  BY DEF Hist
<1>4. \A h \in Hist : Total(h) \in Nat
  BY <1>1, <1>2, <1>3, SumOfType
<1>5. Total(ZeroHist) = 0 /\ ZeroHist \in Hist
  <2>1. \A i \in Buckets : ZeroHist[i] = 0
    BY DEF ZeroHist
  <2> QED BY <1>1, <1>2, <2>1, SumOfZero DEF ZeroHist, Hist
<1>6. ASSUME NEW h \in Hist, NEW b \in Buckets
      PROVE  Total([h EXCEPT ![b] = @ + 1]) = Total(h) + 1
  <2> DEFINE g == [h EXCEPT ![b] = @ + 1]
  <2>1. g \in Hist
    BY HistPlus
  <2>2. g[b] = h[b] + 1 /\ \A i \in Buckets \ {b} : g[i] = h[i]
    BY DEF Hist
  <2> HIDE DEF g
  <2>3. \A i \in Buckets : h[i] \in Int /\ g[i] \in Int
    BY <1>3, <2>1
  <2>4. SumOf(g, Buckets) = SumOf(h, Buckets) + g[b] - h[b]
    BY <1>1, <2>2, <2>3, SumOfChange
  <2>5. SumOf(h, Buckets) \in Nat /\ h[b] \in Nat
    BY <1>2, <1>3, <1>4
  <2> QED BY <1>2, <2>2, <2>4, <2>5 DEF g
<1> QED BY <1>4, <1>5, <1>6

(* The sum over the system calls of totals, when one of them changes. *)
LEMMA AllChange ==
  ASSUME NEW g \in [Nrs -> Nat], NEW h \in [Nrs -> Nat], NEW k \in Nrs,
         \A j \in Nrs \ {k} : h[j] = g[j]
  PROVE  /\ SumOf(g, Nrs) \in Nat /\ SumOf(h, Nrs) \in Nat
         /\ SumOf(h, Nrs) = SumOf(g, Nrs) + h[k] - g[k]
<1>1. \A j \in Nrs : g[j] \in Int /\ h[j] \in Int /\ g[j] \in Nat /\ h[j] \in Nat
  OBVIOUS
<1>2. IsFiniteSet(Nrs)
  BY NrsAssumption
<1> QED BY <1>1, <1>2, SumOfType, SumOfChange

(* The totals of the two sums. *)
LEMMA AllTyped ==
  ASSUME Inv
  PROVE  /\ [k \in Nrs |-> Total(Counted(k))] \in [Nrs -> Nat]
         /\ [k \in Nrs |-> Total(done[k])] \in [Nrs -> Nat]
         /\ AllCounted \in Nat /\ AllReturned \in Nat
         /\ Cardinality(Owed) \in Nat /\ IsFiniteSet(Owed) /\ reused \in Nat
<1>1. \A k \in Nrs : Counted(k) \in Hist /\ done[k] \in Hist
  BY TotalIs DEF Counted, Inv, Types
<1>2. \A k \in Nrs : Total(Counted(k)) \in Nat /\ Total(done[k]) \in Nat
  BY <1>1, TotalIs
<1>3. IsFiniteSet(Nrs)
  BY NrsAssumption
<1> DEFINE c == [k \in Nrs |-> Total(Counted(k))]
           d == [k \in Nrs |-> Total(done[k])]
<1>4. \A k \in Nrs : c[k] \in Nat /\ d[k] \in Nat
  BY <1>2
<1>5. SumOf(c, Nrs) \in Nat /\ SumOf(d, Nrs) \in Nat
  <2> HIDE DEF c, d
  <2> QED BY <1>3, <1>4, SumOfType
<1>6. Owed \in SUBSET Tids
  BY DEF Owed
<1> QED
  BY <1>2, <1>5, <1>6, SubsetOfTids DEF AllCounted, AllReturned, Inv, Types

(* What a step of a thread makes the owing threads be. *)
LEMMA OwedChange ==
  ASSUME NEW t \in Tids,
         \A u \in Tids \ {t} : Owes(u)' => Owes(u)
  PROVE  /\ Cardinality(Owed)' <= Cardinality(Owed) + 1
         /\ (Owes(t)' => Owes(t)) => Cardinality(Owed)' <= Cardinality(Owed)
         /\ Owes(t) /\ ~Owes(t)' => Cardinality(Owed)' <= Cardinality(Owed) - 1
<1>0. IsFiniteSet(Owed) /\ Cardinality(Owed) \in Nat /\ Cardinality(Owed)' \in Nat
  <2>1. Owed \in SUBSET Tids /\ Owed' \in SUBSET Tids
    BY DEF Owed
  <2> HIDE DEF Owed
  <2> QED BY <2>1, SubsetOfTids
<1>1. CASE Owes(t)' => Owes(t)
  <2>1. Owed' \subseteq Owed
    BY <1>1 DEF Owed
  <2>2. Cardinality(Owed)' <= Cardinality(Owed)
    BY <1>0, <2>1, FS_Subset
  <2>3. ASSUME Owes(t), ~Owes(t)'
        PROVE  Cardinality(Owed)' <= Cardinality(Owed) - 1
    <3>1. Owed' \subseteq Owed \ {t} /\ t \in Owed
      BY <2>1, <2>3 DEF Owed
    <3>2. IsFiniteSet(Owed \ {t})
          /\ Cardinality(Owed \ {t}) = Cardinality(Owed) - 1
      BY <1>0, <3>1, FS_RemoveElement
    <3> QED BY <3>1, <3>2, FS_Subset
  <2> QED BY <1>0, <2>2, <2>3
<1>2. CASE Owes(t)' /\ ~Owes(t)
  <2>1. Owed' \subseteq Owed \cup {t} /\ t \notin Owed
    BY <1>2 DEF Owed
  <2>2. IsFiniteSet(Owed \cup {t})
        /\ Cardinality(Owed \cup {t}) = Cardinality(Owed) + 1
    BY <1>0, <2>1, FS_AddElement
  <2>3. Cardinality(Owed)' <= Cardinality(Owed) + 1
    BY <2>1, <2>2, FS_Subset
  <2> QED BY <1>2, <2>3
<1> QED BY <1>1, <1>2

(* What each step does to the two sums. *)
LEMMA SumsUnchanged ==
  ASSUME UNCHANGED <<lat, lnode>>
  PROVE  AllCounted' = AllCounted
BY DEF AllCounted, Counted

(* An addition to a bucket adds at most one to what the entries count. *)
LEMMA AddSums ==
  ASSUME Inv, NEW t \in Tids, Add(t)
  PROVE  AllCounted' <= AllCounted + 1
<1> DEFINE n == reg[t].val  g == [k \in Nrs |-> Total(Counted(k))]
           h == [k \in Nrs |-> Total(Counted(k)')]
<1>1. /\ lat' = lat /\ n \in LatNodes /\ Bucket(t) \in Buckets
      /\ lnode'[n] = [lnode[n] EXCEPT ![Bucket(t)] = @ + 1]
      /\ \A m \in LatNodes \ {n} : lnode'[m] = lnode[m]
  BY AddInv DEF Add
<1>2. lnode[n] \in Hist /\ \A k \in Nrs : lat[k] # NoNode => lat[k] \in LatNodes
  BY <1>1 DEF Inv, Types
<1>3. Total(lnode'[n]) = Total(lnode[n]) + 1 /\ Total(lnode[n]) \in Nat
  BY <1>1, <1>2, TotalIs
<1>4. AllCounted = SumOf(g, Nrs) /\ AllCounted' = SumOf(h, Nrs)
      /\ AllCounted \in Nat /\ g \in [Nrs -> Nat]
  BY AllTyped DEF AllCounted
<1>5. CASE \E k \in Nrs : lat[k] = n
  <2> PICK k \in Nrs : lat[k] = n
    BY <1>5
  <2>1. \A j \in Nrs \ {k} : lat[j] # n
    BY <1>1, NodesAssumption DEF Inv, Distinct
  <2>2. \A j \in Nrs \ {k} : h[j] = g[j]
    BY <1>1, <1>2, <2>1 DEF Counted
  <2>3. g[k] = Total(lnode[n]) /\ h[k] = Total(lnode'[n])
    BY <1>1, NodesAssumption DEF Counted
  <2>4. h \in [Nrs -> Nat]
    <3>1. \A j \in Nrs : h[j] \in Nat
      BY <1>3, <1>4, <2>2, <2>3
    <3> QED BY <3>1
  <2> HIDE DEF g, h
  <2>5. SumOf(h, Nrs) = SumOf(g, Nrs) + h[k] - g[k]
    BY <1>4, <2>2, <2>4, AllChange
  <2> QED BY <1>3, <1>4, <2>3, <2>5
<1>6. CASE ~ \E k \in Nrs : lat[k] = n
  <2>1. \A j \in Nrs : h[j] = g[j]
    BY <1>1, <1>2, <1>6 DEF Counted
  <2>2. h = g
    BY <2>1
  <2> HIDE DEF g, h
  <2> QED BY <1>4, <2>2
<1> QED BY <1>5, <1>6

(* A histogram that is seeded is empty: the entries count no more. *)
LEMMA SeedSums ==
  ASSUME Inv, NEW t \in Tids, Seed(t)
  PROVE  AllCounted' = AllCounted
<1>1. reg[t].nr \in Nrs
  BY DEF Seed, Goto, Inv, Held, Running
<1>2. \A k \in Nrs : Counted(k)' = Counted(k)
  BY <1>1, PutZeroInv DEF Seed, Counted
<1> QED BY <1>2 DEF AllCounted

(* An eviction takes the counts of an entry away. *)
LEMMA EvictSums ==
  ASSUME Inv, NEW k \in Nrs, EvictLat(k)
  PROVE  AllCounted' <= AllCounted
<1> DEFINE g == [j \in Nrs |-> Total(Counted(j))]
           h == [j \in Nrs |-> Total(Counted(j)')]
<1>1. AllCounted = SumOf(g, Nrs) /\ AllCounted' = SumOf(h, Nrs)
      /\ AllCounted \in Nat /\ g \in [Nrs -> Nat]
  BY AllTyped DEF AllCounted
<1>2. \A j \in Nrs \ {k} : h[j] = g[j]
  BY DEF EvictLat, Counted, Inv, Types
<1>3. h[k] = 0
  BY TotalIs DEF EvictLat, Counted, Inv, Types
<1>4. h \in [Nrs -> Nat]
  <2>1. \A j \in Nrs : h[j] \in Nat
    BY <1>1, <1>2, <1>3
  <2> QED BY <2>1
<1> HIDE DEF g, h
<1>5. SumOf(h, Nrs) = SumOf(g, Nrs) + h[k] - g[k]
  BY <1>1, <1>2, <1>4, AllChange
<1> QED BY <1>1, <1>3, <1>5

(* A return that is to be counted adds one to what there is to count. *)
LEMMA NowSums ==
  ASSUME Inv, NEW t \in Tids, Now(t)
  PROVE  AllReturned' = IF Returned(t, clock) THEN AllReturned + 1 ELSE AllReturned
<1>1. CASE ~Returned(t, clock)
  BY <1>1 DEF Now, AllReturned
<1>2. CASE Returned(t, clock)
  <2> DEFINE k == call[t].nr  b == BucketOf(clock - call[t].ts)
             g == [j \in Nrs |-> Total(done[j])]
             h == [j \in Nrs |-> Total(done'[j])]
  <2>1. k \in Nrs /\ clock - call[t].ts \in Nat
    BY <1>2 DEF Returned, Notes, Inv, Types
  <2>2. done' = [done EXCEPT ![k] = [done[k] EXCEPT ![b] = @ + 1]]
    BY <1>2 DEF Now
  <2>3. b \in Buckets /\ done[k] \in Hist
    BY <2>1, BucketInRange DEF Inv, Types
  <2>4. AllReturned = SumOf(g, Nrs) /\ AllReturned' = SumOf(h, Nrs)
        /\ AllReturned \in Nat /\ g \in [Nrs -> Nat]
    BY AllTyped DEF AllReturned
  <2> HIDE DEF k, b
  <2>5. done'[k] = [done[k] EXCEPT ![b] = @ + 1]
        /\ \A j \in Nrs \ {k} : done'[j] = done[j]
    BY <2>1, <2>2 DEF Inv, Types
  <2>6. h[k] = g[k] + 1 /\ g[k] \in Nat /\ \A j \in Nrs \ {k} : h[j] = g[j]
    BY <2>1, <2>3, <2>5, TotalIs
  <2>7. h \in [Nrs -> Nat]
    <3>1. \A j \in Nrs : h[j] \in Nat
      BY <2>4, <2>6
    <3> QED BY <3>1
  <2> HIDE DEF g, h
  <2>8. SumOf(h, Nrs) = SumOf(g, Nrs) + h[k] - g[k]
    BY <2>1, <2>4, <2>6, <2>7, AllChange
  <2> QED BY <1>2, <2>4, <2>6, <2>8
<1> QED BY <1>1, <1>2

(* The clock does not go back, and a note made in a node that is still held *)
(* by a pointer is later than what it replaces.                             *)
LEMMA NextTimes ==
  ASSUME Inv, Times, [Next]_vars
  PROVE  Times' /\ clock <= clock'
<1> USE DEF Inv, Types
<1>0. clock \in Nat /\ \A t \in Tids : call[t].ts \in Nat /\ reg[t].now \in Nat
  BY DEF Notes, Regs
<1>1. CASE Tick
  BY <1>0, <1>1 DEF Tick, Times
<1>2. ASSUME NEW t \in Tids, NEW nr \in Nrs \cup {BadNr}, Enter(t, nr)
      PROVE  Times' /\ clock <= clock'
  BY <1>0, <1>2 DEF Enter, Times
<1>6. ASSUME NEW t \in Tids, NEW nr \in Nrs \cup {BadNr}, EnterUnnoted(t, nr)
      PROVE  Times' /\ clock <= clock'
  BY <1>0, <1>6 DEF EnterUnnoted, Times
<1>3. ASSUME NEW t \in Tids, Fork(t) PROVE Times' /\ clock <= clock'
  BY <1>0, <1>3 DEF Fork, Times, NoNote
<1>4. ASSUME NEW t \in Tids, Exits(t) PROVE Times' /\ clock <= clock'
  <2>1. /\ UNCHANGED <<clock, call>>
        /\ \A u \in Tids : reg'[u].now \in {reg[u].now, clock}
    <3>0. reg \in [Tids -> Regs]
      OBVIOUS
    <3> HIDE DEF Inv, Types
    <3>1. CASE Leave(t)
      BY <3>0, <3>1 DEF Leave, Regs
    <3>2. CASE Now(t)
      BY <3>0, <3>2 DEF Now, Regs
    <3>3. CASE Load(t)
      BY <3>0, <3>3 DEF Load, Regs
    <3>4. CASE Find(t)
      BY <3>0, <3>4 DEF Find, Regs
    <3>5. CASE Refind(t)
      BY <3>0, <3>5 DEF Refind, Regs
    <3>6. CASE Delete(t) \/ Seed(t) \/ SeedRefused(t) \/ Add(t)
      BY <3>6 DEF Delete, Seed, SeedRefused, Add
    <3>7. CASE LoadNr(t)
      BY <3>0, <3>7 DEF LoadNr, Regs
    <3> QED BY <1>4, <3>1, <3>2, <3>3, <3>4, <3>5, <3>6, <3>7 DEF Exits
  <2> QED BY <1>0, <2>1 DEF Times
<1>5. CASE \/ \E t \in Tids : Vanish(t) \/ EvictStart(t)
           \/ \E k \in Nrs : EvictLat(k)
           \/ UNCHANGED vars
  BY <1>0, <1>5 DEF Vanish, EvictStart, EvictLat, vars, Times
<1> QED BY <1>1, <1>2, <1>3, <1>4, <1>5, <1>6 DEF Next

(* A note that sys_enter makes is of the present time, and leaves the notes *)
(* of the other threads alone.                                              *)
LEMMA NoteIsLater ==
  ASSUME Inv, Times, NEW t \in Tids, NEW nr, Note(t, nr)
  PROVE  /\ \A u \in Tids \ {t} : start'[u] = start[u]
         /\ start'[t] # NoNode /\ snode'[start'[t]].ts = clock
         /\ \A u \in Tids : start[u] # NoNode =>
              snode'[start[u]] = snode[start[u]]
         /\ \A m \in StartNodes : \/ snode'[m] = snode[m]
                                  \/ snode'[m].ts = clock
<1>1. PICK n \in FreeStart :
        /\ start' = [start EXCEPT ![t] = n]
        /\ snode' = [snode EXCEPT ![n] = [ts |-> clock, nr |-> nr]]
  BY DEF Note
<1>2. n \in StartNodes /\ \A u \in Tids : start[u] # n
  BY DEF FreeStart
<1> QED BY <1>1, <1>2, NodesAssumption DEF Inv, Types

(* Every step preserves that a note joined with is not older than the call. *)
LEMMA NextNotedLater ==
  ASSUME Inv, Times, NotedLater, Unnoted, [Next]_vars
  PROVE  NotedLater'
<1> USE DEF Inv, Types
<1>0. /\ clock \in Nat
      /\ \A t \in Tids : call[t].ts \in Nat /\ call[t].ts <= clock
      /\ \A t \in Tids : start[t] # NoNode => start[t] \in StartNodes
  BY DEF Notes, Times
<1>1. ASSUME NEW t \in Tids, NEW nr \in Nrs \cup {BadNr}, Enter(t, nr)
      PROVE  NotedLater'
  <2>1. /\ pc' = [pc EXCEPT ![t] = "call"] /\ reg' = reg /\ clock' = clock
        /\ call' = [call EXCEPT ![t] = [ts |-> clock, nr |-> nr]]
        /\ start[t] = NoNode
    BY <1>1 DEF Enter, Goto, Unnoted
  <2>2. CASE nr = BadNr
    <3>1. UNCHANGED <<start, snode>>
      BY <1>1, <2>2 DEF Enter
    <3> QED BY <2>1, <3>1 DEF NotedLater
  <2>3. CASE nr # BadNr
    <3>1. Note(t, nr)
      BY <1>1, <2>3 DEF Enter
    <3>2. /\ \A u \in Tids \ {t} : start'[u] = start[u]
          /\ start'[t] # NoNode /\ snode'[start'[t]].ts = clock
          /\ \A u \in Tids : start[u] # NoNode =>
               snode'[start[u]] = snode[start[u]]
          /\ \A m \in StartNodes : \/ snode'[m] = snode[m]
                                   \/ snode'[m].ts = clock
      BY <3>1, NoteIsLater
    <3>3. ASSUME NEW u \in Tids \ {t}
          PROVE  /\ pc'[u] = "call" /\ start'[u] # NoNode =>
                      snode'[start'[u]].ts >= call'[u].ts
                 /\ pc'[u] = "now" /\ call'[u].nr # BadNr =>
                      snode'[reg'[u].start].ts >= call'[u].ts
      <4>1. pc'[u] = pc[u] /\ call'[u] = call[u] /\ start'[u] = start[u]
        BY <2>1, <3>2
      <4>2. pc[u] = "call" /\ start[u] # NoNode =>
              snode'[start[u]].ts >= call[u].ts
        BY <3>2 DEF NotedLater
      <4>3. pc[u] = "now" /\ call[u].nr # BadNr =>
              snode'[reg[u].start].ts >= call[u].ts
        BY <1>0, <3>2 DEF NotedLater, Held
      <4> QED BY <2>1, <4>1, <4>2, <4>3
    <3>4. snode'[start'[t]].ts >= call'[t].ts
      BY <1>0, <2>1, <3>2
    <3> QED BY <2>1, <3>3, <3>4 DEF NotedLater
  <2> QED BY <2>2, <2>3
<1>2. ASSUME NEW t \in Tids, Leave(t) PROVE NotedLater'
  <2>1. /\ UNCHANGED <<start, snode, call>> /\ pc[t] \in {"call", "fork"}
        /\ pc' = [pc EXCEPT ![t] = IF start[t] = NoNode THEN "user" ELSE "now"]
        /\ reg' = [reg EXCEPT ![t].start = start[t]]
    BY <1>2 DEF Leave, maps
  <2>2. pc[t] = "fork" => call[t].nr = BadNr
    BY DEF Unnoted
  <2> QED BY <2>1, <2>2 DEF NotedLater, Regs
<1>3. ASSUME NEW t \in Tids,
             \/ Now(t) \/ Load(t) \/ LoadNr(t) \/ Delete(t) \/ Find(t)
             \/ Seed(t) \/ SeedRefused(t) \/ Refind(t) \/ Add(t)
             \/ Vanish(t) \/ Fork(t)
      PROVE  NotedLater'
  <2>1. /\ snode' = snode
        /\ \A u \in Tids \ {t} : /\ pc'[u] = pc[u] /\ reg'[u] = reg[u]
                                 /\ call'[u] = call[u] /\ start'[u] = start[u]
        /\ pc'[t] \notin {"call", "now"}
    BY <1>3
    DEF Now, Load, LoadNr, Delete, Find, Seed, SeedRefused, Refind, Add, Vanish,
        Fork, Goto, maps
  <2> QED BY <2>1 DEF NotedLater
<1>4. ASSUME NEW t \in Tids, EvictStart(t) PROVE NotedLater'
  BY <1>4 DEF EvictStart, NotedLater
<1>5. CASE Tick \/ (\E k \in Nrs : EvictLat(k)) \/ UNCHANGED vars
  BY <1>5 DEF Tick, EvictLat, vars, maps, NotedLater
<1>6. ASSUME NEW t \in Tids, NEW nr \in Nrs \cup {BadNr}, EnterUnnoted(t, nr)
      PROVE  NotedLater'
  <2>1. start[t] = NoNode
    BY <1>6 DEF EnterUnnoted, Goto, Unnoted
  <2> QED BY <1>6, <2>1 DEF EnterUnnoted, Goto, maps, NotedLater
<1> QED BY <1>1, <1>2, <1>3, <1>4, <1>5, <1>6 DEF Next, Exits

(* The sums are numbers. *)
SumsNat ==
  AllCounted \in Nat /\ AllReturned \in Nat /\ Cardinality(Owed) \in Nat

(* The sums are numbers. *)
LEMMA SumsTyped == Inv => SumsNat
BY AllTyped DEF SumsNat

(* The balance of the two sums is kept by every step. *)
LEMMA NextBalance ==
  ASSUME Inv, Times, NotedLater, Unnoted, Balance, [Next]_vars, SumsNat'
  PROVE  Balance'
<1> USE DEF Inv, Types
<1>0. /\ AllCounted \in Nat /\ AllReturned \in Nat /\ reused \in Nat
      /\ Cardinality(Owed) \in Nat
      /\ AllCounted + Cardinality(Owed) <= AllReturned + reused
      /\ Inv'
  BY AllTyped, NextInv DEF Balance
<1>1. AllCounted' \in Nat /\ AllReturned' \in Nat /\ Cardinality(Owed)' \in Nat
  BY DEF SumsNat
<1>a. ASSUME done' = done PROVE AllReturned' = AllReturned
  BY <1>a DEF AllReturned
<1>b. ASSUME AllCounted' <= AllCounted, AllReturned' = AllReturned,
             reused' = reused, Cardinality(Owed)' <= Cardinality(Owed)
      PROVE  Balance'
  BY <1>0, <1>1, <1>b DEF Balance
<1>2. ASSUME NEW t \in Tids, NEW nr \in Nrs \cup {BadNr}, Enter(t, nr)
      PROVE  Balance'
  <2>1. /\ UNCHANGED <<lat, lnode, done, reused, reg>>
        /\ \A u \in Tids \ {t} : pc'[u] = pc[u] /\ call'[u] = call[u]
        /\ pc'[t] = "call"
    BY <1>2 DEF Enter, Goto
  <2>2. ASSUME NEW u \in Tids \ {t}, Owes(u)' PROVE Owes(u)
    <3>1. /\ start'[u] = start[u]
          /\ pc[u] = "load" /\ reg[u].now > snode'[reg[u].start].ts =>
               reg[u].now > snode[reg[u].start].ts
      <4>1. CASE nr = BadNr
        BY <1>2, <4>1 DEF Enter
      <4>2. CASE nr # BadNr
        <5>1. Note(t, nr)
          BY <1>2, <4>2 DEF Enter
        <5>2. /\ start'[u] = start[u]
              /\ \A m \in StartNodes : \/ snode'[m] = snode[m]
                                       \/ snode'[m].ts = clock
          BY <5>1, NoteIsLater
        <5>3. reg[u].now <= clock /\ reg[u].now \in Nat /\ clock \in Nat
          BY DEF Times, Regs
        <5>4. pc[u] = "load" => reg[u].start \in StartNodes
          BY DEF Held
        <5> QED BY <5>2, <5>3, <5>4
      <4> QED BY <4>1, <4>2
    <3> QED BY <2>1, <2>2, <3>1 DEF Owes
  <2>3. ~Owes(t)'
    BY <2>1 DEF Owes, Running
  <2>4. Cardinality(Owed)' <= Cardinality(Owed)
    BY <2>2, <2>3, OwedChange
  <2>5. AllCounted' = AllCounted
    BY <2>1, SumsUnchanged
  <2> QED BY <1>0, <1>a, <1>b, <2>1, <2>4, <2>5
(* From here on no note is made. *)
<1>c. ASSUME NEW t \in Tids, snode' = snode,
             \A u \in Tids \ {t} : /\ pc'[u] = pc[u] /\ reg'[u] = reg[u]
                                   /\ call'[u] = call[u]
                                   /\ start'[u] \in {start[u], NoNode}
      PROVE  \A u \in Tids \ {t} : Owes(u)' => Owes(u)
  BY <1>c DEF Owes
<1>3. ASSUME NEW t \in Tids, Vanish(t) PROVE Balance'
  <2>1. /\ UNCHANGED <<lat, lnode, done, reused, snode, reg, call, start>>
        /\ \A u \in Tids \ {t} : pc'[u] = pc[u]
        /\ pc'[t] = "gone"
    BY <1>3 DEF Vanish, Goto, maps
  <2>2. ~Owes(t)'
    BY <2>1 DEF Owes, Running
  <2>3. Cardinality(Owed)' <= Cardinality(Owed)
    BY <1>c, <2>1, <2>2, OwedChange
  <2> QED BY <1>0, <1>a, <1>b, <2>1, <2>3, SumsUnchanged
<1>4. ASSUME NEW t \in Tids, Fork(t) PROVE Balance'
  <2>1. /\ UNCHANGED <<lat, lnode, done, snode, reg, start>>
        /\ \A u \in Tids \ {t} : pc'[u] = pc[u] /\ call'[u] = call[u]
        /\ pc'[t] = "fork"
        /\ \/ pc[t] = "none" /\ reused' = reused
           \/ reused' = reused + 1
    BY <1>4 DEF Fork, Goto, maps
  <2>2. \A u \in Tids \ {t} : Owes(u)' => Owes(u)
    BY <1>c, <2>1
  <2>3. AllCounted' = AllCounted /\ AllReturned' = AllReturned
    BY <1>a, <2>1, SumsUnchanged
  <2>4. CASE pc[t] = "none" /\ reused' = reused
    <3>1. ~Owes(t)'
      BY <2>1, <2>4 DEF Owes, Unnoted, Running
    <3>2. Cardinality(Owed)' <= Cardinality(Owed)
      BY <2>2, <3>1, OwedChange
    <3> QED BY <1>0, <1>b, <2>3, <2>4, <3>2
  <2>5. CASE reused' = reused + 1
    <3>1. Cardinality(Owed)' <= Cardinality(Owed) + 1
      BY <2>2, OwedChange
    <3> QED BY <1>0, <1>1, <2>3, <2>5, <3>1 DEF Balance
  <2> QED BY <2>1, <2>4, <2>5
<1>5. ASSUME NEW t \in Tids, Leave(t) PROVE Balance'
  <2>1. /\ UNCHANGED <<lat, lnode, done, reused, snode, call, start>>
        /\ \A u \in Tids \ {t} : pc'[u] = pc[u] /\ reg'[u] = reg[u]
        /\ pc[t] \in {"call", "fork"}
        /\ IF start[t] = NoNode THEN pc'[t] = "user" ELSE pc'[t] = "now"
    BY <1>5 DEF Leave, maps
  <2>2. Owes(t)' => Owes(t)
    BY <2>1 DEF Owes, Unnoted, Running
  <2>3. Cardinality(Owed)' <= Cardinality(Owed)
    BY <1>c, <2>1, <2>2, OwedChange
  <2> QED BY <1>0, <1>a, <1>b, <2>1, <2>3, SumsUnchanged
<1>6. ASSUME NEW t \in Tids, Now(t) PROVE Balance'
  <2>1. /\ UNCHANGED <<lat, lnode, reused, snode, call, start>>
        /\ \A u \in Tids \ {t} : pc'[u] = pc[u] /\ reg'[u] = reg[u]
        /\ pc[t] = "now" /\ pc'[t] = "load"
        /\ reg'[t].start = reg[t].start /\ reg'[t].now = clock
    BY <1>6 DEF Now, Goto, maps, Regs
  <2>2. \A u \in Tids \ {t} : Owes(u)' => Owes(u)
    BY <1>c, <2>1
  <2>3. AllCounted' = AllCounted
    BY <2>1, SumsUnchanged
  <2>4. AllReturned' = IF Returned(t, clock) THEN AllReturned + 1
                                             ELSE AllReturned
    BY <1>6, NowSums
  <2>5. CASE Returned(t, clock)
    <3>1. Cardinality(Owed)' <= Cardinality(Owed) + 1
      BY <2>2, OwedChange
    <3> QED BY <1>0, <1>1, <2>1, <2>3, <2>4, <2>5, <3>1 DEF Balance
  <2>6. CASE ~Returned(t, clock)
    <3>1. Owes(t)' => Owes(t)
      <4>1. Owes(t)' => clock > snode[reg[t].start].ts
        BY <2>1 DEF Owes, Running
      <4>2. call[t].nr # BadNr => snode[reg[t].start].ts >= call[t].ts
        BY <2>1 DEF NotedLater
      <4>3. /\ clock \in Nat /\ call[t].ts \in Nat
            /\ snode[reg[t].start].ts \in Nat
        BY <2>1 DEF Notes, Held
      <4> QED BY <2>1, <2>6, <4>1, <4>2, <4>3 DEF Owes, Returned
    <3>2. Cardinality(Owed)' <= Cardinality(Owed)
      BY <2>2, <3>1, OwedChange
    <3> QED BY <1>0, <1>b, <2>1, <2>3, <2>4, <2>6, <3>2
  <2> QED BY <2>5, <2>6
<1>7. ASSUME NEW t \in Tids, Load(t) PROVE Balance'
  <2>1. /\ UNCHANGED <<lat, lnode, done, reused, snode, call, start>>
        /\ \A u \in Tids \ {t} : pc'[u] = pc[u] /\ reg'[u] = reg[u]
        /\ pc[t] = "load" /\ pc'[t] = "loadnr"
        /\ reg'[t].delta = reg[t].now - snode[reg[t].start].ts
    BY <1>7 DEF Load, Goto, maps, Regs
  <2>2. reg[t].now \in Nat /\ snode[reg[t].start].ts \in Nat
    BY <2>1 DEF Regs, Notes, Held
  <2>3. Owes(t)' => Owes(t)
    BY <2>1, <2>2 DEF Owes, Running
  <2>4. Cardinality(Owed)' <= Cardinality(Owed)
    BY <1>c, <2>1, <2>3, OwedChange
  <2> QED BY <1>0, <1>a, <1>b, <2>1, <2>4, SumsUnchanged
<1>13. ASSUME NEW t \in Tids, LoadNr(t) PROVE Balance'
  <2>1. /\ UNCHANGED <<lat, lnode, done, reused, snode, call, start>>
        /\ \A u \in Tids \ {t} : pc'[u] = pc[u] /\ reg'[u] = reg[u]
        /\ pc[t] = "loadnr" /\ pc'[t] = "delete" /\ reg'[t].delta = reg[t].delta
    BY <1>13 DEF LoadNr, Goto, maps, Regs
  <2>2. Owes(t)' => Owes(t)
    BY <2>1 DEF Owes, Running
  <2>3. Cardinality(Owed)' <= Cardinality(Owed)
    BY <1>c, <2>1, <2>2, OwedChange
  <2> QED BY <1>0, <1>a, <1>b, <2>1, <2>3, SumsUnchanged
<1>14. ASSUME NEW t \in Tids, NEW nr \in Nrs \cup {BadNr}, EnterUnnoted(t, nr)
      PROVE  Balance'
  <2>1. /\ UNCHANGED <<lat, lnode, done, reused, snode, reg, start>>
        /\ \A u \in Tids \ {t} : pc'[u] = pc[u] /\ call'[u] = call[u]
        /\ pc'[t] = "call"
    BY <1>14 DEF EnterUnnoted, Goto, maps
  <2>2. ~Owes(t)'
    BY <2>1 DEF Owes, Running
  <2>3. Cardinality(Owed)' <= Cardinality(Owed)
    BY <1>c, <2>1, <2>2, OwedChange
  <2> QED BY <1>0, <1>a, <1>b, <2>1, <2>3, SumsUnchanged
<1>8. ASSUME NEW t \in Tids,
             Delete(t) \/ Find(t) \/ Seed(t) \/ SeedRefused(t) \/ Refind(t)
      PROVE  Balance'
  <2>1. /\ UNCHANGED <<done, reused, snode, call>>
        /\ \A u \in Tids \ {t} : /\ pc'[u] = pc[u] /\ reg'[u] = reg[u]
                                 /\ start'[u] = start[u]
    BY <1>8 DEF Delete, Find, Seed, SeedRefused, Refind, Goto, maps
  <2>2. Owes(t)' => Owes(t)
    BY <1>8
    DEF Delete, KeepsPositive, Find, Seed, SeedRefused, Refind, Goto, Owes,
        Running
  <2>3. Cardinality(Owed)' <= Cardinality(Owed)
    BY <1>c, <2>1, <2>2, OwedChange
  <2>4. AllCounted' = AllCounted
    <3>1. CASE Seed(t)
      BY <3>1, SeedSums
    <3>2. CASE ~Seed(t)
      BY <1>8, <3>2, SumsUnchanged DEF Delete, Find, SeedRefused, Refind, maps
    <3> QED BY <3>1, <3>2
  <2> QED BY <1>0, <1>a, <1>b, <2>1, <2>3, <2>4
<1>9. ASSUME NEW t \in Tids, Add(t) PROVE Balance'
  <2>1. /\ UNCHANGED <<done, reused, snode, call, reg, start>>
        /\ \A u \in Tids \ {t} : pc'[u] = pc[u]
        /\ pc[t] = "add" /\ pc'[t] = "user"
    BY <1>9 DEF Add, Goto
  <2>2. Owes(t) /\ ~Owes(t)'
    BY <2>1 DEF Owes, Running
  <2>3. Cardinality(Owed)' <= Cardinality(Owed) - 1
    BY <1>c, <2>1, <2>2, OwedChange
  <2>4. AllCounted' <= AllCounted + 1
    BY <1>9, AddSums
  <2> QED BY <1>0, <1>1, <1>a, <2>1, <2>3, <2>4 DEF Balance
<1>10. ASSUME NEW t \in Tids, EvictStart(t) PROVE Balance'
  <2>1. /\ UNCHANGED <<lat, lnode, done, reused, snode, call, reg, pc>>
        /\ \A u \in Tids : start'[u] \in {start[u], NoNode}
    BY <1>10 DEF EvictStart
  <2>2. Owes(t)' => Owes(t)
    BY <2>1 DEF Owes
  <2>3. Cardinality(Owed)' <= Cardinality(Owed)
    BY <1>c, <2>1, <2>2, OwedChange
  <2> QED BY <1>0, <1>a, <1>b, <2>1, <2>3, SumsUnchanged
<1>11. ASSUME NEW k \in Nrs, EvictLat(k) PROVE Balance'
  <2>1. /\ UNCHANGED <<done, reused, snode, call, reg, start, pc>>
        /\ AllCounted' <= AllCounted
    BY <1>11, EvictSums DEF EvictLat
  <2>2. Owed' = Owed
    BY <2>1 DEF Owed, Owes
  <2> QED BY <1>0, <1>a, <1>b, <2>1, <2>2
<1>12. CASE Tick \/ UNCHANGED vars
  <2>1. UNCHANGED <<lat, lnode, done, reused, snode, call, reg, start, pc>>
    BY <1>12 DEF Tick, vars, maps
  <2>2. Owed' = Owed
    BY <2>1 DEF Owed, Owes
  <2> QED BY <1>0, <1>a, <1>b, <2>1, <2>2, SumsUnchanged
<1> QED
  BY <1>2, <1>3, <1>4, <1>5, <1>6, <1>7, <1>8, <1>9, <1>10, <1>11, <1>12,
     <1>13, <1>14
  DEF Next, Exits

(* At first nothing is counted, nothing has returned and no thread owes. *)
LEMMA InitBalance == Init => Times /\ NotedLater /\ Unnoted /\ Balance
<1> SUFFICES ASSUME Init PROVE Times /\ NotedLater /\ Unnoted /\ Balance
  OBVIOUS
<1>1. Times /\ NotedLater /\ Unnoted
  BY DEF Init, Times, NotedLater, Unnoted, NoNote, NoReg, Running
<1>2. Owed = {}
  BY DEF Init, Owed, Owes, Running
<1>3. AllCounted = AllReturned
  BY DEF Init, AllCounted, AllReturned, Counted
<1>4. AllCounted \in Nat /\ AllReturned \in Nat
  BY InitInv, AllTyped
<1>5. Cardinality(Owed) = 0 /\ reused = 0
  BY <1>2, FS_EmptySet DEF Init
<1> QED BY <1>1, <1>3, <1>4, <1>5 DEF Balance

(* Whatever is evicted or recycled, no call is counted twice, and the note  *)
(* a dead thread left is counted at most once, when a new thread has its    *)
(* id.                                                                      *)
THEOREM CountedAtMostOnce == Spec => []NothingCountedTwice
<1>1. Inv /\ Balance => NothingCountedTwice
  <2> SUFFICES ASSUME Inv, Balance PROVE NothingCountedTwice
    OBVIOUS
  <2>1. AllCounted <= AllReturned + reused
    BY AllTyped DEF Balance
  <2> QED BY <2>1, AllIsSum DEF NothingCountedTwice
<1>2. Inv /\ Times /\ NotedLater /\ Unnoted /\ Balance /\ [Next]_vars
        /\ SumsNat' => Times' /\ NotedLater' /\ Unnoted' /\ Balance'
  BY NextTimes, NextNotedLater, NextUnnoted, NextBalance
<1> QED
  BY <1>1, <1>2, InitInv, NextInv, InitBalance, SumsTyped, PTL DEF Spec
-----------------------------------------------------------------------------
(* The recursion behind 1 << i has a solution. *)
LEMMA Pow2Exists ==
  \E f : f = [i \in Nat |-> IF i = 0 THEN 1 ELSE 2 * f[i - 1]]
<1> DEFINE Step(g, i) == IF i = 0 THEN 1 ELSE 2 * g[i - 1]
           Is(g, n) == g = [i \in 0 .. n |-> Step(g, i)]
           Solved(n) == \E g : Is(g, n)
           F(n) == CHOOSE g : Is(g, n)
           f == [n \in Nat |-> F(n)[n]]
<1>1. Solved(0)
  <2> DEFINE g == [i \in 0 .. 0 |-> 1]
  <2>1. \A i \in 0 .. 0 : i = 0
    OBVIOUS
  <2>2. Is(g, 0)
    BY <2>1
  <2> QED BY <2>2
<1>2. ASSUME NEW n \in Nat, Solved(n) PROVE Solved(n + 1)
  <2>1. PICK old : Is(old, n)
    BY <1>2
  <2> DEFINE g == [i \in 0 .. n + 1 |-> Step(old, i)]
  <2>2. \A i \in 0 .. n : i \in 0 .. n + 1 /\ g[i] = old[i]
    BY <2>1
  <2>3. \A i \in 0 .. n + 1 : i # 0 => i - 1 \in 0 .. n
    OBVIOUS
  <2>4. \A i \in 0 .. n + 1 : Step(g, i) = Step(old, i)
    <3> HIDE DEF g
    <3> QED BY <2>2, <2>3
  <2>5. Is(g, n + 1)
    <3> HIDE DEF Step
    <3> QED BY <2>4
  <2> QED BY <2>5
<1>3. \A n \in Nat : Solved(n)
  <2> DEFINE Bad == {n \in Nat : ~Solved(n)}
  <2> HIDE DEF Solved
  <2> SUFFICES ASSUME Bad # {} PROVE FALSE
    OBVIOUS
  <2>1. PICK n \in Bad : \A m \in Nat : m < n => m \notin Bad
    BY SmallestNumber
  <2>2. n \in Nat /\ n # 0
    BY <1>1
  <2>3. n - 1 \in Nat /\ n - 1 < n /\ (n - 1) + 1 = n
    BY <2>2
  <2>4. Solved(n - 1)
    BY <2>1, <2>3
  <2>5. Solved((n - 1) + 1)
    BY <1>2, <2>3, <2>4
  <2> QED BY <2>1, <2>3, <2>5
<1>4. \A n \in Nat : \A i \in 0 .. n :
        F(n)[i] = IF i = 0 THEN 1 ELSE 2 * F(n)[i - 1]
  <2> SUFFICES ASSUME NEW n \in Nat
               PROVE  \A i \in 0 .. n : F(n)[i] = Step(F(n), i)
    OBVIOUS
  <2>1. Is(F(n), n)
    BY <1>3
  <2> HIDE DEF F, Step
  <2> QED BY <2>1
<1> HIDE DEF F
<1>5. ASSUME NEW n \in Nat PROVE \A i \in 0 .. n : F(n + 1)[i] = F(n)[i]
  <2> DEFINE Bad == {i \in 0 .. n : F(n + 1)[i] # F(n)[i]}
  <2> SUFFICES ASSUME Bad # {} PROVE FALSE
    OBVIOUS
  <2>1. PICK i \in Bad : \A m \in Nat : m < i => m \notin Bad
    <3>1. Bad \in SUBSET Nat
      OBVIOUS
    <3> HIDE DEF Bad
    <3> QED BY <3>1, SmallestNumber
  <2>2. i \in 0 .. n /\ i \in 0 .. n + 1 /\ n + 1 \in Nat
    OBVIOUS
  <2>3. i # 0
    BY <1>4, <2>1, <2>2
  <2>4. i - 1 \in Nat /\ i - 1 < i /\ i - 1 \in 0 .. n
    BY <2>2, <2>3
  <2>5. F(n + 1)[i - 1] = F(n)[i - 1]
    BY <2>1, <2>4
  <2> QED BY <1>4, <2>1, <2>2, <2>3, <2>5
<1>6. \A n \in Nat : f[n] = Step(f, n)
  <2> SUFFICES ASSUME NEW n \in Nat PROVE f[n] = Step(f, n)
    OBVIOUS
  <2>1. n \in 0 .. n
    OBVIOUS
  <2>2. CASE n = 0
    BY <1>4, <2>1, <2>2
  <2>3. CASE n # 0
    <3>1. n - 1 \in Nat /\ n - 1 \in 0 .. n - 1 /\ (n - 1) + 1 = n
      BY <2>3
    <3>2. F(n)[n - 1] = F(n - 1)[n - 1]
      BY <1>5, <3>1
    <3> QED BY <1>4, <2>1, <2>3, <3>1, <3>2
  <2> QED BY <2>2, <2>3
<1>7. f = [i \in Nat |-> Step(f, i)]
  <2> HIDE DEF Step
  <2> QED BY <1>6
<1> QED BY <1>7

(* The bounds of the buckets double, so they are positive and in order. *)
LEMMA Pow2Is ==
  /\ Pow2[0] = 1 /\ \A n \in Nat : Pow2[n + 1] = 2 * Pow2[n]
  /\ \A n \in Nat : Pow2[n] \in Nat /\ Pow2[n] > 0
  /\ \A n \in Nat : \A m \in 0 .. n : Pow2[m] <= Pow2[n]
<1>1. Pow2 = [i \in Nat |-> IF i = 0 THEN 1 ELSE 2 * Pow2[i - 1]]
  BY Pow2Exists DEF Pow2
<1>2. /\ Pow2[0] = 1
      /\ \A n \in Nat : n # 0 => Pow2[n] = 2 * Pow2[n - 1]
  BY <1>1
<1>3. \A n \in Nat : Pow2[n + 1] = 2 * Pow2[n]
  <2> SUFFICES ASSUME NEW n \in Nat PROVE Pow2[n + 1] = 2 * Pow2[n]
    OBVIOUS
  <2>1. n + 1 \in Nat /\ n + 1 # 0 /\ (n + 1) - 1 = n
    OBVIOUS
  <2>2. Pow2[n + 1] = 2 * Pow2[(n + 1) - 1]
    BY <1>2, <2>1
  <2> QED BY <2>1, <2>2
<1>4. \A n \in Nat : Pow2[n] \in Nat /\ Pow2[n] > 0
  <2> DEFINE Bad == {n \in Nat : ~(Pow2[n] \in Nat /\ Pow2[n] > 0)}
  <2> SUFFICES ASSUME Bad # {} PROVE FALSE
    OBVIOUS
  <2>1. PICK n \in Bad : \A m \in Nat : m < n => m \notin Bad
    <3>1. Bad \in SUBSET Nat
      OBVIOUS
    <3> HIDE DEF Bad
    <3> QED BY <3>1, SmallestNumber
  <2>2. n \in Nat /\ n # 0
    BY <1>2
  <2>3. n - 1 \in Nat /\ n - 1 < n
    BY <2>2
  <2>4. Pow2[n - 1] \in Nat /\ Pow2[n - 1] > 0
    BY <2>1, <2>3
  <2>5. Pow2[n] = 2 * Pow2[n - 1]
    BY <1>2, <2>2
  <2> QED BY <2>1, <2>4, <2>5
<1>5. \A n \in Nat : \A m \in 0 .. n : Pow2[m] <= Pow2[n]
  <2> DEFINE Bad == {n \in Nat : \E m \in 0 .. n : ~(Pow2[m] <= Pow2[n])}
  <2> SUFFICES ASSUME Bad # {} PROVE FALSE
    OBVIOUS
  <2>1. PICK n \in Bad : \A m \in Nat : m < n => m \notin Bad
    <3>1. Bad \in SUBSET Nat
      OBVIOUS
    <3> HIDE DEF Bad
    <3> QED BY <3>1, SmallestNumber
  <2>2. PICK m \in 0 .. n : ~(Pow2[m] <= Pow2[n])
    OBVIOUS
  <2>3. n \in Nat /\ m \in Nat /\ m # n
    BY <1>4, <2>2
  <2>4. n - 1 \in Nat /\ n - 1 < n /\ m \in 0 .. n - 1 /\ n # 0
    BY <2>3
  <2>5. Pow2[m] <= Pow2[n - 1]
    BY <2>1, <2>4
  <2>6. Pow2[n] = 2 * Pow2[n - 1]
    BY <1>2, <2>4
  <2> QED BY <1>4, <2>2, <2>3, <2>4, <2>5, <2>6
<1> QED BY <1>2, <1>3, <1>4, <1>5

(* The steps of log2_u64 shift by 1, 2, 4, 8 and 16. *)
LEMMA Pow2Powers ==
  ASSUME NEW n \in Nat
  PROVE  /\ Pow2[n + 1] = 2^1 * Pow2[n] /\ Pow2[n + 2] = 2^2 * Pow2[n]
         /\ Pow2[n + 4] = 2^4 * Pow2[n] /\ Pow2[n + 8] = 2^8 * Pow2[n]
         /\ Pow2[n + 16] = 2^16 * Pow2[n]
<1> DEFINE P(m) == Pow2[m]
<1>1. \A m \in Nat : /\ P(m) \in Nat /\ P(m + 1) = 2 * P(m)
  BY Pow2Is
<1> HIDE DEF P
<1>2. ASSUME NEW m \in Nat PROVE P(m + 2) = 4 * P(m)
  <2>1. (m + 1) + 1 = m + 2 /\ m + 1 \in Nat
    OBVIOUS
  <2> QED BY <1>1, <2>1
<1>3. ASSUME NEW m \in Nat PROVE P(m + 4) = 16 * P(m)
  <2>1. (m + 2) + 2 = m + 4 /\ m + 2 \in Nat
    OBVIOUS
  <2> QED BY <1>1, <1>2, <2>1
<1>4. ASSUME NEW m \in Nat PROVE P(m + 8) = 256 * P(m)
  <2>1. (m + 4) + 4 = m + 8 /\ m + 4 \in Nat
    OBVIOUS
  <2> QED BY <1>1, <1>3, <2>1
<1>5. ASSUME NEW m \in Nat PROVE P(m + 16) = 65536 * P(m)
  <2>1. (m + 8) + 8 = m + 16 /\ m + 8 \in Nat
    OBVIOUS
  <2> QED BY <1>1, <1>4, <2>1
<1>6. P(n) \in Nat
  BY <1>1
<1> QED BY <1>1, <1>2, <1>3, <1>4, <1>5, <1>6 DEF P

(* A number between x and x + 1 times p is between q and q + 1 times w * p, *)
(* where q is x / w.                                                        *)
LEMMA Coarser ==
  ASSUME NEW v \in Nat, NEW x \in Nat, NEW q \in Nat, NEW w \in Nat, NEW p \in Nat,
         x * p <= v, v < (x + 1) * p, q * w <= x, x < (q + 1) * w
  PROVE  q * (w * p) <= v /\ v < (q + 1) * (w * p)
<1>1. \A a, b \in Nat : a <= b => a * p <= b * p
  OBVIOUS
<1>2. (q * w) * p <= x * p /\ (x + 1) * p <= ((q + 1) * w) * p
  <2>1. q * w \in Nat /\ (q + 1) * w \in Nat /\ x + 1 <= (q + 1) * w
    OBVIOUS
  <2> QED BY <1>1, <2>1
<1>3. (q * w) * p = q * (w * p) /\ ((q + 1) * w) * p = (q + 1) * (w * p)
  OBVIOUS
<1>4. q * (w * p) \in Nat /\ (q + 1) * (w * p) \in Nat /\ x * p \in Nat
      /\ (x + 1) * p \in Nat
  OBVIOUS
<1> QED BY <1>2, <1>3, <1>4

Covers(a, v) == a.v * Pow2[a.r] <= v /\ v < (a.v + 1) * Pow2[a.r]
LEMMA HalveCovers ==
  ASSUME NEW v \in Nat, NEW a \in Accumulator, NEW k \in {16, 8, 4, 2, 1},
         1 <= a.v, a.v < 2^k * 2^k, Covers(a, v)
  PROVE  LET b == Halve(a, k) IN 1 <= b.v /\ b.v < 2^k /\ Covers(b, v)
<1> DEFINE w == 2^k  q == a.v \div w  p == Pow2[a.r]
<1>1. a.r \in Nat /\ a.v \in Nat /\ p \in Nat
  BY Pow2Is DEF Accumulator
<1>2. Pow2[a.r + k] = w * p /\ w \in Nat \ {0}
  <2>1. CASE k = 16
    BY <1>1, <2>1, Pow2Powers
  <2>2. CASE k = 8
    BY <1>1, <2>2, Pow2Powers
  <2>3. CASE k = 4
    BY <1>1, <2>3, Pow2Powers
  <2>4. CASE k = 2
    BY <1>1, <2>4, Pow2Powers
  <2>5. CASE k = 1
    BY <1>1, <2>5, Pow2Powers
  <2> QED BY <2>1, <2>2, <2>3, <2>4, <2>5
<1>3. a.v >= w => /\ q \in Nat /\ q * w <= a.v /\ a.v < (q + 1) * w
                  /\ 1 <= q /\ q < w
  <2> DEFINE x == a.v
  <2>1. x \in Nat /\ x < 2^k * 2^k
    BY <1>1
  <2> HIDE DEF x
  <2>3. CASE k = 16
    BY <2>1, <2>3 DEF x
  <2>4. CASE k = 8
    BY <2>1, <2>4 DEF x
  <2>5. CASE k = 4
    BY <2>1, <2>5 DEF x
  <2>6. CASE k = 2
    BY <2>1, <2>6 DEF x
  <2>7. CASE k = 1
    BY <2>1, <2>7 DEF x
  <2> QED BY <2>3, <2>4, <2>5, <2>6, <2>7
<1>4. a.v * p <= v /\ v < (a.v + 1) * p
  BY DEF Covers
<1>5. Halve(a, k) = IF a.v >= w THEN [r |-> a.r + k, v |-> q] ELSE a
  BY DEF Halve
<1> HIDE DEF w, q, p
<1>6. CASE a.v >= w
  <2>1. q * (w * p) <= v /\ v < (q + 1) * (w * p)
    BY <1>1, <1>2, <1>3, <1>4, <1>6, Coarser
  <2>2. Halve(a, k).v = q /\ Halve(a, k).r = a.r + k
    BY <1>5, <1>6
  <2> QED BY <1>2, <1>3, <1>6, <2>1, <2>2 DEF Covers, w
<1>7. CASE ~(a.v >= w)
  BY <1>1, <1>2, <1>5, <1>7 DEF w
<1> QED BY <1>6, <1>7

(* The first step, and what it leaves of 64 bits. *)
LEMMA Halve64Covers ==
  ASSUME NEW v, IsU64(v), 1 <= v
  PROVE  LET b == Halve64(v) IN
         b \in Accumulator /\ 1 <= b.v /\ b.v < 2^16 * 2^16 /\ Covers(b, v)
<1> DEFINE q == High32(v)  b == Halve64(v)
<1>1. v \in Nat /\ High32(q) = 0
  BY DEF IsU64
<1>2. q = (v \div 65536) \div 65536
  BY DEF High32
<1>3. q \in Nat /\ q * 4294967296 <= v /\ v < (q + 1) * 4294967296
  <2> HIDE DEF q
  <2> QED BY <1>1, <1>2
<1>4. q < 4294967296
  <2>1. High32(q) = (q \div 65536) \div 65536
    BY DEF High32
  <2> HIDE DEF q
  <2> QED BY <1>1, <1>3, <2>1
<1>5. Pow2[0] = 1 /\ Pow2[32] = 4294967296
  <2>1. Pow2[0] = 1
    BY Pow2Is
  <2>2. \A n \in Nat : Pow2[n + 16] = 65536 * Pow2[n]
    BY Pow2Powers
  <2>3. 0 + 16 = 16 /\ 16 + 16 = 32
    OBVIOUS
  <2>4. Pow2[16] = 65536
    BY <2>1, <2>2, <2>3
  <2> QED BY <2>1, <2>2, <2>3, <2>4
<1>6. b = IF q > 0 THEN [r |-> 32, v |-> q] ELSE [r |-> 0, v |-> v]
  BY DEF Halve64
<1> HIDE DEF q, b
<1>7. CASE q > 0
  <2>1. b.r = 32 /\ b.v = q /\ b \in Accumulator
    BY <1>3, <1>6, <1>7 DEF Accumulator
  <2> QED BY <1>3, <1>4, <1>5, <1>7, <2>1 DEF Covers, b
<1>8. CASE ~(q > 0)
  <2>1. b.r = 0 /\ b.v = v /\ b \in Accumulator
    BY <1>1, <1>6, <1>8 DEF Accumulator
  <2>2. v < 4294967296
    BY <1>1, <1>3, <1>8
  <2> QED BY <1>1, <1>5, <2>1, <2>2 DEF Covers, b
<1> QED BY <1>7, <1>8

(* log2_u64 of any 64-bit number is the bucket that covers it. *)
LEMMA Log2Is ==
  ASSUME NEW v, IsU64(v), 1 <= v
  PROVE  /\ Log2(v) \in Nat
         /\ Pow2[Log2(v)] <= v /\ v < Pow2[Log2(v) + 1]
<1> DEFINE a0 == Halve64(v)    a1 == Halve(a0, 16)  a2 == Halve(a1, 8)
           a3 == Halve(a2, 4)  a4 == Halve(a3, 2)   a5 == Halve(a4, 1)
           Good(a, n) == /\ a \in Accumulator /\ Covers(a, v)
                         /\ 1 <= a.v /\ a.v < n
<1>1. v \in Nat
  BY DEF IsU64
<1>2. Log2(v) = a5.r
  BY <1>1, Log2Steps
<1>3. Good(a0, 2^16 * 2^16)
  BY Halve64Covers
<1>4. ASSUME NEW a, NEW k \in {16, 8, 4, 2, 1}, Good(a, 2^k * 2^k)
      PROVE  Good(Halve(a, k), 2^k)
  BY <1>1, <1>4, HalveTyped, HalveCovers
<1> HIDE DEF a0, a1, a2, a3, a4, a5, Good
<1>5. Good(a1, 2^16)
  BY <1>3, <1>4 DEF a1
<1>6. Good(a2, 2^8)
  <2>1. 2^16 = 2^8 * 2^8
    OBVIOUS
  <2> QED BY <1>4, <1>5, <2>1 DEF a2
<1>7. Good(a3, 2^4)
  <2>1. 2^8 = 2^4 * 2^4
    OBVIOUS
  <2> QED BY <1>4, <1>6, <2>1 DEF a3
<1>8. Good(a4, 2^2)
  <2>1. 2^4 = 2^2 * 2^2
    OBVIOUS
  <2> QED BY <1>4, <1>7, <2>1 DEF a4
<1>9. Good(a5, 2^1)
  <2>1. 2^2 = 2^1 * 2^1
    OBVIOUS
  <2> QED BY <1>4, <1>8, <2>1 DEF a5
<1>10. /\ a5.r \in Nat /\ a5.v = 1
       /\ a5.v * Pow2[a5.r] <= v /\ v < (a5.v + 1) * Pow2[a5.r]
  <2>1. 2^1 = 2
    OBVIOUS
  <2> QED BY <1>9, <2>1 DEF Good, Accumulator, Covers
<1>11. Pow2[a5.r + 1] = 2 * Pow2[a5.r] /\ Pow2[a5.r] \in Nat
  BY <1>10, Pow2Is
<1> QED BY <1>2, <1>10, <1>11

(* Numbers below a 64-bit number are of 64 bits. *)
LEMMA SmallerIsU64 ==
  ASSUME NEW v, IsU64(v), NEW u \in Nat, u <= v
  PROVE  IsU64(u)
<1>1. \A x, y \in Nat : x <= y =>
        /\ High32(x) \in Nat /\ High32(y) \in Nat /\ High32(x) <= High32(y)
  <2> SUFFICES ASSUME NEW x \in Nat, NEW y \in Nat, x <= y
               PROVE  LET a == x \div 65536  b == y \div 65536 IN
                      /\ a \div 65536 \in Nat /\ b \div 65536 \in Nat
                      /\ a \div 65536 <= b \div 65536
    BY DEF High32
  <2>1. /\ x \div 65536 \in Nat /\ y \div 65536 \in Nat
        /\ x \div 65536 <= y \div 65536
    OBVIOUS
  <2> QED BY <2>1
<1>2. v \in Nat /\ High32(High32(v)) = 0
  BY DEF IsU64
<1>3. High32(u) \in Nat /\ High32(v) \in Nat /\ High32(u) <= High32(v)
  BY <1>1, <1>2
<1>4. High32(High32(u)) \in Nat /\ High32(High32(u)) <= 0
  BY <1>1, <1>2, <1>3
<1> QED BY <1>4 DEF IsU64

(* Log2Covers: the bucket a latency is counted in covers it, whatever 64    *)
(* bits it has, and so for clock ticks of every length.                     *)
THEOREM LatenciesCovered == Spec => []Log2Covers
<1>1. ASSUME Inv PROVE Log2Covers
  <2> SUFFICES ASSUME NEW t \in Tids, pc[t] = "add", NEW ns \in TickLengths
               PROVE  LET delta == reg[t].delta * ns IN
                      /\ Pow2[Log2(delta)] <= delta
                      /\ delta < Pow2[Log2(delta) + 1]
    BY DEF Log2Covers
  <2> DEFINE d == reg[t].delta
  <2>1. d \in Nat /\ 1 <= d /\ d <= MaxClock
    BY <1>1 DEF Inv, Types, Regs, Held, Running
  <2>2. ns \in Nat /\ ns >= 1 /\ IsU64(MaxClock * ns) /\ MaxClock \in Nat
    BY TicksAssumption, BoundsAssumption
  <2> HIDE DEF d
  <2>3. d * ns \in Nat /\ 1 <= d * ns /\ d * ns <= MaxClock * ns
    BY <2>1, <2>2
  <2>4. IsU64(d * ns)
    BY <2>2, <2>3, SmallerIsU64
  <2> QED BY <2>3, <2>4, Log2Is DEF d
<1>2. Inv => Log2Covers
  BY <1>1
<1> QED BY <1>2, InitInv, NextInv, PTL DEF Spec
-----------------------------------------------------------------------------
(* The bounds of a set of numbers. *)
LEMMA LeastOf ==
  ASSUME NEW S \in SUBSET Nat, S # {}
  PROVE  Min(S) \in S /\ \A x \in S : Min(S) <= x
<1>1. PICK n \in S : \A m \in Nat : m < n => m \notin S
  BY SmallestNumber
<1>2. \A x \in S : n <= x
  BY <1>1
<1> QED BY <1>2 DEF Min

LEMMA GreatestOf ==
  ASSUME NEW S \in SUBSET Nat, IsFiniteSet(S), S # {}
  PROVE  Max(S) \in S /\ \A x \in S : x <= Max(S)
<1>1. PICK n \in S : \A m \in S : m <= n
  BY GreatestNumber
<1>2. \A m \in S : n >= m
  BY <1>1
<1>3. Max(S) \in S /\ \A x \in S : Max(S) >= x
  BY <1>2 DEF Max
<1>4. \A x \in S : x \in Nat /\ Max(S) \in Nat
  BY <1>3
<1> QED BY <1>3, <1>4

(* The buckets of a histogram and what they add up to. *)
LEMMA HistIs ==
  ASSUME NEW h \in Hist
  PROVE  /\ Total(h) \in Nat
         /\ \A i \in Buckets : h[i] \in Nat /\ h[i] <= Total(h)
         /\ NonEmpty(h) \in SUBSET Nat /\ IsFiniteSet(NonEmpty(h))
         /\ NonEmpty(h) = {} => Total(h) = 0
         /\ NonEmpty(h) # {} => Total(h) > 0
<1>1. IsFiniteSet(Buckets) /\ Buckets \subseteq Nat
  <2>1. 0 \in Int /\ HistBuckets - 1 \in Int
    BY HistBucketsAssumption
  <2> QED BY <2>1, FS_Interval DEF Buckets
<1>2. Total(h) = SumOf(h, Buckets)
  BY DEF Total, SumOver, SumOf
<1>3. \A i \in Buckets : h[i] \in Nat
  BY DEF Hist
<1>4. Total(h) \in Nat
  BY <1>1, <1>2, <1>3, SumOfType
<1>5. \A i \in Buckets : h[i] <= Total(h)
  BY <1>1, <1>2, <1>3, SumOfAtLeast
<1>6. NonEmpty(h) \in SUBSET Nat /\ IsFiniteSet(NonEmpty(h))
  BY <1>1, FS_Subset DEF NonEmpty
<1>7. NonEmpty(h) = {} => Total(h) = 0
  <2>1. NonEmpty(h) = {} => \A i \in Buckets : h[i] = 0
    BY <1>3 DEF NonEmpty
  <2> QED BY <1>1, <1>2, <2>1, SumOfZero
<1>8. NonEmpty(h) # {} => Total(h) > 0
  BY <1>3, <1>4, <1>5 DEF NonEmpty
<1> QED BY <1>3, <1>4, <1>5, <1>6, <1>7, <1>8

(* The buckets up to which there are n samples: the first and the last of   *)
(* those that hold any bound the least of them.                             *)
Reached(h, n) == {i \in Buckets : SumOver(h, 0 .. i) >= n}
LEMMA RankIs ==
  ASSUME NEW h \in Hist, NEW n \in Nat, 1 <= n, n <= Total(h)
  PROVE  /\ NonEmpty(h) # {} /\ Min(Reached(h, n)) \in Buckets
         /\ \A i \in Reached(h, n) : Min(Reached(h, n)) <= i
         /\ Min(Reached(h, n)) \in Reached(h, n)
         /\ Min(NonEmpty(h)) \in Buckets /\ Max(NonEmpty(h)) \in Buckets
         /\ Min(NonEmpty(h)) <= Min(Reached(h, n))
         /\ Min(Reached(h, n)) <= Max(NonEmpty(h))
<1> DEFINE R == Reached(h, n)  first == Min(NonEmpty(h))
           top == Max(NonEmpty(h))
<1>1. /\ IsFiniteSet(Buckets) /\ Buckets \subseteq Nat
      /\ \A i \in Buckets : 0 .. i \subseteq Buckets
      /\ \A i \in Buckets : \A j \in 0 .. i : j \in Nat
  <2>1. 0 \in Int /\ HistBuckets - 1 \in Int
    BY HistBucketsAssumption
  <2> QED BY <2>1, FS_Interval DEF Buckets
<1>2. \A i \in Buckets : h[i] \in Nat
  BY HistIs
<1>3. /\ Total(h) = SumOf(h, Buckets)
      /\ \A i : SumOver(h, 0 .. i) = SumOf(h, 0 .. i)
  BY DEF Total, SumOver, SumOf
<1>4. NonEmpty(h) # {} /\ NonEmpty(h) \subseteq Buckets
  <2>1. NonEmpty(h) = {} => Total(h) = 0
    BY HistIs
  <2> QED BY <2>1 DEF NonEmpty
<1>5. /\ first \in Buckets /\ top \in Buckets
      /\ \A i \in NonEmpty(h) : first <= i /\ i <= top
  BY <1>4, HistIs, LeastOf, GreatestOf
<1> HIDE DEF first, top
<1>6. top \in R
  <2>1. \A i \in Buckets \ (0 .. top) : h[i] = 0
    <3>1. \A i \in Buckets : ~(h[i] > 0) => h[i] = 0
      BY <1>2
    <3>2. \A i \in Buckets : h[i] > 0 => i \in 0 .. top
      BY <1>1, <1>5 DEF NonEmpty
    <3> QED BY <3>1, <3>2
  <2>2. 0 .. top \subseteq Buckets /\ \A i \in Buckets : h[i] \in Int
    BY <1>1, <1>2, <1>5
  <2>3. SumOf(h, 0 .. top) = Total(h)
    BY <1>1, <1>3, <2>1, <2>2, SumOfSubset
  <2>4. Total(h) \in Nat
    BY HistIs
  <2> QED BY <1>3, <1>5, <2>3, <2>4 DEF Reached
<1>7. ASSUME NEW i \in R PROVE first <= i
  <2> SUFFICES ASSUME i < first PROVE FALSE
    BY <1>1, <1>5 DEF Reached
  <2>1. i \in Buckets /\ SumOf(h, 0 .. i) >= n
    BY <1>3 DEF Reached
  <2>2. \A j \in 0 .. i : h[j] = 0
    <3> SUFFICES ASSUME NEW j \in 0 .. i PROVE h[j] = 0
      OBVIOUS
    <3>1. j \in Buckets /\ j \in Nat /\ i \in Nat /\ first \in Nat /\ j <= i
      BY <1>1, <1>5, <2>1
    <3>2. j \notin NonEmpty(h)
      BY <1>5, <3>1
    <3> QED BY <1>2, <3>1, <3>2 DEF NonEmpty
  <2>3. IsFiniteSet(0 .. i)
    BY <1>1, <2>1, FS_Subset
  <2>4. SumOf(h, 0 .. i) = 0
    BY <2>2, <2>3, SumOfZero
  <2> QED BY <2>1, <2>4
<1>8. R \in SUBSET Nat /\ R \subseteq Buckets
  BY <1>1 DEF Reached
<1>9. Min(R) \in R /\ \A i \in R : Min(R) <= i
  <2> HIDE DEF R
  <2> QED BY <1>6, <1>8, LeastOf
<1> QED BY <1>4, <1>5, <1>6, <1>7, <1>8, <1>9 DEF first, top

(* What is added up to a bucket is a number. *)
LEMMA SumsAreNumbers ==
  ASSUME NEW h \in Hist, NEW i \in Buckets
  PROVE  SumOver(h, 0 .. i) \in Nat
<1>1. \A j \in 0 .. i : h[j] \in Nat
  BY HistBucketsAssumption DEF Hist, Buckets
<1>2. IsFiniteSet(0 .. i)
  <2>1. 0 \in Int /\ i \in Int
    BY DEF Buckets
  <2> QED BY <2>1, FS_Interval
<1>3. SumOf(h, 0 .. i) \in Nat
  BY <1>1, <1>2, SumOfType
<1> QED BY <1>3 DEF SumOver, SumOf

(* The rank of a percentile among the samples. *)
Rank(h, num) == LET r == (Total(h) * num) \div 100
                IN  IF r = 0 THEN 1 ELSE r
LEMMA RanksOrdered ==
  ASSUME NEW h \in Hist, Total(h) > 0
  PROVE  /\ \A p \in {50, 90, 99} :
              Rank(h, p) \in Nat /\ 1 <= Rank(h, p) /\ Rank(h, p) <= Total(h)
         /\ Rank(h, 50) <= Rank(h, 90) /\ Rank(h, 90) <= Rank(h, 99)
<1> DEFINE t == Total(h)  r(p) == (t * p) \div 100
<1>1. t \in Nat /\ t > 0
  BY HistIs
<1> HIDE DEF t
<1>2. /\ r(50) \in Nat /\ r(90) \in Nat /\ r(99) \in Nat
  BY <1>1
<1>3. r(50) <= r(90) /\ r(90) <= r(99) /\ r(99) <= t
  BY <1>1
<1> QED BY <1>1, <1>2, <1>3 DEF Rank, t

(* A percentile is the lower bound of the bucket its rank falls in. *)
LEMMA PercentileIs ==
  ASSUME NEW h \in Hist, Total(h) > 0, NEW p \in {50, 90, 99}
  PROVE  Percentile(h, p, 100) = Pow2[Min(Reached(h, Rank(h, p)))]
BY DEF Percentile, Rank, Reached

(* The latencies of a row, in order, of any histogram. *)
LEMMA ColumnsOrdered ==
  ASSUME NEW h \in Hist
  PROVE  /\ MinNs(h) \in Nat /\ MaxNs(h) \in Nat
         /\ \A p \in {50, 90, 99} : Percentile(h, p, 100) \in Nat
         /\ Total(h) > 0 => MinNs(h) > 0
         /\ MinNs(h) <= Percentile(h, 50, 100)
         /\ Percentile(h, 50, 100) <= Percentile(h, 90, 100)
         /\ Percentile(h, 90, 100) <= Percentile(h, 99, 100)
         /\ Percentile(h, 99, 100) <= MaxNs(h)
<1>1. CASE Total(h) = 0
  <2>1. NonEmpty(h) = {}
    BY <1>1, HistIs
  <2> QED BY <1>1, <2>1 DEF Percentile, MinNs, MaxNs
<1>2. CASE Total(h) > 0
  <2> DEFINE where(p) == Min(Reached(h, Rank(h, p)))
             first == Min(NonEmpty(h))  top == Max(NonEmpty(h))
  <2>1. /\ NonEmpty(h) # {} /\ first \in Buckets /\ top \in Buckets
        /\ \A p \in {50, 90, 99} :
             /\ where(p) \in Buckets /\ first <= where(p) /\ where(p) <= top
             /\ where(p) \in Reached(h, Rank(h, p))
             /\ \A i \in Reached(h, Rank(h, p)) : where(p) <= i
    BY <1>2, RanksOrdered, RankIs
  <2>2. /\ Reached(h, Rank(h, 90)) \subseteq Reached(h, Rank(h, 50))
        /\ Reached(h, Rank(h, 99)) \subseteq Reached(h, Rank(h, 90))
    BY <1>2, RanksOrdered, SumsAreNumbers DEF Reached
  <2>3. where(50) <= where(90) /\ where(90) <= where(99)
    BY <2>1, <2>2
  <2>4. /\ \A p \in {50, 90, 99} : Percentile(h, p, 100) = Pow2[where(p)]
        /\ MinNs(h) = Pow2[first]
        /\ MaxNs(h) = IF top = HistBuckets - 1 THEN Pow2[top] ELSE Pow2[top + 1]
    BY <1>2, <2>1, PercentileIs
       DEF MinNs, MaxNs, BucketLowerNs, BucketUpperNs
  <2>5. \A i \in Buckets : i \in Nat
    BY DEF Buckets
  <2> HIDE DEF where, first, top
  <2>6. /\ Pow2[first] <= Pow2[where(50)] /\ Pow2[where(50)] <= Pow2[where(90)]
        /\ Pow2[where(90)] <= Pow2[where(99)] /\ Pow2[where(99)] <= Pow2[top]
    BY <2>1, <2>3, <2>5, Pow2Is
  <2>7. /\ Pow2[first] \in Nat /\ Pow2[first] > 0 /\ Pow2[top] \in Nat
        /\ Pow2[top + 1] = 2 * Pow2[top]
        /\ \A p \in {50, 90, 99} : Pow2[where(p)] \in Nat
    BY <2>1, <2>5, Pow2Is
  <2>8. MaxNs(h) \in Nat /\ Pow2[top] <= MaxNs(h)
    BY <2>4, <2>7
  <2> QED BY <2>4, <2>6, <2>7, <2>8
<1> QED BY <1>1, <1>2, HistIs
-----------------------------------------------------------------------------
(* The differences of a histogram and an older one are what was added.      *)
Below(a, b) == \A i \in Buckets : a[i] <= b[i]
LEMMA DifferencesAddUp ==
  ASSUME NEW c \in Hist, NEW p \in Hist
  PROVE  /\ SubBuckets(c, p) \in Hist
         /\ Below(p, c) => Total(p) + Total(SubBuckets(c, p)) = Total(c)
<1> DEFINE d == SubBuckets(c, p)
<1>1. \A i \in Buckets : /\ c[i] \in Nat /\ p[i] \in Nat
                         /\ d[i] = IF c[i] >= p[i] THEN c[i] - p[i] ELSE 0
  BY DEF SubBuckets, Hist
<1>2. \A i \in Buckets : d[i] \in Nat
  BY <1>1
<1>3. d \in Hist
  BY <1>2 DEF SubBuckets, Hist
<1>4. ASSUME Below(p, c) PROVE Total(p) + Total(d) = Total(c)
  <2>1. \A i \in Buckets : p[i] \in Int /\ d[i] \in Int /\ c[i] = p[i] + d[i]
    BY <1>1, <1>2, <1>4 DEF Below
  <2> HIDE DEF d
  <2>2. SumOf(c, Buckets) = SumOf(p, Buckets) + SumOf(d, Buckets)
    <3>1. IsFiniteSet(Buckets)
      <4>1. 0 \in Int /\ HistBuckets - 1 \in Int
        BY HistBucketsAssumption
      <4> QED BY <4>1, FS_Interval DEF Buckets
    <3> QED BY <2>1, <3>1, SumOfPlus
  <2> QED BY <2>2 DEF Total, SumOver, SumOf
<1> QED BY <1>3, <1>4

(* What buildRecord makes of two values of an entry. *)
LEMMA BuildIs ==
  ASSUME NEW c \in Hist, NEW p \in Hist, NEW e \in BOOLEAN
  PROVE  LET r == BuildRecord(c, p, e) IN
         /\ r \in Record
         /\ r.count = Total(c)
         /\ r.delta = IF e THEN Total(SubBuckets(c, p)) ELSE 0
         /\ r.count > 0 => r.min > 0
         /\ r.min <= r.p50 /\ r.p50 <= r.p90 /\ r.p90 <= r.p99
         /\ r.p99 <= r.max
<1> DEFINE d == SubBuckets(c, p)  delta == IF e THEN Total(d) ELSE 0
           h == IF delta > 0 THEN d ELSE c  r == BuildRecord(c, p, e)
<1>1. d \in Hist /\ Total(c) \in Nat /\ Total(d) \in Nat
  BY DifferencesAddUp, HistIs
<1>2. h \in Hist /\ delta \in Nat
  BY <1>1
<1>3. Total(c) > 0 => Total(h) > 0
  <2>1. delta > 0 => Total(d) > 0
    OBVIOUS
  <2> HIDE DEF delta, d
  <2> QED BY <2>1
<1>4. r = [count |-> Total(c), delta |-> delta,
           p50 |-> Percentile(h, 50, 100), p90 |-> Percentile(h, 90, 100),
           p99 |-> Percentile(h, 99, 100), min |-> MinNs(h), max |-> MaxNs(h)]
  BY DEF BuildRecord
<1> HIDE DEF h, r
<1>5. /\ r \in Record /\ r.count = Total(c) /\ r.delta = delta
      /\ r.count > 0 => r.min > 0
      /\ r.min <= r.p50 /\ r.p50 <= r.p90 /\ r.p90 <= r.p99 /\ r.p99 <= r.max
  <2> HIDE DEF delta
  <2> QED BY <1>1, <1>2, <1>3, <1>4, ColumnsOrdered DEF Record
<1> QED BY <1>5 DEF r, delta, d

(* While nothing is evicted the map only grows, so that the entries of prev *)
(* and of the scan under way are in it, and no bucket of them has more      *)
(* samples; the scan comes to every key of prev; and the rows shown have    *)
(* added up to prev.                                                        *)
Within(f, g) == DOMAIN f \subseteq DOMAIN g
                  /\ \A k \in DOMAIN f : Below(f[k], g[k])
Growing ==
  evicted = 0 =>
    /\ Within(prev, map) /\ Within(current, map)
    /\ at = "read" =>
         \A k \in DOMAIN prev :
           /\ k \in todo \/ k \in DOMAIN current
           /\ k \in DOMAIN current => Below(prev[k], current[k])
Added == evicted = 0 => \A k \in Keys : shown[k] = Total(Value(prev, k))
ReportTypes == ReportTypeOK /\ evicted \in Nat
ReportInv == ReportTypes /\ RowsOrdered /\ Growing /\ Added

LEMMA ReportInvInit == ReportInit => ReportInv
<1> SUFFICES ASSUME ReportInit PROVE ReportInv
  OBVIOUS
<1>1. /\ DOMAIN map = {} /\ DOMAIN current = {} /\ DOMAIN prev = {}
      /\ DOMAIN records = {}
  BY DEF ReportInit, Kernel!Init
<1>2. ReportTypes
  BY <1>1 DEF ReportInit, ReportTypes, ReportTypeOK, Partial
<1>3. RowsOrdered /\ Growing
  BY <1>1 DEF RowsOrdered, Growing, Within
<1>4. Added
  BY <1>1, TotalIs DEF ReportInit, Added, Value
<1> QED BY <1>2, <1>3, <1>4 DEF ReportInv

(* A step of the kernel: no entry shrinks, and none goes but by eviction.   *)
LEMMA KernelGrows ==
  ASSUME ReportTypes, NEW k \in Keys,
         \/ KernelSeeds(k) \/ KernelEvicts(k)
         \/ \E i \in Buckets : KernelAdds(k, i)
  PROVE  /\ Partial(map, Hist)' /\ evicted' \in Nat
         /\ UNCHANGED <<at, agg, cancelled>>
         /\ evicted' = 0 => evicted = 0 /\ Within(map, map')
<1>1. CASE KernelSeeds(k)
  <2>1. /\ k \notin DOMAIN map /\ map' = Kernel!Put(map, k, ZeroHist)
        /\ UNCHANGED <<evicted, at, agg, cancelled>>
    <3>1. Kernel!ZeroHist = ZeroHist
      BY DEF Kernel!ZeroHist, ZeroHist, Kernel!Buckets, Buckets
    <3> QED BY <1>1, <3>1 DEF KernelSeeds, Kernel!Seed
  <2>2. /\ DOMAIN map' = DOMAIN map \cup {k} /\ map'[k] = ZeroHist
        /\ \A j \in DOMAIN map : map'[j] = map[j]
    BY <2>1 DEF Kernel!Put
  <2>3. ZeroHist \in Hist
    BY TotalIs
  <2>4. \A j \in DOMAIN map : map[j] \in Hist
    BY DEF ReportTypes, ReportTypeOK, Partial
  <2>5. \A j \in DOMAIN map : Below(map[j], map'[j])
    BY <2>2, <2>4 DEF Below, Hist
  <2> QED BY <2>1, <2>2, <2>3, <2>5 DEF ReportTypes, ReportTypeOK, Partial, Within
<1>2. CASE KernelEvicts(k)
  <2>1. /\ map' = [j \in DOMAIN map \ {k} |-> map[j]]
        /\ evicted' = evicted + 1 /\ UNCHANGED <<at, agg, cancelled>>
    BY <1>2 DEF KernelEvicts, Kernel!Evict
  <2> QED BY <2>1 DEF ReportTypes, ReportTypeOK, Partial
<1>3. ASSUME NEW i \in Buckets, KernelAdds(k, i)
      PROVE  /\ Partial(map, Hist)' /\ evicted' \in Nat
             /\ UNCHANGED <<at, agg, cancelled>>
             /\ evicted' = 0 => evicted = 0 /\ Within(map, map')
  <2>1. /\ k \in DOMAIN map /\ map' = [map EXCEPT ![k][i] = @ + 1]
        /\ UNCHANGED <<evicted, at, agg, cancelled>>
    BY <1>3 DEF KernelAdds, Kernel!AddSample
  <2>2. \A j \in DOMAIN map : map[j] \in Hist /\ j \in Keys
    BY DEF ReportTypes, ReportTypeOK, Partial
  <2> DEFINE h == [map[k] EXCEPT ![i] = @ + 1]
  <2>3. h \in Hist /\ Below(map[k], h)
    BY <2>1, <2>2 DEF Hist, Below
  <2>4. map' = [map EXCEPT ![k] = h]
    BY <2>1
  <2> HIDE DEF h
  <2>5. /\ DOMAIN map' = DOMAIN map /\ map'[k] = h
        /\ \A j \in DOMAIN map \ {k} : map'[j] = map[j]
    BY <2>1, <2>4
  <2>6. \A j \in DOMAIN map : Below(map[j], map'[j])
    BY <2>2, <2>3, <2>5 DEF Below, Hist
  <2> QED BY <2>1, <2>2, <2>3, <2>5, <2>6 DEF ReportTypes, Partial, Within
<1> QED BY <1>1, <1>2, <1>3

LEMMA ReportInvNext == ReportInv /\ [ReportNext]_reportVars => ReportInv'
<1> SUFFICES ASSUME ReportInv, [ReportNext]_reportVars PROVE ReportInv'
  OBVIOUS
<1> USE DEF ReportInv
<1>t. /\ Partial(map, Hist) /\ Partial(current, Hist) /\ Partial(prev, Hist)
      /\ Partial(records, Record) /\ shown \in [Keys -> Nat] /\ evicted \in Nat
      /\ todo \subseteq Keys /\ polled \in BOOLEAN /\ cancelled \in BOOLEAN
      /\ at \in {"wait", "read", "send", "returned"}
  BY DEF ReportTypes, ReportTypeOK
<1>b. \A a, b, c \in Hist : Below(a, b) /\ Below(b, c) => Below(a, c)
  BY DEF Below, Hist
<1>k. ASSUME NEW k \in Keys,
             \/ KernelSeeds(k) \/ KernelEvicts(k)
             \/ \E i \in Buckets : KernelAdds(k, i)
      PROVE  ReportInv'
  <2>1. /\ Partial(map, Hist)' /\ evicted' \in Nat
        /\ UNCHANGED <<at, todo, current, prev, polled, records, polls, shown,
                      cancelled>>
        /\ evicted' = 0 => evicted = 0 /\ Within(map, map')
    BY <1>k, KernelGrows DEF agg
  <2>2. ReportTypes'
    BY <1>t, <2>1 DEF ReportTypes, ReportTypeOK, Partial
  <2>3. RowsOrdered' /\ Added'
    BY <2>1 DEF RowsOrdered, Added, Value
  <2>4. Growing'
    <3> SUFFICES ASSUME evicted' = 0
                 PROVE  Within(prev, map') /\ Within(current, map')
      BY <2>1 DEF Growing
    <3>1. /\ \A j \in DOMAIN map : j \in DOMAIN map' /\ Below(map[j], map'[j])
          /\ \A j \in DOMAIN map : map[j] \in Hist /\ map'[j] \in Hist
      BY <1>t, <2>1 DEF Within, Partial
    <3>2. /\ \A j \in DOMAIN prev : /\ prev[j] \in Hist /\ j \in DOMAIN map
                                   /\ Below(prev[j], map[j])
          /\ \A j \in DOMAIN current : /\ current[j] \in Hist /\ j \in DOMAIN map
                                      /\ Below(current[j], map[j])
      BY <1>t, <2>1 DEF Growing, Within, Partial
    <3>3. /\ \A j \in DOMAIN prev : j \in DOMAIN map' /\ Below(prev[j], map'[j])
          /\ \A j \in DOMAIN current :
               j \in DOMAIN map' /\ Below(current[j], map'[j])
      BY <1>b, <3>1, <3>2
    <3> QED BY <3>3 DEF Within
  <2> QED BY <2>2, <2>3, <2>4
<1>1. CASE PollTick
  <2>1. /\ UNCHANGED <<map, evicted, prev, polled, records, shown, cancelled>>
        /\ at' = "read" /\ todo' = Keys /\ DOMAIN current' = {}
    BY <1>1 DEF PollTick, kernel
  <2>2. ReportTypes'
    BY <1>t, <2>1 DEF ReportTypes, ReportTypeOK, Partial
  <2>3. RowsOrdered' /\ Added'
    BY <2>1 DEF RowsOrdered, Added, Value
  <2>4. Growing'
    BY <1>t, <2>1 DEF Growing, Within, Partial
  <2> QED BY <2>2, <2>3, <2>4
<1>2. ASSUME NEW k \in Keys, ReadKey(k) PROVE ReportInv'
  <2>1. /\ UNCHANGED <<map, evicted, at, prev, polled, records, shown, cancelled>>
        /\ at = "read" /\ k \in todo /\ todo' = todo \ {k}
        /\ k \notin DOMAIN map => current' = current
        /\ k \in DOMAIN map =>
             current' = [j \in DOMAIN current \cup {k} |->
                           IF j = k THEN map[k] ELSE current[j]]
    BY <1>2 DEF ReadKey, kernel, Kernel!Put
  <2>2. \A j \in DOMAIN current' :
          \/ j \in DOMAIN current /\ current'[j] = current[j]
          \/ j = k /\ k \in DOMAIN map /\ current'[j] = map[k]
    BY <2>1
  <2>3. Partial(current, Hist)'
    BY <1>t, <2>2 DEF Partial
  <2>4. ReportTypes'
    BY <1>t, <2>1, <2>3 DEF ReportTypes, ReportTypeOK, Partial
  <2>5. RowsOrdered' /\ Added'
    BY <2>1 DEF RowsOrdered, Added, Value
  <2>6. Growing'
    <3> SUFFICES ASSUME evicted = 0
                 PROVE  /\ Within(prev, map) /\ Within(current', map)
                        /\ \A j \in DOMAIN prev :
                             /\ j \in todo' \/ j \in DOMAIN current'
                             /\ j \in DOMAIN current' => Below(prev[j], current'[j])
      BY <2>1 DEF Growing, Within
    <3>1. /\ Within(prev, map) /\ Within(current, map)
          /\ \A j \in DOMAIN prev :
               /\ j \in todo \/ j \in DOMAIN current
               /\ j \in DOMAIN current => Below(prev[j], current[j])
      BY <2>1 DEF Growing
    <3>2. Below(map[k], map[k]) \/ k \notin DOMAIN map
      BY <1>t DEF Partial, Below, Hist
    <3>3. Within(current', map)
      BY <2>2, <3>1, <3>2 DEF Within
    <3>4. ASSUME NEW j \in DOMAIN prev
          PROVE  /\ j \in todo' \/ j \in DOMAIN current'
                 /\ j \in DOMAIN current' => Below(prev[j], current'[j])
      <4>1. j \in DOMAIN map /\ Below(prev[j], map[j])
        BY <3>1 DEF Within
      <4> QED BY <2>1, <2>2, <3>1, <4>1
    <3> QED BY <3>1, <3>3, <3>4
  <2> QED BY <2>4, <2>5, <2>6
<1>3. CASE PollDone
  <2>1. /\ at = "read" /\ todo = {} /\ UNCHANGED <<map, evicted, todo, current, cancelled>>
        /\ at' \in {"wait", "send"} /\ prev' = current /\ polled' = TRUE
        /\ records' = [k \in DOMAIN current |->
                         BuildRecord(current[k], Value(prev, k), polled)]
        /\ shown' = [k \in Keys |->
                       IF k \notin DOMAIN current THEN shown[k]
                       ELSE IF polled THEN shown[k] + records'[k].delta
                       ELSE records'[k].count]
    BY <1>3 DEF PollDone, kernel
  <2>2. ASSUME NEW k \in DOMAIN current
        PROVE  LET r == records'[k] IN
               /\ r \in Record
               /\ r.count = Total(current[k])
               /\ r.delta = IF polled
                            THEN Total(SubBuckets(current[k], Value(prev, k)))
                            ELSE 0
               /\ r.count > 0 => r.min > 0
               /\ r.min <= r.p50 /\ r.p50 <= r.p90 /\ r.p90 <= r.p99
               /\ r.p99 <= r.max
    <3>1. current[k] \in Hist /\ Value(prev, k) \in Hist
      BY <1>t, TotalIs DEF Partial, Value
    <3>2. records'[k] = BuildRecord(current[k], Value(prev, k), polled)
      BY <2>1
    <3> QED BY <1>t, <3>1, <3>2, BuildIs
  <2>3. DOMAIN records' = DOMAIN current
    BY <2>1
  <2>4. shown' \in [Keys -> Nat]
    <3>1. \A k \in DOMAIN current : /\ records'[k].count \in Nat
                                   /\ records'[k].delta \in Nat
      BY <2>2 DEF Record
    <3> QED BY <1>t, <2>1, <3>1
  <2>5. ReportTypes'
    BY <1>t, <2>1, <2>2, <2>3, <2>4 DEF ReportTypes, ReportTypeOK, Partial
  <2>6. RowsOrdered'
    BY <2>2, <2>3 DEF RowsOrdered
  <2>7. Growing'
    BY <2>1 DEF Growing, Within
  <2>8. Added'
    <3> SUFFICES ASSUME evicted = 0, NEW k \in Keys
                 PROVE  shown'[k] = Total(Value(prev', k))
      BY <2>1 DEF Added, Value
    <3>1. shown[k] = Total(Value(prev, k))
      BY DEF Added
    <3>2. CASE k \notin DOMAIN current
      <4>1. k \notin DOMAIN prev
        BY <2>1, <3>2 DEF Growing
      <4> QED BY <2>1, <3>1, <3>2, <4>1 DEF Value
    <3>3. CASE k \in DOMAIN current
      <4>1. /\ current[k] \in Hist /\ Value(prev, k) \in Hist
            /\ Value(prev', k) = current[k]
        BY <1>t, <2>1, <3>3, TotalIs DEF Partial, Value
      <4>2. Below(Value(prev, k), current[k])
        <5>1. CASE k \in DOMAIN prev
          BY <2>1, <3>3, <5>1 DEF Growing, Value
        <5>2. CASE k \notin DOMAIN prev
          BY <4>1, <5>2 DEF Value, ZeroHist, Below, Hist
        <5> QED BY <5>1, <5>2
      <4>3. Total(Value(prev, k)) + Total(SubBuckets(current[k], Value(prev, k)))
              = Total(current[k])
        BY <4>1, <4>2, DifferencesAddUp
      <4>4. shown'[k] = IF polled THEN shown[k] + records'[k].delta
                        ELSE records'[k].count
        BY <2>1, <3>3
      <4> QED BY <2>2, <3>1, <3>3, <4>1, <4>3, <4>4
    <3> QED BY <3>2, <3>3
  <2> QED BY <2>5, <2>6, <2>7, <2>8
<1>4. CASE \/ ReadFails \/ Send \/ Cancel \/ Stops \/ UNCHANGED reportVars
  <2>1. /\ UNCHANGED <<map, evicted, todo, current, prev, polled, records, shown>>
        /\ at' \in {"wait", "send", "returned"} \/ at' = at
        /\ at' \in {"wait", "read", "send", "returned"} /\ cancelled' \in BOOLEAN
    BY <1>t, <1>4 DEF ReadFails, Send, Cancel, Stops, reportVars, kernel, agg
  <2>2. ReportTypes'
    BY <1>t, <2>1 DEF ReportTypes, ReportTypeOK, Partial
  <2>3. RowsOrdered' /\ Added' /\ Growing'
    BY <2>1 DEF RowsOrdered, Added, Value, Growing, Within
  <2> QED BY <2>2, <2>3
<1> QED BY <1>k, <1>1, <1>2, <1>3, <1>4 DEF ReportNext

THEOREM ReportHolds == ReportSpec => []ReportInv
<1> QED BY ReportInvInit, ReportInvNext, PTL DEF ReportSpec

(* The reader's state keeps its types, whatever the kernel evicts: no delta *)
(* is less than zero.                                                       *)
THEOREM ReportTypeCorrect == ReportSpec => []ReportTypeOK
<1>1. ReportInv => ReportTypeOK
  BY DEF ReportInv, ReportTypes
<1> QED BY <1>1, ReportHolds, PTL

(* RowsOrdered: every row describes samples that exist, in order, for any   *)
(* number of buckets, whatever is evicted between two polls.                *)
THEOREM RowsAreOrdered == ReportSpec => []RowsOrdered
<1>1. ReportInv => RowsOrdered
  BY DEF ReportInv
<1> QED BY <1>1, ReportHolds, PTL

(* DeltasAddUp: without an eviction no sample is missing from the rows and  *)
(* none is in two of them, whatever reads fail.                             *)
THEOREM DeltasDoAddUp == ReportSpec => []DeltasAddUp
<1>1. ReportInv => DeltasAddUp
  BY DEF ReportInv, ReportTypes, ReportTypeOK, Partial, Added, Value, DeltasAddUp
<1> QED BY <1>1, ReportHolds, PTL
=============================================================================
