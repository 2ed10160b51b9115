---------------------------- MODULE CpuTop_proofs ----------------------------
(***************************************************************************)
(* Proofs about CpuTop: its type invariant, that the cache of names is no   *)
(* larger than the map, that every count is shown once or deleted with its  *)
(* entry, and that a living process keeps the time it was sampled for.      *)
(***************************************************************************)
EXTENDS CpuTop, FoldTheorems, TLAPS

Snapshots == UNION {[D -> Counts] : D \in SUBSET Pids}
Living    == Pids \X (Nat \ {0})

(* The types, with the domains and fields TypeOK reads but does not name. *)
ProcessTypes ==
  /\ proc \in [Pids -> Nat] /\ gen \in [Pids -> Nat]
  /\ \A p \in Pids : proc[p] \in {0, gen[p]}
  /\ on \in [Cpus -> Living \cup {Idle}]
  /\ own \in [Pids -> Nat] /\ doomed \subseteq Pids
ProgramTypes ==
  /\ table \in [Pids -> Nodes \cup {NoNode}]
  /\ node \in [Nodes -> [Cpus -> Counts]]
  /\ pc \in [Cpus -> {"idle", "insert", "relookup", "add", "count"}]
  /\ val \in [Cpus -> Nodes \cup {NoNode}]
  /\ \A c \in Cpus : on[c] = Idle => pc[c] = "idle"
  /\ \A c \in Cpus : pc[c] \in {"add", "count"} => val[c] \in Nodes
  /\ unshown \in [Pids -> [ns : Int, ctx : Int]]
AggTypes ==
  /\ apc \in {"wait", "read", "comm", "alive", "send", "returned"}
  /\ todo \subseteq Pids /\ (apc = "alive" => key \in Pids)
  /\ current \in Snapshots /\ prev \in Snapshots /\ dead \subseteq Pids
  /\ DOMAIN cache \subseteq Pids
  /\ \A p \in DOMAIN records : records[p].delta \in Counts
Types == ProcessTypes /\ ProgramTypes /\ AggTypes

(* The keys of a poll: those whose record is still to be built, the one     *)
(* whose record is, and those to reap are of the snapshot.                  *)
Keys ==
  /\ apc = "read" => dead = {}
  /\ apc \in {"comm", "alive"} =>
       todo \subseteq DOMAIN current /\ dead \subseteq DOMAIN current \ todo
  /\ apc = "alive" => key \in DOMAIN current \ todo
Inv == Types /\ Keys
-----------------------------------------------------------------------------
(* A value of the map, summed over the CPUs as SumCPUs does it. *)
LEMMA SumFieldIs ==
  ASSUME NEW v, NEW f
  PROVE  SumField(v, f) = SumOf([c \in Cpus |-> v[c][f]], Cpus)
<1> DEFINE g == [c \in Cpus |-> v[c][f]]
           A(sum) == sum = [s \in SUBSET Cpus |->
                              IF s = {} THEN 0
                              ELSE v[Chosen(s)][f] + sum[s \ {Chosen(s)}]]
<1>1. SumField(v, f) = (CHOOSE sum : A(sum))[Cpus]
  BY DEF SumField, MapThenSumSet, MapThenFoldSet, Chosen
<1>2. \A sum : A(sum) <=> IsSumUpTo(sum, g, Cpus)
  <2>1. \A s \in SUBSET Cpus : s # {} => g[Chosen(s)] = v[Chosen(s)][f]
    BY DEF Chosen
  <2> QED BY <2>1 DEF IsSumUpTo
<1>3. (CHOOSE sum : A(sum)) = CHOOSE sum : IsSumUpTo(sum, g, Cpus)
  <2> HIDE DEF A
  <2> QED BY <1>2
<1> QED BY <1>1, <1>3, SumOfUnfolded

(* The sum is a value again. *)
LEMMA SumCPUsType ==
  ASSUME NEW v \in [Cpus -> Counts]
  PROVE  SumCPUs(v) \in Counts
<1>1. ASSUME NEW f \in {"ns", "ctx"} PROVE SumField(v, f) \in Nat
  <2> DEFINE g == [c \in Cpus |-> v[c][f]]
  <2>1. \A c \in Cpus : g[c] \in Nat
    BY DEF Counts
  <2>2. SumOf(g, Cpus) \in Nat
    <3> HIDE DEF g
    <3> QED BY <2>1, CpusAssumption, SumOfType
  <2> QED BY <2>2, SumFieldIs
<1> QED BY <1>1 DEF SumCPUs, Counts

(* An entry that has counted nothing has the sum nothing. *)
LEMMA SumCPUsZero == SumCPUs([c \in Cpus |-> Zero]) = Zero
<1> DEFINE v == [c \in Cpus |-> Zero]
<1>1. ASSUME NEW f \in {"ns", "ctx"} PROVE SumField(v, f) = 0
  <2> DEFINE g == [c \in Cpus |-> v[c][f]]
  <2>1. \A c \in Cpus : g[c] = 0
    BY DEF Zero
  <2>2. SumOf(g, Cpus) = 0
    <3> HIDE DEF g
    <3> QED BY <2>1, CpusAssumption, SumOfZero
  <2> QED BY <2>2, SumFieldIs
<1> QED BY <1>1 DEF SumCPUs, Zero

(* What one CPU adds to its value is added to the sum. *)
LEMMA SumCPUsAdd ==
  ASSUME NEW v \in [Cpus -> Counts], NEW c \in Cpus, NEW d \in Counts
  PROVE  SumCPUs([v EXCEPT ![c] = Add(@, d)]) = Add(SumCPUs(v), d)
<1> DEFINE w == [v EXCEPT ![c] = Add(@, d)]
<1>1. ASSUME NEW f \in {"ns", "ctx"}
      PROVE  SumField(w, f) = SumField(v, f) + d[f]
  <2> DEFINE g == [e \in Cpus |-> v[e][f]]  h == [e \in Cpus |-> w[e][f]]
  <2>1. \A e \in Cpus : g[e] \in Int
    BY DEF Counts
  <2>2. d[f] \in Int /\ h[c] = g[c] + d[f]
    BY DEF Counts, Add
  <2>3. \A e \in Cpus \ {c} : h[e] = g[e]
    OBVIOUS
  <2>4. SumField(v, f) = SumOf(g, Cpus) /\ SumField(w, f) = SumOf(h, Cpus)
    BY SumFieldIs
  <2> HIDE DEF g, h
  <2>5. \A e \in Cpus : h[e] \in Int
    BY <2>1, <2>2, <2>3
  <2>6. SumOf(h, Cpus) = SumOf(g, Cpus) + h[c] - g[c]
    BY <2>1, <2>3, <2>5, CpusAssumption, SumOfChange
  <2>7. SumOf(g, Cpus) \in Int
    BY <2>1, CpusAssumption, SumOfType
  <2> QED BY <2>1, <2>2, <2>4, <2>6, <2>7
<1> QED BY <1>1 DEF SumCPUs, Add
-----------------------------------------------------------------------------
(* A snapshot is a function of some of the PIDs. *)
LEMMA SnapshotParts ==
  /\ \A f \in Snapshots :
       /\ DOMAIN f \in SUBSET Pids /\ f \in [DOMAIN f -> Counts]
       /\ \A p \in DOMAIN f : f[p] \in Counts /\ p \in Pids
  /\ \A D \in SUBSET Pids : \A f \in [D -> Counts] : f \in Snapshots
  /\ <<>> \in Snapshots
<1>1. \A D \in SUBSET Pids : \A f \in [D -> Counts] : f \in Snapshots
  BY DEF Snapshots
<1>2. \A f \in Snapshots :
        /\ DOMAIN f \in SUBSET Pids /\ f \in [DOMAIN f -> Counts]
        /\ \A p \in DOMAIN f : f[p] \in Counts /\ p \in Pids
  <2> SUFFICES ASSUME NEW D \in SUBSET Pids, NEW f \in [D -> Counts]
               PROVE  /\ DOMAIN f \in SUBSET Pids /\ f \in [DOMAIN f -> Counts]
                      /\ \A p \in DOMAIN f : f[p] \in Counts /\ p \in Pids
    BY DEF Snapshots
  <2> QED OBVIOUS
<1>3. <<>> \in Snapshots
  <2>1. <<>> \in [{} -> Counts] /\ {} \in SUBSET Pids
    OBVIOUS
  <2> QED BY <1>1, <2>1
<1> QED BY <1>1, <1>2, <1>3

(* A snapshot that is given one more value, as put does it. *)
LEMMA PutSnapshot ==
  ASSUME NEW f \in Snapshots, NEW p \in Pids, NEW v \in Counts
  PROVE  /\ Put(f, p, v) \in Snapshots
         /\ DOMAIN Put(f, p, v) = DOMAIN f \cup {p} /\ Put(f, p, v)[p] = v
         /\ \A q \in DOMAIN f : q # p => Put(f, p, v)[q] = f[q]
<1>1. DOMAIN f \cup {p} \in SUBSET Pids
  BY SnapshotParts
<1>2. Put(f, p, v) \in [DOMAIN f \cup {p} -> Counts]
  BY SnapshotParts DEF Put
<1> QED BY <1>1, <1>2, SnapshotParts DEF Put

(* A snapshot that loses a key, as reap does it. *)
LEMMA WithoutSnapshot ==
  ASSUME NEW f \in Snapshots, NEW p \in Pids
  PROVE  /\ Without(f, p) \in Snapshots
         /\ DOMAIN Without(f, p) = DOMAIN f \ {p}
         /\ \A q \in DOMAIN f \ {p} : Without(f, p)[q] = f[q]
<1>1. DOMAIN f \ {p} \in SUBSET Pids
  BY SnapshotParts
<1>2. Without(f, p) \in [DOMAIN f \ {p} -> Counts]
  BY SnapshotParts DEF Without
<1> QED BY <1>1, <1>2, SnapshotParts DEF Without

(* The counts of an entry, whether there or not, and of a snapshot. *)
LEMMA CountsTyped ==
  ASSUME Types
  PROVE  /\ \A p \in Pids : Counted(p) \in Counts
         /\ \A p \in Pids : Value(prev, p) \in Counts /\ Value(current, p) \in Counts
<1>1. Zero \in Counts
  BY DEF Zero, Counts
<1>2. ASSUME NEW p \in Pids PROVE Counted(p) \in Counts
  <2>1. Present(p) => node[table[p]] \in [Cpus -> Counts]
    BY NullAssumption DEF Types, ProgramTypes, Present
  <2> QED BY <1>1, <2>1, SumCPUsType DEF Counted
<1>3. \A f \in Snapshots : \A p \in Pids : Value(f, p) \in Counts
  BY <1>1, SnapshotParts DEF Value
<1> QED BY <1>2, <1>3 DEF Types, AggTypes

(* A task that runs a program is a process's. *)
LEMMA TaskHasPid ==
  ASSUME Types, NEW c \in Cpus, on[c] # Idle
  PROVE  KeyOf(c) \in Pids /\ on[c] = <<KeyOf(c), on[c][2]>>
         /\ on[c][2] \in Nat \ {0}
BY DEF Types, ProcessTypes, Living, KeyOf

(* An addition reaches the entry that has the node, in its own counts and   *)
(* in what is not shown of it, and nothing else.                            *)
LEMMA AddToCounts ==
  ASSUME Types, NEW c \in Cpus, val[c] \in Nodes, NEW v \in Counts,
         AddTo(c, v), table' = table
  PROVE  /\ node' \in [Nodes -> [Cpus -> Counts]]
         /\ unshown' \in [Pids -> [ns : Int, ctx : Int]]
         /\ \A p \in Pids :
              /\ Counted(p)' = IF table[p] = val[c] THEN Add(Counted(p), v)
                               ELSE Counted(p)
              /\ unshown'[p] = IF table[p] = val[c] THEN Add(unshown[p], v)
                               ELSE unshown[p]
              /\ Present(p)' = Present(p)
<1> USE NullAssumption DEF Types, ProgramTypes
<1> DEFINE w == [node[val[c]] EXCEPT ![c] = Add(@, v)]
<1>1. node' = [node EXCEPT ![val[c]] = w]
  BY DEF AddTo
<1>2. node[val[c]] \in [Cpus -> Counts] /\ Add(node[val[c]][c], v) \in Counts
  BY DEF Add, Counts
<1>3. w \in [Cpus -> Counts]
  BY <1>2
<1>4. SumCPUs(w) = Add(SumCPUs(node[val[c]]), v)
  BY <1>2, SumCPUsAdd
<1> HIDE DEF w
<1>5. node' \in [Nodes -> [Cpus -> Counts]]
  BY <1>1, <1>3
<1>6. \A p \in Pids : Counted(p)' = IF table[p] = val[c]
                                    THEN Add(Counted(p), v) ELSE Counted(p)
  BY <1>1, <1>4 DEF Counted, Present
<1>7. \A p \in Pids : unshown'[p] = IF table[p] = val[c]
                                    THEN Add(unshown[p], v) ELSE unshown[p]
  BY DEF AddTo
<1>8. unshown' \in [Pids -> [ns : Int, ctx : Int]]
  <2>1. \A p \in Pids : Add(unshown[p], v) \in [ns : Int, ctx : Int]
    BY DEF Add, Counts
  <2> QED BY <2>1 DEF AddTo
<1> QED BY <1>5, <1>6, <1>7, <1>8 DEF Present

(* An insertion makes an entry that has counted nothing. *)
LEMMA InsertCounts ==
  ASSUME Types, NEW c \in Cpus, Insert(c)
  PROVE  /\ table' \in [Pids -> Nodes \cup {NoNode}]
         /\ node' \in [Nodes -> [Cpus -> Counts]]
         /\ \A p \in Pids : /\ Counted(p)' = Counted(p)
                            /\ Present(p) => table'[p] = table[p] /\ Present(p)'
<1> USE NullAssumption DEF Types, ProgramTypes
<1>1. CASE UNCHANGED <<table, node>>
  BY <1>1 DEF Counted, Present
<1>2. CASE ~UNCHANGED <<table, node>>
  <2> DEFINE z == [d \in Cpus |-> Zero]  k == KeyOf(c)
  <2>1. PICK n \in FreeNodes : /\ table' = [table EXCEPT ![k] = n]
                               /\ node' = [node EXCEPT ![n] = z]
    BY <1>2 DEF Insert
  <2>2. ~Present(k)
    BY <1>2 DEF Insert
  <2>3. on[c] # Idle
    BY DEF Insert, Goto
  <2>4. k \in Pids
    BY <2>3, TaskHasPid
  <2>5. n \in Nodes /\ n # NoNode /\ \A p \in Pids : table[p] # n
    BY DEF FreeNodes
  <2>6. SumCPUs(z) = Zero
    BY SumCPUsZero
  <2>7. z \in [Cpus -> Counts]
    BY DEF Zero, Counts
  <2> HIDE DEF z, k
  <2>8. ASSUME NEW p \in Pids PROVE Counted(p)' = Counted(p)
    <3>1. CASE p = k
      BY <2>1, <2>2, <2>4, <2>5, <2>6, <3>1 DEF Counted, Present
    <3>2. CASE p # k
      BY <2>1, <2>4, <2>5, <3>2 DEF Counted, Present
    <3> QED BY <3>1, <3>2
  <2> QED BY <2>1, <2>2, <2>4, <2>5, <2>7, <2>8 DEF Present
<1> QED BY <1>1, <1>2
-----------------------------------------------------------------------------
(* The initial states. *)
LEMMA InitInv == Init => Inv
<1> SUFFICES ASSUME Init PROVE Inv
  OBVIOUS
<1>1. ProcessTypes
  BY DEF Init, ProcessTypes
<1>2. ProgramTypes
  BY DEF Init, ProgramTypes, Zero, Counts
<1>3. AggTypes
  BY SnapshotParts DEF Init, AggTypes
<1>4. Keys
  BY DEF Init, Keys
<1> QED BY <1>1, <1>2, <1>3, <1>4 DEF Types, Inv

(* The next task on a CPU is a process that runs, or idle. *)
LEMMA DispatchTyped ==
  ASSUME Types, NEW c \in Cpus, Dispatch(c)
  PROVE  /\ on' \in [Cpus -> Living \cup {Idle}]
         /\ \A d \in Cpus \ {c} : on'[d] = on[d]
         /\ on'[c] \in Tasks \cup {Idle}
<1>1. Tasks \subseteq Living
  BY DEF Tasks, Living, Types, ProcessTypes
<1> QED BY <1>1 DEF Dispatch, Types, ProcessTypes

(* Every step of the processes and the programs preserves the types. *)
LEMMA KernelTypes ==
  ASSUME Types
  PROVE  /\ \A p \in Pids : Fork(p) \/ Exit(p) => Types'
         /\ \A c \in Cpus : Program(c) => Types'
<1> USE DEF Types
<1>1. ASSUME NEW p \in Pids, Fork(p) PROVE Types'
  <2>1. gen' \in [Pids -> Nat] /\ proc' \in [Pids -> Nat]
        /\ \A q \in Pids : proc'[q] \in {0, gen'[q]}
    BY <1>1 DEF Fork, ProcessTypes
  <2>2. doomed' \subseteq Pids
    BY <1>1 DEF Fork, ProcessTypes
  <2> QED
    BY <1>1, <2>1, <2>2
    DEF Fork, ProcessTypes, ProgramTypes, AggTypes, kernel, agg
<1>2. ASSUME NEW p \in Pids, Exit(p) PROVE Types'
  BY <1>2 DEF Exit, ProcessTypes, ProgramTypes, AggTypes, kernel, agg
<1>3. ASSUME NEW c \in Cpus, LeaveIdle(c) PROVE Types'
  <2>1. on' \in [Cpus -> Living \cup {Idle}] /\ \A d \in Cpus \ {c} : on'[d] = on[d]
    BY <1>3, DispatchTyped DEF LeaveIdle
  <2>2. pc[c] = "idle"
    BY <1>3 DEF LeaveIdle, ProgramTypes
  <2> QED
    BY <1>3, <2>1, <2>2
    DEF LeaveIdle, ProcessTypes, ProgramTypes, AggTypes, kernel, agg, history
<1>4. ASSUME NEW c \in Cpus, Sample(c) PROVE Types'
  <2>1. KeyOf(c) \in Pids
    BY <1>4, TaskHasPid DEF Sample
  <2>2. ProgramTypes'
    BY <1>4, <2>1 DEF Sample, Goto, Present, ProgramTypes, history, processes
  <2> QED
    BY <1>4, <2>2 DEF Sample, ProcessTypes, AggTypes, processes, agg, history
<1>5. ASSUME NEW c \in Cpus, Insert(c) PROVE Types'
  <2>1. /\ table' \in [Pids -> Nodes \cup {NoNode}]
        /\ node' \in [Nodes -> [Cpus -> Counts]]
    BY <1>5, InsertCounts
  <2>2. ProgramTypes'
    BY <1>5, <2>1 DEF Insert, Goto, ProgramTypes, history, processes
  <2> QED
    BY <1>5, <2>2 DEF Insert, ProcessTypes, AggTypes, processes, agg, history
<1>6. ASSUME NEW c \in Cpus, Relookup(c) PROVE Types'
  <2>1. KeyOf(c) \in Pids
    BY <1>6, TaskHasPid DEF Relookup, Goto, ProgramTypes
  <2>2. ProgramTypes'
    BY <1>6, <2>1
    DEF Relookup, AfterRelookup, Goto, Present, ProgramTypes, history, processes
  <2> QED
    BY <1>6, <2>2 DEF Relookup, ProcessTypes, AggTypes, processes, agg, history
<1>7. ASSUME NEW c \in Cpus, AddSample(c) PROVE Types'
  <2>1. val[c] \in Nodes /\ on[c] # Idle /\ [ns |-> 1, ctx |-> 0] \in Counts
    BY <1>7 DEF AddSample, Goto, ProgramTypes, Counts
  <2>2. KeyOf(c) \in Pids
    BY <2>1, TaskHasPid
  <2>3. /\ node' \in [Nodes -> [Cpus -> Counts]]
        /\ unshown' \in [Pids -> [ns : Int, ctx : Int]]
    BY <1>7, <2>1, AddToCounts DEF AddSample
  <2>4. ProgramTypes'
    BY <1>7, <2>3 DEF AddSample, Goto, ProgramTypes, processes
  <2>5. own' \in [Pids -> Nat]
    BY <1>7, <2>2 DEF AddSample, ProcessTypes
  <2> QED
    BY <1>7, <2>4, <2>5 DEF AddSample, ProcessTypes, AggTypes, processes, agg
<1>8. ASSUME NEW c \in Cpus, Switch(c) PROVE Types'
  <2>1. KeyOf(c) \in Pids
    BY <1>8, TaskHasPid DEF Switch
  <2>2. CASE Present(KeyOf(c))
    <3>1. ProgramTypes'
      BY <1>8, <2>1, <2>2 DEF Switch, Goto, Present, ProgramTypes, history
    <3> QED
      BY <1>8, <2>2, <3>1 DEF Switch, ProcessTypes, AggTypes, agg, history
  <2>3. CASE ~Present(KeyOf(c))
    <3>1. on' \in [Cpus -> Living \cup {Idle}] /\ pc[c] = "idle"
          /\ \A d \in Cpus \ {c} : on'[d] = on[d]
      BY <1>8, <2>3, DispatchTyped DEF Switch
    <3>2. ProgramTypes'
      BY <1>8, <2>3, <3>1 DEF Switch, ProgramTypes, history
    <3> QED
      BY <1>8, <3>1, <3>2 DEF Switch, ProcessTypes, AggTypes, agg, history
  <2> QED BY <2>2, <2>3
<1>9. ASSUME NEW c \in Cpus, CountSwitch(c) PROVE Types'
  <2>1. val[c] \in Nodes /\ [ns |-> 0, ctx |-> 1] \in Counts
    BY <1>9 DEF CountSwitch, Goto, ProgramTypes, Counts
  <2>2. /\ node' \in [Nodes -> [Cpus -> Counts]]
        /\ unshown' \in [Pids -> [ns : Int, ctx : Int]]
    BY <1>9, <2>1, AddToCounts DEF CountSwitch
  <2>3. on' \in [Cpus -> Living \cup {Idle}] /\ \A d \in Cpus \ {c} : on'[d] = on[d]
    BY <1>9, DispatchTyped DEF CountSwitch
  <2>4. ProgramTypes'
    BY <1>9, <2>2, <2>3 DEF CountSwitch, Goto, ProgramTypes
  <2> QED
    BY <1>9, <2>3, <2>4 DEF CountSwitch, ProcessTypes, AggTypes, agg
<1> QED
  BY <1>1, <1>2, <1>3, <1>4, <1>5, <1>6, <1>7, <1>8, <1>9 DEF Program

(* So does every step of the aggregator. *)
Aggregator == Aggregates \/ Fails \/ Return

(* The aggregator's steps preserve the types and the sets of keys of a      *)
(* poll.                                                                    *)
LEMMA AggregatorTypes ==
  ASSUME Types, Keys, Aggregator
  PROVE  Types'
<1> USE DEF Types
<1>0. ASSUME AggTypes', UNCHANGED <<processes, table, node, pc, val, own, doomed>>,
             unshown' \in [Pids -> [ns : Int, ctx : Int]]
      PROVE  Types'
  BY <1>0 DEF ProcessTypes, ProgramTypes, processes
<1>a. unshown \in [Pids -> [ns : Int, ctx : Int]]
  BY DEF ProgramTypes
<1>b. \A a \in [ns : Int, ctx : Int], b, d \in Counts :
        /\ Minus(a, b) \in [ns : Int, ctx : Int]
        /\ Minus(a, Minus(b, d)) \in [ns : Int, ctx : Int]
  BY DEF Minus, Counts
<1>1. ASSUME Tick PROVE Types'
  <2>1. AggTypes'
    BY <1>1, SnapshotParts DEF Tick, AggTypes
  <2> QED BY <1>0, <1>1, <1>a, <2>1 DEF Tick, kernel, history
<1>2. ASSUME NEW p \in Pids, ReadKey(p) PROVE Types'
  <2>1. current' \in Snapshots
    BY <1>2, CountsTyped, PutSnapshot DEF ReadKey, AggTypes
  <2>2. AggTypes'
    BY <1>2, <2>1 DEF ReadKey, AggTypes
  <2> QED BY <1>0, <1>2, <1>a, <2>2 DEF ReadKey, kernel, history
<1>3. ASSUME ReadFails PROVE Types'
  <2>1. AggTypes'
    BY <1>3, SnapshotParts DEF ReadFails, AggTypes
  <2> QED BY <1>0, <1>3, <1>a, <2>1 DEF ReadFails, kernel, history
<1>4. ASSUME ReadDone PROVE Types'
  <2>1. AggTypes'
    BY <1>4, SnapshotParts DEF ReadDone, AggTypes
  <2> QED BY <1>0, <1>4, <1>a, <2>1 DEF ReadDone, kernel, history
<1>5. ASSUME NEW p \in Pids, Comm(p) PROVE Types'
  <2>1. current[p] \in Counts /\ Value(prev, p) \in Counts
    BY <1>5, CountsTyped, SnapshotParts DEF Comm, Keys, AggTypes
  <2>2. Delta(p) \in Counts /\ Shown(p) \in Counts
    BY <2>1 DEF Delta, Shown, SubClamp, Counts, Zero
  <2>3. DOMAIN cache' \subseteq Pids
    BY <1>5 DEF Comm, Put, AggTypes
  <2>4. \A q \in DOMAIN records' : records'[q].delta \in Counts
    BY <1>5, <2>2 DEF Comm, Put, AggTypes
  <2>5. AggTypes'
    BY <1>5, <2>3, <2>4 DEF Comm, AggTypes
  <2>6. unshown' \in [Pids -> [ns : Int, ctx : Int]]
    BY <1>5, <1>a, <1>b, <2>2 DEF Comm
  <2> QED BY <1>0, <1>5, <2>5, <2>6 DEF Comm, kernel
<1>6. ASSUME Alive PROVE Types'
  <2>1. AggTypes'
    BY <1>6 DEF Alive, AggTypes
  <2> QED BY <1>0, <1>6, <1>a, <2>1 DEF Alive, kernel, history
<1>11. ASSUME StatFails PROVE Types'
  <2>1. AggTypes' /\ doomed' \subseteq Pids
    BY <1>11 DEF StatFails, AggTypes, ProcessTypes
  <2> QED BY <1>11, <2>1 DEF StatFails, kernel, processes, ProcessTypes,
                             ProgramTypes
<1>7. ASSUME NEW p \in Pids, Reap(p) PROVE Types'
  <2>1. current' \in Snapshots
    BY <1>7, WithoutSnapshot DEF Reap, AggTypes
  <2>2. DOMAIN cache' \subseteq Pids
    BY <1>7 DEF Reap, Without, AggTypes
  <2>3. AggTypes'
    BY <1>7, <2>1, <2>2 DEF Reap, AggTypes
  <2>4. unshown' \in [Pids -> [ns : Int, ctx : Int]]
    BY <1>7, <1>a, <1>b, CountsTyped DEF Reap
  <2>5. ProgramTypes'
    BY <1>7, <2>4 DEF Reap, ProgramTypes, processes
  <2> QED BY <1>7, <2>3, <2>5 DEF Reap, ProcessTypes, processes
<1>8. ASSUME NEW p \in Pids, ReapFails(p) PROVE Types'
  <2>1. AggTypes'
    BY <1>8 DEF ReapFails, AggTypes
  <2> QED BY <1>0, <1>8, <1>a, <2>1 DEF ReapFails, kernel, history
<1>9. ASSUME PollDone PROVE Types'
  <2>1. AggTypes'
    BY <1>9, SnapshotParts DEF PollDone, AggTypes
  <2> QED BY <1>0, <1>9, <1>a, <2>1 DEF PollDone, kernel, history
<1>10. ASSUME Send \/ Return PROVE Types'
  <2>1. AggTypes'
    BY <1>10 DEF Send, Return, AggTypes
  <2> QED BY <1>0, <1>10, <1>a, <2>1 DEF Send, Return, kernel, history
<1> QED
  BY <1>1, <1>2, <1>3, <1>4, <1>5, <1>6, <1>7, <1>8, <1>9, <1>10, <1>11
  DEF Aggregator, Aggregates, Fails

(* The processes and the programs leave the aggregator's state alone. *)
LEMMA KernelSteps ==
  ASSUME \/ \E p \in Pids : Fork(p) \/ Exit(p)
         \/ \E c \in Cpus : Program(c)
  PROVE  UNCHANGED agg
BY DEF Fork, Exit, Program, Sample, Insert, Relookup, AddSample, LeaveIdle,
       Switch, CountSwitch

(* The types and the keys are invariant. *)
LEMMA NextInv == Inv /\ [Next]_vars => Inv'
<1> SUFFICES ASSUME Inv, [Next]_vars PROVE Inv'
  OBVIOUS
<1> USE DEF Inv
<1>1. ASSUME \/ \E p \in Pids : Fork(p) \/ Exit(p)
             \/ \E c \in Cpus : Program(c)
      PROVE  Inv'
  <2>1. Keys'
    BY <1>1, KernelSteps DEF agg, Keys
  <2> QED BY <1>1, <2>1, KernelTypes
<1>2. ASSUME Aggregator PROVE Inv'
  <2>1. Types'
    BY <1>2, AggregatorTypes
  <2>2. CASE \E p \in Pids : Reap(p)
    <3> PICK p \in Pids : Reap(p)
      BY <2>2
    <3>1. DOMAIN current' = DOMAIN current \ {p}
      BY DEF Reap, Without
    <3> QED BY <2>1, <3>1 DEF Reap, Judged, Keys
  <2>3. CASE ~ \E p \in Pids : Reap(p)
    <3>1. Keys'
      BY <1>2, <2>3
      DEF Keys, Aggregator, Aggregates, Fails, Tick, ReadKey, ReadFails,
          ReadDone, Comm, Alive, StatFails, ReapFails, PollDone, Send, Return
    <3> QED BY <2>1, <3>1
  <2> QED BY <2>2, <2>3
<1>3. CASE UNCHANGED vars
  BY <1>3 DEF vars, processes, kernel, agg, history, Types, ProcessTypes,
              ProgramTypes, AggTypes, Keys
<1> QED BY <1>1, <1>2, <1>3 DEF Next, Aggregator

(* The aggregator, the programs and the processes keep their types, for any *)
(* number of CPUs, PIDs and map entries.                                    *)
THEOREM TypeCorrect == Spec => []TypeOK
<1>1. Inv => TypeOK
  <2> SUFFICES ASSUME Inv PROVE TypeOK
    OBVIOUS
  <2>1. Snapshot(current) /\ Snapshot(prev)
    BY SnapshotParts DEF Snapshot, Inv, Types, AggTypes
  <2> QED
    BY <2>1 DEF Inv, Types, ProcessTypes, ProgramTypes, AggTypes, TypeOK
<1> QED BY <1>1, InitInv, NextInv, PTL DEF Spec
-----------------------------------------------------------------------------
(* A snapshot, while it is one of the entries there are, is no more than    *)
(* what they have counted; and a poll never reads less than the one before. *)
AtMost(a, b) == a.ns <= b.ns /\ a.ctx <= b.ctx
PrevBehind ==
  apc \notin {"comm", "alive"} =>
    \A p \in DOMAIN prev : Present(p) /\ AtMost(prev[p], Counted(p))
CurrentBehind ==
  apc \in {"read", "comm", "alive"} =>
    \A p \in DOMAIN current :
      /\ Present(p) /\ AtMost(current[p], Counted(p))
      /\ AtMost(Value(prev, p), current[p])
PrevReadAgain == apc = "read" => DOMAIN prev \ todo \subseteq DOMAIN current
FirstPoll == ~polled => DOMAIN prev = {}

(* What was added to an entry and is not shown is what the entry has over   *)
(* the snapshot it was last shown from.                                     *)
LastShown(p) ==
  IF apc \in {"comm", "alive"} /\ p \notin todo THEN Value(current, p)
  ELSE Value(prev, p)
ShownOnce == \A p \in Pids : unshown[p] = Minus(Counted(p), LastShown(p))

Accounting == /\ PrevBehind /\ CurrentBehind /\ PrevReadAgain /\ FirstPoll
              /\ ShownOnce /\ CacheFollowsMap

(* Nothing has been sampled in the initial states. *)
LEMMA InitAccounting == Init => Accounting
<1> SUFFICES ASSUME Init PROVE Accounting
  OBVIOUS
<1>1. \A p \in Pids : Counted(p) = Zero /\ LastShown(p) = Zero
  BY DEF Init, Counted, Present, LastShown, Value
<1>2. ShownOnce
  BY <1>1 DEF Init, ShownOnce, Minus, Zero
<1> QED
  BY <1>2 DEF Init, Accounting, PrevBehind, CurrentBehind, PrevReadAgain,
              FirstPoll, CacheFollowsMap

(* What a program adds to an entry is added to what is not shown of it, and *)
(* no program removes an entry.                                             *)
LEMMA KernelAdds ==
  ASSUME Types, \/ \E p \in Pids : Fork(p) \/ Exit(p)
                \/ \E c \in Cpus : Program(c)
  PROVE  \A p \in Pids :
           /\ Present(p) => Present(p)'
           /\ \E d \in Counts : /\ Counted(p)' = Add(Counted(p), d)
                                /\ unshown'[p] = Add(unshown[p], d)
<1> DEFINE Goal == \A p \in Pids :
             /\ Present(p) => Present(p)'
             /\ \E d \in Counts : /\ Counted(p)' = Add(Counted(p), d)
                                  /\ unshown'[p] = Add(unshown[p], d)
<1>1. /\ Zero \in Counts
      /\ \A p \in Pids : /\ Counted(p) = Add(Counted(p), Zero)
                         /\ unshown[p] = Add(unshown[p], Zero)
  <2>1. \A p \in Pids : /\ Counted(p) \in Counts
                        /\ unshown[p] \in [ns : Int, ctx : Int]
    BY CountsTyped DEF Types, ProgramTypes
  <2> QED BY <2>1 DEF Zero, Counts, Add
<1>2. ASSUME UNCHANGED <<table, node, unshown>> PROVE Goal
  BY <1>1, <1>2 DEF Counted, Present
<1>3. ASSUME NEW c \in Cpus, Insert(c) PROVE Goal
  <2>1. unshown' = unshown
    BY <1>3 DEF Insert, history
  <2> QED BY <1>1, <1>3, <2>1, InsertCounts
<1>4. ASSUME NEW c \in Cpus, AddSample(c) \/ CountSwitch(c) PROVE Goal
  <2>1. val[c] \in Nodes /\ table' = table
    BY <1>4 DEF AddSample, CountSwitch, Goto, Types, ProgramTypes
  <2>2. PICK d \in Counts : AddTo(c, d)
    BY <1>4 DEF AddSample, CountSwitch, Counts
  <2> QED BY <1>1, <2>1, <2>2, AddToCounts
<1>5. ASSUME NEW c \in Cpus, Sample(c) \/ Relookup(c) \/ LeaveIdle(c) \/ Switch(c)
      PROVE  UNCHANGED <<table, node, unshown>>
  BY <1>5 DEF Sample, Relookup, LeaveIdle, Switch, history, kernel
<1>6. ASSUME NEW p \in Pids, Fork(p) \/ Exit(p)
      PROVE  UNCHANGED <<table, node, unshown>>
  BY <1>6 DEF Fork, Exit, kernel
<1> QED BY <1>2, <1>3, <1>4, <1>5, <1>6 DEF Program

(* So the programs keep the accounts, whatever the aggregator is at. *)
LEMMA KernelAccounting ==
  ASSUME Inv, Accounting, \/ \E p \in Pids : Fork(p) \/ Exit(p)
                          \/ \E c \in Cpus : Program(c)
  PROVE  Accounting'
<1>0. UNCHANGED agg
  BY KernelSteps
<1>1. \A p \in Pids :
        /\ Present(p) => Present(p)'
        /\ \E d \in Counts : /\ Counted(p)' = Add(Counted(p), d)
                             /\ unshown'[p] = Add(unshown[p], d)
  BY KernelAdds DEF Inv
<1>2. /\ \A p \in Pids : Counted(p) \in Counts /\ LastShown(p) \in Counts
      /\ \A p \in DOMAIN prev : p \in Pids /\ prev[p] \in Counts
      /\ \A p \in DOMAIN current : p \in Pids /\ current[p] \in Counts
  BY CountsTyped, SnapshotParts DEF Inv, Types, AggTypes, LastShown
<1>3. \A p \in Pids : LastShown(p)' = LastShown(p)
  BY <1>0 DEF LastShown, Value, agg
<1>4. ASSUME NEW p \in Pids, NEW a \in Counts, AtMost(a, Counted(p))
      PROVE  AtMost(a, Counted(p)')
  <2>1. PICK d \in Counts : Counted(p)' = Add(Counted(p), d)
    BY <1>1
  <2>2. Counted(p) \in Counts
    BY <1>2
  <2>3. \A b \in Counts : AtMost(a, b) => AtMost(a, Add(b, d))
    BY DEF AtMost, Add, Counts
  <2> QED BY <1>4, <2>1, <2>2, <2>3
<1>5. PrevBehind' /\ CurrentBehind'
  BY <1>0, <1>1, <1>2, <1>4
  DEF Accounting, PrevBehind, CurrentBehind, Value, agg
<1>6. ShownOnce'
  <2> SUFFICES ASSUME NEW p \in Pids
               PROVE  unshown'[p] = Minus(Counted(p)', LastShown(p)')
    BY DEF ShownOnce
  <2>1. PICK d \in Counts : /\ Counted(p)' = Add(Counted(p), d)
                            /\ unshown'[p] = Add(unshown[p], d)
    BY <1>1
  <2>2. unshown[p] = Minus(Counted(p), LastShown(p))
    BY DEF Accounting, ShownOnce
  <2>3. Add(Minus(Counted(p), LastShown(p)), d)
          = Minus(Add(Counted(p), d), LastShown(p))
    BY <1>2 DEF Add, Minus, Counts
  <2> QED BY <1>3, <2>1, <2>2, <2>3
<1>7. CacheFollowsMap'
  BY <1>0, <1>1 DEF Accounting, CacheFollowsMap, agg, Inv, Types, AggTypes
<1> QED
  BY <1>0, <1>5, <1>6, <1>7 DEF Accounting, PrevReadAgain, FirstPoll, agg

(* The aggregator moves what it shows, or deletes, from what is not shown. *)
LEMMA AggregatorAccounting ==
  ASSUME Inv, Accounting, Aggregator
  PROVE  Accounting'
<1>0. /\ \A p \in Pids : Counted(p) \in Counts
      /\ \A p \in Pids : Value(prev, p) \in Counts /\ Value(current, p) \in Counts
      /\ \A p \in DOMAIN prev : p \in Pids /\ prev[p] \in Counts
      /\ \A p \in DOMAIN current : p \in Pids /\ current[p] \in Counts
      /\ current \in Snapshots
      /\ \A a \in Counts : AtMost(Zero, a)
  BY CountsTyped, SnapshotParts
  DEF Inv, Types, AggTypes, AtMost, Zero, Counts
<1>a. ASSUME UNCHANGED <<table, node>>
      PROVE  \A p \in Pids : Counted(p)' = Counted(p) /\ Present(p)' = Present(p)
  BY <1>a DEF Counted, Present
<1> USE DEF Accounting
(* The steps that show nothing: LastShown is what it was. *)
<1>b. ASSUME UNCHANGED <<table, node, unshown>>,
             \A p \in Pids : LastShown(p)' = LastShown(p)
      PROVE  ShownOnce'
  BY <1>a, <1>b DEF ShownOnce
<1>c. ASSUME UNCHANGED <<table, node, cache>> PROVE CacheFollowsMap'
  BY <1>c DEF CacheFollowsMap, Present
<1>1. ASSUME Tick PROVE Accounting'
  <2>1. UNCHANGED <<table, node, unshown, cache, prev, polled>>
    BY <1>1 DEF Tick, kernel, history
  <2>2. \A p \in Pids : LastShown(p)' = LastShown(p)
    BY <1>1, <2>1 DEF Tick, LastShown, Value
  <2>3. PrevBehind' /\ CurrentBehind' /\ PrevReadAgain' /\ FirstPoll'
    BY <1>0, <1>1, <1>a, <2>1
    DEF Tick, PrevBehind, CurrentBehind, PrevReadAgain, FirstPoll
  <2> QED BY <1>b, <1>c, <2>1, <2>2, <2>3
<1>2. ASSUME NEW p \in Pids, ReadKey(p) PROVE Accounting'
  <2>1. UNCHANGED <<table, node, unshown, cache, prev, polled, apc>>
    BY <1>2 DEF ReadKey, kernel, history
  <2>2. \A q \in Pids : LastShown(q)' = LastShown(q)
    BY <1>2, <2>1 DEF ReadKey, LastShown, Value
  <2>3. PrevBehind' /\ FirstPoll'
    BY <1>0, <1>a, <2>1 DEF PrevBehind, FirstPoll
  <2>4. p \in DOMAIN prev => Present(p)
    BY <1>2 DEF ReadKey, PrevBehind
  <2>5. AtMost(Value(prev, p), Counted(p))
    BY <1>0, <1>2 DEF ReadKey, PrevBehind, Value
  <2>6. AtMost(Counted(p), Counted(p))
    BY <1>0 DEF AtMost, Counts
  <2>7. CASE Present(p)
    <3>1. /\ DOMAIN current' = DOMAIN current \cup {p} /\ current'[p] = Counted(p)
          /\ \A q \in DOMAIN current : q # p => current'[q] = current[q]
      <4>1. current' = Put(current, p, Counted(p))
        BY <1>2, <2>7 DEF ReadKey
      <4>2. current \in Snapshots /\ Counted(p) \in Counts
        BY <1>0
      <4> QED BY <4>1, <4>2, PutSnapshot
    <3>2. CurrentBehind'
      <4> SUFFICES ASSUME NEW q \in DOMAIN current'
                   PROVE  /\ Present(q)' /\ AtMost(current'[q], Counted(q)')
                          /\ AtMost(Value(prev', q), current'[q])
        BY DEF CurrentBehind
      <4>1. CASE q = p
        BY <1>a, <2>1, <2>5, <2>6, <2>7, <3>1, <4>1
      <4>2. CASE q # p
        BY <1>0, <1>2, <1>a, <2>1, <3>1, <4>2 DEF CurrentBehind, ReadKey
      <4> QED BY <4>1, <4>2
    <3>3. PrevReadAgain'
      BY <1>2, <2>1, <3>1 DEF ReadKey, PrevReadAgain
    <3> QED BY <1>b, <1>c, <2>1, <2>2, <2>3, <3>2, <3>3
  <2>8. CASE ~Present(p)
    <3>1. current' = current
      BY <1>2, <2>8 DEF ReadKey
    <3>2. CurrentBehind' /\ PrevReadAgain'
      BY <1>0, <1>2, <1>a, <2>1, <2>4, <2>8, <3>1
      DEF ReadKey, CurrentBehind, PrevReadAgain
    <3> QED BY <1>b, <1>c, <2>1, <2>2, <2>3, <3>2
  <2> QED BY <2>7, <2>8
<1>3. ASSUME ReadFails PROVE Accounting'
  <2>1. UNCHANGED <<table, node, unshown, cache, prev, polled>>
    BY <1>3 DEF ReadFails, kernel, history
  <2>2. \A p \in Pids : LastShown(p)' = LastShown(p)
    BY <1>3, <2>1 DEF ReadFails, LastShown, Value
  <2>3. PrevBehind' /\ CurrentBehind' /\ PrevReadAgain' /\ FirstPoll'
    BY <1>0, <1>3, <1>a, <2>1
    DEF ReadFails, PrevBehind, CurrentBehind, PrevReadAgain, FirstPoll
  <2> QED BY <1>b, <1>c, <2>1, <2>2, <2>3
<1>4. ASSUME ReadDone PROVE Accounting'
  <2>1. UNCHANGED <<table, node, unshown, cache, prev, polled, current>>
    BY <1>4 DEF ReadDone, kernel, history
  <2>2. DOMAIN prev \subseteq DOMAIN current
    BY <1>4 DEF ReadDone, PrevReadAgain
  <2>3. \A p \in Pids : LastShown(p)' = LastShown(p)
    BY <1>4, <2>1, <2>2 DEF ReadDone, LastShown, Value
  <2>4. PrevBehind' /\ CurrentBehind' /\ PrevReadAgain' /\ FirstPoll'
    BY <1>0, <1>4, <1>a, <2>1
    DEF ReadDone, PrevBehind, CurrentBehind, PrevReadAgain, FirstPoll
  <2> QED BY <1>b, <1>c, <2>1, <2>3, <2>4
<1>5. ASSUME NEW p \in Pids, Comm(p) PROVE Accounting'
  <2>1. UNCHANGED <<table, node, prev, polled, current>>
    BY <1>5 DEF Comm, kernel
  <2>2. p \in DOMAIN current /\ p \in todo /\ apc = "comm" /\ apc' = "alive"
        /\ todo' = todo \ {p}
    BY <1>5 DEF Comm, Inv, Keys
  <2>3. Present(p) /\ AtMost(Value(prev, p), current[p])
    BY <2>2 DEF CurrentBehind
  <2>4. Shown(p) = Minus(current[p], Value(prev, p))
    <3>1. CASE polled
      <4>1. \A a \in Nat, b \in Nat : b <= a => SubClamp(a, b) = a - b
        BY DEF SubClamp
      <4> QED
        BY <1>0, <2>2, <2>3, <3>1, <4>1 DEF Shown, Delta, Minus, AtMost, Counts
    <3>2. CASE ~polled
      <4>1. Value(prev, p) = Zero
        BY <3>2 DEF FirstPoll, Value
      <4> QED BY <1>0, <2>2, <3>2, <4>1 DEF Shown, Minus, Zero, Counts
    <3> QED BY <3>1, <3>2
  <2>5. ShownOnce'
    <3> SUFFICES ASSUME NEW q \in Pids
                 PROVE  unshown'[q] = Minus(Counted(q)', LastShown(q)')
      BY DEF ShownOnce
    <3>1. Counted(q)' = Counted(q)
      BY <1>a, <2>1
    <3>2. CASE q = p
      <4>1. unshown[p] = Minus(Counted(p), Value(prev, p))
        BY <2>2 DEF ShownOnce, LastShown
      <4>2. unshown'[p] = Minus(unshown[p], Shown(p))
        BY <1>5 DEF Comm, Inv, Types, ProgramTypes
      <4>3. LastShown(p)' = current[p]
        BY <2>1, <2>2 DEF LastShown, Value
      <4>4. \A a, b, d \in Counts :
              Minus(Minus(a, b), Minus(d, b)) = Minus(a, d)
        BY DEF Minus, Counts
      <4> QED BY <1>0, <2>2, <2>4, <3>1, <3>2, <4>1, <4>2, <4>3, <4>4
    <3>3. CASE q # p
      <4>1. LastShown(q)' = LastShown(q)
        BY <2>1, <2>2, <3>3 DEF LastShown, Value
      <4>2. unshown'[q] = unshown[q]
        BY <1>5, <3>3 DEF Comm, Inv, Types, ProgramTypes
      <4> QED BY <3>1, <4>1, <4>2 DEF ShownOnce
    <3> QED BY <3>2, <3>3
  <2>6. CacheFollowsMap'
    BY <1>5, <2>1, <2>3 DEF Comm, Put, CacheFollowsMap, Present
  <2>7. PrevBehind' /\ CurrentBehind' /\ PrevReadAgain' /\ FirstPoll'
    BY <1>0, <1>a, <2>1, <2>2
    DEF PrevBehind, CurrentBehind, PrevReadAgain, FirstPoll
  <2> QED BY <2>5, <2>6, <2>7
<1>6. ASSUME Alive PROVE Accounting'
  <2>1. UNCHANGED <<table, node, unshown, cache, prev, polled, current>>
    BY <1>6 DEF Alive, kernel, history
  <2>2. \A p \in Pids : LastShown(p)' = LastShown(p)
    BY <1>6, <2>1 DEF Alive, LastShown, Value
  <2>3. PrevBehind' /\ CurrentBehind' /\ PrevReadAgain' /\ FirstPoll'
    BY <1>0, <1>6, <1>a, <2>1
    DEF Alive, PrevBehind, CurrentBehind, PrevReadAgain, FirstPoll
  <2> QED BY <1>b, <1>c, <2>1, <2>2, <2>3
<1>11. ASSUME StatFails PROVE Accounting'
  <2>1. UNCHANGED <<table, node, unshown, cache, prev, polled, current>>
    BY <1>11 DEF StatFails, kernel
  <2>2. \A p \in Pids : LastShown(p)' = LastShown(p)
    BY <1>11, <2>1 DEF StatFails, LastShown, Value
  <2>3. PrevBehind' /\ CurrentBehind' /\ PrevReadAgain' /\ FirstPoll'
    BY <1>0, <1>11, <1>a, <2>1
    DEF StatFails, PrevBehind, CurrentBehind, PrevReadAgain, FirstPoll
  <2> QED BY <1>b, <1>c, <2>1, <2>2, <2>3
<1>7. ASSUME NEW p \in Pids, Reap(p) PROVE Accounting'
  <2>1. /\ table' = [table EXCEPT ![p] = NoNode]
        /\ UNCHANGED <<node, prev, polled, apc, todo>> /\ apc = "comm"
        /\ todo = {}
    BY <1>7 DEF Reap, Judged
  <2>2. /\ DOMAIN current' = DOMAIN current \ {p}
        /\ \A q \in DOMAIN current' : current'[q] = current[q]
    BY <1>0, <1>7, WithoutSnapshot DEF Reap
  <2>3. \A q \in Pids \ {p} : Counted(q)' = Counted(q) /\ Present(q)' = Present(q)
    BY <2>1 DEF Counted, Present, Inv, Types, ProgramTypes
  <2>4. Counted(p)' = Zero /\ Value(current, p)' = Zero
    BY <2>1, <2>2 DEF Counted, Present, Value, Inv, Types, ProgramTypes
  <2>5. ShownOnce'
    <3> SUFFICES ASSUME NEW q \in Pids
                 PROVE  unshown'[q] = Minus(Counted(q)', LastShown(q)')
      BY DEF ShownOnce
    <3>1. CASE q = p
      <4>1. unshown[p] = Minus(Counted(p), Value(current, p))
        BY <2>1 DEF ShownOnce, LastShown
      <4>2. unshown'[p] = Minus(unshown[p], Minus(Counted(p), Value(current, p)))
        BY <1>7 DEF Reap, Inv, Types, ProgramTypes
      <4>3. LastShown(p)' = Zero
        BY <2>1, <2>4 DEF LastShown
      <4>4. \A a, b \in Counts :
              Minus(Minus(a, b), Minus(a, b)) = Minus(Zero, Zero)
        BY DEF Minus, Zero, Counts
      <4> QED BY <1>0, <2>4, <3>1, <4>1, <4>2, <4>3, <4>4
    <3>2. CASE q # p
      <4>1. LastShown(q)' = LastShown(q)
        BY <2>1, <2>2, <3>2 DEF LastShown, Value
      <4>2. unshown'[q] = unshown[q]
        BY <1>7, <3>2 DEF Reap, Inv, Types, ProgramTypes
      <4> QED BY <2>3, <3>2, <4>1, <4>2 DEF ShownOnce
    <3> QED BY <3>1, <3>2
  <2>6. CacheFollowsMap'
    <3>1. DOMAIN cache' = DOMAIN cache \ {p} /\ DOMAIN cache \subseteq Pids
      BY <1>7 DEF Reap, Without, Inv, Types, AggTypes
    <3> QED BY <2>3, <3>1 DEF CacheFollowsMap
  <2>7. PrevBehind' /\ PrevReadAgain' /\ FirstPoll'
    BY <2>1 DEF PrevBehind, PrevReadAgain, FirstPoll
  <2>8. CurrentBehind'
    BY <1>0, <2>1, <2>2, <2>3 DEF CurrentBehind
  <2> QED BY <2>5, <2>6, <2>7, <2>8
<1>8. ASSUME NEW p \in Pids, ReapFails(p) PROVE Accounting'
  <2>1. UNCHANGED <<table, node, unshown, cache, prev, polled, current, apc, todo>>
    BY <1>8 DEF ReapFails, kernel, history
  <2>2. \A q \in Pids : LastShown(q)' = LastShown(q)
    BY <2>1 DEF LastShown, Value
  <2>3. PrevBehind' /\ CurrentBehind' /\ PrevReadAgain' /\ FirstPoll'
    BY <1>0, <1>a, <2>1
    DEF PrevBehind, CurrentBehind, PrevReadAgain, FirstPoll
  <2> QED BY <1>b, <1>c, <2>1, <2>2, <2>3
<1>9. ASSUME PollDone PROVE Accounting'
  <2>1. UNCHANGED <<table, node, unshown, cache, todo>> /\ apc = "comm"
        /\ apc' \in {"wait", "send"} /\ todo = {} /\ prev' = current /\ polled'
    BY <1>9 DEF PollDone, Judged, kernel, history
  <2>2. \A p \in Pids : LastShown(p)' = LastShown(p)
    BY <2>1 DEF LastShown, Value
  <2>3. PrevBehind'
    BY <1>0, <1>a, <2>1 DEF PrevBehind, CurrentBehind
  <2>4. CurrentBehind' /\ PrevReadAgain' /\ FirstPoll'
    BY <2>1 DEF CurrentBehind, PrevReadAgain, FirstPoll
  <2> QED BY <1>b, <1>c, <2>1, <2>2, <2>3, <2>4
<1>10. ASSUME Send \/ Return PROVE Accounting'
  <2>1. /\ UNCHANGED <<table, node, unshown, cache, prev, polled, current>>
        /\ apc \in {"wait", "send"} /\ apc' \in {"wait", "returned"}
    BY <1>10 DEF Send, Return, kernel, history
  <2>2. \A p \in Pids : LastShown(p)' = LastShown(p)
    BY <2>1 DEF LastShown, Value
  <2>3. PrevBehind' /\ CurrentBehind' /\ PrevReadAgain' /\ FirstPoll'
    BY <1>0, <1>a, <2>1
    DEF PrevBehind, CurrentBehind, PrevReadAgain, FirstPoll
  <2> QED BY <1>b, <1>c, <2>1, <2>2, <2>3
<1> QED
  BY <1>1, <1>2, <1>3, <1>4, <1>5, <1>6, <1>7, <1>8, <1>9, <1>10, <1>11
  DEF Aggregator, Aggregates, Fails

(* The accounts are kept by every step. *)
LEMMA NextAccounting == Inv /\ Accounting /\ [Next]_vars => Accounting'
<1> SUFFICES ASSUME Inv, Accounting, [Next]_vars PROVE Accounting'
  OBVIOUS
<1>1. CASE UNCHANGED vars
  BY <1>1 DEF vars, processes, kernel, agg, history, Accounting, PrevBehind,
              CurrentBehind, PrevReadAgain, FirstPoll, ShownOnce, LastShown,
              Value, Counted, Present, CacheFollowsMap
<1> QED
  BY <1>1, KernelAccounting, AggregatorAccounting DEF Next, Aggregator

(* No time is shown twice, and none is dropped but what an entry got        *)
(* between its last read and its deletion: subClamp never hides anything.   *)
THEOREM ShownIsCounted == Spec => []TimeAccounted
<1>1. Accounting => TimeAccounted
  BY DEF Accounting, ShownOnce, LastShown, TimeAccounted
<1> QED
  BY <1>1, InitInv, NextInv, InitAccounting, NextAccounting, PTL DEF Spec

(* A name is cached only for a PID that has an entry. *)
THEOREM CacheIsBounded == Spec => []CacheFollowsMap
<1>1. Accounting => CacheFollowsMap
  BY DEF Accounting
<1> QED
  BY <1>1, InitInv, NextInv, InitAccounting, NextAccounting, PTL DEF Spec
-----------------------------------------------------------------------------
(* The processes: a dead one has no time of its own, a task is no younger   *)
(* than its process, one that lives is on the list of the dead only if it   *)
(* overtook the reaper or its check failed, and what looked its entry up    *)
(* still has it.                                                            *)
DeadOwnNothing == \A p \in Pids : proc[p] = 0 => own[p] = 0
TasksStarted == \A c \in Cpus : on[c] # Idle => on[c][2] <= gen[KeyOf(c)]
DeadListed == \A p \in Pids : proc[p] # 0 /\ p \in dead => p \in doomed
SamplesLand ==
  \A c \in Cpus :
    /\ pc[c] = "add" /\ on[c] # Idle
    /\ on[c][2] = proc[KeyOf(c)] /\ KeyOf(c) \notin doomed
    => val[c] = table[KeyOf(c)]
Keeping == /\ DeadOwnNothing /\ TasksStarted /\ DeadListed /\ SamplesLand
           /\ LivingKeepTime

(* No process has been sampled in the initial states. *)
LEMMA InitKeeping == Init => Keeping
<1> SUFFICES ASSUME Init PROVE Keeping
  OBVIOUS
<1> QED
  BY DEF Init, Keeping, DeadOwnNothing, TasksStarted, DeadListed, SamplesLand,
         LivingKeepTime

(* A step that gives no task time of its own leaves a process the time it   *)
(* has in the map.                                                          *)
LEMMA CountedKeeps ==
  ASSUME Inv, LivingKeepTime, own' = own, UNCHANGED <<proc, doomed>>,
         \/ UNCHANGED <<table, node>>
         \/ \E c \in Cpus : Program(c)
  PROVE  LivingKeepTime'
<1> SUFFICES ASSUME NEW p \in Pids, proc[p] # 0, p \notin doomed
             PROVE  own[p] <= Counted(p)'.ns
  BY DEF LivingKeepTime
<1>1. own[p] <= Counted(p).ns
  BY DEF LivingKeepTime
<1>2. own[p] \in Nat /\ Counted(p) \in Counts
  BY CountsTyped DEF Inv, Types, ProcessTypes
<1>3. CASE UNCHANGED <<table, node>>
  BY <1>1, <1>3 DEF Counted, Present
<1>4. CASE \E c \in Cpus : Program(c)
  <2>1. PICK d \in Counts : Counted(p)' = Add(Counted(p), d)
    BY <1>4, KernelAdds DEF Inv
  <2>2. \A b \in Counts : b.ns <= Add(b, d).ns /\ Add(b, d).ns \in Nat /\ b.ns \in Nat
    BY DEF Add, Counts
  <2>3. Counted(p).ns <= Counted(p)'.ns /\ Counted(p)'.ns \in Nat
        /\ Counted(p).ns \in Nat
    BY <1>2, <2>1, <2>2
  <2> HIDE DEF Counted
  <2> QED BY <1>1, <1>2, <2>3
<1> QED BY <1>3, <1>4

(* The next task on a CPU has started, and has looked nothing up. *)
LEMMA DispatchKeeps ==
  ASSUME Inv, TasksStarted, SamplesLand, NEW c \in Cpus, Dispatch(c),
         UNCHANGED <<proc, gen, table, doomed>>, pc'[c] = "idle",
         \A d \in Cpus \ {c} : pc'[d] = pc[d] /\ val'[d] = val[d]
  PROVE  TasksStarted' /\ SamplesLand'
<1>1. /\ on'[c] \in Tasks \cup {Idle}
      /\ \A d \in Cpus \ {c} : on'[d] = on[d]
  BY DispatchTyped DEF Inv
<1>2. \A t \in Tasks : t[1] \in Pids /\ t[2] <= gen[t[1]]
  <2> SUFFICES ASSUME NEW q \in Pids, proc[q] # 0 PROVE proc[q] <= gen[q]
    BY DEF Tasks
  <2> QED BY DEF Inv, Types, ProcessTypes
<1>3. TasksStarted'
  <2> SUFFICES ASSUME NEW d \in Cpus, on'[d] # Idle
               PROVE  on'[d][2] <= gen[on'[d][1]]
    BY DEF TasksStarted, KeyOf
  <2>1. CASE d = c
    BY <1>1, <1>2, <2>1
  <2>2. CASE d # c
    BY <1>1, <2>2 DEF TasksStarted, KeyOf
  <2> QED BY <2>1, <2>2
<1>4. SamplesLand'
  BY <1>1 DEF SamplesLand, KeyOf
<1> QED BY <1>3, <1>4

(* A process starts or exits. *)
LEMMA ProcessesKeep ==
  ASSUME Inv, Keeping, \E p \in Pids : Fork(p) \/ Exit(p)
  PROVE  Keeping'
<1> USE DEF Keeping, Inv, Types
<1>0. UNCHANGED <<on, table, node, pc, val, dead>>
  BY DEF Fork, Exit, kernel, agg
<1>a. \A p \in Pids : Counted(p)' = Counted(p)
  BY <1>0 DEF Counted, Present
<1>b. \A p \in Pids : Counted(p) \in Counts /\ Counted(p).ns >= 0
  BY CountsTyped DEF Counts
<1>c. \A c \in Cpus : on[c] # Idle => KeyOf(c) \in Pids /\ on[c][2] \in Nat \ {0}
  BY TaskHasPid
<1>1. ASSUME NEW p \in Pids, Fork(p) PROVE Keeping'
  <2>1. /\ own' = own /\ proc[p] = 0 /\ own[p] = 0
        /\ gen' = [gen EXCEPT ![p] = gen[p] + 1]
        /\ proc' = [proc EXCEPT ![p] = gen[p] + 1]
        /\ \A q \in Pids \ {p} : q \in doomed' <=> q \in doomed
        /\ p \in dead => p \in doomed'
    BY <1>1 DEF Fork, DeadOwnNothing, ProcessTypes
  <2>2. DeadOwnNothing' /\ DeadListed'
    BY <1>0, <2>1 DEF DeadOwnNothing, DeadListed, ProcessTypes
  <2>3. \A q \in Pids : gen[q] \in Nat /\ gen'[q] \in Nat /\ gen[q] <= gen'[q]
    BY <2>1 DEF ProcessTypes
  <2>4. TasksStarted'
    <3> SUFFICES ASSUME NEW c \in Cpus, on[c] # Idle
                 PROVE  on[c][2] <= gen'[KeyOf(c)]
      BY <1>0 DEF TasksStarted, KeyOf
    <3>1. on[c][2] <= gen[KeyOf(c)]
      BY DEF TasksStarted
    <3>2. on[c][2] \in Nat /\ KeyOf(c) \in Pids
      BY <1>c
    <3> QED BY <2>3, <3>1, <3>2
  <2>5. SamplesLand'
    <3> SUFFICES ASSUME NEW c \in Cpus, pc[c] = "add", on[c] # Idle,
                        on[c][2] = proc'[KeyOf(c)], KeyOf(c) \notin doomed'
                 PROVE  val[c] = table[KeyOf(c)]
      BY <1>0 DEF SamplesLand, KeyOf
    <3>1. on[c][2] <= gen[KeyOf(c)] /\ on[c][2] \in Nat /\ KeyOf(c) \in Pids
      BY <1>c DEF TasksStarted
    <3>2. KeyOf(c) # p
      BY <2>1, <3>1 DEF ProcessTypes
    <3> QED BY <2>1, <3>1, <3>2 DEF SamplesLand, ProcessTypes
  <2>6. LivingKeepTime'
    BY <1>a, <1>b, <2>1 DEF LivingKeepTime, ProcessTypes
  <2> QED BY <2>2, <2>4, <2>5, <2>6
<1>2. ASSUME NEW p \in Pids, Exit(p) PROVE Keeping'
  <2>1. /\ own' = [own EXCEPT ![p] = 0] /\ gen' = gen
        /\ proc' = [proc EXCEPT ![p] = 0]
        /\ doomed' = doomed \ {p}
    BY <1>2 DEF Exit
  <2>2. DeadOwnNothing' /\ DeadListed' /\ TasksStarted'
    BY <1>0, <2>1
    DEF DeadOwnNothing, DeadListed, TasksStarted, KeyOf, ProcessTypes
  <2>3. SamplesLand'
    <3> SUFFICES ASSUME NEW c \in Cpus, pc[c] = "add", on[c] # Idle,
                        on[c][2] = proc'[KeyOf(c)], KeyOf(c) \notin doomed'
                 PROVE  val[c] = table[KeyOf(c)]
      BY <1>0 DEF SamplesLand, KeyOf
    <3>1. KeyOf(c) # p /\ KeyOf(c) \in Pids
      BY <1>c, <2>1 DEF ProcessTypes
    <3> QED BY <2>1, <3>1 DEF SamplesLand, ProcessTypes
  <2>4. LivingKeepTime'
    BY <1>a, <2>1 DEF LivingKeepTime, ProcessTypes
  <2> QED BY <2>2, <2>3, <2>4
<1> QED BY <1>1, <1>2

(* A step of a program. *)
LEMMA ProgramKeeps ==
  ASSUME Inv, Keeping, NEW c \in Cpus, Program(c)
  PROVE  Keeping'
<1> USE DEF Keeping
<1>0. UNCHANGED <<proc, gen, doomed, dead>>
  BY DEF Program, Sample, Insert, Relookup, AddSample, LeaveIdle, Switch,
         CountSwitch, processes, agg, history
<1>a. DeadListed'
  BY <1>0 DEF DeadListed
<1>b. ASSUME own' = own PROVE DeadOwnNothing' /\ LivingKeepTime'
  BY <1>0, <1>b, CountedKeeps DEF DeadOwnNothing
<1>c. ASSUME on' = on PROVE TasksStarted'
  BY <1>0, <1>c DEF TasksStarted, KeyOf
<1>1. CASE Sample(c) \/ Relookup(c)
  <2>1. own' = own /\ on' = on /\ table' = table
        /\ val' = [val EXCEPT ![c] = table[KeyOf(c)]]
        /\ \A d \in Cpus \ {c} : pc'[d] = pc[d]
    BY <1>1 DEF Sample, Relookup, Goto, processes, history, Inv, Types,
       ProgramTypes
  <2>2. SamplesLand'
    BY <1>0, <2>1 DEF SamplesLand, KeyOf, Inv, Types, ProgramTypes
  <2> QED BY <1>a, <1>b, <1>c, <2>1, <2>2
<1>2. CASE Insert(c)
  <2>1. /\ own' = own /\ on' = on /\ val' = val
        /\ \A d \in Cpus : pc'[d] = "add" => pc[d] = "add"
    BY <1>2 DEF Insert, Goto, processes, history, Inv, Types, ProgramTypes
  <2>2. \A p \in Pids : Present(p) => table'[p] = table[p]
    BY <1>2, InsertCounts DEF Inv
  <2>3. SamplesLand'
    <3> SUFFICES ASSUME NEW d \in Cpus, pc[d] = "add", on[d] # Idle,
                        on[d][2] = proc[KeyOf(d)], KeyOf(d) \notin doomed
                 PROVE  val[d] = table'[KeyOf(d)]
      BY <1>0, <2>1 DEF SamplesLand, KeyOf
    <3>1. KeyOf(d) \in Pids
      BY TaskHasPid DEF Inv
    <3>2. val[d] = table[KeyOf(d)]
      BY DEF SamplesLand
    <3>3. val[d] \in Nodes
      BY DEF Inv, Types, ProgramTypes
    <3> QED BY <2>2, <3>1, <3>2, <3>3, NullAssumption DEF Present
  <2> QED BY <1>a, <1>b, <1>c, <2>1, <2>3
<1>3. CASE AddSample(c)
  <2> DEFINE k == KeyOf(c)
  <2>1. /\ on' = on /\ table' = table /\ pc[c] = "add" /\ pc'[c] = "idle"
        /\ \A d \in Cpus \ {c} : pc'[d] = pc[d] /\ val'[d] = val[d]
        /\ AddTo(c, [ns |-> 1, ctx |-> 0])
    BY <1>3 DEF AddSample, Goto, processes, Inv, Types, ProgramTypes
  <2>2. on[c] # Idle /\ val[c] \in Nodes
    BY <2>1 DEF Inv, Types, ProgramTypes
  <2>3. k \in Pids /\ on[c][2] \in Nat \ {0}
    BY <2>2, TaskHasPid DEF Inv
  <2>4. /\ \A p \in Pids : own[p] \in Nat /\ Counted(p) \in Counts
        /\ \A p \in Pids \ {k} : own'[p] = own[p]
        /\ own'[k] = IF on[c][2] = proc[k] THEN own[k] + 1 ELSE own[k]
    BY <1>3, <2>3, CountsTyped DEF AddSample, Inv, Types, ProcessTypes
  <2>5. DeadOwnNothing'
    BY <1>0, <2>3, <2>4 DEF DeadOwnNothing
  <2>6. SamplesLand'
    BY <1>0, <2>1 DEF SamplesLand, KeyOf
  <2>7. LivingKeepTime'
    <3> SUFFICES ASSUME NEW p \in Pids, proc[p] # 0, p \notin doomed
                 PROVE  own'[p] <= Counted(p)'.ns
      BY <1>0 DEF LivingKeepTime
    <3>1. own[p] <= Counted(p).ns
      BY DEF LivingKeepTime
    <3>2. Counted(p)' = IF table[p] = val[c]
                        THEN Add(Counted(p), [ns |-> 1, ctx |-> 0])
                        ELSE Counted(p)
      <4>1. [ns |-> 1, ctx |-> 0] \in Counts
        BY DEF Counts
      <4> QED BY <2>1, <2>2, <4>1, AddToCounts DEF Inv
    <3>3. \A b \in Counts : /\ b.ns \in Nat
                            /\ Add(b, [ns |-> 1, ctx |-> 0]).ns = b.ns + 1
      BY DEF Add, Counts
    <3>4. own'[p] # own[p] => own'[p] = own[p] + 1 /\ table[p] = val[c]
      BY <2>1, <2>2, <2>4 DEF SamplesLand
    <3>5. own[p] \in Nat /\ Counted(p).ns \in Nat
      BY <2>4, <3>3
    <3>6. table[p] = val[c] => Counted(p)'.ns = Counted(p).ns + 1
      BY <2>4, <3>2, <3>3
    <3>7. table[p] # val[c] => Counted(p)'.ns = Counted(p).ns
      BY <3>2
    <3> HIDE DEF Counted
    <3> QED BY <3>1, <3>4, <3>5, <3>6, <3>7
  <2> QED BY <1>a, <1>c, <2>1, <2>5, <2>6, <2>7
<1>4. CASE LeaveIdle(c) \/ CountSwitch(c) \/ (Switch(c) /\ ~Present(KeyOf(c)))
  <2>1. own' = own /\ Dispatch(c) /\ table' = table
    BY <1>4 DEF LeaveIdle, CountSwitch, Switch, kernel, history
  <2>2. pc'[c] = "idle" /\ \A d \in Cpus \ {c} : pc'[d] = pc[d] /\ val'[d] = val[d]
    BY <1>4 DEF LeaveIdle, CountSwitch, Switch, Goto, kernel, Inv, Types,
                ProgramTypes
  <2> QED BY <1>0, <1>a, <1>b, <2>1, <2>2, DispatchKeeps
<1>5. CASE Switch(c) /\ Present(KeyOf(c))
  <2>1. /\ own' = own /\ on' = on /\ table' = table /\ pc'[c] = "count"
        /\ \A d \in Cpus \ {c} : pc'[d] = pc[d] /\ val'[d] = val[d]
    BY <1>5 DEF Switch, Goto, processes, history, Inv, Types, ProgramTypes
  <2>2. SamplesLand'
    BY <1>0, <2>1 DEF SamplesLand, KeyOf
  <2> QED BY <1>a, <1>b, <1>c, <2>1, <2>2
<1> QED BY <1>1, <1>2, <1>3, <1>4, <1>5 DEF Program

(* A step of the aggregator: it deletes the entry of a process that lives   *)
(* only if that one took the PID after the check, or the check failed.      *)
LEMMA AggregatorKeeps ==
  ASSUME Inv, Keeping, Aggregator
  PROVE  Keeping'
<1> USE DEF Keeping
<1>0. UNCHANGED <<proc, gen, on, own, node, pc, val>>
  BY DEF Aggregator, Aggregates, Fails, Tick, ReadKey, ReadFails, ReadDone,
         Comm, Alive, StatFails, Reap, ReapFails, PollDone, Send, Return,
         processes, kernel, history
<1>1. DeadOwnNothing' /\ TasksStarted'
  BY <1>0 DEF DeadOwnNothing, TasksStarted, KeyOf
<1>b. doomed \subseteq doomed' /\ (~StatFails => doomed' = doomed)
  BY DEF Aggregator, Aggregates, Fails, Tick, ReadKey, ReadFails, ReadDone,
         Comm, Alive, StatFails, Reap, ReapFails, PollDone, Send, Return,
         history
<1>2. DeadListed'
  <2>1. \A p \in dead' : p \in dead \/ proc[p] = 0 \/ p \in doomed'
    BY DEF Aggregator, Aggregates, Fails, Tick, ReadKey, ReadFails, ReadDone,
           Comm, Alive, StatFails, Gone, Reap, ReapFails, PollDone, Send, Return
  <2> QED BY <1>0, <1>b, <2>1 DEF DeadListed
<1>3. CASE \E p \in Pids : Reap(p)
  <2> PICK p \in Pids : Reap(p)
    BY <1>3
  <2>1. /\ table' = [table EXCEPT ![p] = NoNode] /\ p \in dead
        /\ doomed' = doomed
    BY DEF Reap
  <2>2. proc[p] # 0 => p \in doomed
    BY <2>1 DEF DeadListed
  <2>3. SamplesLand'
    <3> SUFFICES ASSUME NEW c \in Cpus, pc[c] = "add", on[c] # Idle,
                        on[c][2] = proc[KeyOf(c)], KeyOf(c) \notin doomed
                 PROVE  val[c] = table'[KeyOf(c)]
      BY <1>0, <2>1 DEF SamplesLand, KeyOf
    <3>1. KeyOf(c) \in Pids /\ on[c][2] # 0
      BY TaskHasPid DEF Inv
    <3>2. KeyOf(c) # p
      BY <2>2, <3>1
    <3> QED BY <2>1, <3>2 DEF SamplesLand, Inv, Types, ProgramTypes
  <2>4. \A q \in Pids \ {p} : Counted(q)' = Counted(q)
    BY <1>0, <2>1 DEF Counted, Present, Inv, Types, ProgramTypes
  <2>5. LivingKeepTime'
    BY <1>0, <2>1, <2>2, <2>4 DEF LivingKeepTime
  <2> QED BY <1>1, <1>2, <2>3, <2>5
<1>4. CASE ~ \E p \in Pids : Reap(p)
  <2>1. table' = table
    BY <1>4 DEF Aggregator, Aggregates, Fails, Tick, ReadKey, ReadFails,
                ReadDone, Comm, Alive, StatFails, ReapFails, PollDone, Send,
                Return, kernel
  <2>2. SamplesLand'
    BY <1>0, <1>b, <2>1 DEF SamplesLand, KeyOf
  <2>3. \A p \in Pids : Counted(p)' = Counted(p)
    BY <1>0, <2>1 DEF Counted, Present
  <2>4. LivingKeepTime'
    BY <1>0, <1>b, <2>3 DEF LivingKeepTime
  <2> QED BY <1>1, <1>2, <2>2, <2>4
<1> QED BY <1>3, <1>4

(* A process in /proc keeps all the time it was sampled for, unless it got  *)
(* its PID between the check that found the one before gone and the         *)
(* deletion of the entry, or its own check failed.                          *)
THEOREM LivingAreNotReaped == Spec => []LivingKeepTime
<1>1. Inv /\ Keeping /\ [Next]_vars => Keeping'
  <2> SUFFICES ASSUME Inv, Keeping, [Next]_vars PROVE Keeping'
    OBVIOUS
  <2>1. CASE UNCHANGED vars
    BY <2>1 DEF vars, processes, kernel, agg, history, Keeping, DeadOwnNothing,
                TasksStarted, DeadListed, SamplesLand, LivingKeepTime, KeyOf,
                Counted, Present
  <2> QED
    BY <2>1, ProcessesKeep, ProgramKeeps, AggregatorKeeps DEF Next, Aggregator
<1>2. Keeping => LivingKeepTime
  BY DEF Keeping
<1> QED BY <1>1, <1>2, InitInv, NextInv, InitKeeping, PTL DEF Spec
=============================================================================
