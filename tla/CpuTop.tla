------------------------------- MODULE CpuTop -------------------------------
(***************************************************************************)
(* `ebpfview top`: the two programs of bpf/c/cpu_sample.c, which count into *)
(* the per-CPU hash cpu_time on every CPU, and the goroutine in             *)
(* Aggregator.Run (internal/cpu/aggregator.go) with its cache of process    *)
(* names (internal/cpu/proc.go), which reads that map, shows what was added *)
(* since the poll before, and deletes the entries of processes that are no  *)
(* longer in /proc.  Processes start and exit meanwhile, and a PID may be   *)
(* used again.                                                              *)
(*                                                                          *)
(* On one CPU the programs do not nest: both run with interrupts off.  A    *)
(* sample is one unit of ns: user_ns and kern_ns are counted alike, and ns  *)
(* is their sum.  A process is known by its PID and its generation, which   *)
(* is also its name (comm): 1 is the first process with that PID.           *)
(*                                                                          *)
(* Bounds: MaxSamples and MaxSwitches on the runs of the two programs,      *)
(* MaxForks on the processes that start.                                    *)
(***************************************************************************)
EXTENDS Integers, FiniteSets, FiniteSetsExt

CONSTANTS Cpus, Pids,
          Nodes,          \* the map's preallocated nodes: max_entries of them
          NoNode, NoPid,  \* the NULL of a lookup; no key in hand
          Idle,           \* the idle task, whose tgid is 0
          MaxSamples, MaxSwitches, MaxForks

ASSUME CpusAssumption  == IsFiniteSet(Cpus) /\ Cpus # {}
ASSUME NullAssumption  == NoNode \notin Nodes /\ NoPid \notin Pids
ASSUME TasksAssumption == Idle \notin Pids \X (Nat \ {0})
ASSUME BoundsAssumption ==
  MaxSamples \in Nat /\ MaxSwitches \in Nat /\ MaxForks \in Nat

VARIABLES
  proc,       \* /proc: the generation of the process there, 0 for none
  gen,        \* how many processes have had each PID
  on,         \* the task on each CPU: Idle, or its PID and generation
  table,      \* cpu_time's index: [Pids -> Nodes \cup {NoNode}]
  node,       \* the values (struct cpu_val) of each node, one per CPU
  pc, val,    \* per CPU: the next access of its program, and the local val
  samples, switches,   \* so far (bounds)
  apc,        \* the goroutine: "wait", "read", "comm", "alive", "send"
              \* or "returned"
  todo, key,  \* the keys ahead of the loop it is in, and the one in hand
  current, prev, polled,         \* its snapshots, and whether prevTime is set
  dead,       \* the local dead: keys to reap
  cache,      \* commReader.cache
  records,    \* the batch
  unshown,    \* history: added to the entry of a PID, neither shown yet nor
              \* deleted unseen
  own,        \* history: samples of the process that has the PID now
  doomed      \* history: PIDs that were on the list to be reaped while
              \* their process was there

processes == <<proc, gen, on>>
kernel    == <<table, node, pc, val, samples, switches>>
agg       == <<apc, todo, key, current, prev, polled, dead, cache, records>>
history   == <<unshown, own, doomed>>
vars      == <<processes, kernel, agg, history>>

Zero == [ns |-> 0, ctx |-> 0]
Add(a, b) == [ns |-> a.ns + b.ns, ctx |-> a.ctx + b.ctx]
Minus(a, b) == [ns |-> a.ns - b.ns, ctx |-> a.ctx - b.ctx]

(* SumCPUs *)
SumField(vals, f) == MapThenSumSet(LAMBDA c : vals[c][f], Cpus)
SumCPUs(vals) == [ns |-> SumField(vals, "ns"), ctx |-> SumField(vals, "ctx")]

Present(p) == table[p] # NoNode
Counted(p) == IF Present(p) THEN SumCPUs(node[table[p]]) ELSE Zero
FreeNodes  == Nodes \ {table[p] : p \in Pids}

(* Go's reading of a map, and its map writes and deletions. *)
Value(f, p) == IF p \in DOMAIN f THEN f[p] ELSE Zero
Put(f, p, v) == [q \in DOMAIN f \cup {p} |-> IF q = p THEN v ELSE f[q]]
Without(f, p) == [q \in DOMAIN f \ {p} |-> f[q]]

Init ==
  /\ proc = [p \in Pids |-> 0] /\ gen = proc
  /\ on = [c \in Cpus |-> Idle]
  /\ table = [p \in Pids |-> NoNode]
  /\ node = [n \in Nodes |-> [c \in Cpus |-> Zero]]
  /\ pc = [c \in Cpus |-> "idle"] /\ val = [c \in Cpus |-> NoNode]
  /\ samples = 0 /\ switches = 0
  /\ apc = "wait" /\ todo = {} /\ key = NoPid
  /\ current = <<>> /\ prev = <<>> /\ polled = FALSE
  /\ dead = {} /\ cache = <<>> /\ records = <<>>
  /\ unshown = [p \in Pids |-> Zero]
  /\ own = [p \in Pids |-> 0] /\ doomed = {}
-----------------------------------------------------------------------------
(* The programs are attached until runTop returns; nothing that happens     *)
(* after that matters.                                                      *)
Attached == apc # "returned"

(* A process starts, perhaps with a PID that has been used. *)
Fork(p) ==
  /\ Attached /\ proc[p] = 0
  /\ MapThenSumSet(LAMBDA q : gen[q], Pids) < MaxForks
  /\ gen' = [gen EXCEPT ![p] = @ + 1]
  /\ proc' = [proc EXCEPT ![p] = gen'[p]]
  /\ doomed' = IF p \in dead THEN doomed \cup {p} ELSE doomed
  /\ UNCHANGED <<on, kernel, agg, unshown, own>>

(* It leaves /proc; what it has on a CPU still runs to its last switch. *)
Exit(p) ==
  /\ Attached /\ proc[p] # 0 /\ proc' = [proc EXCEPT ![p] = 0]
  /\ own' = [own EXCEPT ![p] = 0] /\ doomed' = doomed \ {p}
  /\ UNCHANGED <<gen, on, kernel, agg, unshown>>

Tasks == {<<p, proc[p]>> : p \in {q \in Pids : proc[q] # 0}}

(* The task that c runs next. *)
Dispatch(c) == \E t \in Tasks \cup {Idle} : on' = [on EXCEPT ![c] = t]

(* The idle task is switched out: sched_switch_count returns at once. *)
LeaveIdle(c) ==
  /\ Attached /\ on[c] = Idle /\ Dispatch(c)
  /\ UNCHANGED <<proc, gen, kernel, agg, history>>
-----------------------------------------------------------------------------
Goto(c, from, to) == pc[c] = from /\ pc' = [pc EXCEPT ![c] = to]
KeyOf(c) == on[c][1]

(* The timer interrupts a task that is not idle: cpu_sample looks its       *)
(* process up.                                                              *)
Sample(c) ==
  /\ Attached /\ on[c] # Idle
  /\ samples < MaxSamples /\ samples' = samples + 1
  /\ Goto(c, "idle", IF Present(KeyOf(c)) THEN "add" ELSE "insert")
  /\ val' = [val EXCEPT ![c] = table[KeyOf(c)]]
  /\ UNCHANGED <<processes, table, node, switches, agg, history>>

(* bpf_map_update_elem(&cpu_time, &key, z, BPF_NOEXIST): refused if another *)
(* CPU was first or no node is free, and the result is not looked at.  The  *)
(* kernel zeroes the values of the other CPUs.                              *)
Insert(c) ==
  /\ Goto(c, "insert", "relookup")
  /\ IF Present(KeyOf(c)) \/ FreeNodes = {}
     THEN UNCHANGED <<table, node>>
     ELSE \E n \in FreeNodes :
            /\ table' = [table EXCEPT ![KeyOf(c)] = n]
            /\ node' = [node EXCEPT ![n] = [d \in Cpus |-> Zero]]
  /\ UNCHANGED <<processes, val, samples, switches, agg, history>>

AfterRelookupUnchecked(c) == "add"   \* mutant: no second test for NULL
AfterRelookup(c) == IF Present(KeyOf(c)) THEN "add" ELSE "idle"
Relookup(c) ==
  /\ Goto(c, "relookup", AfterRelookup(c))
  /\ val' = [val EXCEPT ![c] = table[KeyOf(c)]]
  /\ UNCHANGED <<processes, table, node, samples, switches, agg, history>>

(* An addition through val to the value of this CPU.  The node may by now   *)
(* be another entry's, or free.                                             *)
AddTo(c, v) ==
  /\ node' = [node EXCEPT ![val[c]][c] = Add(@, v)]
  /\ unshown' = [p \in Pids |->
       IF table[p] = val[c] THEN Add(unshown[p], v) ELSE unshown[p]]

AddSample(c) ==
  /\ Goto(c, "add", "idle") /\ val' = [val EXCEPT ![c] = NoNode]
  /\ AddTo(c, [ns |-> 1, ctx |-> 0])
  /\ own' = [own EXCEPT ![KeyOf(c)] =
               IF on[c][2] = proc[KeyOf(c)] THEN @ + 1 ELSE @]
  /\ UNCHANGED <<processes, table, samples, switches, agg, doomed>>

(* sched_switch_count looks up the process of the task that is switched     *)
(* out.  An entry that is there is counted in; none is made.                *)
Switch(c) ==
  /\ Attached /\ on[c] # Idle
  /\ switches < MaxSwitches /\ switches' = switches + 1
  /\ IF Present(KeyOf(c))
     THEN /\ Goto(c, "idle", "count")
          /\ val' = [val EXCEPT ![c] = table[KeyOf(c)]]
          /\ UNCHANGED on
     ELSE /\ pc[c] = "idle"
          /\ Dispatch(c)
          /\ UNCHANGED <<pc, val>>
  /\ UNCHANGED <<proc, gen, table, node, samples, agg, history>>

CountSwitch(c) ==
  /\ Goto(c, "count", "idle") /\ val' = [val EXCEPT ![c] = NoNode]
  /\ AddTo(c, [ns |-> 0, ctx |-> 1])
  /\ Dispatch(c)
  /\ UNCHANGED <<proc, gen, table, samples, switches, agg, own, doomed>>
-----------------------------------------------------------------------------
(* Run takes a tick: poll() begins to read the map. *)
Tick ==
  /\ apc = "wait" /\ apc' = "read"
  /\ todo' = Pids /\ current' = <<>> /\ dead' = {} /\ records' = <<>>
  /\ UNCHANGED <<processes, kernel, key, prev, polled, cache, history>>

(* readMapBatch or readMapIter comes to p, and sums over the CPUs. *)
ReadKey(p) ==
  /\ apc = "read" /\ p \in todo /\ todo' = todo \ {p}
  /\ current' = IF Present(p) THEN Put(current, p, Counted(p)) ELSE current
  /\ UNCHANGED <<processes, kernel, apc, key, prev, polled, dead, cache,
                 records, history>>

(* The read fails; the poll is given up and prev kept. *)
ReadFailsForgets ==   \* mutant: prev is replaced by what was read
  /\ apc = "read"
  /\ apc' = "wait" /\ todo' = {} /\ current' = <<>> /\ prev' = current
  /\ UNCHANGED <<processes, kernel, key, polled, dead, cache, records,
                 history>>
ReadFails ==
  /\ apc = "read"
  /\ apc' = "wait" /\ todo' = {} /\ current' = <<>>
  /\ UNCHANGED <<processes, kernel, key, prev, polled, dead, cache, records,
                 history>>

ReadDone ==
  /\ apc = "read" /\ todo = {}
  /\ apc' = "comm" /\ todo' = DOMAIN current
  /\ UNCHANGED <<processes, kernel, key, current, prev, polled, dead, cache,
                 records, history>>

(* subClamp, of both counters; the rates of the first poll are 0. *)
SubClamp(a, b) == IF a < b THEN 0 ELSE a - b
Delta(p) ==
  LET cur == current[p]  old == Value(prev, p) IN
  IF ~polled THEN Zero
  ELSE [ns  |-> SubClamp(cur.ns, old.ns), ctx |-> SubClamp(cur.ctx, old.ctx)]

(* What a row shows of the counters: the total at first, then the rates. *)
Shown(p) == IF polled THEN Delta(p) ELSE current[p]

(* buildRecord with a.proc.comm(p): the name is read from /proc and cached, *)
(* and the cache stands in for a process that is gone; 0 is "pid_<n>".      *)
Comm(p) ==
  /\ apc = "comm" /\ p \in todo
  /\ todo' = todo \ {p} /\ key' = p /\ apc' = "alive"
  /\ \/ proc[p] # 0 /\ cache' = Put(cache, p, proc[p])
     \/ cache' = cache   \* it cannot be read
  /\ records' = Put(records, p,
                    [total |-> current[p], delta |-> Delta(p),
                     comm |-> IF p \in DOMAIN cache' THEN cache'[p] ELSE 0])
  /\ unshown' = [unshown EXCEPT ![p] = Minus(@, Shown(p))]
  /\ UNCHANGED <<processes, kernel, current, prev, polled, dead,
                 own, doomed>>

(* if !a.proc.alive(key.Pid) *)
GoneByCache(p) == p \notin DOMAIN cache   \* mutant: judged by the cache
GoneIfIdle(p) == current[p] = Value(prev, p)   \* mutant: idle is dead
Gone(p) == proc[p] = 0
Alive ==
  /\ apc = "alive" /\ apc' = "comm" /\ key' = NoPid
  /\ dead' = IF Gone(key) THEN dead \cup {key} ELSE dead
  /\ UNCHANGED <<processes, kernel, todo, current, prev, polled, cache,
                 records, history>>

(* os.Stat fails, though the process is there, and is taken for its end.    *)
StatFails ==
  /\ apc = "alive" /\ ~Gone(key)
  /\ apc' = "comm" /\ key' = NoPid
  /\ dead' = dead \cup {key} /\ doomed' = doomed \cup {key}
  /\ UNCHANGED <<processes, kernel, todo, current, prev, polled, cache,
                 records, unshown, own>>

(* The records are built; what is left is to reap. *)
Judged == apc = "comm" /\ todo = {}

(* reap: the entry is deleted (or was missing), and with it go the key in   *)
(* the snapshot and the name.                                               *)
ReapKeepsName(p) ==   \* mutant: no a.proc.forget(key.Pid)
  /\ Judged /\ p \in dead /\ dead' = dead \ {p}
  /\ table' = [table EXCEPT ![p] = NoNode]
  /\ unshown' = [unshown EXCEPT ![p] = Zero]
  /\ current' = Without(current, p)
  /\ UNCHANGED <<processes, node, pc, val, samples, switches, apc, todo, key,
                 prev, polled, cache, records, own, doomed>>
Reap(p) ==
  /\ Judged /\ p \in dead /\ dead' = dead \ {p}
  /\ table' = [table EXCEPT ![p] = NoNode]
  /\ unshown' = [unshown EXCEPT ![p] =
                   Minus(@, Minus(Counted(p), Value(current, p)))]
  /\ current' = Without(current, p) /\ cache' = Without(cache, p)
  /\ UNCHANGED <<processes, node, pc, val, samples, switches, apc, todo, key,
                 prev, polled, records, own, doomed>>

(* The deletion fails: the key stays, for the next poll to try again. *)
ReapFails(p) ==
  /\ Judged /\ p \in dead /\ dead' = dead \ {p}
  /\ UNCHANGED <<processes, kernel, apc, todo, key, current, prev, polled,
                 cache, records, history>>

PollDone ==
  /\ Judged /\ dead = {}
  /\ prev' = current /\ polled' = TRUE /\ current' = <<>>
  /\ apc' = IF records = <<>> THEN "wait" ELSE "send"
  /\ UNCHANGED <<processes, kernel, todo, key, dead, cache, records,
                 history>>

(* out <- records; runTop renders them. *)
Send ==
  /\ apc = "send" /\ apc' = "wait" /\ records' = <<>>
  /\ UNCHANGED <<processes, kernel, todo, key, current, prev, polled, dead,
                 cache, history>>

(* case <-ctx.Done(), in either select; runTop returns as well. *)
Return ==
  /\ apc \in {"wait", "send"} /\ apc' = "returned"
  /\ UNCHANGED <<processes, kernel, todo, key, current, prev, polled, dead,
                 cache, records, history>>
-----------------------------------------------------------------------------
Program(c) ==
  \/ Sample(c) \/ Insert(c) \/ Relookup(c) \/ AddSample(c)
  \/ LeaveIdle(c) \/ Switch(c) \/ CountSwitch(c)

Aggregates ==
  \/ Tick \/ ReadDone \/ Alive \/ PollDone \/ Send
  \/ \E p \in Pids : ReadKey(p) \/ Comm(p) \/ Reap(p)

Fails == ReadFails \/ StatFails \/ \E p \in Pids : ReapFails(p)

Next ==
  \/ \E p \in Pids : Fork(p) \/ Exit(p)
  \/ \E c \in Cpus : Program(c)
  \/ Aggregates \/ Fails \/ Return

Spec == Init /\ [][Next]_vars

(* The ticker ticks and the goroutine is scheduled; reads, checks and       *)
(* deletions do not fail for ever.                                          *)
FairSpec == Spec /\ WF_vars(Aggregates) /\ <>[][~Fails]_vars
-----------------------------------------------------------------------------
Counts == [ns : Nat, ctx : Nat]
Snapshot(f) == DOMAIN f \subseteq Pids /\ \A p \in DOMAIN f : f[p] \in Counts
TypeOK ==
  /\ proc \in [Pids -> Nat] /\ gen \in [Pids -> Nat]
  /\ \A p \in Pids : proc[p] \in {0, gen[p]}
  /\ \A c \in Cpus : on[c] = Idle => pc[c] = "idle"
  /\ table \in [Pids -> Nodes \cup {NoNode}]
  /\ node \in [Nodes -> [Cpus -> Counts]]
  /\ pc \in [Cpus -> {"idle", "insert", "relookup", "add", "count"}]
  /\ \A c \in Cpus : pc[c] \in {"add", "count"} => val[c] \in Nodes
  /\ apc \in {"wait", "read", "comm", "alive", "send", "returned"}
  /\ todo \subseteq Pids /\ (apc = "alive" => key \in Pids)
  /\ Snapshot(current) /\ Snapshot(prev) /\ dead \subseteq Pids
  /\ \A p \in DOMAIN records : records[p].delta \in Counts
  /\ unshown \in [Pids -> [ns : Int, ctx : Int]]

(* cpu.go: a record has "correct deltas".  Whatever polls failed, whichever *)
(* process had the PID: between polls, what was added to an entry and not   *)
(* yet shown is what the entry has over the snapshot, so no time is shown   *)
(* twice and none is dropped but what an entry got between its last read    *)
(* and its deletion.  In particular no counter goes backwards from a poll   *)
(* to the next, and subClamp never takes anything away.                     *)
TimeAccounted ==
  apc = "wait" =>
    \A p \in Pids : unshown[p] = Minus(Counted(p), Value(prev, p))

(* aggregator.go: reap is of "exited processes".  A process in /proc keeps  *)
(* all the time it was sampled for, unless it got its PID between the check *)
(* that found the one before gone and the deletion, or the check failed.    *)
LivingKeepTime ==
  \A p \in Pids :
    proc[p] # 0 /\ p \notin doomed => own[p] <= Counted(p).ns

(* proc.go: forget is called "so a recycled PID does not inherit the        *)
(* previous process's name".  A name is cached only for a PID that has an   *)
(* entry, so the name goes when the entry does, and the cache is no larger  *)
(* than the map.                                                            *)
CacheFollowsMap == \A p \in DOMAIN cache : Present(p)

(* aggregator.go: entries of processes that no longer exist are reaped "so  *)
(* the map cannot fill up with dead PIDs", also those a dying task made     *)
(* again after the deletion, and those whose deletion failed.               *)
DeadReaped ==
  \A p \in Pids :
    proc[p] = 0 /\ (\A c \in Cpus : on[c] = Idle \/ KeyOf(c) # p)
      ~> ~Present(p) \/ proc[p] # 0 \/ apc = "returned"
-----------------------------------------------------------------------------
(* aggregator.go: "reap deletes map entries for exited processes", which    *)
(* the code does not keep: the same without the two exceptions.             *)
ExitedAreReaped ==
  \A p \in Pids : proc[p] # 0 => own[p] <= Counted(p).ns
=============================================================================
