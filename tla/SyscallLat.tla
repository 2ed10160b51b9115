----------------------------- MODULE SyscallLat -----------------------------
(***************************************************************************)
(* bpf/c/syscall_lat.c: sys_enter notes when a thread entered a system call *)
(* in the map syscall_start, sys_exit joins with the note and counts the    *)
(* latency in a histogram of the map syscall_lat.  The threads are those of *)
(* one process, so they share its histograms; they run on different CPUs,   *)
(* and between them only map operations and the atomic addition are         *)
(* ordered.  Both maps are LRU hash maps of preallocated nodes: a lookup    *)
(* returns a pointer to a node, and an evicted node may be taken again      *)
(* while a program holds the pointer.                                       *)
(*                                                                          *)
(* May says what an instance may do: "evict_start" and "evict_lat";         *)
(* "update_fails", an update of a map is refused also while there are free  *)
(* nodes; "reuse", a thread id is given to a new thread.                    *)
(*                                                                          *)
(* Bounds: MaxCalls on the system calls, MaxClock on the time, MaxLosses on *)
(* the evictions and the updates refused while there are free nodes.        *)
(***************************************************************************)
EXTENDS Histogram

CONSTANTS Tids,                 \* pid_tgid values of the process's threads
          Nrs,                  \* system calls, by number below MAX_SYSCALL_NR
          BadNr,                \* a number sys_enter rejects
          ExitNr,               \* exit: the thread never returns from it
          StartNodes, LatNodes, NoNode,
          TickLengths,          \* lengths of a tick of the clock, in ns
          May, MaxCalls, MaxClock, MaxLosses

ASSUME TidsAssumption == IsFiniteSet(Tids)
ASSUME NrsAssumption ==
  IsFiniteSet(Nrs) /\ ExitNr \in Nrs /\ BadNr \notin Nrs
ASSUME NodesAssumption == NoNode \notin StartNodes \cup LatNodes
ASSUME BoundsAssumption ==
  MaxCalls \in Nat /\ MaxClock \in Nat /\ MaxLosses \in Nat
ASSUME TicksAssumption ==
  \A ns \in TickLengths : ns \in Nat \ {0} /\ IsU64(MaxClock * ns)

VARIABLES
  start, snode,   \* syscall_start: its index by thread and its nodes
  lat, lnode,     \* syscall_lat: its index by system call and its nodes
  pc,             \* where each thread is
  reg,            \* the locals of its run of sys_exit
  clock, calls,
  losses,         \* evictions and refused updates so far
  call,           \* history: the call the thread is in
  done,           \* history: the calls that returned, by bucket
  reused          \* history: how many ids were given to a new thread

maps == <<start, snode, lat, lnode>>
bounds == <<calls, losses>>
vars == <<maps, pc, reg, clock, bounds, call, done, reused>>

(* "none": no thread has this id yet; "fork": a child that has not returned *)
(* from its creation; then the steps of raw_tp_sys_exit.                    *)
Locations == {"none", "user", "call", "fork", "gone",
              "now", "load", "loadnr", "delete", "find", "seed", "refind", "add"}

NoNote == [ts |-> 0, nr |-> BadNr]
NoReg  == [start |-> NoNode, now |-> 0, delta |-> 0, nr |-> BadNr,
           val |-> NoNode]
Bucket(t) == BucketOf(reg[t].delta)

Init ==
  /\ start = [t \in Tids |-> NoNode] /\ snode = [n \in StartNodes |-> NoNote]
  /\ lat = [k \in Nrs |-> NoNode] /\ lnode = [n \in LatNodes |-> ZeroHist]
  /\ pc \in [Tids -> {"none", "user", "call"}]   \* when the programs attach
  /\ reg = [t \in Tids |-> NoReg] /\ call = [t \in Tids |-> NoNote]
  /\ clock = 0 /\ calls = 0 /\ losses = 0
  /\ done = [k \in Nrs |-> ZeroHist] /\ reused = 0

Goto(t, from, to) == pc[t] = from /\ pc' = [pc EXCEPT ![t] = to]

Tick ==
  /\ clock < MaxClock /\ clock' = clock + 1
  /\ UNCHANGED <<maps, pc, reg, bounds, call, done, reused>>

(* raw_tp_sys_enter: BPF_ANY replaces what the thread's entry held. *)
FreeStart == StartNodes \ {start[t] : t \in Tids}
Note(t, nr) == \E n \in FreeStart :
  /\ start' = [start EXCEPT ![t] = n]
  /\ snode' = [snode EXCEPT ![n] = [ts |-> clock, nr |-> nr]]
Enter(t, nr) ==
  /\ Goto(t, "user", "call")
  /\ calls < MaxCalls /\ calls' = calls + 1
  /\ IF nr = BadNr THEN UNCHANGED <<start, snode>> ELSE Note(t, nr)
  /\ call' = [call EXCEPT ![t] = [ts |-> clock, nr |-> nr]]
  /\ UNCHANGED <<lat, lnode, reg, clock, losses, done, reused>>

(* The update fails: its result is not looked at, the call goes on unnoted. *)
MayRefuse(free) ==
  free = {} \/ ("update_fails" \in May /\ losses < MaxLosses)
EnterUnnoted(t, nr) ==
  /\ Goto(t, "user", "call") /\ nr # BadNr /\ MayRefuse(FreeStart)
  /\ calls < MaxCalls /\ calls' = calls + 1 /\ losses' = losses + 1
  /\ call' = [call EXCEPT ![t] = [ts |-> clock, nr |-> nr]]
  /\ UNCHANGED <<maps, reg, clock, done, reused>>

(* A thread that exits never comes to sys_exit. *)
Vanish(t) ==
  /\ call[t].nr = ExitNr /\ Goto(t, "call", "gone")
  /\ UNCHANGED <<maps, reg, clock, bounds, call, done, reused>>

(* A new thread: its first event is the sys_exit of the call that made it,  *)
(* which it did not enter.                                                  *)
Fork(t) ==
  /\ \/ Goto(t, "none", "fork") /\ UNCHANGED reused
     \/ "reuse" \in May /\ Goto(t, "gone", "fork") /\ reused' = reused + 1
  /\ call' = [call EXCEPT ![t] = NoNote]
  /\ UNCHANGED <<maps, reg, clock, bounds, done>>
-----------------------------------------------------------------------------
(* raw_tp_sys_exit.  bpf_map_lookup_elem(&syscall_start, ...) *)
Leave(t) ==
  /\ pc[t] \in {"call", "fork"} /\ (pc[t] = "call" => call[t].nr # ExitNr)
  /\ pc' = [pc EXCEPT ![t] = IF start[t] = NoNode THEN "user" ELSE "now"]
  /\ reg' = [reg EXCEPT ![t].start = start[t]]
  /\ UNCHANGED <<maps, clock, bounds, call, done, reused>>

(* now = bpf_ktime_get_ns(): the moment the call is taken to have returned. *)
Returned(t, now) == call[t].nr # BadNr /\ now > call[t].ts
Now(t) ==
  /\ Goto(t, "now", "load")
  /\ reg' = [reg EXCEPT ![t].now = clock]
  /\ done' = IF Returned(t, clock)
             THEN [done EXCEPT ![call[t].nr][BucketOf(clock - call[t].ts)]
                                 = @ + 1]
             ELSE done
  /\ UNCHANGED <<maps, clock, bounds, call, reused>>

(* start->ts_ns and then start->nr, through the pointer. *)
Load(t) ==
  /\ Goto(t, "load", "loadnr")
  /\ reg' = [reg EXCEPT ![t].delta = reg[t].now - snode[reg[t].start].ts]
  /\ UNCHANGED <<maps, clock, bounds, call, done, reused>>
LoadNr(t) ==
  /\ Goto(t, "loadnr", "delete")
  /\ reg' = [reg EXCEPT ![t].nr = snode[reg[t].start].nr]
  /\ UNCHANGED <<maps, clock, bounds, call, done, reused>>

(* The note is deleted; a delta that is not positive is dropped. *)
KeepsPositiveOrZero(t) == reg[t].delta >= 0   \* mutant: delta < 0 in the test
KeepsPositive(t) == reg[t].delta > 0
DeleteSkipped(t) ==   \* mutant: the note stays
  /\ Goto(t, "delete", IF KeepsPositive(t) THEN "find" ELSE "user")
  /\ UNCHANGED <<maps, reg, clock, bounds, call, done, reused>>
Delete(t) ==
  /\ Goto(t, "delete", IF KeepsPositive(t) THEN "find" ELSE "user")
  /\ start' = [start EXCEPT ![t] = NoNode]
  /\ UNCHANGED <<snode, lat, lnode, reg, clock, bounds, call, done, reused>>

(* bpf_map_lookup_elem(&syscall_lat, &key), before and after the seeding. *)
Find(t) ==
  /\ Goto(t, "find", IF lat[reg[t].nr] = NoNode THEN "seed" ELSE "add")
  /\ reg' = [reg EXCEPT ![t].val = lat[reg[t].nr]]
  /\ UNCHANGED <<maps, clock, bounds, call, done, reused>>
Refind(t) ==
  /\ Goto(t, "refind", IF lat[reg[t].nr] = NoNode THEN "user" ELSE "add")
  /\ reg' = [reg EXCEPT ![t].val = lat[reg[t].nr]]
  /\ UNCHANGED <<maps, clock, bounds, call, done, reused>>

(* bpf_map_update_elem of the zero template with BPF_NOEXIST: the other     *)
(* thread that got there first keeps its entry.                             *)
FreeLat == LatNodes \ {lat[j] : j \in Nrs}
PutZero(k) == \E n \in FreeLat :
  /\ lat' = [lat EXCEPT ![k] = n] /\ lnode' = [lnode EXCEPT ![n] = ZeroHist]
SeedAny(t) ==   \* mutant: BPF_ANY
  /\ Goto(t, "seed", "refind") /\ PutZero(reg[t].nr)
  /\ UNCHANGED <<start, snode, reg, clock, bounds, call, done, reused>>
Seed(t) ==
  /\ Goto(t, "seed", "refind")
  /\ IF lat[reg[t].nr] = NoNode THEN PutZero(reg[t].nr)
                                ELSE UNCHANGED <<lat, lnode>>
  /\ UNCHANGED <<start, snode, reg, clock, bounds, call, done, reused>>

SeedRefused(t) ==   \* the update fails: the second lookup tells
  /\ Goto(t, "seed", "refind") /\ lat[reg[t].nr] = NoNode /\ MayRefuse(FreeLat)
  /\ losses' = losses + 1
  /\ UNCHANGED <<maps, reg, clock, calls, call, done, reused>>

(* __sync_fetch_and_add(&val->buckets[bucket], 1) *)
Add(t) ==
  /\ Goto(t, "add", "user")
  /\ lnode' = [lnode EXCEPT ![reg[t].val][Bucket(t)] = @ + 1]
  /\ UNCHANGED <<start, snode, lat, reg, clock, bounds, call, done, reused>>
-----------------------------------------------------------------------------
(* The kernel reclaims an entry; what its node holds stays until reuse. *)
EvictStart(t) ==
  /\ "evict_start" \in May /\ losses < MaxLosses /\ start[t] # NoNode
  /\ losses' = losses + 1 /\ start' = [start EXCEPT ![t] = NoNode]
  /\ UNCHANGED <<snode, lat, lnode, pc, reg, clock, calls, call, done, reused>>
EvictLat(k) ==
  /\ "evict_lat" \in May /\ losses < MaxLosses /\ lat[k] # NoNode
  /\ losses' = losses + 1 /\ lat' = [lat EXCEPT ![k] = NoNode]
  /\ UNCHANGED <<start, snode, lnode, pc, reg, clock, calls, call, done, reused>>

Exits(t) == \/ Leave(t) \/ Now(t) \/ Load(t) \/ LoadNr(t) \/ Delete(t)
            \/ Find(t) \/ Seed(t) \/ SeedRefused(t) \/ Refind(t) \/ Add(t)

Next == \/ Tick
        \/ \E t \in Tids : \/ Vanish(t) \/ Fork(t) \/ Exits(t) \/ EvictStart(t)
                           \/ \E nr \in Nrs \cup {BadNr} :
                                Enter(t, nr) \/ EnterUnnoted(t, nr)
        \/ \E k \in Nrs : EvictLat(k)

Spec == Init /\ [][Next]_vars
-----------------------------------------------------------------------------
Notes == [ts : 0 .. MaxClock, nr : Nrs \cup {BadNr}]
TypeOK ==
  /\ start \in [Tids -> StartNodes \cup {NoNode}]
  /\ snode \in [StartNodes -> Notes] /\ call \in [Tids -> Notes]
  /\ lat \in [Nrs -> LatNodes \cup {NoNode}] /\ lnode \in [LatNodes -> Hist]
  /\ pc \in [Tids -> Locations] /\ clock \in 0 .. MaxClock
  /\ \A t \in Tids :
       /\ pc[t] \in {"now", "load", "loadnr"} => reg[t].start \in StartNodes
       /\ pc[t] \in {"find", "seed", "refind", "add"} =>
            reg[t].delta > 0 /\ reg[t].nr \in Nrs
       /\ pc[t] = "add" => reg[t].val \in LatNodes
  /\ done \in [Nrs -> Hist]

Counted(k) == IF lat[k] = NoNode THEN ZeroHist ELSE lnode[lat[k]]

(* Runs of sys_exit that are still to count in bucket i of k. *)
Pending(k, i) ==
  Cardinality({t \in Tids :
    \/ pc[t] = "delete" /\ reg[t].delta > 0 /\ reg[t].nr = k /\ Bucket(t) = i
    \/ pc[t] \in {"find", "seed", "refind", "add"} /\ reg[t].nr = k /\ Bucket(t) = i
    \/ pc[t] \in {"load", "loadnr"} /\ Returned(t, reg[t].now) /\ call[t].nr = k
       /\ BucketOf(reg[t].now - call[t].ts) = i})

(* syscalls.go: bucket i "holds the count of observations where the syscall *)
(* latency falls in [2^i, 2^(i+1)) nanoseconds".  While nothing is evicted, *)
(* no update refused and no thread id used again, every call that returned  *)
(* is counted once, in that bucket, however the threads race for the first  *)
(* count of a system call.                                                  *)
EveryCallCounted ==
  losses = 0 /\ reused = 0 =>
    \A k \in Nrs, i \in Buckets : Counted(k)[i] + Pending(k, i) = done[k][i]

(* ... and bucket i covers it: whatever a tick of the clock lasts, log2_u64 *)
(* of the latency a program is about to count is the bucket whose bounds    *)
(* internal/syscalls shows for it.                                          *)
Log2Covers ==
  \A t \in Tids : pc[t] = "add" =>
    \A ns \in TickLengths :
      LET delta == reg[t].delta * ns
          i     == Log2(delta)
      IN  Pow2[i] <= delta /\ delta < Pow2[i + 1]

(* What SyscallReport is checked against: whatever is evicted, recycled or  *)
(* seeded twice, a histogram a poll can see appears empty, grows by one     *)
(* sample at a time, and is never set back while its entry lives.           *)
L == INSTANCE LatCounters WITH
       Keys <- Nrs,
       lat <- [k \in {j \in Nrs : lat[j] # NoNode} |-> lnode[lat[k]]]
Counters == L!Spec

(* Whatever the maps evict, samples may be lost and, where a node is taken  *)
(* again under a program's pointer, filed elsewhere; but no call is counted *)
(* twice, and the note a dead thread left is counted at most once, when a   *)
(* new thread has its id.                                                   *)
NothingCountedTwice ==
  MapThenSumSet(LAMBDA k : Total(Counted(k)), Nrs)
    <= MapThenSumSet(LAMBDA k : Total(done[k]), Nrs) + reused
=============================================================================
