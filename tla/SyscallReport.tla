--------------------------- MODULE SyscallReport ---------------------------
(***************************************************************************)
(* internal/syscalls/aggregator.go: the goroutine that reads the            *)
(* syscall_lat map on every tick while the kernel counts into it, and turns *)
(* each entry and its value at the previous poll into a Record.  The kernel *)
(* side appears here as LatCounters, which SyscallLat implements.  The copy *)
(* of one value is one step.                                                *)
(*                                                                          *)
(* Bounds: MaxSamples on the samples, MaxEvicted, MaxPolls.                 *)
(*                                                                          *)
(* The names are other than SyscallLat's, so that one module can extend     *)
(* both.                                                                    *)
(***************************************************************************)
EXTENDS Histogram

CONSTANTS Keys, MaxSamples, MaxEvicted, MaxPolls

ASSUME PollBounds ==
  MaxSamples \in Nat /\ MaxEvicted \in Nat /\ MaxPolls \in Nat

VARIABLES
  map,        \* syscall_lat: a function from the keys that have an entry
  at,         \* "wait", "read", "send" or "returned"
  todo,       \* the keys readMap has ahead of it
  current,    \* its result so far: a function on the entries read
  prev,       \* prev
  polled,     \* prevTime is not zero
  records,    \* the last batch: a function from keys to Records
  cancelled,
  samples, evicted, polls,   \* bounds
  shown       \* history: what the rows of each key add up to, from the first

kernel     == <<map, samples, evicted>>
agg        == <<todo, current, prev, polled, records, polls, shown>>
reportVars == <<kernel, at, agg, cancelled>>

Kernel == INSTANCE LatCounters WITH lat <- map

(* Go's reading of a key that may be missing. *)
Value(f, k) == IF k \in DOMAIN f THEN f[k] ELSE ZeroHist

ReportInit ==
  /\ Kernel!Init /\ samples = 0 /\ evicted = 0
  /\ at = "wait" /\ todo = {} /\ current = <<>> /\ prev = <<>>
  /\ polled = FALSE /\ records = <<>> /\ cancelled = FALSE /\ polls = 0
  /\ shown = [k \in Keys |-> 0]

(* The kernel puts an entry of zeros for k, and counts a sample in it. *)
KernelSeeds(k) ==
  /\ samples < MaxSamples /\ Kernel!Seed(k)
  /\ UNCHANGED <<samples, evicted, at, agg, cancelled>>

KernelAdds(k, i) ==
  /\ samples < MaxSamples /\ samples' = samples + 1
  /\ Kernel!AddSample(k, i)
  /\ UNCHANGED <<evicted, at, agg, cancelled>>

KernelEvicts(k) ==
  /\ evicted < MaxEvicted /\ evicted' = evicted + 1
  /\ Kernel!Evict(k)
  /\ UNCHANGED <<samples, at, agg, cancelled>>

Cancel ==
  /\ ~cancelled /\ cancelled' = TRUE
  /\ UNCHANGED <<kernel, at, agg>>
-----------------------------------------------------------------------------
PollTick ==
  /\ at = "wait" /\ polls < MaxPolls
  /\ at' = "read" /\ todo' = Keys /\ current' = <<>> /\ polls' = polls + 1
  /\ UNCHANGED <<kernel, prev, polled, records, shown, cancelled>>

(* readMapBatch or readMapIter comes to key k: an entry is copied. *)
ReadKey(k) ==
  /\ at = "read" /\ k \in todo
  /\ todo' = todo \ {k}
  /\ current' = IF k \in DOMAIN map THEN Kernel!Put(current, k, map[k])
                ELSE current
  /\ UNCHANGED <<kernel, at, prev, polled, records, polls, shown, cancelled>>

(* A failing read is logged, and the next tick tries again. *)
ReadFailsKeeps ==   \* mutant: the partial snapshot becomes prev
  /\ at = "read" /\ at' = "wait" /\ prev' = current
  /\ UNCHANGED <<kernel, todo, current, polled, records, polls, shown,
                 cancelled>>
ReadFails ==
  /\ at = "read" /\ at' = "wait"
  /\ UNCHANGED <<kernel, agg, cancelled>>

(* The records, against prev, which the snapshot then replaces; an empty    *)
(* batch is not sent.                                                       *)
PollDone ==
  /\ at = "read" /\ todo = {}
  /\ records' = [k \in DOMAIN current |->
                   BuildRecord(current[k], Value(prev, k), polled)]
  /\ prev' = current /\ polled' = TRUE
  /\ shown' = [k \in Keys |->
       IF k \notin DOMAIN current THEN shown[k]
       ELSE IF polled THEN shown[k] + records'[k].delta
       ELSE records'[k].count]
  /\ at' = IF DOMAIN current = {} THEN "wait" ELSE "send"
  /\ UNCHANGED <<kernel, todo, current, polls, cancelled>>

Send ==
  /\ at = "send" /\ at' = "wait"
  /\ UNCHANGED <<kernel, agg, cancelled>>

Stops ==
  /\ cancelled /\ at \in {"wait", "send"} /\ at' = "returned"
  /\ UNCHANGED <<kernel, agg, cancelled>>

ReportNext ==
  \/ \E k \in Keys : \/ KernelSeeds(k) \/ KernelEvicts(k) \/ ReadKey(k)
                     \/ \E i \in Buckets : KernelAdds(k, i)
  \/ PollTick \/ ReadFails \/ PollDone \/ Send \/ Cancel \/ Stops

ReportSpec == ReportInit /\ [][ReportNext]_reportVars
-----------------------------------------------------------------------------
Record == [count : Nat, delta : Nat, p50 : Nat, p90 : Nat, p99 : Nat,
           min : Nat, max : Nat]
Partial(f, S) == DOMAIN f \subseteq Keys /\ \A k \in DOMAIN f : f[k] \in S
ReportTypeOK ==
  /\ at \in {"wait", "read", "send", "returned"} /\ Partial(map, Hist)
  /\ todo \subseteq Keys /\ polled \in BOOLEAN /\ cancelled \in BOOLEAN
  /\ Partial(current, Hist) /\ Partial(prev, Hist) /\ Partial(records, Record)
  /\ shown \in [Keys -> Nat]

(* The latency columns of a row are in order, and the samples they describe *)
(* exist: a percentile is a bucket between the first and the last.          *)
RowsOrdered ==
  \A k \in DOMAIN records : LET r == records[k] IN
    /\ r.count > 0 => r.min > 0
    /\ r.min <= r.p50 /\ r.p50 <= r.p90 /\ r.p90 <= r.p99 /\ r.p99 <= r.max

(* syscalls.go: DeltaCount is the "samples added since last poll".  Without *)
(* an eviction the first count and the deltas add up to the last count,     *)
(* whatever reads failed in between and wherever the kernel counted         *)
(* meanwhile.                                                               *)
DeltasAddUp ==
  evicted = 0 => \A k \in DOMAIN prev : shown[k] = Total(prev[k])
=============================================================================
