--------------------------- MODULE FlowAggregator ---------------------------
(***************************************************************************)
(* `ebpfview flows` in user space: the goroutine in Aggregator.Run          *)
(* (internal/flows/aggregator.go), which polls flow_table and sends record  *)
(* batches on a channel, the main loop of runFlows (cmd/ebpfview/           *)
(* flows_run.go), which renders them, and the context a signal cancels,     *)
(* composed with FlowCounters, the kernel side the poll reads while it      *)
(* changes.                                                                 *)
(*                                                                          *)
(* A poll reads the map one key at a time, as both readMapIter and, a       *)
(* bucket at a time, readMapBatch do.  Time is counted in polls started.    *)
(* The join with RTT samples is in RttSamples.                              *)
(*                                                                          *)
(* Bounds: MaxTraffic on the steps of the kernel, MaxEvictions on its       *)
(* evictions, MaxPolls on polls.  Word is 2^64 made small: the modulus of   *)
(* the uint64 subtractions.                                                 *)
(***************************************************************************)
EXTENDS Integers, Sequences

CONSTANTS Flows, Lens, NoKey,
          Cap,                      \* capacity of the record channel
          Iterates,                 \* no batch operations: readMapIter
          Word, MaxTraffic, MaxEvictions, MaxPolls

ASSUME CapAssumption   == Cap \in Nat \ {0}
ASSUME WordAssumption  == Word \in Nat \ {0}
ASSUME KeyAssumption   == NoKey \notin Flows
ASSUME FlowsAssumption == Lens \subseteq Nat /\ Iterates \in BOOLEAN
ASSUME AggBoundsAssumption ==
  MaxTraffic \in Nat /\ MaxEvictions \in Nat /\ MaxPolls \in Nat

VARIABLES
  ctr,        \* flow_table, as FlowCounters has it
  traffic, evictions,            \* kernel steps and evictions so far (bounds)
  pc,         \* Run: "select", "scan", "send" or "returned"
  tick,       \* ticker.C holds a tick
  polls,      \* polls started: time.Now() of the current one
  todo, last, current,           \* the scan: keys ahead, last key, result
  prev, prevTime,                \* a.prev and a.prevTime (0: IsZero)
  records,    \* the batch poll returned, until it is sent
  ch,         \* the channel
  cancelled,  \* ctx is done
  main,       \* runFlows: "running" or "returned"
  open,       \* the map's descriptor: mgr.Close closes it
  shown,      \* the batch rendered last
  atStart     \* history: flow_table when the poll began, but for the
              \* flows evicted since

kernel == <<ctr, traffic, evictions>>
poll   == <<tick, polls, todo, last, current, prev, prevTime, records, atStart>>
loop   == <<cancelled, main, open>>
vars   == <<kernel, poll, loop, pc, ch, shown>>

Kernel == INSTANCE FlowCounters

(* A batch: time of its poll, time since the previous one (0 on the first), *)
(* and per flow the counters and what was added to them since.              *)
NoBatch == [now |-> 0, elapsed |-> 0, rec |-> <<>>]

Init ==
  /\ Kernel!Init /\ traffic = 0 /\ evictions = 0
  /\ pc = "select" /\ tick = FALSE /\ polls = 0
  /\ todo = {} /\ last = NoKey /\ current = <<>>
  /\ prev = <<>> /\ prevTime = 0 /\ records = NoBatch /\ atStart = ctr
  /\ ch = <<>> /\ shown = NoBatch
  /\ cancelled = FALSE /\ main = "running" /\ open = TRUE
-----------------------------------------------------------------------------
(* The programs count packets. *)
Traffic(k) ==
  /\ traffic < MaxTraffic /\ traffic' = traffic + 1
  /\ \/ \E len \in Lens : Kernel!Appear(k, len) \/ Kernel!CountBytes(k, len)
     \/ Kernel!CountPacket(k)
  /\ UNCHANGED <<evictions, poll, loop, pc, ch, shown>>

Evict(k) ==
  /\ evictions < MaxEvictions /\ evictions' = evictions + 1
  /\ Kernel!Evict(k)
  /\ atStart' = [j \in DOMAIN atStart \ {k} |-> atStart[j]]
  /\ UNCHANGED <<traffic, tick, polls, todo, last, current, prev, prevTime,
                 records, loop, pc, ch, shown>>

(* The ticker fires; a tick nobody has taken yet absorbs the next. *)
Tick ==
  /\ ~tick /\ polls < MaxPolls
  /\ tick' = TRUE
  /\ UNCHANGED <<kernel, loop, pc, ch, shown, polls, todo, last, current,
                 prev, prevTime, records, atStart>>

(* case <-ticker.C: poll() takes the time and begins to read the map. *)
StartPoll ==
  /\ pc = "select" /\ tick
  /\ pc' = "scan" /\ tick' = FALSE /\ polls' = polls + 1
  /\ todo' = Flows /\ last' = NoKey /\ current' = <<>> /\ atStart' = ctr
  /\ UNCHANGED <<kernel, loop, ch, shown, prev, prevTime, records>>

(* result[key] = val: f with k mapped to v. *)
Put(f, k, v) == [j \in DOMAIN f \cup {k} |-> IF j = k THEN v ELSE f[j]]

ReadKey(k) ==
  /\ pc = "scan" /\ open /\ k \in todo
  /\ todo' = todo \ {k}
  /\ IF Kernel!Live(k) THEN current' = Put(current, k, ctr[k]) /\ last' = k
                       ELSE UNCHANGED <<current, last>>
  /\ UNCHANGED <<kernel, loop, pc, ch, shown, tick, polls, prev, prevTime,
                 records, atStart>>

(* An iterator whose last key has been evicted starts over at the first.    *)
Rescan ==
  /\ pc = "scan" /\ open /\ Iterates
  /\ last # NoKey /\ ~Kernel!Live(last)
  /\ todo' = Flows /\ last' = NoKey
  /\ UNCHANGED <<kernel, loop, pc, ch, shown, tick, polls, current, prev,
                 prevTime, records, atStart>>

(* The read fails, as it must once mgr.Close has closed the map: the poll   *)
(* returns an error and Run goes on to the next tick, prev untouched.       *)
PollFailsForgets ==   \* mutant: prev is replaced before the error is seen
  /\ pc = "scan"
  /\ pc' = "select" /\ current' = <<>> /\ todo' = {} /\ last' = NoKey
  /\ prev' = current
  /\ UNCHANGED <<kernel, loop, ch, shown, tick, polls, prevTime,
                 records, atStart>>
PollFails ==
  /\ pc = "scan"
  /\ pc' = "select" /\ current' = <<>> /\ todo' = {} /\ last' = NoKey
  /\ UNCHANGED <<kernel, loop, ch, shown, tick, polls, prev, prevTime,
                 records, atStart>>

(* val.Packets - prev.Packets in uint64. *)
SubSigned(a, b) == b - a             \* mutant: the same, not unsigned
Sub(a, b) == (a - b) % Word

Record(k, elapsed) ==
  LET known == elapsed > 0 /\ k \in DOMAIN prev IN
  [packets  |-> current[k].packets,
   bytes    |-> current[k].bytes,
   dPackets |-> IF known THEN Sub(current[k].packets, prev[k].packets) ELSE 0,
   dBytes   |-> IF known THEN Sub(current[k].bytes, prev[k].bytes) ELSE 0]

Elapsed == IF prevTime = 0 THEN 0 ELSE polls - prevTime

(* The scan is complete: the records are computed against prev, prev is     *)
(* replaced, and unless the batch is empty Run goes on to send it.          *)
ScanCompleteEarly == open   \* mutant: a short batch taken for the last one
ScanComplete == open /\ todo = {}
FinishPoll ==
  /\ pc = "scan" /\ ScanComplete
  /\ records' = [now |-> polls, elapsed |-> Elapsed,
                 rec |-> [k \in DOMAIN current |-> Record(k, Elapsed)]]
  /\ prev' = current /\ prevTime' = polls
  /\ pc' = IF DOMAIN current = {} THEN "select" ELSE "send"
  /\ UNCHANGED <<kernel, loop, ch, shown, tick, polls, todo, last, current,
                 atStart>>

(* case out <- records *)
Send ==
  /\ pc = "send" /\ Len(ch) < Cap
  /\ pc' = "select" /\ ch' = Append(ch, records)
  /\ UNCHANGED <<kernel, poll, loop, shown>>

(* case <-ctx.Done(), in either select *)
CancellableIdle == pc = "select"   \* mutant: a plain send in the inner select
Cancellable == pc \in {"select", "send"}
Return ==
  /\ Cancellable /\ cancelled
  /\ pc' = "returned"
  /\ UNCHANGED <<kernel, poll, loop, ch, shown>>

(* case records := <-ch: renderFlows(records) *)
Render ==
  /\ main = "running" /\ ch # <<>>
  /\ shown' = Head(ch) /\ ch' = Tail(ch)
  /\ UNCHANGED <<kernel, poll, loop, pc>>

(* case <-ctx.Done(): runFlows returns, its deferred mgr.Close closes the   *)
(* maps.                                                                    *)
MainReturns ==
  /\ main = "running" /\ cancelled
  /\ main' = "returned" /\ open' = FALSE
  /\ UNCHANGED <<kernel, poll, cancelled, pc, ch, shown>>

(* SIGINT or SIGTERM *)
Cancel ==
  /\ ~cancelled /\ cancelled' = TRUE
  /\ UNCHANGED <<kernel, poll, main, open, pc, ch, shown>>

Aggregates == \/ StartPoll \/ \E k \in Flows : ReadKey(k)
              \/ FinishPoll \/ Send

Next ==
  \/ \E k \in Flows : Traffic(k) \/ Evict(k) \/ ReadKey(k)
  \/ Tick \/ StartPoll \/ Rescan \/ PollFails \/ FinishPoll
  \/ Send \/ Return \/ Render \/ MainReturns \/ Cancel

(* The goroutines are scheduled.  Both selects choose at random among their *)
(* ready cases, so a done context is taken sooner or later however often    *)
(* another case is ready: strong fairness of Return and MainReturns.  The   *)
(* read of a closed map fails: weak fairness of PollFails once it is closed.*)
Fairness ==
  /\ WF_vars(Aggregates) /\ WF_vars(Rescan) /\ WF_vars(~open /\ PollFails)
  /\ SF_vars(Return) /\ SF_vars(MainReturns) /\ WF_vars(Render)

Spec == Init /\ [][Next]_vars
FairSpec == Spec /\ Fairness
-----------------------------------------------------------------------------
PairOf(f) == DOMAIN f \subseteq Flows /\
             \A k \in DOMAIN f : f[k] \in [packets : Nat, bytes : Nat]
BatchOK(b) ==
  /\ b.now \in 0..polls /\ b.elapsed \in 0..polls
  /\ DOMAIN b.rec \subseteq Flows
  /\ \A k \in DOMAIN b.rec :
       b.rec[k] \in [packets : Nat, bytes : Nat,
                     dPackets : 0..Word - 1, dBytes : 0..Word - 1]

TypeOK ==
  /\ ctr \in [Flows -> [packets : Nat, bytes : Nat]]
  /\ traffic \in 0..MaxTraffic /\ evictions \in 0..MaxEvictions
  /\ pc \in {"select", "scan", "send", "returned"}
  /\ tick \in BOOLEAN /\ polls \in 0..MaxPolls
  /\ todo \subseteq Flows /\ last \in Flows \cup {NoKey}
  /\ PairOf(current) /\ PairOf(prev) /\ prevTime \in 0..polls
  /\ BatchOK(records) /\ BatchOK(shown)
  /\ Len(ch) <= Cap /\ \A i \in DOMAIN ch : BatchOK(ch[i])
  /\ cancelled \in BOOLEAN /\ main \in {"running", "returned"}
  /\ open \in BOOLEAN

(* A poll is not atomic, and an eviction may send it back to the start, but *)
(* of the flows not evicted since it began the batch it returns is between  *)
(* the table then and the table now: it has every such flow that was live   *)
(* then, and no counter in it is older than the poll.                       *)
SnapshotSandwich ==
  pc = "send" =>
    \A k \in DOMAIN atStart :
      /\ atStart[k].packets > 0 => k \in DOMAIN records.rec
      /\ k \in DOMAIN records.rec =>
           /\ atStart[k].packets <= records.rec[k].packets
           /\ records.rec[k].packets <= ctr[k].packets
           /\ atStart[k].bytes <= records.rec[k].bytes
           /\ records.rec[k].bytes <= ctr[k].bytes

(* What is rendered adds up, also across failed polls, a full channel and   *)
(* evictions: a table whose interval starts at the poll of the table        *)
(* rendered before shows what was added since that table (as uint64), and   *)
(* while nothing is evicted, so that no poll finds the map empty again,     *)
(* every table is such a table.                                             *)
Consecutive == shown.now = shown'.now - shown'.elapsed
RenderedDeltas ==
  [][shown' # shown /\ shown # NoBatch =>
       /\ evictions = 0 => Consecutive
       /\ Consecutive =>
            \A k \in DOMAIN shown.rec \cap DOMAIN shown'.rec :
              shown'.rec[k].dPackets =
                Sub(shown'.rec[k].packets, shown.rec[k].packets)]_vars

(* aggregator.go: the rates are computed "by diffing against the previous   *)
(* snapshot", and a flow that is new has rate 0 in its first interval, so   *)
(* that a rate never exceeds what the flow has counted in its lifetime.     *)
RateWithinCounter ==
  \A k \in DOMAIN shown.rec :
    /\ shown.rec[k].dPackets <= shown.rec[k].packets
    /\ shown.rec[k].dBytes <= shown.rec[k].bytes

(* Run blocks until ctx is cancelled, and no longer: neither a channel      *)
(* nobody drains nor the map closed under a poll keeps it.                  *)
ShutsDown == cancelled ~> pc = "returned" /\ main = "returned"
=============================================================================
