# ebpfview: TLA+ models, checks and proofs

ebpfview attaches eBPF programs to a Linux kernel, lets them count into BPF
maps, and polls those maps from a Go program that prints tables. This directory
models the parts of it that keep state under concurrency: the BPF programs,
which run on all CPUs at once over shared maps, the Go goroutines that read and
prune those maps while they change, the loader that owns the kernel objects, the
watcher that follows network namespaces, and the event readers and pipeline.
`PROJECT.json` lists the components, the runs, the hazards, and for every definition the lines of source it stands for.

    tlc -workers 2 -config FlowTable_cpus.cfg MCFlowTable     # any run of PROJECT.json
    tlapm FlowTable_proofs.tla                                # the proofs

## 1. Inventory

### Kernel programs (`bpf/c`)

| program | state | operations | what is hard |
| --- | --- | --- | --- |
| `flows.c`: `flows_ingress`, `flows_egress` (`process_packet`) | LRU hash `flow_table`: key to packets, bytes, first and last stamp, TCP flags | parse a frame, look its key up; add to the entry, or insert with `BPF_NOEXIST` | every CPU runs it at once; only two additions are atomic; a looked-up pointer outlives its entry |
| `flows.c`: `flows_rtt_v4` (`record_rtt`) | LRU hash `rtt_samples` | on entry to `tcp_rcv_established`, copy the socket's estimate under a key built from the socket | byte order, orientation and family of the key must be the packet's; runs before the estimate is updated |
| `syscall_lat.c`: `raw_tp_sys_enter`, `raw_tp_sys_exit` | LRU hashes `syscall_start` (thread to time and number) and `syscall_lat` (process and number to 64 buckets) | note a start; join, delete the note, seed a histogram, add one | seeding races; threads that never return; ids used again; eviction between any two steps |
| `cpu_sample.c` | per-CPU hash `cpu_time` by process, template `cpu_time_zero` | count a sample on each perf event, making an entry if there is none; count context switches of entries that are there | the map may be full or the entry deleted between insertion and second lookup; nodes and PIDs used again |
| `hello.c` | one counter | add one | nothing |

### User space

| part | state | operations | what is hard |
| --- | --- | --- | --- |
| `internal/flows` Aggregator, `runFlows` | previous snapshot and its time, record channel | poll (batch or iterator), diff, join, send; render | the map changes under a poll; failed and restarted reads; uint64 differences after an eviction; shutdown with a full channel or a closed map |
| `internal/syscalls` Aggregator | previous snapshot | poll, bucket differences, percentiles | as above, and ranks and buckets at their limits |
| `internal/cpu` Aggregator, `commReader` | previous snapshot, process names | poll, sum over CPUs, reap entries of dead processes | a process that exits, or whose PID is used again, between the read, the check and the deletion; failed reads and deletions |
| `internal/loader` Manager, Handle | registered handles, next id; per handle links, descriptors, collection, status | Load, 11 Attach methods, Detach, Close, HelloProbe.Close | the mutex covers only some accesses; partial failure; closing while another goroutine attaches |
| `internal/netns` Watcher, `startNetnsWatcher` | known inodes; inodes marked attached; bounded event channel | walk `/proc` and `/var/run/netns`, diff, send; enter a namespace and attach | the walk is not atomic; paths and inode numbers are used again; attachments fail |
| `internal/loader` event readers | statistics | Read a batch, Stats, Close | draining, one record buffer for a whole batch, lost samples, Close under a blocked Read |
| `internal/pipeline` | one goroutine per source, error channel | read, decode, fan out to the sinks; stop at cancellation or an error of the source; Run, Close | a source blocked in Read at cancellation; Close under Run |
| `internal/feature` | none | probe the running kernel | nothing that interleaves |
| `cmd/ebpfview`, `cmd/ebpfviewd` | flags | build the above, print | shutdown order |
| `internal/loader/pin.go` | none | stubs | nothing |

Interactions. The BPF maps are shared memory between the programs on all CPUs
and one polling goroutine. An aggregator hands batches to its command's main
loop on a channel of fixed capacity. The main goroutine owns the Manager; with
`--all-netns` a second goroutine calls it too, driven by events of the Watcher's
goroutine over a second channel. A signal cancels one context that all of them
select on, and `runFlows` closes the Manager, hence the maps, as it returns.

What makes each part correct: counters that only lose what the design gives up;
flows exact where CPUs do not meet; snapshots and rates that mean what the table
headings say; no kernel object lost or closed twice; events that replay to what
the watcher knows; every namespace attached to; every system call counted once;
CPU time shown once and kept while the process lives; every event read accounted
for; everything returning after a signal.

## 2. Modules

| module | models |
| --- | --- |
| `FlowKey` | the 5-tuple: parsing a frame with every early return, the key of a socket, the reversal and lookup order of the join, byte order. No state. |
| `FlowCounters` | abstract specification: what a poller may rely on about `flow_table`: a flow's counters appear at one packet, only grow, and vanish. |
| `FlowTable` | `process_packet` on several CPUs: one action per map operation, atomic addition, plain load or store. |
| `RttSamples` | `record_rtt` per socket, and what the flow records of both directions show of it. Sockets of all network namespaces share the one map. |
| `FlowAggregator` | `Aggregator.Run`, the loop of `runFlows`, the signal, composed with `FlowCounters` as the kernel. |
| `Loader` | Manager and Handle, called by goroutines. |
| `NetnsFlows` | Watcher and its consumer, and an environment of processes and namespaces. |
| `Histogram` | `log2_u64` of 64 bits, percentiles, extrema, bucket differences, `buildRecord`. No state. Powers of two are a recursive function, `Pow2`, which TLAPS can unfold. |
| `LatCounters` | abstract specification: what a poller may rely on about `syscall_lat`: a histogram appears empty, its buckets grow, it vanishes. |
| `SyscallLat` | both raw tracepoint programs, for the threads of a process. |
| `SyscallReport` | the syscall aggregator, composed with `LatCounters` as the kernel. |
| `CpuTop` | both programs of `cpu_sample.c`, `Aggregator.Run` with its cache and its reaping, and processes that start and exit, composed. |
| `EventPipeline` | ring and perf buffers, their readers, `ReaderSource`, `Pipeline`, and a caller that cancels and closes. |
| `..._proofs` | theorems about `FlowTable`, `FlowAggregator` and `RttSamples` (together), `Loader`, `NetnsFlows`, `SyscallLat` and `SyscallReport` (together), `CpuTop` and `EventPipeline`. |
| `FoldTheorems` | lemmas about sums over finite sets and folds over sequences that these proofs need. |
| `MC...` | the instances TLC checks. |

`FlowTable` implements `FlowCounters` (`Counters`, checked and proved), and
`FlowAggregator` runs against `FlowCounters` instead of `FlowTable`. In the same
way `SyscallLat` implements `LatCounters` (checked and proved), and `SyscallReport` runs
against `LatCounters`. What the aggregators' runs show therefore holds for the
programs as they are, without the product of both state spaces. `CpuTop` is not
split: its aggregator deletes from the map, so what the programs may rely on
depends on it as much as the other way round.

How state and actions correspond to code:

* A map of the kernel is an index (`table`, `start`, `lat`; `cpu_time` has values per CPU) over nodes (`node`,
  `snode`, `lnode`), since a lookup returns a pointer and the kernel recycles
  nodes. Eviction clears the index; the node keeps its content until it is taken
  again. So a program that holds a pointer may add to another key's entry, as
  the real one may.
* `pc[c]` names the next shared access of a program or goroutine. A single
  atomic instruction or map helper is one step; `val->tcp_flags |= f` is two.
  Accesses under a mutex that nothing reads outside it are one step, accesses
  the source makes without the mutex are steps of their own: in `Detach`, the
  status check, each walk of a slice, and the clearing are four.
* A failure is an alternative action, with what its error path leaves behind:
  reads of a map that fail (`PollFails`, `ReadFails`), insertions that a full
  map or another CPU refuses and updates that fail (`EnterUnnoted`,
  `SeedRefused`), deletions (`ReapFails`), system calls that attach or open
  (`AttachLinkFails`, `PerfOpenFails`, which closes what it opened,
  `AttachFails`, which forgets the event), a `Close` of a link or descriptor
  (`CloseAll`, after which the code forgets what is left open), listings and
  stats (`EnumFails`, `EnumNamesFails`, `EnumSkips`, `StatFails`, the last three
  silent), readers, decoders, sinks and their `Close` (`FirstFails`,
  `DrainFails`, `SendFails`, `CloseFails`). Calls that return an error before
  they change anything are `Returns`. Errors that only end the program before
  anything runs, such as a failing `ebpf.NewCollection` in a command, are left
  out, and so are errors of logging and rendering.
* All Attach methods are `Attach` and its steps: they differ in one system
  call. `AttachTCXInNs` makes two attachments, `AttachPerfEventAllCPUs` one
  descriptor per CPU. `NetnsFlows` has the two attachments as steps in a
  namespace it has entered (`inside`), which the thread itself holds meanwhile.
* In `CpuTop`, user and kernel time are one counter `ns`: the programs treat
  them alike. A process is its PID and a generation, which is also its name. The
  values of all CPUs of one key are read and summed in one step, as one system
  call does. A program does not interrupt the other on its CPU. A process leaves
  `/proc` before its last samples and its last switch.
* In `EventPipeline`, an event's data are cells of a buffer that other events
  may share, named by the record it was allocated for. `Close` closes sources
  and sinks one per step. No command of the repository uses the pipeline yet, so
  the caller may cancel and may call `Close`, both at any time and in either
  order; `stage` records whether `Run` was running, had been cancelled or had
  returned when `Close` was called.
* History variables (`seen`, `missed`, `overlapped`, `done`, `told`,
  `twice`, `unshown`, `own`, `doomed`, `steady`, `stage`, `ends`, ...) are named as such and read by no guard.
* `RttSamples` and `SyscallReport` keep their names apart from those of
  `FlowAggregator` and `SyscallLat` (`RttInit`, `ReportNext`, `at` for `pc`, ...):
  one proof module extends both of a pair, and uses the lemmas of the one for
  the other.

## 3. Runs

Runs that pass:

| run | shows | bounds, and why they are enough |
| --- | --- | --- |
| `flow_cpus` | `CountWithinCpus`: an unevicted flow's counter trails its packets by less than the number of CPUs. `BytesFitPackets`: at any moment a snapshot's bytes fit its packets. `SerialExact`: counts, flags and stamps of a flow are exact if its packets never met on two CPUs. `Counters`: refinement of `FlowCounters`, evictions and stale pointers included. | 2 CPUs, 4 packets, 2 nodes, 1 eviction: both CPUs can miss the same flow and one is refused, further packets race for the counters and flags, and a node can change flows under a pointer. Frames of two flows and three kinds that are passed through. |
| `rtt_join` | `JoinBothDirections`: both directions of a sampled connection show its estimate, across byte order and orientation, unless another socket has the same key; what comes from a peer on the same machine shows the peer's. `SamplesExact`: the unlocked lookup and insertion lose no sample, because the socket lock excludes a second run, where the key is the socket's own. | an IPv4, an IPv6, a dual-stack and a non-IP socket, both ends of a loopback connection, two containers' sockets with the same key; 4 segments: insertion and update of a sample in different orders, and of two sockets in one entry. |
| `agg_polls` | `SnapshotSandwich`: a batch lies between the table at the start of its poll and now, for every flow not evicted since, also where the eviction of another sends the iterator back. `RenderedDeltas`: what is rendered adds up across failed polls and a full channel. `ShutsDown`. | 2 flows, 3 kernel steps, 1 eviction, 3 polls, capacity 1: a good, a failed and a good poll with a batch still in the channel. `Iterates` holds, which allows every behaviour of the batch read and the restarts of the iterator besides. |
| `loader_calls` | `NoOrphans`, `ClosedOnce`, `StatusTruthful` for programs where one goroutine makes all calls or none closes: every object is owned or was tried to be closed, nothing is closed twice, and of a detached handle no more is left than what refused to be closed. `RegisteredOpen`; `CallsReturn` for all. | 2 goroutines, 2 handles, 5 operations, 1 object that a failing Close leaves open: load, attach twice, detach, close, and every failure. Four programs (`MCLoader`). |
| `netns_events` | `EventsReplay`: events never lost, doubled or reordered, however long a send blocks. `MarkedIsAttached`: a marked namespace has both directions, though either attachment may fail. `SteadyNotRemoved`: no namespace is reported removed that a path led to from the start of the walk on and that was not refused to be read, whatever is handed over, used again or fails. `EveryNsAttached` where its premise holds. `GoroutinesStop`. | the root and 2 namespaces, 3 paths of which one is a name, 3 inode numbers, 3 changes and silent failures, capacity 1: one event waits while the next is computed. Four environments (`MCNetnsFlows`): processes that hand namespaces on with numbers used again, failures of every kind, growth, and a signal. |
| `lat_calls` | `EveryCallCounted` without eviction, refused update and reuse; `NothingCountedTwice` always; `Log2Covers`: the bucket covers the latency, for ticks around the widths that `log2_u64` compares with, and up to 2^28, where TLC's integers end (the theorem is about 64 bits). `Counters`: refinement of `LatCounters`, evictions and recycled nodes included. | 2 threads, 3 calls, 2 losses (evictions or refused updates), 2 nodes per map, 2 buckets: two threads seed one histogram, and a node is taken under a pointer. |
| `report_polls` | `RowsOrdered`: min, p50, p90, p99, max in order for every histogram that arises, also after an eviction. `DeltasAddUp` across failed polls. | 2 keys, 3 buckets, 3 samples, 1 eviction, 3 polls: ranks that round down to 0, and counts that go backwards. |
| `cpu_reaps` | `TimeAccounted`: between polls, what is yet to be shown of an entry is what it has over the snapshot, so time is shown once whatever failed and whoever had the PID. `LivingKeepTime`: a process in `/proc` is not reaped, with two exceptions below. `CacheFollowsMap`: a name goes with its entry. | 2 CPUs, 2 PIDs, 1 node, 2 samples, 1 switch, 2 processes started, any number of polls: the map is full with one entry, so an insertion is refused, a node is taken under a pointer, and a PID has a second process. |
| `cpu_dead` | `DeadReaped`: an entry of a process that is gone is deleted in the end, also when a deletion failed or a dying task made the entry again. | 1 CPU, else as `cpu_reaps`, and 3 samples: an entry is made, deleted and made again by a task that is gone. |
| `event_reads` | `CountsAddUp`: every record is in a buffer, counted or known to be uncounted, at every step. `DataOfOwnRead`: no later Read writes into an event's data. `SendsToOpenSinks`: nothing is sent to a closed sink if Close waits for Run. `CleanStop`: no error is made of a cancellation, even one that comes during Read, if nothing failed and Close did not come first. `RunReturns`: once Close has been called Run returns, cancelled or not, unless a reader refused to be closed. `BatchReturns`: a ring buffer's batch is handed on though no record follows. | a ring and a perf buffer of 2 records, 3 records of two sizes of which one does not decode, batches of 2 in place of 64, 2 sinks, 1 failure: a buffer overflows and its loss is reported, two events share a buffer, a Read follows a full batch, one source fails while the other reads on, a Close fails. |

Runs where the code does not do what its text says. Each is a finding:

| run | trace |
| --- | --- |
| `agg_wrap` | A flow is evicted and seen again between two polls with fewer packets: the unsigned difference is almost 2^64 and becomes the rate. |
| `loader_panic` | The netns goroutine calls `AttachTCXInNs` while the main goroutine closes: `h.Collection` is nil by then. |

Further promises of the source that the code does not keep are stated at the end
of their modules, each with the line that makes the promise. They are in no
configuration. To see one fail, have the configuration check it alone, with the
constants changed as stated (`MCLoader` and `MCNetnsFlows` define the programs
and environments); those marked `FairSpec` are temporal:

| property | configuration | counterexample |
| --- | --- | --- |
| `FlagsObserved` | `FlowTable_cpus`, `Frames <- OneFlow`, `MaxEvictions = 0` | Two CPUs load a flow's flags and each stores its own or: of the two, one packet's flags are lost (`flows.c:204`). |
| `AllTracked` | `Loader_panic` | The link is made before Close, and appended to a handle Close has unregistered (`attach.go:235`). |
| `DetachedMeansAll` | `Loader_calls`, `Programs <- DetacherOnly` | The Close of a link fails in Detach: the link is forgotten and the handle is `StatusDetached`, not `StatusError` as `handle.go:23` has it (`attach.go:306`). |
| `DetachedOnce` | `Loader_calls`, `Programs <- DetachersOnly` | Two Detach calls both pass the status check (`attach.go:281`). |
| `UnregisteredOnceClosed` | `Loader_calls`, `Programs <- ProbeOnly` | `HelloProbe.Close` closes its handle, which stays registered (`hello.go:65`). |
| `PerfOnOnlineCPUs` | `Loader_calls`, `Programs <- SamplerOnly`, `Online <- WithGap` | CPUs 0 and 2 are online: CPU 1 is to be opened, and CPU 2 is not (`perf_event.go:38`). |
| `RootAttached` | `NetnsFlows_events`, `Environments <- NoRootIface`, `FairSpec` | No root interface at the start: `startNetnsWatcher` marks the root inode attached all the same, and the attachment that `flows_run.go:99` defers to the watcher never happens (`flows_run.go:193`). |
| `RemovedIsGone` | `NetnsFlows_events`, `Environments <- NamesFail` | `/var/run/netns` cannot be read once: the walk has no names, returns no error, and a namespace that has only a name is reported removed (`netns_linux.go:55`). |
| `RemovedIsGone` | `NetnsFlows_events`, `Environments <- HandOver` | A new process joins the namespace after `/proc` was listed and the old one exits before its path is looked at: the walk sees neither, and the namespace is reported removed (`netns_linux.go:28`). |
| `PathIsStable` | `NetnsFlows_events`, `Environments <- PathReused` | The PID of an event is another process's when its path is opened: the consumer is in another namespace (`flows_run.go:215`). |
| `AttachesToEach` | `NetnsFlows_events`, `Environments <- AttachFailing`, `FairSpec` | An attachment fails once; the namespace is known, so no event comes for it again (`flows_run.go:231`). |
| `AttachesToEach` | `NetnsFlows_events`, `Environments <- InodeReused`, `Inodes = {i1, i2}`, `FairSpec` | A namespace has the inode number of one that went since the last walk: no event reports it (`netns_linux.go:183`). |
| `ExitedAreReaped` | `CpuTop_reaps` | The stat of a living process fails: its entry is deleted (`proc.go:75`). |
| `DrainsWithoutBlocking` | `EventPipeline_reads`, `Rings = {}`, `MaxFailures = 0`, `FairSpec` | A perf buffer holds one record: draining waits for the next, for ever if none comes (`perfbuf.go:52`). |
| `BatchIntact` | `EventPipeline_reads`, `MinSize = 1` | The second record of a batch fits the buffer of the first and is copied over it (`ringbuf.go:50`). |
| `ReturnsWhenCancelled` | `EventPipeline_reads`, `MaxFailures = 0`, `FairSpec` | The context is cancelled while a source waits in Read, which has no context: Run does not return (`pipeline.go:95`). |

Most of them say without its premise what a property of the first table says
under one: `FlagsObserved` of `SerialExact`; `AllTracked`, `DetachedOnce` and
`DetachedMeansAll` of `NoOrphans`, `ClosedOnce` and `StatusTruthful`;
`UnregisteredOnceClosed` of `RegisteredOpen`; `RootAttached` of
`MarkedIsAttached`; `RemovedIsGone` of `SteadyNotRemoved`; `AttachesToEach` of
`EveryNsAttached`; `ExitedAreReaped` of `LivingKeepTime`; `BatchIntact` of
`DataOfOwnRead`; `ReturnsWhenCancelled` of `RunReturns`; `DrainsWithoutBlocking`
of `BatchReturns`. The other premises mark further disagreements between a
comment and the code. Removing one gives a counterexample in the same
configuration, or in one with the stated change:

* `CountWithinCpus` allows a counter to trail its packets: two CPUs miss a new
  flow, the second `BPF_NOEXIST` update fails, its result is not looked at, and
  the packet is in no counter (`flows.c:213`), though `flows.go:34` has the
  counters "updated atomically by the BPF program".
* `SerialExact` without `overlapped`: besides the flags, a packet stamped first
  is stored last (`flows.c:203`).
* `JoinBothDirections` without the family: a dual-stack socket is keyed by
  mapped addresses its packets do not have (`flows.c:267`). With the estimate of
  now in place of the one at entry: `flows.c:233` has the probe run "after the
  kernel has updated srtt_us", but fentry runs before. Without the premise that
  the key is the socket's own, two containers with the same addresses show each
  other's estimates and add up their samples: the map knows no namespaces.
  Without that of a remote peer, the two ends of a loopback connection show
  the estimate of whichever end a record's key names first.
* `StatusTruthful` without `Orderly`: an attachment appended between Detach's
  walk and its clearing is forgotten (`attach.go:303`).
* `MarkedIsAttached` with `"reuse_path"`: the consumer attaches in the namespace
  the path leads to now, and marks the one of the event.
* `EveryNsAttached` with `"late_iface"`: the attachment fails for want of the
  interface, and is not made when it comes.
* `EveryCallCounted` with `"reuse"`: the note of a thread that exited is counted
  as a call of the next thread with its id.
* `DeltasAddUp` without its premise of no eviction: a bucket that went backwards
  counts 0, although the comment beside it has "Treat the current count as the
  new delta" (`syscalls.go:109`).
* `LivingKeepTime` without `doomed`: besides one whose check failed, a process
  that takes its PID between the check that the one before is gone and the
  deletion (`aggregator.go:95`, `:111`) loses what it has been sampled for.
* `SendsToOpenSinks` for a caller that does not wait for Run: Close closes the
  sinks while a source is still sending a batch (`pipeline.go:134`).
* `CleanStop` for a caller that closes before it cancels: the error of the read
  that Close ended is returned by Run (`pipeline.go:98`).
* `RunReturns` without a Close that fails: the source goes on waiting.

`TimeAccounted` says more than the code's authors do: `cpu.go:64` clamps deltas
because a recycled PID makes counters go backwards. They never do, for an entry
goes with its key in the snapshot (`reap`). A process whose PID was not reaped in
between is shown the counts of the one before it. `RemovedIsGone` does not count
the consumer's own thread as a holder of the namespace it is in.

Two more are stated by no property: `Manager.Close` promises reverse
registration order and reverses the random order of a map (`manager.go:108`; the
model closes in any order), and a failing `AttachPerfEventAllCPUs` leaves the
status as it was although `handle.go:23` has an error recorded.

Fairness. `agg_polls`, `loader_calls`, `netns_events`, `cpu_dead` and
`event_reads` check liveness.
Goroutines that can run are scheduled (weak fairness). Go's select picks at
random among its ready cases, so a done context is taken sooner or later however
often another case is ready too: strong fairness of `Return`, `MainReturns`,
`WatcherStops` and `ConsumerStops`. `sync.Mutex` hands itself to a waiter that
has starved for a millisecond: strong fairness of a goroutine's steps in
`Loader`. A read of a closed map fails: weak fairness of `PollFails` once the
map is closed, and no fairness before, nor of the environment. `Returns`, ticks,
traffic and failures are never forced. `cpu_dead` needs ticks: weak fairness of
the goroutine with its ticker, and the assumption that reads, checks and
deletions do not fail for ever; nothing is assumed of processes or programs. In
`event_reads` goroutines that can run are scheduled, and a Close that was called
goes on. The
number of records bounds the steps of every goroutine, so one weak fairness
condition over all of them gives each its turn. Nobody has to cancel or to call
Close, and no record has to come.

Deadlock is checked in `FlowTable`, `RttSamples` and `Loader`, whose `Quiet` step
is enabled only when every actor is idle at the bound (or the program has
panicked). The other systems really stop: after a signal, when `Run` has
returned, or when the bounded number of polls, calls or changes is used up.

A run lists `TypeOK` where a mutant of the code breaks it: an addition past a NULL
test, a negative counter. The modules whose runs do not list it state it for the
proofs; it holds in the same instances (`RttTypeOK`, and `ReportTypeOK`, which
has every delta a number also after an eviction).

Symmetry is used for CPUs, nodes, threads and keys in runs without liveness
properties; no model compares them.

## 4. Proofs

TLC checks small instances; the theorems hold for every value of the constants
that the named assumptions allow: any number of CPUs, threads, PIDs, map nodes,
namespaces, handles, goroutines, sources and sinks, any channel capacity, and
any bound on the number of events, so the bounds of the runs play no part.

| module | theorem | states |
| --- | --- | --- |
| `FlowTable_proofs` | `TypeCorrect` | `[]TypeOK` |
| | `ImplementsCounters` | `Counters`: refines `FlowCounters` |
| | `CountsTrailByLessThanCpus` | `[]CountWithinCpus` |
| | `SerialFlowsExact` | `[]SerialExact` |
| | `SnapshotsFit` | `[]BytesFitPackets` |
| `FlowAggregator_proofs` | `TypeCorrect` | `[]TypeOK` |
| | `PollsAreSandwiched` | `[]SnapshotSandwich` |
| | `RenderedTablesAddUp` | `RenderedDeltas`, an action property |
| | `RttTypeCorrect` | `RttSpec => []RttTypeOK` |
| | `SamplesAreExact` | `RttSpec => []SamplesExact` |
| | `RecordsShowSamples` | `RttSpec => []JoinBothDirections` |
| `Loader_proofs` | `HoldsSafe`, `HoldsTidy` | the invariants behind the others |
| | `RegisteredAreOpen` | `[]RegisteredOpen` |
| | `NothingClosedTwice` | `[]ClosedOnce` |
| | `NothingOrphaned` | `[]NoOrphans` |
| | `StatusIsTrue` | `[]StatusTruthful` |
| `NetnsFlows_proofs` | `EventsReplayed` | `[]EventsReplay` |
| | `SteadyAreNotRemoved` | `[]SteadyNotRemoved` |
| | `MarkedAreAttached` | `[]MarkedIsAttached` |
| `SyscallLat_proofs` | `TypeCorrect` | `[]TypeOK` |
| | `Refinement` | `Counters`: refines `LatCounters` |
| | `CallsAreCounted` | `[]EveryCallCounted` |
| | `CountedAtMostOnce` | `[]NothingCountedTwice` |
| | `LatenciesCovered` | `[]Log2Covers` |
| | `ReportTypeCorrect` | `ReportSpec => []ReportTypeOK` |
| | `RowsAreOrdered` | `ReportSpec => []RowsOrdered` |
| | `DeltasDoAddUp` | `ReportSpec => []DeltasAddUp` |
| `CpuTop_proofs` | `TypeCorrect` | `[]TypeOK` |
| | `ShownIsCounted` | `[]TimeAccounted` |
| | `CacheIsBounded` | `[]CacheFollowsMap` |
| | `LivingAreNotReaped` | `[]LivingKeepTime` |
| `EventPipeline_proofs` | `StopsCleanly` | `[]CleanStop` |
| | `SinksOutliveSends` | `[]SendsToOpenSinks` |
| | `NothingUncounted` | `[]CountsAddUp` |
| | `DataStaysOwn` | `[]DataOfOwnRead` |

Assumptions. Each module that declares constants names its assumptions, and TLC
evaluates them in every run. They say that NULL is not a node and "none" is not
a name; that bounds, lengths and capacities are numbers; and that what the
machine has finitely many of is finite: CPUs, threads, system call numbers, and
packet lengths (a `__u32`). `SocketsAssumption`: an IP socket's ports have 16
bits, and where its packets are of its own family they carry the addresses it
stores; a dual-stack socket, one that is not IP, or two sockets with the same
ends are allowed. `TicksAssumption`: the longest latency fits the 64 bits that
`bpf_ktime_get_ns` returns. Nothing is assumed about traffic or scheduling. The
premises that are in the properties themselves (no eviction, `Orderly`, what
the environment may do) are explained in section 3.

The arguments, each invariant checked by TLC on the instances of section 3
before its proof:

* `FlowTable`. `Inv1` (no node is the entry of two flows, every entry has counted
  a packet) makes an addition through a stale pointer either invisible or an
  addition to the flow that now has the node, which `FlowCounters` allows. `Inv2`
  holds while nothing has been evicted: pointers are current, packets counted
  and refused add up, and the refused and the CPUs still about to insert are
  together fewer than the CPUs, because the CPU whose insertion succeeded is
  neither. `Inv3` is about flows whose packets have not met: one CPU at a time
  handles such a flow, and where that CPU is tells how far the record is behind
  the packets. Its steps are of two kinds, those of that CPU and those of all
  others, which leave the record alone since their pointers are to other nodes.
  `Inv4` bounds the bytes by the packets that are past both additions.
* `FlowAggregator`. While a poll reads key by key, what it has read of a flow not
  evicted lies between the table at its start and the table now, and such a flow
  that was there at the start is read or still to be read; a restart of the
  iterator keeps that. For the deltas, each batch in the channel is linked to the
  one before it, and `prev` to the newest, also while polls fail.
* `RttSamples`. Where `record_rtt` is tells which fields of the entry are those
  of the newest sample (`RttEntries`), for a socket with its own key; other
  sockets write other entries. `JoinBothDirections` is a consequence of that and
  of facts about keys alone: two byte swaps of a port cancel, the keys of a
  connection's packets are the socket's and its reverse (`PacketKeys`), and the
  reverse of a key with a remote peer is in no entry. The proof attempt at
  first failed: where a key is its own reverse, two guards of `JoinRtt` held at
  once and a CASE left open which applies. The code tries the forward
  key first, and so does the model now.
* `Loader`. `Safe` is the discipline of the mutex, for any program: who holds it
  at the accesses that need it, and that a number taken is free. It gives
  `RegisteredOpen`. `Tidy` is ownership, for programs that are `Orderly`: every
  object made has one owner, the goroutine inside a call or one slice of one
  handle; it exists, unless it is between the call that closes it and the
  assignment that forgets it, and then only the goroutine in between can see it.
  A Close that fails moves an object to `leaked`, which nobody owns.
  `NoOrphans`, `ClosedOnce` and `StatusTruthful` are three views of that, and
  none is inductive without it.
* `NetnsFlows`. `EventsReplay` follows the diff event by event: the replay of
  what is in flight is what `known` has become. `SteadyNotRemoved` needs that the
  walk, although not atomic, has seen the namespace of every path it has passed
  that is still `steady`, and keeps it while names are put over pids and the
  diff is sent (`Walked`). `MarkedIsAttached` needs that paths lead,
  if anywhere, where they led (`Led`), and that the consumer's thread is in the
  namespace of its event (`Inside`). An attempt to prove it without excluding
  `"no_root_iface"` failed at the initial state, where the code marks
  the root inode without an attachment: the premise was missing.
* `SyscallLat`. No node is of two entries (`Distinct`), so an addition is one of
  `LatCounters` or hits a node that is no entry's. `Joined` says, while nothing is
  evicted, refused or recycled, that a return finds the note of its own call. For any
  evictions, `Balance` counts instead: calls counted, and threads that can still
  count one, are no more than calls returned and ids used again. A note
  joined with is not older than the call (`NotedLater`), else a recycled node could
  be counted on behalf of a call that took no time. For `Log2Covers`, each step
  of `log2_u64` keeps `v * 2^r` at most the argument and `(v + 1) * 2^r` above it
  and halves the width `v` may have (`HalveCovers`); after the last, `v` is 1. The
  widths are the five that occur, so no lemma has a variable exponent except
  those about `Pow2`.
* `SyscallReport`. Percentiles are least elements of sets of buckets: the sum up
  to a bucket grows with it, so a greater rank has no lesser bucket, rank 1 is
  in the first bucket that is not empty and the last rank in the last.
  `RowsOrdered` follows for every histogram. For `DeltasAddUp` the invariant
  (`Growing`) is that without evictions the snapshot is bucket by bucket below
  what the poll under way has read and that below the map, so no difference is
  cut off at 0, and sums of differences are differences of sums (`SumOfPlus`).
* `CpuTop`. Between polls the unshown is the difference of entry and snapshot;
  inside a poll, of entry and what was last read (`Accounting`). `Keeping` says
  that a process in `/proc` is not among those to reap unless it is `doomed`,
  and that a pointer a program holds is its task's entry or one already deleted.
* `EventPipeline`. `Stopping` orders the steps of Close and Run: an error that is
  not a failure's is of a reader closed under it, and `stage` tells whether the
  context was done by then. `Accounts` balances each source's
  kernel buffer, reader and sinks. `DataSafe` says of every event that its cells
  were written by its own Read, that all samples still in the buffer are later,
  and that a Read under way writes into a buffer of its own batch.

Sums and folds. The library's induction theorems take a predicate as a
parameter, which no installed prover can instantiate. `FoldTheorems` does the
inductions it needs over the set of counterexamples: it is a set of sets or of
numbers, so if it is not empty it has a minimal element, and the induction step
contradicts that. That gives what a sum over a set becomes when one value
changes, and what a fold over a sequence becomes when one element is taken off
or added. For the same reason `EventPipeline` decodes with a fold
(`AppendDecodable`), about which that can be said, and not with `SelectSeq`.

Model-checked only:

* Liveness (`ShutsDown`, `CallsReturn`, `GoroutinesStop`, `EveryNsAttached`,
  `DeadReaped`, `RunReturns`, `BatchReturns`): it needs ENABLED and fairness,
  which the provers do not handle.

Every invariant and every other action property of the passing runs is stated
by a theorem. The properties whose violation is a finding are false of
the code, so there is nothing to prove about them.

## 5. Not modelled

* Feature detection, command line, renderers: input and output without shared
  state. What they decide appears as parameters (`Iterates`, the programs).
  `NewEventReader`, which picks one of the two readers, is of this kind.
* `hello.c`: one atomic counter. Pinning and the daemon: stubs. Generated
  bindings and headers; `vmlinux.h` alone, generated kernel types, is 183076 of
  the 183674 lines under `bpf/c`.
* Within modelled parts: formatting, sorting of rows, logging; eviction of
  `rtt_samples`; values of 2^32 and more other
  than through `Word`; the split of CPU time into user and kernel; byte counts
  of the readers, and their statistics as `ReaderSource` copies them;
  what `AvailableBytes` of a closed ring buffer does but return any number (it
  may read memory that Close has unmapped, which would end the program); enrichers (the only one does
  nothing); the thread that entered a namespace outliving its report by a moment.

## 6. Plan

1. (done) `FlowKey`, `FlowTable`, `FlowCounters`, `FlowAggregator`, `RttSamples`:
   the flow path end to end, with its proofs. `Loader`. `NetnsFlows`.
   `Histogram`, `SyscallLat`, `SyscallReport`.
2. (done) `CpuTop`. `EventPipeline`. The two attachments of `NetnsFlows`.
   `LatCounters` between `SyscallLat` and `SyscallReport`.
3. (done) Proofs about the safety of `FlowTable`, `FlowAggregator`, `Loader`,
   `NetnsFlows`, `SyscallLat`, `CpuTop` and `EventPipeline`: every invariant and
   action property their runs check, and both refinements. Then about
   `RttSamples`, `SyscallReport` and the logarithm.
4. Left to TLC: liveness, for the reason in section 4.
