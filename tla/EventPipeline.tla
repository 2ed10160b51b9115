---------------------------- MODULE EventPipeline ----------------------------
(***************************************************************************)
(* The path of events: BPF ring and perf buffers, the readers over them     *)
(* (internal/loader/ringbuf.go, perfbuf.go), one ReaderSource per reader    *)
(* (internal/pipeline/source.go), and Pipeline.Run with a goroutine per     *)
(* source, its sinks, and a caller that cancels the context and closes the  *)
(* pipeline (internal/pipeline/pipeline.go).  No command calls them yet, so *)
(* the caller is any that may cancel and may call Close, both at any time.  *)
(*                                                                          *)
(* A record's data are size cells that all hold its id.  A []byte is a      *)
(* buffer and a length; a buffer is named by the record it was allocated    *)
(* for.  A perf buffer is that of one CPU.  NoopEnricher changes nothing.   *)
(*                                                                          *)
(* Bounds: MaxEvents on the records the programs produce, of all sources    *)
(* together, MaxFailures on the reads, sends and Close calls that fail,     *)
(* MaxBatch in place of maxBatchSize.                                       *)
(***************************************************************************)
EXTENDS Integers, Sequences, FiniteSetsExt, SequencesExt

CONSTANTS NSources, NSinks,
          Rings,          \* the sources over ring buffers; others are perf
          Capacity,       \* records that fit a buffer
          Sizes,          \* of records, in cells
          MinSize,        \* the Decoder refuses records that are shorter
          MaxBatch, MaxEvents, MaxFailures

Sources == 1 .. NSources
Sinks   == 1 .. NSinks

ASSUME CountsAssumption ==
  /\ NSources \in Nat \ {0} /\ NSinks \in Nat /\ Rings \subseteq Sources
  /\ Capacity \in Nat \ {0} /\ MaxBatch \in Nat \ {0}
ASSUME SizesAssumption == Sizes \subseteq Nat \ {0} /\ MinSize \in Nat
ASSUME BoundsAssumption == MaxEvents \in Nat /\ MaxFailures \in Nat

VARIABLES
  buffer,     \* per source: records not yet read
  unreported, \* per perf buffer: lost records the kernel has yet to tell of
  pc,         \* per source goroutine: "check", "first", "drain", "decode",
              \* "send", "failed" or "ended"
  rec,        \* the buffer of the reader's local rec, 0 for none
  heap,       \* what the buffers hold
  raw,        \* the batch of RawEvents, then of events
  sink,       \* the sink the batch goes to next
  stats,      \* ReaderStats and SourceStats
  received,   \* per source and sink: what the sink got
  errs,       \* errCh
  result,     \* of Run: "none" while it runs, "nil" or "error"
  cancelled,  \* the context
  nclosed,    \* how many sources and sinks Close has called Close of so far
  unclosed,   \* those whose Close returned an error and left them open
  stage,      \* history: how far the pipeline was when Close was called
  produced, dropped,  \* history: records of each source; those no one counts
  refused,    \* history: events a sink refused
  ends,       \* history: the last sample of the Read that began with each
  failures    \* reads, sends and Close calls that failed (a bound)

kernel  == <<buffer, unreported, produced, dropped>>
reader  == <<rec, heap, raw, ends>>
sinks   == <<sink, received, refused>>
run     == <<errs, result>>
closing == <<nclosed, unclosed, stage>>
caller  == <<cancelled, closing>>
vars    == <<kernel, pc, reader, stats, sinks, run, caller, failures>>

Events == 1 .. MaxEvents
Total(f) == MapThenSumSet(LAMBDA s : f[s], Sources)
Closed(s) == s <= nclosed /\ s \notin unclosed
Returned == result # "none"
SinkClosed(k) == NSources + k <= nclosed

NoStats == [read |-> 0, lost |-> 0,                    \* ReaderStats
            events |-> 0, decodeErrors |-> 0]          \* SourceStats
Init ==
  /\ buffer = [s \in Sources |-> <<>>]
  /\ unreported = [s \in Sources |-> 0]
  /\ pc = [s \in Sources |-> "check"]
  /\ rec = [s \in Sources |-> 0] /\ raw = [s \in Sources |-> <<>>]
  /\ heap = [s \in Sources |-> [e \in Events |-> <<>>]]
  /\ sink = [s \in Sources |-> 1] /\ stats = [s \in Sources |-> NoStats]
  /\ received = [s \in Sources |-> [k \in Sinks |-> <<>>]]
  /\ errs = <<>> /\ result = "none"
  /\ cancelled = FALSE
  /\ nclosed = 0 /\ unclosed = {} /\ stage = "unclosed"
  /\ produced = [s \in Sources |-> 0] /\ dropped = [s \in Sources |-> 0]
  /\ refused = [s \in Sources |-> [k \in Sinks |-> 0]]
  /\ ends = [s \in Sources |-> [e \in Events |-> 0]] /\ failures = 0
-----------------------------------------------------------------------------
Sample(id, size) == [id |-> id, size |-> size, lost |-> 0]
Lost(n)          == [id |-> 0, size |-> 0, lost |-> n]

(* A BPF program outputs a record.  A full ring buffer refuses it.  A full  *)
(* perf buffer counts it, and the count precedes the next record that fits. *)
Produce(s, size) ==
  LET tail == IF unreported[s] > 0 THEN <<Lost(unreported[s])>> ELSE <<>>
      new  == tail \o <<Sample(produced'[s], size)>>
      fits == Len(buffer[s]) + Len(new) <= Capacity
  IN
  /\ ~Returned /\ Total(produced) < MaxEvents
  /\ produced' = [produced EXCEPT ![s] = @ + 1]
  /\ buffer' = IF fits THEN [buffer EXCEPT ![s] = @ \o new] ELSE buffer
  /\ unreported' = [unreported EXCEPT ![s] =
                      IF fits THEN 0 ELSE IF s \in Rings THEN 0 ELSE @ + 1]
  /\ dropped' = [dropped EXCEPT ![s] =
                   IF ~fits /\ s \in Rings THEN @ + 1 ELSE @]
  /\ UNCHANGED <<pc, reader, stats, sinks, run, caller, failures>>
-----------------------------------------------------------------------------
Goto(s, from, to) == pc[s] = from /\ pc' = [pc EXCEPT ![s] = to]

(* The head of runSource's loop; Read declares a new rec. *)
FirstRecKept(s) == rec[s]   \* mutant: rec is the reader's, to save garbage
FirstRec(s) == 0
Check(s) ==
  /\ Goto(s, "check", IF cancelled THEN "ended" ELSE "first")
  /\ raw' = [raw EXCEPT ![s] = <<>>] /\ rec' = [rec EXCEPT ![s] = FirstRec(s)]
  /\ UNCHANGED <<kernel, heap, ends, stats, sinks, run, caller, failures>>

(* ReadInto copies the record into the buffer rec has if it is long enough, *)
(* else into a new one.                                                     *)
Buffer(s, r) ==
  IF rec[s] = 0 \/ Len(heap[s][rec[s]]) < r.size THEN r.id ELSE rec[s]
Copied(old, r) ==
  [i \in 1 .. r.size |-> r.id] \o SubSeq(old, r.size + 1, Len(old))

(* ReadInto returns a record: a sample joins the batch, a count of lost     *)
(* samples the statistics.                                                  *)
ReadInto(s) ==
  LET r == Head(buffer[s])
      b == Buffer(s, r)
      first == IF raw[s] = <<>> THEN r.id ELSE raw[s][1].first
  IN
  /\ ~Closed(s) /\ buffer[s] # <<>>
  /\ buffer' = [buffer EXCEPT ![s] = Tail(@)]
  /\ IF r.lost > 0
     THEN /\ stats' = [stats EXCEPT ![s].lost = @ + r.lost]
          /\ UNCHANGED reader
     ELSE /\ rec' = [rec EXCEPT ![s] = b]
          /\ heap' = [heap EXCEPT ![s][b] = Copied(@, r)]
          /\ raw' = [raw EXCEPT ![s] =
                       Append(@, [id |-> r.id, buf |-> b, len |-> r.size,
                                  first |-> first])]
          /\ ends' = [ends EXCEPT ![s][first] = r.id]
          /\ stats' = [stats EXCEPT ![s].read = @ + 1]
  /\ UNCHANGED <<unreported, produced, dropped, sinks, run, caller>>

(* ReadInto returns an error: the reader is closed, or it fails. *)
ReadError(s) ==
  /\ IF Closed(s) THEN UNCHANGED failures
     ELSE failures < MaxFailures /\ failures' = failures + 1
  /\ UNCHANGED <<kernel, reader, stats, sinks, run, caller>>

FirstRecord(s) ==
  ReadInto(s) /\ Goto(s, "first", "drain") /\ UNCHANGED failures
FirstFails(s) == ReadError(s) /\ Goto(s, "first", "failed")

(* for len(batch) < maxBatchSize: an error ends the batch, not the reader.  *)
More(s) == pc[s] = "drain" /\ Len(raw[s]) < MaxBatch
DrainRecord(s) == More(s) /\ ReadInto(s) /\ UNCHANGED <<pc, failures>>
DrainFailsContinues(s) ==   \* mutant: continue in place of break
  More(s) /\ ReadError(s) /\ UNCHANGED pc
DrainFails(s) == More(s) /\ ReadError(s) /\ Goto(s, "drain", "decode")

(* The batch is full, or it is of a ring buffer and AvailableBytes() is 0;  *)
(* of a ring that was closed it may be anything.  perfBufReader has no such *)
(* test: its ReadInto waits.                                                *)
DrainedFull(s) == ~More(s)   \* mutant: no test of AvailableBytes
Drained(s) == ~More(s) \/ (s \in Rings /\ (buffer[s] = <<>> \/ Closed(s)))
DrainDone(s) ==
  /\ Drained(s) /\ Goto(s, "drain", "decode")
  /\ UNCHANGED <<kernel, reader, stats, sinks, run, caller, failures>>

(* ReaderSource.Read decodes the batch; a record that is too short is       *)
(* counted and skipped.  An empty batch is not sent.                        *)
Decodable(e) == e.len >= MinSize
AppendDecodable(events, e) ==
  IF Decodable(e) THEN Append(events, e) ELSE events
Decoded(batch) == FoldLeft(AppendDecodable, <<>>, batch)
DecodeCountsAll(s) ==   \* mutant: EventsRead counts len(rawEvents)
  LET events == Decoded(raw[s]) IN
  /\ Goto(s, "decode",
          IF events = <<>> \/ NSinks = 0 THEN "check" ELSE "send")
  /\ raw' = [raw EXCEPT ![s] = events] /\ sink' = [sink EXCEPT ![s] = 1]
  /\ stats' = [stats EXCEPT
       ![s].events = @ + Len(raw[s]),
       ![s].decodeErrors = @ + Len(raw[s]) - Len(events)]
  /\ UNCHANGED <<kernel, rec, heap, ends, received, refused, run, caller,
                 failures>>
Decode(s) ==
  LET events == Decoded(raw[s]) IN
  /\ Goto(s, "decode",
          IF events = <<>> \/ NSinks = 0 THEN "check" ELSE "send")
  /\ raw' = [raw EXCEPT ![s] = events] /\ sink' = [sink EXCEPT ![s] = 1]
  /\ stats' = [stats EXCEPT
       ![s].events = @ + Len(events),
       ![s].decodeErrors = @ + Len(raw[s]) - Len(events)]
  /\ UNCHANGED <<kernel, rec, heap, ends, received, refused, run, caller,
                 failures>>

(* The fan-out: one sink after the other, whose errors are only logged.     *)
Sent(s, k) ==
  /\ Goto(s, "send", IF k = NSinks THEN "check" ELSE "send")
  /\ sink[s] = k /\ sink' = [sink EXCEPT ![s] = k + 1]
  /\ UNCHANGED <<kernel, reader, stats, run, caller>>
Send(s, k) ==
  /\ Sent(s, k)
  /\ received' = [received EXCEPT ![s][k] = @ \o raw[s]]
  /\ UNCHANGED <<refused, failures>>
SendFails(s, k) ==
  /\ Sent(s, k)
  /\ failures < MaxFailures /\ failures' = failures + 1
  /\ refused' = [refused EXCEPT ![s][k] = @ + Len(raw[s])]
  /\ UNCHANGED received

(* if ctx.Err() != nil: the error of a cancelled pipeline is not one.  The  *)
(* goroutine ends either way.                                               *)
SwallowNone(s) == FALSE   \* mutant: every error is reported
Swallow(s) == cancelled
Fail(s) ==
  /\ Goto(s, "failed", "ended")
  /\ errs' = IF Swallow(s) THEN errs ELSE Append(errs, s)
  /\ UNCHANGED <<kernel, reader, stats, sinks, result, caller, failures>>
-----------------------------------------------------------------------------
(* wg.Wait() returns; Run returns the first error in errCh, if any. *)
SomeEnded == \E s \in Sources : pc[s] = "ended"   \* mutant: no wg.Wait()
AllEnded == \A s \in Sources : pc[s] = "ended"
Return ==
  /\ ~Returned /\ AllEnded
  /\ result' = IF errs = <<>> THEN "nil" ELSE "error"
  /\ UNCHANGED <<kernel, pc, reader, stats, sinks, errs, caller, failures>>

Cancel ==
  /\ ~cancelled /\ cancelled' = TRUE
  /\ UNCHANGED <<kernel, pc, reader, stats, sinks, run, closing, failures>>

(* Pipeline.Close closes the sources in order, then the sinks, and goes on  *)
(* where one fails.  A reader's Close ends the ReadInto that waits.         *)
StageNow == IF Returned THEN "returned"
            ELSE IF cancelled THEN "stopping" ELSE "running"
CloseStep ==
  /\ nclosed < NSources + NSinks /\ nclosed' = nclosed + 1
  /\ stage' = IF nclosed = 0 THEN StageNow ELSE stage
  /\ UNCHANGED <<kernel, pc, reader, stats, sinks, run, cancelled>>
CloseNext == CloseStep /\ UNCHANGED <<unclosed, failures>>
CloseFails ==
  /\ failures < MaxFailures /\ CloseStep
  /\ failures' = failures + 1 /\ unclosed' = unclosed \cup {nclosed'}

Reads(s) ==
  \/ Check(s) \/ FirstRecord(s) \/ DrainRecord(s) \/ DrainDone(s)
  \/ Decode(s) \/ Fail(s)
  \/ \E k \in Sinks : Send(s, k)
  \/ Closed(s) /\ (FirstFails(s) \/ DrainFails(s))

Fails(s) ==
  \/ ~Closed(s) /\ (FirstFails(s) \/ DrainFails(s))
  \/ \E k \in Sinks : SendFails(s, k)

Next ==
  \/ \E s \in Sources : Reads(s) \/ Fails(s)
  \/ \E s \in Sources, size \in Sizes : Produce(s, size)
  \/ Return \/ Cancel \/ CloseNext \/ CloseFails

Spec == Init /\ [][Next]_vars

(* Goroutines that can run are scheduled, and Close, once called, goes on.  *)
(* The steps of each are bounded by the records produced, so one condition  *)
(* does for all.  Nobody has to cancel or to call Close, and no record has  *)
(* to come.                                                                 *)
GoOnClosing == nclosed > 0 /\ CloseNext
Goroutines == Return \/ GoOnClosing \/ \E s \in Sources : Reads(s)
FairSpec == Spec /\ WF_vars(Goroutines)
-----------------------------------------------------------------------------
Slice(n) == [id : 1 .. n, buf : 1 .. n, len : Sizes, first : 1 .. n]
TypeOK ==
  /\ \A s \in Sources :
       /\ Len(buffer[s]) <= Capacity /\ unreported[s] \in 0 .. produced[s]
       /\ pc[s] \in {"check", "first", "drain", "decode", "send", "failed",
                    "ended"}
       /\ rec[s] \in 0 .. produced[s]
       /\ raw[s] \in Seq(Slice(produced[s])) /\ Len(raw[s]) <= MaxBatch
       /\ \A k \in Sinks : received[s][k] \in Seq(Slice(produced[s]))
       /\ sink[s] \in 1 .. NSinks + 1
  /\ stats \in [Sources -> [DOMAIN NoStats -> 0 .. MaxEvents]]
  /\ errs \in Seq(Sources) /\ result \in {"none", "nil", "error"}
  /\ nclosed \in 0 .. NSources + NSinks /\ unclosed \subseteq 1 .. nclosed

(* reader.go, source.go: the statistics are cumulative counts of events     *)
(* read, lost and not decoded.  Whatever fills up, fails or is cancelled    *)
(* when, every record a program produced is in the buffer, or counted read, *)
(* or counted lost, or dropped by a full ring buffer, which nobody counts;  *)
(* every record read is decoded, counted as an error or in hand; and every  *)
(* event has been offered to every sink or is about to be.                  *)
Pending(s) ==
  LET n(i) == IF buffer[s][i].lost > 0 THEN buffer[s][i].lost ELSE 1
  IN  MapThenSumSet(n, DOMAIN buffer[s])
CountsAddUp ==
  \A s \in Sources :
    LET undecoded == IF pc[s] \in {"drain", "decode"} THEN Len(raw[s]) ELSE 0
        unsent(k) == IF pc[s] = "send" /\ sink[s] <= k THEN Len(raw[s]) ELSE 0
    IN  /\ produced[s] = Pending(s) + unreported[s] + dropped[s]
                         + stats[s].read + stats[s].lost
        /\ stats[s].read = stats[s].events + stats[s].decodeErrors + undecoded
        /\ \A k \in Sinks :
             stats[s].events = Len(received[s][k]) + refused[s][k] + unsent(k)

(* reader.go: Data is valid until the next Read.  In fact no later Read     *)
(* writes into it, so a sink may keep it: all it can hold are records of    *)
(* the same Read that are not earlier.  An event alone in its batch, or     *)
(* last, is intact; a batch's others may be overwritten.                    *)
DataOfOwnRead ==
  \A s \in Sources, k \in Sinks :
    \A i \in DOMAIN received[s][k] :
      LET e == received[s][k][i] IN
      \A cell \in 1 .. e.len :
        heap[s][e.buf][cell] \in e.id .. ends[s][e.first]

(* sink.go: Close releases what a sink holds.  A caller that closes after   *)
(* Run returned never has an event sent to a closed sink: Run waits for     *)
(* every source, those that read on after another's error included.         *)
SendsToOpenSinks ==
  stage = "returned" =>
    \A s \in Sources, k \in Sinks :
      pc[s] = "send" /\ sink[s] <= k => ~SinkClosed(k)

(* pipeline.go: Run returns "the first non-context error".  Cancelling and  *)
(* then closing the readers under it is no error, however the reads, the    *)
(* cancellation and the closing interleave; one is returned only if a read  *)
(* failed or Close was called before the context was cancelled.             *)
CleanStop == failures = 0 /\ stage # "running" => result # "error"

(* Closing the readers ends Run, even if no record ever comes and though    *)
(* nobody cancels: every source that waits gets an error, unless the Close  *)
(* of its reader failed.                                                    *)
RunReturns == nclosed > 0 ~> Returned \/ unclosed \cap Sources # {}

(* ringbuf.go: additional records are drained "without blocking".  A batch  *)
(* with a record in it is returned and handed on though no other comes.     *)
BatchReturns == \A s \in Rings : pc[s] = "drain" ~> pc[s] = "check"
-----------------------------------------------------------------------------
(* Three promises of the comments that the code does not keep.              *)
(*                                                                          *)
(* perfbuf.go: "Drain additional available records without blocking."  The  *)
(* ReadInto for one more record waits for it.                               *)
DrainsWithoutBlocking == \A s \in Sources : pc[s] = "drain" ~> pc[s] # "drain"

(* reader.go: Read "Returns a batch of events.  The caller must not retain  *)
(* the Data slices beyond the next call to Read."  Until then each should   *)
(* hold its own record; a later ReadInto of the same batch writes into it.  *)
BatchIntact ==
  \A s \in Sources : pc[s] = "decode" =>
    \A i \in DOMAIN raw[s] : \A cell \in 1 .. raw[s][i].len :
      heap[s][raw[s][i].buf][cell] = raw[s][i].id

(* reader.go: "Read blocks until at least one event is available or ctx is  *)
(* done"; pipeline.go: Run "blocks until ctx is cancelled".  A source that  *)
(* waits for its first record does not see the context.                     *)
ReturnsWhenCancelled == cancelled ~> Returned
=============================================================================
