----------------------------- MODULE Histogram -----------------------------
(***************************************************************************)
(* The log2 latency histograms of the syscall tracer: the bucket that       *)
(* bpf/c/syscall_lat.c counts a latency in, and what internal/syscalls      *)
(* computes of the buckets it reads.                                        *)
(***************************************************************************)
EXTENDS Integers, FiniteSetsExt, SequencesExt

CONSTANT HistBuckets   \* 64 in the code

ASSUME HistBucketsAssumption == HistBuckets \in Nat \ {0}

Buckets == 0 .. HistBuckets - 1
Hist    == [Buckets -> Nat]
ZeroHist == [i \in Buckets |-> 0]

(* log2_u64: each step halves the width.  The first shifts by 32, here in   *)
(* two steps that TLC's integers can take.                                  *)
High32(v) == (v \div 2^16) \div 2^16
Halve64(v) == IF High32(v) > 0 THEN [r |-> 32, v |-> High32(v)]
              ELSE [r |-> 0, v |-> v]
HalveAbove(a, k) ==   \* mutant: the comparison is off by one
  IF a.v > 2^k THEN [r |-> a.r + k, v |-> a.v \div 2^k] ELSE a
Halve(a, k) == IF a.v >= 2^k THEN [r |-> a.r + k, v |-> a.v \div 2^k] ELSE a
Log2(v) == FoldLeft(Halve, Halve64(v), <<16, 8, 4, 2, 1>>).r
IsU64(v) == v \in Nat /\ High32(High32(v)) = 0

Lesser(a, b) == IF a < b THEN a ELSE b
BucketOf(delta) == Lesser(Log2(delta), HistBuckets - 1)

(* 1 << i *)
Pow2[i \in Nat] == IF i = 0 THEN 1 ELSE 2 * Pow2[i - 1]

BucketLowerNs(i) == Pow2[i]
BucketUpperNs(i) == IF i = HistBuckets - 1 THEN 0 ELSE Pow2[i + 1]

SumOver(b, S) == MapThenSumSet(LAMBDA i : b[i], S)
Total(b) == SumOver(b, Buckets)

NonEmpty(b) == {i \in Buckets : b[i] > 0}

(* The lower bound of the bucket that holds the sample of rank              *)
(* floor(total * num / den), at least 1: the least bucket with that many    *)
(* samples up to it.  0 for an empty histogram.                             *)
PercentileRankZero(b, num, den) ==   \* mutant: a rank of 0 is not made 1
  LET target == (Total(b) * num) \div den
  IN  IF Total(b) = 0 THEN 0
      ELSE Pow2[Min({i \in Buckets : SumOver(b, 0 .. i) >= target})]
Percentile(b, num, den) ==
  LET rank   == (Total(b) * num) \div den
      target == IF rank = 0 THEN 1 ELSE rank
  IN  IF Total(b) = 0 THEN 0
      ELSE Pow2[Min({i \in Buckets : SumOver(b, 0 .. i) >= target})]

MinNs(b) == IF NonEmpty(b) = {} THEN 0 ELSE BucketLowerNs(Min(NonEmpty(b)))
MaxNs(b) ==
  LET top == Max(NonEmpty(b))
  IN  IF NonEmpty(b) = {} THEN 0
      ELSE IF top = HistBuckets - 1 THEN BucketLowerNs(top)
      ELSE BucketUpperNs(top)

(* A bucket that went backwards counts as 0. *)
SubBuckets(cur, prev) ==
  [i \in Buckets |-> IF cur[i] >= prev[i] THEN cur[i] - prev[i] ELSE 0]

(* buildRecord: the deltas when time has passed since a previous poll; the  *)
(* percentiles of the deltas if there are any, else of the totals.          *)
BuildRecord(cur, prev, elapsed) ==
  LET d     == SubBuckets(cur, prev)
      delta == IF elapsed THEN Total(d) ELSE 0
      h     == IF delta > 0 THEN d ELSE cur
  IN  [count |-> Total(cur), delta |-> delta,
       p50 |-> Percentile(h, 50, 100), p90 |-> Percentile(h, 90, 100),
       p99 |-> Percentile(h, 99, 100), min |-> MinNs(h), max |-> MaxNs(h)]
=============================================================================
