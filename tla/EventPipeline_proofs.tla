------------------------ MODULE EventPipeline_proofs ------------------------
(***************************************************************************)
(* Proofs about EventPipeline: that a cancelled pipeline stops without an   *)
(* error, that a caller who waits never has an event sent to a closed sink, *)
(* that the statistics account for every record and every event, and that   *)
(* no later Read writes into the data of an event.                          *)
(***************************************************************************)
EXTENDS EventPipeline, FoldTheorems, SequenceTheorems

Locations == {"check", "first", "drain", "decode", "send", "failed", "ended"}

(* Where the goroutines are, and what the caller has done. *)
Control ==
  /\ pc \in [Sources -> Locations]
  /\ sink \in [Sources -> 1 .. NSinks + 1]
  /\ \A s \in Sources : pc[s] = "send" => sink[s] \in Sinks
  /\ nclosed \in Nat /\ failures \in Nat
  /\ Returned => AllEnded

(* The stage at which Close was called has been reached, and is not left.   *)
ClosedLast ==
  /\ stage \in {"unclosed", "running", "stopping", "returned"}
  /\ nclosed = 0 <=> stage = "unclosed"
  /\ stage = "stopping" => cancelled
  /\ stage = "returned" => Returned

(* Unless a read failed or Close was called while the pipeline ran, an      *)
(* error is that of a reader closed under its goroutine, which is after the *)
(* cancellation.                                                            *)
ErrorsOfClosing ==
  failures = 0 /\ stage # "running" =>
    /\ \A s \in Sources : pc[s] = "failed" => cancelled
    /\ errs = <<>> /\ result # "error"

Stopping == Control /\ ClosedLast /\ ErrorsOfClosing

(* The initial states: nobody has cancelled, closed or failed. *)
LEMMA InitStopping == Init => Stopping
<1> SUFFICES ASSUME Init PROVE Stopping
  OBVIOUS
<1> USE CountsAssumption
<1>1. Control
  <2>1. 1 \in 1 .. NSinks + 1
    OBVIOUS
  <2> QED BY <2>1 DEF Init, Control, Locations, Returned
<1>2. ClosedLast /\ ErrorsOfClosing
  BY DEF Init, ClosedLast, ErrorsOfClosing
<1> QED BY <1>1, <1>2 DEF Stopping

(* What a step of a source's goroutine does to the control.                 *)
LEMMA ReadControl ==
  ASSUME Control, NEW s \in Sources, Reads(s) \/ Fails(s)
  PROVE  /\ pc' \in [Sources -> Locations]
         /\ \A t \in Sources \ {s} : pc'[t] = pc[t] /\ sink'[t] = sink[t]
         /\ pc[s] # "ended" /\ ~Returned
         /\ UNCHANGED <<result, cancelled, nclosed, stage>>
         /\ failures' \in Nat /\ failures' >= failures
         /\ sink' \in [Sources -> 1 .. NSinks + 1]
         /\ pc'[s] = "send" => sink'[s] \in Sinks
         /\ pc[s] = "failed" <=> Fail(s)
         /\ pc'[s] = "failed" => Closed(s) \/ failures' > failures
         /\ ~Fail(s) => errs' = errs
<1> USE CountsAssumption DEF Control
<1>0. /\ 1 \in 1 .. NSinks + 1
      /\ NSinks # 0 => 1 \in Sinks
      /\ \A k \in Sinks : /\ k + 1 \in 1 .. NSinks + 1
                          /\ k # NSinks => k + 1 \in Sinks
  BY DEF Sinks
<1>1. CASE Check(s)
  BY <1>1 DEF Check, Goto, Locations, run, caller, closing, sinks, Fail,
              Returned, AllEnded
<1>2. CASE FirstRecord(s)
  BY <1>2 DEF FirstRecord, ReadInto, Goto, Locations, run, caller, closing,
              sinks, Fail, Returned, AllEnded
<1>3. CASE DrainRecord(s)
  BY <1>3 DEF DrainRecord, More, ReadInto, Locations, run, caller, closing,
              sinks, Fail, Goto, Returned, AllEnded
<1>4. CASE DrainDone(s)
  BY <1>4 DEF DrainDone, Goto, Locations, run, caller, closing, sinks, Fail,
              Returned, AllEnded
<1>5. CASE Decode(s)
  BY <1>0, <1>5 DEF Decode, Goto, Locations, run, caller, closing, Fail, Returned,
     AllEnded
<1>6. CASE Fail(s)
  BY <1>6 DEF Fail, Goto, Locations, caller, closing, sinks, Returned, AllEnded
<1>7. ASSUME NEW k \in Sinks, Send(s, k) \/ SendFails(s, k)
      PROVE  /\ pc' \in [Sources -> Locations]
             /\ \A t \in Sources \ {s} : pc'[t] = pc[t] /\ sink'[t] = sink[t]
             /\ pc[s] = "send" /\ pc'[s] # "failed" /\ ~Returned
             /\ UNCHANGED <<errs, result, cancelled, nclosed, stage>>
             /\ failures' \in Nat /\ failures' >= failures
             /\ sink' \in [Sources -> 1 .. NSinks + 1]
             /\ pc'[s] = "send" => sink'[s] \in Sinks
  <2>1. failures' \in {failures, failures + 1}
    BY <1>7 DEF Send, SendFails
  <2>2. Sent(s, k)
    BY <1>7 DEF Send, SendFails
  <2> QED BY <1>0, <2>1, <2>2
          DEF Sent, Goto, Locations, run, caller, closing, Returned, AllEnded
<1>8. CASE FirstFails(s) \/ DrainFails(s)
  <2>1. /\ failures' \in {failures, failures + 1}
        /\ ~Closed(s) => failures' = failures + 1
        /\ UNCHANGED <<kernel, reader, stats, sinks, run, caller>>
    BY <1>8 DEF FirstFails, DrainFails, ReadError
  <2>2. \/ Goto(s, "first", "failed")
        \/ Goto(s, "drain", "decode")
    BY <1>8 DEF FirstFails, DrainFails
  <2> QED BY <2>1, <2>2
          DEF Goto, Locations, run, caller, closing, sinks, Fail, Returned,
              AllEnded
<1>9. \A k \in Sinks : Send(s, k) \/ SendFails(s, k) => ~Fail(s)
  BY DEF Send, SendFails, Sent, Goto, Fail
<1> QED
  BY <1>1, <1>2, <1>3, <1>4, <1>5, <1>6, <1>7, <1>8, <1>9
  DEF Reads, Fails, Fail, Goto

(* Every step preserves where the goroutines are and what may be closed. *)
LEMMA NextStopping == Stopping /\ [Next]_vars => Stopping'
<1> SUFFICES ASSUME Stopping, [Next]_vars PROVE Stopping'
  OBVIOUS
<1> USE CountsAssumption DEF Stopping
<1>1. ASSUME NEW s \in Sources, Reads(s) \/ Fails(s) PROVE Stopping'
  <2>1. Control'
    BY <1>1, ReadControl DEF Control, Returned
  <2>2. ClosedLast'
    BY <1>1, ReadControl DEF ClosedLast, Returned
  <2>3. ASSUME failures' = 0, stage' # "running" PROVE ErrorsOfClosing'
    <3>1. failures = 0 /\ stage # "running"
      BY <1>1, <2>3, ReadControl DEF Control
    <3>2. pc'[s] = "failed" => cancelled
      BY <1>1, <2>3, <3>1, ReadControl DEF ClosedLast, Control, Closed, Sources
    <3>3. Fail(s) => cancelled
      BY <1>1, <3>1, ReadControl DEF ErrorsOfClosing
    <3>4. errs' = errs
      BY <1>1, <3>3, ReadControl DEF Fail, Swallow
    <3> QED BY <1>1, <3>1, <3>2, <3>4, ReadControl DEF ErrorsOfClosing
  <2> QED BY <2>1, <2>2, <2>3 DEF ErrorsOfClosing
<1>2. ASSUME NEW s \in Sources, NEW size \in Sizes, Produce(s, size)
      PROVE  Stopping'
  BY <1>2 DEF Produce, run, caller, closing, sinks, Control, ClosedLast,
              ErrorsOfClosing, Returned, AllEnded
<1>3. CASE Return
  <2>1. /\ UNCHANGED <<pc, sink, errs, cancelled, nclosed, stage, failures>>
        /\ AllEnded /\ result' = IF errs = <<>> THEN "nil" ELSE "error"
    BY <1>3 DEF Return, sinks, caller, closing
  <2> QED BY <2>1 DEF Control, ClosedLast, ErrorsOfClosing, Returned, AllEnded
<1>4. CASE Cancel
  BY <1>4 DEF Cancel, closing, run, sinks, Control, ClosedLast, ErrorsOfClosing,
              Returned, AllEnded
<1>5. CASE CloseNext \/ CloseFails
  <2>1. /\ UNCHANGED <<pc, sink, errs, result, cancelled>>
        /\ failures' \in Nat /\ (failures' = 0 => failures = 0)
        /\ nclosed' = nclosed + 1
        /\ stage' = IF nclosed = 0 THEN StageNow ELSE stage
    BY <1>5 DEF CloseNext, CloseFails, CloseStep, run, sinks, Control
  <2>2. Control'
    BY <2>1 DEF Control, Returned, AllEnded
  <2>3. ClosedLast'
    BY <2>1 DEF Control, ClosedLast, StageNow, Returned
  <2>4. ErrorsOfClosing'
    BY <2>1 DEF Control, ClosedLast, ErrorsOfClosing
  <2> QED BY <2>2, <2>3, <2>4
<1>6. CASE UNCHANGED vars
  BY <1>6 DEF vars, run, caller, closing, sinks, Control, ClosedLast,
              ErrorsOfClosing, Returned, AllEnded
<1> QED BY <1>1, <1>2, <1>3, <1>4, <1>5, <1>6 DEF Next

(* Unless a read or a sink failed, or Close was called before the context   *)
(* was cancelled, Run does not return an error, however the reads, the      *)
(* cancellation and the closing of the readers interleave.                  *)
THEOREM StopsCleanly == Spec => []CleanStop
<1>1. Stopping => CleanStop
  BY DEF Stopping, ErrorsOfClosing, CleanStop
<1> QED BY <1>1, InitStopping, NextStopping, PTL DEF Spec

(* A caller that closes after Run returned never has an event sent to a     *)
(* closed sink.                                                             *)
THEOREM SinksOutliveSends == Spec => []SendsToOpenSinks
<1>1. Stopping => SendsToOpenSinks
  <2> SUFFICES ASSUME Stopping, stage = "returned",
                      NEW s \in Sources, pc[s] = "send"
               PROVE  FALSE
    BY DEF SendsToOpenSinks
  <2> QED BY DEF Stopping, Control, ClosedLast, AllEnded
<1> QED BY <1>1, InitStopping, NextStopping, PTL DEF Spec
-----------------------------------------------------------------------------
(* Decode: what is left of a batch is records of it, and no more of them.   *)
LEMMA DecodedBatch ==
  ASSUME NEW S, NEW q \in Seq(S)
  PROVE  Decoded(q) \in Seq(S) /\ Len(Decoded(q)) <= Len(q)
<1> DEFINE n == Len(q)
           A == Seq(S)
           G == [k \in 1 .. n |-> [x \in A |-> AppendDecodable(x, q[k])]]
           It(it) == it = [s \in SUBSET DOMAIN q |->
                             IF s = {} THEN <<>>
                             ELSE AppendDecodable(it[s \ {Max(s)}], q[Max(s)])]
           iter == CHOOSE it : It(it)
<1>1. n \in Nat /\ DOMAIN q = 1 .. n
  OBVIOUS
<1>2. \A k \in 1 .. n : \A x \in A :
        G[k][x] = AppendDecodable(x, q[k]) /\ G[k][x] \in A
  <2>1. ASSUME NEW k \in 1 .. n, NEW x \in A
        PROVE  AppendDecodable(x, q[k]) \in A
    <3>1. q[k] \in S
      OBVIOUS
    <3> QED BY <3>1 DEF AppendDecodable
  <2> QED BY <2>1
<1>3. Decoded(q) = iter[DOMAIN q]
  BY DEF Decoded, FoldLeft, MapThenFoldSet
<1>4. It(iter) /\ IsFoldLeft(iter, G, <<>>, n)
  <2>1. <<>> \in A
    OBVIOUS
  <2>2. PICK it : /\ IsFoldLeft(it, G, <<>>, n)
                  /\ \A s \in SUBSET (1 .. n) : it[s] \in A
    <3> HIDE DEF A, G, n
    <3> QED BY <1>1, <1>2, <2>1, FoldLeftExists
  <2>3. \A s \in SUBSET (1 .. n) : s # {} =>
          /\ Max(s) \in 1 .. n
          /\ s \ {Max(s)} \in SUBSET (1 .. n)
    BY <1>1, GreatestIndex
  <2>4. It(it)
    <3>1. \A s \in SUBSET (1 .. n) : s # {} =>
            G[Max(s)][it[s \ {Max(s)}]]
              = AppendDecodable(it[s \ {Max(s)}], q[Max(s)])
      <4> HIDE DEF A, G, n
      <4> QED BY <1>2, <2>2, <2>3
    <3> HIDE DEF A, G, n
    <3> QED BY <1>1, <2>2, <3>1 DEF IsFoldLeft
  <2>5. It(iter)
    <3> HIDE DEF It
    <3> QED BY <2>4
  <2>6. iter = it
    <3> HIDE DEF iter
    <3> DEFINE Bad == {s \in SUBSET DOMAIN q : iter[s] # it[s]}
    <3>1. Bad = {}
      <4> SUFFICES ASSUME Bad # {} PROVE FALSE
        OBVIOUS
      <4>1. PICK s \in Bad : \A t \in SUBSET s : t # s => t \notin Bad
        <5>1. IsFiniteSet(DOMAIN q)
          <6>1. 1 \in Int /\ n \in Int
            BY <1>1
          <6> HIDE DEF n
          <6> QED BY <1>1, <6>1, FS_Interval
        <5>2. Bad \in SUBSET SUBSET DOMAIN q /\ Bad # {}
          OBVIOUS
        <5> HIDE DEF Bad
        <5> QED BY <5>1, <5>2, SmallestSet
      <4>2. s \in SUBSET (1 .. n) /\ iter[s] # it[s]
        BY <1>1
      <4>3. /\ iter[s] = IF s = {} THEN <<>>
                         ELSE AppendDecodable(iter[s \ {Max(s)}], q[Max(s)])
            /\ it[s] = IF s = {} THEN <<>>
                       ELSE AppendDecodable(it[s \ {Max(s)}], q[Max(s)])
        BY <1>1, <2>4, <2>5, <4>2
      <4>4. s # {} /\ Max(s) \in s
        BY <1>1, <4>2, <4>3, GreatestIndex
      <4>5. iter[s \ {Max(s)}] = it[s \ {Max(s)}]
        <5>1. s \ {Max(s)} \in SUBSET s /\ s \ {Max(s)} # s
          BY <4>4
        <5> QED BY <4>1, <4>2, <5>1
      <4> QED BY <4>2, <4>3, <4>5
    <3>2. \A s \in SUBSET DOMAIN q : iter[s] = it[s]
      BY <3>1
    <3> HIDE DEF Bad
    <3> QED BY <2>4, <2>5, <3>2
  <2> QED BY <2>2, <2>5, <2>6
<1> HIDE DEF G, A, It, iter
<1>5. /\ iter[1 .. 0] = <<>>
      /\ \A k \in 1 .. n : iter[1 .. k] = G[k][iter[1 .. (k - 1)]]
  <2> HIDE DEF n
  <2> QED BY <1>1, <1>4, FoldLeftSteps
<1> DEFINE P(k) == iter[1 .. k] \in A /\ Len(iter[1 .. k]) <= k
           Bad == {k \in 0 .. n : ~P(k)}
<1>6. P(0)
  BY <1>5 DEF A
<1>7. ASSUME NEW k \in 1 .. n, P(k - 1) PROVE P(k)
  <2>1. iter[1 .. k] = AppendDecodable(iter[1 .. (k - 1)], q[k])
    BY <1>2, <1>5, <1>7
  <2>2. iter[1 .. k] \in A
    BY <1>2, <1>5, <1>7
  <2>3. Len(iter[1 .. (k - 1)]) \in Nat /\ k \in Nat
    BY <1>7 DEF A
  <2> QED BY <1>7, <2>1, <2>2, <2>3 DEF AppendDecodable, A
<1>8. Bad = {}
  <2> SUFFICES ASSUME Bad # {} PROVE FALSE
    OBVIOUS
  <2> HIDE DEF P
  <2>1. PICK m \in Bad : \A k \in Nat : k < m => k \notin Bad
    <3>1. Bad \in SUBSET Nat /\ Bad # {}
      BY <1>1
    <3> HIDE DEF Bad
    <3> QED BY <3>1, SmallestNumber
  <2>2. m # 0 /\ m \in 0 .. n /\ ~P(m)
    BY <1>6
  <2>3. m \in 1 .. n /\ m - 1 \in Nat /\ m - 1 \in 0 .. n /\ m - 1 < m
    BY <1>1, <2>2
  <2>4. P(m - 1)
    BY <2>1, <2>3
  <2> QED BY <1>7, <2>2, <2>3, <2>4
<1>9. P(n)
  <2> HIDE DEF P
  <2> QED BY <1>1, <1>8
<1> QED BY <1>1, <1>3, <1>9 DEF A
-----------------------------------------------------------------------------
(* What a queue of records stands for: a sample for itself, a count of lost *)
(* records for as many.                                                     *)
Records == [id : Nat, size : Nat, lost : Nat]
Weight(r) == IF r.lost > 0 THEN r.lost ELSE 1
Weights(q) == [i \in DOMAIN q |-> Weight(q[i])]
Queued(q) == SumOf(Weights(q), DOMAIN q)

(* Pending, by which CountsAddUp counts a buffer, is the weight of what is  *)
(* queued in it.                                                            *)
LEMMA PendingIsQueued ==
  ASSUME NEW s \in Sources PROVE Pending(s) = Queued(buffer[s])
<1> DEFINE q == buffer[s]
           n(i) == IF buffer[s][i].lost > 0 THEN buffer[s][i].lost ELSE 1
           A(sum) == sum = [S \in SUBSET DOMAIN q |-> IF S = {} THEN 0
                              ELSE n(Chosen(S)) + sum[S \ {Chosen(S)}]]
<1>1. Pending(s) = (CHOOSE sum : A(sum))[DOMAIN q]
  BY DEF Pending, MapThenSumSet, MapThenFoldSet, Chosen
<1>2. \A sum : A(sum) <=> IsSumUpTo(sum, Weights(q), DOMAIN q)
  <2>1. \A S \in SUBSET DOMAIN q : S # {} => Weights(q)[Chosen(S)] = n(Chosen(S))
    BY DEF Chosen, Weights, Weight
  <2> HIDE DEF n, q
  <2> QED BY <2>1 DEF IsSumUpTo
<1>3. (CHOOSE sum : A(sum)) = CHOOSE sum : IsSumUpTo(sum, Weights(q), DOMAIN q)
  <2> HIDE DEF A
  <2> QED BY <1>2
<1>4. Pending(s) = SumOf(Weights(q), DOMAIN q)
  <2> HIDE DEF A, q
  <2> QED BY <1>1, <1>3, SumOfUnfolded
<1> QED BY <1>4 DEF Queued

(* An index set of a sequence is an interval, whose sums are numbers.       *)
LEMMA QueuedType ==
  ASSUME NEW q \in Seq(Records)
  PROVE  /\ DOMAIN q = 1 .. Len(q) /\ Len(q) \in Nat
         /\ \A i \in DOMAIN q : Weights(q)[i] \in Nat
         /\ Queued(q) \in Nat
<1>1. DOMAIN q = 1 .. Len(q) /\ Len(q) \in Nat
  OBVIOUS
<1>2. \A i \in DOMAIN q : Weights(q)[i] \in Nat
  <2>1. \A i \in DOMAIN q : q[i] \in Records
    OBVIOUS
  <2> QED BY <2>1 DEF Weights, Weight, Records
<1>3. IsFiniteSet(DOMAIN q)
  <2>1. 1 \in Int /\ Len(q) \in Int
    BY <1>1
  <2> QED BY <1>1, <2>1, FS_Interval
<1> QED BY <1>1, <1>2, <1>3, SumOfType DEF Queued

(* Queueing a record adds it, taking the first off takes it away.           *)
LEMMA QueuedAppend ==
  ASSUME NEW q \in Seq(Records), NEW r \in Records
  PROVE  Queued(Append(q, r)) = Queued(q) + Weight(r)
<1> DEFINE n == Len(q)  a == Append(q, r)
<1>1. a \in Seq(Records) /\ Len(a) = n + 1 /\ n \in Nat /\ DOMAIN q = 1 .. n
      /\ a[n + 1] = r /\ \A i \in 1 .. n : a[i] = q[i]
  OBVIOUS
<1> HIDE DEF a, n
<1>2. DOMAIN a = 1 .. n + 1 /\ \A i \in 1 .. n + 1 : Weights(a)[i] \in Int
  BY <1>1, QueuedType
<1>3. SumOf(Weights(a), 1 .. n + 1)
        = SumOf(Weights(a), 1 .. n) + Weights(a)[n + 1]
  BY <1>1, <1>2, SumOfLonger
<1>4. \A i \in 1 .. n : Weights(a)[i] = Weights(q)[i]
  BY <1>1, <1>2 DEF Weights
<1>5. SumOf(Weights(a), 1 .. n) = SumOf(Weights(q), 1 .. n)
  <2>1. IsFiniteSet(1 .. n)
    <3>1. 1 \in Int /\ n \in Int
      BY <1>1
    <3> QED BY <3>1, FS_Interval
  <2> QED BY <1>4, <2>1, SumOfEqual
<1>6. Weights(a)[n + 1] = Weight(r)
  BY <1>1, <1>2 DEF Weights
<1>7. Queued(a) = SumOf(Weights(a), 1 .. n + 1) /\ Queued(q) = SumOf(Weights(q), 1 .. n)
  BY <1>1, <1>2 DEF Queued
<1> QED BY <1>3, <1>5, <1>6, <1>7 DEF a

(* A record that is read takes its weight with it. *)
LEMMA QueuedTail ==
  ASSUME NEW q \in Seq(Records), q # <<>>
  PROVE  /\ Head(q) \in Records /\ Tail(q) \in Seq(Records)
         /\ Queued(q) = Weight(Head(q)) + Queued(Tail(q))
<1> DEFINE n == Len(q) - 1  t == Tail(q)
<1>1. /\ t \in Seq(Records) /\ Len(t) = n /\ n \in Nat /\ Len(q) = n + 1
      /\ Head(q) = q[1] /\ Head(q) \in Records
      /\ \A i \in 1 .. n : t[i] = q[i + 1]
  OBVIOUS
<1> HIDE DEF t, n
<1>2. /\ DOMAIN q = 1 .. n + 1 /\ DOMAIN t = 1 .. n
      /\ \A i \in 1 .. n + 1 : Weights(q)[i] \in Int
  BY <1>1, QueuedType
<1>3. \A i \in 1 .. n : Weights(t)[i] = Weights(q)[i + 1]
  BY <1>1, <1>2 DEF Weights
<1>4. SumOf(Weights(q), 1 .. n + 1) = Weights(q)[1] + SumOf(Weights(t), 1 .. n)
  BY <1>1, <1>2, <1>3, SumOfShifted
<1>5. Weights(q)[1] = Weight(Head(q))
  BY <1>1, <1>2 DEF Weights
<1> QED BY <1>1, <1>2, <1>4, <1>5 DEF Queued, t

(* An empty buffer holds nothing. *)
LEMMA QueuedEmpty == Queued(<<>>) = 0
<1>1. DOMAIN <<>> = {}
  OBVIOUS
<1> QED BY <1>1, FS_EmptySet, SumOfChosen DEF Queued
-----------------------------------------------------------------------------
Slices == [id : Nat, buf : Nat, len : Nat, first : Nat]
AllStats == [read : Nat, lost : Nat, events : Nat, decodeErrors : Nat]

Types ==
  /\ buffer \in [Sources -> Seq(Records)]
  /\ unreported \in [Sources -> Nat] /\ produced \in [Sources -> Nat]
  /\ dropped \in [Sources -> Nat]
  /\ raw \in [Sources -> Seq(Slices)]
  /\ stats \in [Sources -> AllStats]
  /\ received \in [Sources -> [Sinks -> Seq(Slices)]]
  /\ refused \in [Sources -> [Sinks -> Nat]]
  /\ rec \in [Sources -> Nat]

(* The kernel's part of the account ... *)
Recorded ==
  \A s \in Sources :
    /\ s \in Rings => unreported[s] = 0
    /\ produced[s] = Queued(buffer[s]) + unreported[s] + dropped[s]
                     + stats[s].read + stats[s].lost

(* ... and the goroutine's.                                                 *)
Undecoded(s) == IF pc[s] \in {"drain", "decode"} THEN Len(raw[s]) ELSE 0
Unsent(s, k) == IF pc[s] = "send" /\ sink[s] <= k THEN Len(raw[s]) ELSE 0
HandedOn ==
  \A s \in Sources :
    /\ pc[s] = "first" => raw[s] = <<>>
    /\ stats[s].read = stats[s].events + stats[s].decodeErrors + Undecoded(s)
    /\ \A k \in Sinks :
         stats[s].events = Len(received[s][k]) + refused[s][k] + Unsent(s, k)

Accounts == Types /\ Recorded /\ HandedOn

(* The initial states: nothing was produced, read or sent. *)
LEMMA InitAccounts == Init => Accounts
<1> SUFFICES ASSUME Init PROVE Accounts
  OBVIOUS
<1>2. Types
  <2>1. NoStats \in AllStats
    BY DEF NoStats, AllStats
  <2>2. \A X : <<>> \in Seq(X)
    OBVIOUS
  <2> QED BY <2>1, <2>2 DEF Init, Types
<1>3. Recorded
  BY QueuedEmpty DEF Init, Recorded, NoStats
<1>4. HandedOn
  BY DEF Init, HandedOn, NoStats, Undecoded, Unsent
<1> QED BY <1>2, <1>3, <1>4 DEF Accounts

(* A program outputs a record.                                              *)
LEMMA ProduceAccounts ==
  ASSUME Accounts, NEW s \in Sources, NEW size \in Sizes, Produce(s, size)
  PROVE  Accounts'
<1> USE DEF Accounts
<1> DEFINE q == buffer[s]
           sample == Sample(produced'[s], size)
           lost == Lost(unreported[s])
           new == (IF unreported[s] > 0 THEN <<lost>> ELSE <<>>) \o <<sample>>
           fits == Len(q) + Len(new) <= Capacity
<1>1. /\ produced' = [produced EXCEPT ![s] = @ + 1]
      /\ buffer' = IF fits THEN [buffer EXCEPT ![s] = @ \o new] ELSE buffer
      /\ unreported' = [unreported EXCEPT ![s] =
                         IF fits THEN 0 ELSE IF s \in Rings THEN 0 ELSE @ + 1]
      /\ dropped' = [dropped EXCEPT ![s] =
                       IF ~fits /\ s \in Rings THEN @ + 1 ELSE @]
      /\ UNCHANGED <<pc, raw, rec, stats, received, refused, sink, result,
                     nclosed, failures>>
  BY DEF Produce, reader, sinks, run, caller, closing
<1>2. /\ q \in Seq(Records) /\ sample \in Records /\ lost \in Records
      /\ Weight(sample) = 1
      /\ unreported[s] > 0 => Weight(lost) = unreported[s]
      /\ unreported[s] \in Nat /\ produced[s] \in Nat /\ produced'[s] \in Nat
      /\ produced' \in [Sources -> Nat]
  BY <1>1, SizesAssumption DEF Types, Records, Sample, Lost, Weight
<1>3. /\ q \o new \in Seq(Records)
      /\ Queued(q \o new) = Queued(q) + unreported[s] + 1
  <2> HIDE DEF q, sample, lost
  <2>1. CASE unreported[s] > 0
    <3>1. q \o new = Append(Append(q, lost), sample)
      BY <1>2, <2>1
    <3>2. Append(q, lost) \in Seq(Records)
      BY <1>2
    <3>3. /\ Queued(Append(q, lost)) = Queued(q) + unreported[s]
          /\ Queued(Append(Append(q, lost), sample))
               = Queued(Append(q, lost)) + 1
      BY <1>2, <2>1, <3>2, QueuedAppend
    <3>4. Queued(q) \in Nat
      BY <1>2, QueuedType
    <3> HIDE DEF new
    <3> QED BY <1>2, <3>1, <3>2, <3>3, <3>4
  <2>2. CASE ~(unreported[s] > 0)
    <3>1. q \o new = Append(q, sample)
      BY <1>2, <2>2
    <3>2. Queued(Append(q, sample)) = Queued(q) + 1 /\ unreported[s] = 0
      BY <1>2, <2>2, QueuedAppend
    <3>3. Queued(q) \in Nat
      BY <1>2, QueuedType
    <3> HIDE DEF new
    <3> QED BY <1>2, <3>1, <3>2, <3>3
  <2> QED BY <2>1, <2>2
<1> HIDE DEF sample, lost, new, fits
<1>4. Types'
  BY <1>1, <1>2, <1>3 DEF Types
<1>6. Recorded'
  <2>1. ASSUME NEW t \in Sources, t # s
        PROVE  /\ t \in Rings => unreported'[t] = 0
               /\ produced'[t] = Queued(buffer'[t]) + unreported'[t] + dropped'[t]
                                 + stats'[t].read + stats'[t].lost
    <3>1. /\ buffer'[t] = buffer[t] /\ unreported'[t] = unreported[t]
          /\ dropped'[t] = dropped[t] /\ stats'[t] = stats[t]
          /\ produced'[t] = produced[t]
      BY <1>1, <2>1 DEF Types
    <3> QED BY <3>1 DEF Recorded
  <2>2. /\ s \in Rings => unreported'[s] = 0
        /\ produced'[s] = Queued(buffer'[s]) + unreported'[s] + dropped'[s]
                          + stats'[s].read + stats'[s].lost
    <3>1. /\ s \in Rings => unreported[s] = 0
          /\ produced[s] = Queued(q) + unreported[s] + dropped[s]
                           + stats[s].read + stats[s].lost
      BY DEF Recorded
    <3>2. /\ dropped[s] \in Nat /\ stats[s].read \in Nat /\ stats[s].lost \in Nat
          /\ stats'[s] = stats[s] /\ produced'[s] = produced[s] + 1
          /\ Queued(q) \in Nat /\ unreported[s] \in Nat
          /\ Queued(q \o new) = Queued(q) + unreported[s] + 1
      BY <1>1, <1>2, <1>3, QueuedType DEF Types, AllStats
    <3>3. CASE fits
      <4>1. /\ buffer'[s] = q \o new /\ unreported'[s] = 0
            /\ dropped'[s] = dropped[s]
        BY <1>1, <3>3 DEF Types
      <4>2. buffer'[s] = q \o new /\ produced'[s] = produced[s] + 1
        BY <3>2, <4>1
      <4> DEFINE w == Queued(buffer'[s])  a == Queued(q)  u == unreported[s]
                 dr == dropped[s]  re == stats[s].read  lo == stats[s].lost
      <4>3. w = a + u + 1
        BY <3>2, <4>2
      <4>4. /\ a \in Nat /\ u \in Nat /\ dr \in Nat /\ re \in Nat /\ lo \in Nat
            /\ produced[s] = a + u + dr + re + lo
        BY <3>1, <3>2
      <4> HIDE DEF q, new, fits, w, a, u, dr, re, lo
      <4>5. produced[s] + 1 = w + 0 + dr + re + lo
        BY <4>3, <4>4
      <4>6. produced'[s] = w + unreported'[s] + dropped'[s]
                               + stats'[s].read + stats'[s].lost
        BY <3>2, <4>1, <4>2, <4>5 DEF dr, re, lo
      <4> QED BY <4>1, <4>6 DEF w
    <3>4. CASE ~fits /\ s \in Rings
      <4>1. /\ buffer'[s] = q /\ unreported'[s] = 0
            /\ dropped'[s] = dropped[s] + 1
        BY <1>1, <3>4 DEF Types
      <4> HIDE DEF q
      <4> QED BY <3>1, <3>2, <3>4, <4>1
    <3>5. CASE ~fits /\ s \notin Rings
      <4>1. /\ buffer'[s] = q /\ unreported'[s] = unreported[s] + 1
            /\ dropped'[s] = dropped[s]
        BY <1>1, <3>5 DEF Types
      <4> HIDE DEF q
      <4> QED BY <3>1, <3>2, <3>5, <4>1
    <3> QED BY <3>3, <3>4, <3>5
  <2> QED BY <2>1, <2>2 DEF Recorded
<1>7. HandedOn'
  BY <1>1 DEF HandedOn, Undecoded, Unsent
<1> QED BY <1>4, <1>6, <1>7

(* ReadInto takes the first record off the buffer.                          *)
LEMMA ReadIntoAccounts ==
  ASSUME Types, Recorded, NEW s \in Sources, ReadInto(s)
  PROVE  /\ Types' /\ Recorded'
         /\ UNCHANGED <<received, refused, sink>>
         /\ \A t \in Sources \ {s} : stats'[t] = stats[t] /\ raw'[t] = raw[t]
         /\ stats'[s].events = stats[s].events
         /\ stats'[s].decodeErrors = stats[s].decodeErrors
         /\ \E d \in {0, 1} : /\ stats'[s].read = stats[s].read + d
                              /\ Len(raw'[s]) = Len(raw[s]) + d
<1> DEFINE q == buffer[s]
           r == Head(q)
           b == Buffer(s, r)
           first == IF raw[s] = <<>> THEN r.id ELSE raw[s][1].first
           slice == [id |-> r.id, buf |-> b, len |-> r.size, first |-> first]
<1>1. /\ q # <<>> /\ buffer' = [buffer EXCEPT ![s] = Tail(@)]
      /\ UNCHANGED <<unreported, produced, dropped, received, refused, sink>>
  BY DEF ReadInto, sinks
<1>2. /\ q \in Seq(Records) /\ r \in Records /\ Tail(q) \in Seq(Records)
      /\ Queued(q) = Weight(r) + Queued(Tail(q))
      /\ Queued(q) \in Nat /\ Queued(Tail(q)) \in Nat
  <2>1. q \in Seq(Records)
    BY DEF Types
  <2> HIDE DEF q
  <2> QED BY <1>1, <2>1, QueuedTail, QueuedType
<1>3. b \in Nat /\ slice \in Slices
  <2>1. r.id \in Nat /\ r.size \in Nat /\ rec[s] \in Nat
    BY <1>2 DEF Records, Types
  <2>2. raw[s] # <<>> => raw[s][1].first \in Nat
    <3>1. raw[s] # <<>> => raw[s][1] \in Slices
      BY DEF Types
    <3> QED BY <3>1 DEF Slices
  <2>3. b \in Nat
    BY <2>1 DEF Buffer
  <2> HIDE DEF q, r, b
  <2> QED BY <2>1, <2>2, <2>3 DEF Slices
<1>4. /\ stats[s] \in AllStats /\ raw[s] \in Seq(Slices)
      /\ dropped[s] \in Nat /\ unreported[s] \in Nat /\ produced[s] \in Nat
      /\ \A t \in Sources \ {s} : buffer'[t] = buffer[t]
      /\ buffer'[s] = Tail(q)
  BY <1>1 DEF Types
<1>5. ASSUME NEW st \in AllStats, NEW ra \in Seq(Slices), NEW b2 \in Nat,
             stats' = [stats EXCEPT ![s] = st], raw' = [raw EXCEPT ![s] = ra],
             rec' = [rec EXCEPT ![s] = b2],
             st.read + st.lost = stats[s].read + stats[s].lost + Weight(r)
      PROVE  /\ Types' /\ Recorded'
             /\ \A t \in Sources \ {s} : stats'[t] = stats[t] /\ raw'[t] = raw[t]
             /\ stats'[s] = st /\ raw'[s] = ra
  <2>1. /\ \A t \in Sources \ {s} : stats'[t] = stats[t] /\ raw'[t] = raw[t]
        /\ stats'[s] = st /\ raw'[s] = ra
    BY <1>5 DEF Types
  <2>2. Types'
    <3> HIDE DEF q, r, b, slice
    <3> QED BY <1>1, <1>2, <1>5 DEF Types, q
  <2>3. ASSUME NEW t \in Sources
        PROVE  /\ t \in Rings => unreported'[t] = 0
               /\ produced'[t] = Queued(buffer'[t]) + unreported'[t] + dropped'[t]
                                 + stats'[t].read + stats'[t].lost
    <3>1. CASE t # s
      BY <1>1, <1>4, <2>1, <3>1 DEF Recorded
    <3>2. CASE t = s
      <4>1. /\ s \in Rings => unreported[s] = 0
            /\ produced[s] = Queued(q) + unreported[s] + dropped[s]
                             + stats[s].read + stats[s].lost
        BY DEF Recorded
      <4>2. /\ st.read \in Nat /\ st.lost \in Nat /\ stats[s].read \in Nat
            /\ stats[s].lost \in Nat /\ Weight(r) \in Nat
        BY <1>2, <1>4 DEF AllStats, Weight, Records
      <4>3. /\ produced'[s] = produced[s] /\ unreported'[s] = unreported[s]
            /\ dropped'[s] = dropped[s] /\ buffer'[s] = Tail(q)
            /\ stats'[s] = st
            /\ produced[s] \in Nat /\ unreported[s] \in Nat
            /\ dropped[s] \in Nat
        BY <1>1, <1>4, <2>1
      <4>4. /\ Queued(q) = Weight(r) + Queued(Tail(q))
            /\ Queued(Tail(q)) \in Nat
            /\ st.read + st.lost = stats[s].read + stats[s].lost + Weight(r)
        BY <1>2, <1>5
      <4> HIDE DEF q, r, b, slice
      <4>5. produced[s] = Queued(Tail(q)) + unreported[s] + dropped[s]
                          + st.read + st.lost
        <5> DEFINE p == produced[s]  all == Queued(q)  u == unreported[s]
                   d == dropped[s]  f1 == stats[s].read  f2 == stats[s].lost
                   w == Weight(r)  rest == Queued(Tail(q))
                   e1 == st.read  e2 == st.lost
        <5>1. p \in Nat /\ u \in Nat /\ d \in Nat
          BY <4>3
        <5>2. e1 \in Nat /\ e2 \in Nat /\ f1 \in Nat /\ f2 \in Nat /\ w \in Nat
          BY <4>2
        <5>3. all \in Nat /\ rest \in Nat /\ all = w + rest
              /\ e1 + e2 = f1 + f2 + w
          BY <1>2, <4>4
        <5>4. p = all + u + d + f1 + f2
          BY <4>1
        <5>5. p = rest + u + d + e1 + e2
          <6> HIDE DEF p, all, u, d, f1, f2, w, rest, e1, e2
          <6> QED BY <5>1, <5>2, <5>3, <5>4
        <5> QED BY <5>5
      <4> QED BY <3>2, <4>1, <4>3, <4>5
    <3> QED BY <3>1, <3>2
  <2> QED BY <2>1, <2>2, <2>3 DEF Recorded
<1>6. CASE r.lost > 0
  <2> DEFINE d == r.lost
             st == [stats[s] EXCEPT !.lost = @ + d]
  <2>1. /\ stats' = [stats EXCEPT ![s].lost = @ + r.lost]
        /\ UNCHANGED <<rec, raw>>
    BY <1>6 DEF ReadInto, reader
  <2>0. d \in Nat /\ Weight(r) = d
    BY <1>2, <1>6 DEF Records, Weight
  <2>2. st \in AllStats
    <3>1. stats[s] \in AllStats
      BY <1>4
    <3> HIDE DEF d
    <3>2. stats[s].lost + d \in Nat
      BY <2>0, <3>1 DEF AllStats
    <3> QED BY <3>1, <3>2 DEF AllStats
  <2>3. stats' = [stats EXCEPT ![s] = st]
    BY <2>1 DEF Types
  <2>4. st.read + st.lost = stats[s].read + stats[s].lost + Weight(r)
    <3> HIDE DEF d
    <3> QED BY <1>4, <2>0 DEF AllStats
  <2>5. raw' = [raw EXCEPT ![s] = raw[s]] /\ rec' = [rec EXCEPT ![s] = rec[s]]
        /\ rec[s] \in Nat
    BY <2>1 DEF Types
  <2>6. st.read = stats[s].read /\ st.events = stats[s].events
        /\ st.decodeErrors = stats[s].decodeErrors
    BY <1>4 DEF AllStats
  <2> HIDE DEF st, q, r, b, slice
  <2>7. /\ Types' /\ Recorded'
        /\ \A t \in Sources \ {s} : stats'[t] = stats[t] /\ raw'[t] = raw[t]
        /\ stats'[s] = st /\ raw'[s] = raw[s]
    BY <1>4, <1>5, <2>2, <2>3, <2>4, <2>5
  <2>8. stats[s].read \in Nat /\ Len(raw[s]) \in Nat
    BY <1>4 DEF AllStats
  <2>9. 0 \in {0, 1} /\ stats'[s].read = stats[s].read + 0
        /\ Len(raw'[s]) = Len(raw[s]) + 0
    BY <2>6, <2>7, <2>8
  <2> QED BY <1>1, <2>6, <2>7, <2>9
<1>7. CASE ~(r.lost > 0)
  <2> DEFINE st == [stats[s] EXCEPT !.read = @ + 1]
             ra == Append(raw[s], slice)
  <2>1. /\ stats' = [stats EXCEPT ![s].read = @ + 1]
        /\ rec' = [rec EXCEPT ![s] = b]
        /\ raw' = [raw EXCEPT ![s] = Append(@, slice)]
    BY <1>7 DEF ReadInto
  <2>2. st \in AllStats /\ st.read = stats[s].read + 1
        /\ st.events = stats[s].events
        /\ st.decodeErrors = stats[s].decodeErrors
    BY <1>4 DEF AllStats
  <2>3. stats' = [stats EXCEPT ![s] = st]
    BY <2>1 DEF Types
  <2>4. st.read + st.lost = stats[s].read + stats[s].lost + Weight(r)
    BY <1>4, <1>7 DEF AllStats, Weight
  <2> HIDE DEF st, q, r, b, slice
  <2>5. /\ raw' = [raw EXCEPT ![s] = ra] /\ ra \in Seq(Slices)
        /\ Len(ra) = Len(raw[s]) + 1
    BY <1>3, <1>4, <2>1
  <2> HIDE DEF ra
  <2>6. /\ Types' /\ Recorded'
        /\ \A t \in Sources \ {s} : stats'[t] = stats[t] /\ raw'[t] = raw[t]
        /\ stats'[s] = st /\ raw'[s] = ra
    BY <1>3, <1>5, <2>1, <2>2, <2>3, <2>4, <2>5
  <2>7. 1 \in {0, 1} /\ stats'[s].read = stats[s].read + 1
        /\ Len(raw'[s]) = Len(raw[s]) + 1
    BY <2>2, <2>5, <2>6
  <2> QED BY <1>1, <2>2, <2>6, <2>7
<1> QED BY <1>6, <1>7

(* The fan-out and the decoding of a batch move it on in the account.       *)
LEMMA ReadAccounts ==
  ASSUME Control, Accounts, NEW s \in Sources, Reads(s) \/ Fails(s)
  PROVE  Accounts'
<1> USE CountsAssumption DEF Accounts
<1>0. /\ pc' \in [Sources -> Locations]
      /\ \A t \in Sources \ {s} : pc'[t] = pc[t] /\ sink'[t] = sink[t]
      /\ sink[s] \in Nat /\ raw[s] \in Seq(Slices) /\ stats[s] \in AllStats
      /\ Len(raw[s]) \in Nat
      /\ \A k \in Sinks : k \in Nat /\ Len(received[s][k]) \in Nat
                          /\ refused[s][k] \in Nat
                          /\ received[s][k] \in Seq(Slices)
  <2>1. /\ pc' \in [Sources -> Locations]
        /\ \A t \in Sources \ {s} : pc'[t] = pc[t] /\ sink'[t] = sink[t]
    BY ReadControl
  <2>2. sink[s] \in Nat /\ \A k \in Sinks : k \in Nat
    BY DEF Control, Sinks
  <2>3. raw[s] \in Seq(Slices) /\ stats[s] \in AllStats /\ Len(raw[s]) \in Nat
    BY DEF Types
  <2>4. \A k \in Sinks : /\ received[s][k] \in Seq(Slices)
                         /\ refused[s][k] \in Nat
    BY DEF Types
  <2> QED BY <2>1, <2>2, <2>3, <2>4
<1>a. ASSUME \A t \in Sources \ {s} :
               /\ stats'[t] = stats[t] /\ raw'[t] = raw[t]
               /\ received'[t] = received[t] /\ refused'[t] = refused[t],
             pc'[s] = "first" => raw'[s] = <<>>,
             stats'[s].read = stats'[s].events + stats'[s].decodeErrors
                              + Undecoded(s)',
             \A k \in Sinks : stats'[s].events
               = Len(received'[s][k]) + refused'[s][k] + Unsent(s, k)'
      PROVE  HandedOn'
  <2>1. ASSUME NEW t \in Sources, t # s
        PROVE  /\ Undecoded(t)' = Undecoded(t)
               /\ \A k \in Sinks : Unsent(t, k)' = Unsent(t, k)
    BY <1>0, <1>a, <2>1 DEF Undecoded, Unsent
  <2>2. ASSUME NEW t \in Sources, t # s
        PROVE  /\ pc'[t] = "first" => raw'[t] = <<>>
               /\ stats'[t].read = stats'[t].events + stats'[t].decodeErrors
                                   + Undecoded(t)'
               /\ \A k \in Sinks : stats'[t].events
                    = Len(received'[t][k]) + refused'[t][k] + Unsent(t, k)'
    <3>1. /\ pc'[t] = pc[t] /\ stats'[t] = stats[t] /\ raw'[t] = raw[t]
          /\ received'[t] = received[t] /\ refused'[t] = refused[t]
      BY <1>0, <1>a, <2>2
    <3> QED BY <2>1, <2>2, <3>1 DEF HandedOn
  <2> QED BY <1>a, <2>2 DEF HandedOn
<1>b. /\ pc[s] = "first" => raw[s] = <<>>
      /\ stats[s].read = stats[s].events + stats[s].decodeErrors + Undecoded(s)
      /\ \A k \in Sinks : stats[s].events
           = Len(received[s][k]) + refused[s][k] + Unsent(s, k)
      /\ stats[s].read \in Nat /\ stats[s].events \in Nat
      /\ stats[s].decodeErrors \in Nat /\ stats[s].lost \in Nat
  BY <1>0 DEF HandedOn, AllStats
<1>1. CASE Check(s)
  <2>1. /\ pc[s] = "check" /\ pc'[s] \in {"first", "ended"}
        /\ raw' = [raw EXCEPT ![s] = <<>>] /\ rec' = [rec EXCEPT ![s] = 0]
        /\ UNCHANGED <<buffer, unreported, produced, dropped, stats, received,
                       refused, sink>>
    BY <1>1 DEF Check, Goto, Control, kernel, sinks, FirstRec
  <2>2. Types' /\ raw'[s] = <<>>
    <3>1. <<>> \in Seq(Slices)
      OBVIOUS
    <3> QED BY <2>1, <3>1 DEF Types
  <2>3. Undecoded(s) = 0 /\ Undecoded(s)' = 0
        /\ \A k \in Sinks : Unsent(s, k) = 0 /\ Unsent(s, k)' = 0
    BY <2>1 DEF Undecoded, Unsent
  <2>4. HandedOn'
    BY <1>a, <1>b, <2>1, <2>2, <2>3 DEF Types
  <2>5. Recorded'
    BY <2>1 DEF Recorded
  <2> QED BY <2>2, <2>4, <2>5
<1>2. ASSUME ReadInto(s), pc[s] \in {"first", "drain"}, pc'[s] = "drain"
      PROVE  Accounts'
  <2>1. /\ Types' /\ Recorded'
        /\ UNCHANGED <<received, refused, sink>>
        /\ \A t \in Sources \ {s} : stats'[t] = stats[t] /\ raw'[t] = raw[t]
        /\ stats'[s].events = stats[s].events
        /\ stats'[s].decodeErrors = stats[s].decodeErrors
    BY <1>2, ReadIntoAccounts
  <2>2. PICK d \in {0, 1} : /\ stats'[s].read = stats[s].read + d
                            /\ Len(raw'[s]) = Len(raw[s]) + d
    BY <1>2, ReadIntoAccounts
  <2>3. /\ Undecoded(s) = Len(raw[s]) /\ Undecoded(s)' = Len(raw[s]) + d
        /\ \A k \in Sinks : Unsent(s, k)' = Unsent(s, k)
    BY <1>2, <1>b, <2>2 DEF Undecoded, Unsent
  <2>4. stats'[s].read = stats'[s].events + stats'[s].decodeErrors + Undecoded(s)'
    <3> DEFINE r0 == stats[s].read  e0 == stats[s].events
               x0 == stats[s].decodeErrors  n0 == Len(raw[s])
    <3>1. r0 \in Nat /\ e0 \in Nat /\ x0 \in Nat /\ n0 \in Nat /\ d \in Nat
          /\ r0 = e0 + x0 + n0
      BY <1>0, <1>b, <2>3
    <3>2. r0 + d = e0 + x0 + (n0 + d)
      <4> HIDE DEF r0, e0, x0, n0
      <4> QED BY <3>1
    <3> QED BY <2>1, <2>2, <2>3, <3>2
  <2> QED BY <1>2, <1>a, <1>b, <2>1, <2>3, <2>4
<1>3. CASE FirstRecord(s) \/ DrainRecord(s)
  <2>1. ReadInto(s) /\ pc[s] \in {"first", "drain"} /\ pc'[s] = "drain"
    BY <1>3 DEF FirstRecord, DrainRecord, More, Goto, Control
  <2> QED BY <1>2, <2>1
<1>4. CASE DrainDone(s) \/ FirstFails(s) \/ DrainFails(s) \/ Fail(s)
  <2>1. /\ UNCHANGED <<buffer, unreported, produced, dropped, stats, received,
                       refused, sink, raw, rec>>
        /\ \/ pc[s] = "drain" /\ pc'[s] = "decode"
           \/ pc[s] = "first" /\ pc'[s] = "failed"
           \/ pc[s] = "failed" /\ pc'[s] = "ended"
    BY <1>4 DEF DrainDone, FirstFails, DrainFails, Fail, ReadError, Goto,
                Control, kernel, reader, sinks
  <2>2. Types' /\ Recorded'
    BY <2>1 DEF Types, Recorded
  <2>3. /\ Undecoded(s)' = Undecoded(s)
        /\ \A k \in Sinks : Unsent(s, k)' = Unsent(s, k)
    <3>1. raw[s] = <<>> => Len(raw[s]) = 0
      OBVIOUS
    <3> QED BY <1>b, <2>1, <3>1 DEF Undecoded, Unsent
  <2> QED BY <1>a, <1>b, <2>1, <2>2, <2>3
<1>5. CASE Decode(s)
  <2> DEFINE events == Decoded(raw[s])  n == Len(events)  m == Len(raw[s])
             st == [stats[s] EXCEPT !.events = @ + n,
                                    !.decodeErrors = @ + m - n]
  <2>0. events \in Seq(Slices) /\ n \in Nat /\ n <= m /\ m \in Nat
    BY <1>0, DecodedBatch
  <2>1. /\ pc[s] = "decode" /\ pc'[s] \in {"check", "send"}
        /\ pc'[s] = "check" => n = 0 \/ NSinks = 0
        /\ raw' = [raw EXCEPT ![s] = events] /\ sink' = [sink EXCEPT ![s] = 1]
        /\ UNCHANGED <<buffer, unreported, produced, dropped, received,
                       refused, rec>>
    BY <1>5 DEF Decode, Goto, Control, kernel
  <2>2. stats' = [stats EXCEPT ![s] = st]
    BY <1>5 DEF Decode, Types
  <2>3. /\ st \in AllStats /\ st.read = stats[s].read /\ st.lost = stats[s].lost
        /\ st.events = stats[s].events + n
        /\ st.decodeErrors = stats[s].decodeErrors + m - n
    <3> DEFINE e == stats[s].events  d == stats[s].decodeErrors
    <3>1. e \in Nat /\ d \in Nat
      BY <1>0 DEF Types, AllStats
    <3>2. e + n \in Nat /\ d + m - n \in Nat
      <4> HIDE DEF n, m, e, d
      <4> QED BY <2>0, <3>1
    <3> HIDE DEF n, m
    <3> QED BY <1>0, <3>2 DEF AllStats
  <2> HIDE DEF events, st
  <2>4. /\ raw'[s] = events /\ stats'[s] = st
        /\ sink'[s] = 1
        /\ \A t \in Sources \ {s} : stats'[t] = stats[t] /\ raw'[t] = raw[t]
    BY <2>1, <2>2 DEF Types, Control
  <2>5. Types'
    BY <2>0, <2>1, <2>2, <2>3 DEF Types
  <2>6. Recorded'
    <3>1. \A t \in Sources : /\ stats'[t].read = stats[t].read
                             /\ stats'[t].lost = stats[t].lost
      BY <2>3, <2>4
    <3> QED BY <2>1, <3>1 DEF Recorded
  <2>7. /\ Undecoded(s) = m /\ Undecoded(s)' = 0
        /\ \A k \in Sinks : Unsent(s, k) = 0 /\ Unsent(s, k)' = n
    BY <1>0, <2>1, <2>4 DEF Undecoded, Unsent, Sinks
  <2>8. stats'[s].read = stats'[s].events + stats'[s].decodeErrors + Undecoded(s)'
    <3> HIDE DEF n, m
    <3> QED BY <1>b, <2>0, <2>3, <2>4, <2>7
  <2>9. \A k \in Sinks : stats'[s].events
          = Len(received'[s][k]) + refused'[s][k] + Unsent(s, k)'
    <3> SUFFICES ASSUME NEW k \in Sinks
                 PROVE  stats'[s].events
                          = Len(received'[s][k]) + refused'[s][k] + Unsent(s, k)'
      OBVIOUS
    <3> DEFINE a == Len(received[s][k])  c == refused[s][k]
    <3>1. a \in Nat /\ c \in Nat /\ stats[s].events = a + c + 0
      BY <1>0, <1>b, <2>7
    <3>2. stats[s].events + n = a + c + n
      <4> HIDE DEF a, c, n
      <4> QED BY <3>1
    <3> QED BY <2>1, <2>3, <2>4, <2>7, <3>2
  <2> QED BY <1>a, <2>1, <2>4, <2>5, <2>6, <2>8, <2>9
<1>6. ASSUME NEW k \in Sinks, Send(s, k) \/ SendFails(s, k) PROVE Accounts'
  <2>1. /\ pc[s] = "send" /\ sink[s] = k /\ sink'[s] = k + 1
        /\ pc'[s] = IF k = NSinks THEN "check" ELSE "send"
        /\ UNCHANGED <<buffer, unreported, produced, dropped, stats, raw, rec>>
    BY <1>6 DEF Send, SendFails, Sent, Goto, Control, kernel, reader
  <2>2. /\ \/ /\ received' = [received EXCEPT ![s][k] = @ \o raw[s]]
              /\ refused' = refused
           \/ /\ refused' = [refused EXCEPT ![s][k] = @ + Len(raw[s])]
              /\ received' = received
    BY <1>6 DEF Send, SendFails
  <2>3. /\ Types'
        /\ \A t \in Sources \ {s} : /\ received'[t] = received[t]
                                    /\ refused'[t] = refused[t]
        /\ \A j \in Sinks \ {k} : /\ received'[s][j] = received[s][j]
                                  /\ refused'[s][j] = refused[s][j]
        /\ Len(received'[s][k]) + refused'[s][k]
             = Len(received[s][k]) + refused[s][k] + Len(raw[s])
    <3>1. CASE received' = [received EXCEPT ![s][k] = @ \o raw[s]]
               /\ refused' = refused
      <4> DEFINE new == received[s][k] \o raw[s]
      <4>1. new \in Seq(Slices)
            /\ Len(new) = Len(received[s][k]) + Len(raw[s])
        BY <1>0
      <4> HIDE DEF new
      <4>2. received' = [received EXCEPT ![s] = [received[s] EXCEPT ![k] = new]]
        BY <3>1 DEF new, Types
      <4>3. received'[s][k] = new /\ received[s] \in [Sinks -> Seq(Slices)]
            /\ received' \in [Sources -> [Sinks -> Seq(Slices)]]
            /\ \A t \in Sources \ {s} : received'[t] = received[t]
            /\ \A j \in Sinks \ {k} : received'[s][j] = received[s][j]
        BY <4>1, <4>2 DEF Types
      <4>4. Types'
        BY <2>1, <3>1, <4>3 DEF Types
      <4>5. /\ Len(received'[s][k]) = Len(received[s][k]) + Len(raw[s])
            /\ refused'[s][k] = refused[s][k]
        BY <3>1, <4>1, <4>3
      <4> DEFINE a == Len(received[s][k])  b == Len(raw[s])  c == refused[s][k]
                 a2 == Len(received'[s][k])
      <4>6. a2 + c = a + c + b
        <5>1. a \in Nat /\ b \in Nat /\ c \in Nat /\ a2 = a + b
          BY <1>0, <4>5
        <5> HIDE DEF a, b, c, a2
        <5> QED BY <5>1
      <4> QED BY <3>1, <4>3, <4>4, <4>5, <4>6
    <3>2. CASE refused' = [refused EXCEPT ![s][k] = @ + Len(raw[s])]
               /\ received' = received
      <4> DEFINE new == refused[s][k] + Len(raw[s])
      <4>1. new \in Nat
        BY <1>0
      <4> HIDE DEF new
      <4>2. refused' = [refused EXCEPT ![s] = [refused[s] EXCEPT ![k] = new]]
        BY <3>2 DEF new, Types
      <4>3. refused'[s][k] = new /\ refused[s] \in [Sinks -> Nat]
            /\ refused' \in [Sources -> [Sinks -> Nat]]
            /\ \A t \in Sources \ {s} : refused'[t] = refused[t]
            /\ \A j \in Sinks \ {k} : refused'[s][j] = refused[s][j]
        BY <4>1, <4>2 DEF Types
      <4>4. Types'
        BY <2>1, <3>2, <4>3 DEF Types
      <4>5. received'[s][k] = received[s][k]
        BY <3>2
      <4> DEFINE a == Len(received[s][k])  b == Len(raw[s])  c == refused[s][k]
      <4>6. a + new = a + c + b
        <5>1. a \in Nat /\ b \in Nat /\ c \in Nat /\ new = c + b
          BY <1>0 DEF new
        <5> HIDE DEF a, b, c
        <5> QED BY <5>1
      <4> QED BY <3>2, <4>3, <4>4, <4>5, <4>6
    <3> QED BY <2>2, <3>1, <3>2
  <2>4. Recorded'
    BY <2>1 DEF Recorded
  <2>5. /\ Undecoded(s) = 0 /\ Undecoded(s)' = 0
        /\ Unsent(s, k) = Len(raw[s]) /\ Unsent(s, k)' = 0
        /\ \A j \in Sinks \ {k} : Unsent(s, j)' = Unsent(s, j)
    <3>1. \A j \in Sinks \ {k} : sink'[s] <= j <=> sink[s] <= j
      BY <1>0, <2>1
    <3>2. \A j \in Sinks : k = NSinks /\ sink[s] <= j => j = k
      BY <1>0, <2>1 DEF Sinks
    <3>3. ~(sink'[s] <= k) /\ sink[s] <= k
      BY <1>0, <2>1
    <3> QED BY <2>1, <3>1, <3>2, <3>3 DEF Undecoded, Unsent
  <2>6. ASSUME NEW j \in Sinks
        PROVE  stats'[s].events
                 = Len(received'[s][j]) + refused'[s][j] + Unsent(s, j)'
    <3>1. CASE j # k
      BY <1>b, <2>1, <2>3, <2>5, <3>1
    <3>2. CASE j = k
      <4> DEFINE x == Len(received'[s][k]) + refused'[s][k]
                 y == Len(received[s][k]) + refused[s][k] + Len(raw[s])
      <4>1. x = y /\ stats[s].events = y /\ x \in Nat
        BY <1>0, <1>b, <2>3, <2>5
      <4>2. Unsent(s, k)' = 0 /\ stats'[s].events = x
        BY <2>1, <2>5, <4>1
      <4>3. x + Unsent(s, k)' = x
        <5> HIDE DEF x
        <5> QED BY <4>1, <4>2
      <4> QED BY <3>2, <4>2, <4>3
    <3> QED BY <3>1, <3>2
  <2>7. stats'[s].read = stats'[s].events + stats'[s].decodeErrors + Undecoded(s)'
    BY <1>b, <2>1, <2>5
  <2> QED BY <1>a, <2>1, <2>3, <2>4, <2>6, <2>7
<1> QED BY <1>1, <1>3, <1>4, <1>5, <1>6 DEF Reads, Fails

(* Every step preserves the accounts of every source. *)
LEMMA NextAccounts ==
  ASSUME Stopping, Accounts, [Next]_vars
  PROVE  Accounts'
<1>1. CASE Return \/ Cancel \/ CloseNext \/ CloseFails \/ UNCHANGED vars
  <2>1. UNCHANGED <<buffer, unreported, produced, dropped, stats, received,
                    refused, sink, raw, rec, pc>>
    BY <1>1 DEF Return, Cancel, CloseNext, CloseFails, CloseStep, vars, kernel,
                reader, sinks
  <2> QED BY <2>1 DEF Accounts, Types, Recorded, HandedOn, Undecoded, Unsent
<1> QED
  BY <1>1, ReadAccounts, ProduceAccounts DEF Next, Stopping

(* Every record a program produced is accounted for, and every event that   *)
(* was read.                                                                *)
THEOREM NothingUncounted == Spec => []CountsAddUp
<1>1. Accounts => CountsAddUp
  <2> SUFFICES ASSUME Accounts PROVE CountsAddUp
    OBVIOUS
  <2> QED BY PendingIsQueued
          DEF Accounts, Recorded, HandedOn, Undecoded, Unsent, CountsAddUp
<1>2. Stopping /\ Accounts /\ [Next]_vars => Accounts'
  BY NextAccounts
<1> QED
  BY <1>1, <1>2, InitStopping, NextStopping, InitAccounts, PTL DEF Spec
-----------------------------------------------------------------------------
(* No record number exceeds the bound, as none is given out beyond it.      *)
LEMMA ProducedWithinBound ==
  ASSUME Types, NEW s \in Sources, Total(produced) < MaxEvents
  PROVE  produced[s] < MaxEvents
<1>1. IsFiniteSet(Sources)
  <2>1. 1 \in Int /\ NSources \in Int
    BY CountsAssumption
  <2> QED BY <2>1, FS_Interval DEF Sources
<1>2. Total(produced) = SumOf(produced, Sources)
  BY DEF Total, SumOf
<1>3. \A t \in Sources : produced[t] \in Nat /\ produced[t] \in Int
  BY DEF Types
<1>4. SumOf(produced, Sources)
        = produced[s] + SumOf(produced, Sources \ {s})
  BY <1>1, <1>3, SumOfRemove
<1>5. SumOf(produced, Sources \ {s}) \in Nat
  <2>1. IsFiniteSet(Sources \ {s})
    BY <1>1, FS_Subset
  <2> QED BY <1>3, <2>1, SumOfType
<1> DEFINE a == produced[s]  b == SumOf(produced, Sources \ {s})
<1>6. a \in Nat /\ b \in Nat /\ a + b < MaxEvents /\ MaxEvents \in Nat
  BY <1>2, <1>3, <1>4, <1>5, BoundsAssumption
<1>7. a < MaxEvents
  <2> HIDE DEF a, b
  <2> QED BY <1>6
<1> QED BY <1>7

(* What ReadInto leaves in a buffer: the record, then what was there.       *)
LEMMA CopiedCells ==
  ASSUME NEW old \in Seq(Nat), NEW r, r.size \in Nat, r.id \in Nat
  PROVE  /\ Copied(old, r) \in Seq(Nat)
         /\ Len(Copied(old, r)) >= r.size /\ Len(Copied(old, r)) >= Len(old)
         /\ \A i \in 1 .. r.size : Copied(old, r)[i] = r.id
         /\ \A i \in 1 .. Len(old) : Copied(old, r)[i] \in {r.id, old[i]}
<1> DEFINE n == r.size  id == r.id
           head == [i \in 1 .. n |-> id]
           tail == SubSeq(old, n + 1, Len(old))
<1>1. n \in Nat /\ id \in Nat /\ Len(old) \in Nat
  OBVIOUS
<1> HIDE DEF n, id
<1>2. /\ head \in Seq(Nat) /\ Len(head) = n
      /\ \A i \in 1 .. n : head[i] = id
  BY <1>1
<1>3. /\ tail \in Seq(Nat)
      /\ n <= Len(old) => Len(tail) = Len(old) - n
      /\ n > Len(old) => Len(tail) = 0
      /\ \A i \in 1 .. Len(tail) : tail[i] = old[n + i]
  BY <1>1
<1> HIDE DEF head, tail
<1>4. /\ head \o tail \in Seq(Nat)
      /\ Len(head \o tail) = n + Len(tail)
      /\ \A i \in 1 .. n : (head \o tail)[i] = id
      /\ \A i \in n + 1 .. n + Len(tail) : (head \o tail)[i] = tail[i - n]
  <2>1. /\ head \o tail \in Seq(Nat) /\ Len(head \o tail) = n + Len(tail)
        /\ \A i \in 1 .. n + Len(tail) :
             (head \o tail)[i] = IF i <= n THEN head[i] ELSE tail[i - n]
    BY <1>2, <1>3, ConcatProperties
  <2>2. Len(tail) \in Nat
    BY <1>3
  <2> QED BY <1>1, <1>2, <2>1, <2>2
<1>5. Len(tail) \in Nat
  BY <1>3
<1>6. ASSUME NEW i \in 1 .. Len(old) PROVE (head \o tail)[i] \in {id, old[i]}
  <2>1. CASE i <= n
    <3>1. i \in 1 .. n
      BY <1>1, <2>1
    <3> QED BY <1>4, <3>1
  <2>2. CASE ~(i <= n)
    <3>1. /\ i \in n + 1 .. n + Len(tail) /\ i - n \in 1 .. Len(tail)
          /\ n + (i - n) = i
      BY <1>1, <1>3, <1>5, <2>2
    <3>2. tail[i - n] = old[n + (i - n)] /\ (head \o tail)[i] = tail[i - n]
      BY <1>3, <1>4, <3>1
    <3> QED BY <3>1, <3>2
  <2> QED BY <2>1, <2>2
<1>7. Copied(old, r) = head \o tail
  BY DEF Copied, head, tail, n, id
<1>8. Len(head \o tail) >= n /\ Len(head \o tail) >= Len(old)
  BY <1>1, <1>3, <1>4, <1>5
<1> QED BY <1>4, <1>6, <1>7, <1>8 DEF n, id
-----------------------------------------------------------------------------
(* The buffers' contents and the ends of the Reads.                         *)
Memory == /\ heap \in [Sources -> [Events -> Seq(Nat)]]
          /\ ends \in [Sources -> [Events -> Nat]]

(* The samples in a buffer, in the order of their numbers.                  *)
Sampled(s) == {i \in DOMAIN buffer[s] : buffer[s][i].lost = 0}
Ordered ==
  \A s \in Sources :
    /\ produced[s] <= MaxEvents
    /\ \A i \in Sampled(s) : buffer[s][i].id \in 1 .. produced[s]
    /\ \A i, j \in Sampled(s) : i < j => buffer[s][i].id < buffer[s][j].id

(* An event's data were written by its own Read, which came before what is  *)
(* in the buffer, and are those of records from the event's on.             *)
SoundEvent(s, e) ==
  /\ e.id \in Events /\ e.buf \in Events /\ e.first \in Events
  /\ e.first <= e.buf /\ e.buf <= e.id /\ e.id <= ends[s][e.first]
  /\ ends[s][e.first] <= produced[s]
  /\ \A i \in Sampled(s) : ends[s][e.first] < buffer[s][i].id
  /\ e.len <= Len(heap[s][e.buf])
  /\ \A cell \in 1 .. e.len : heap[s][e.buf][cell] \in e.id .. ends[s][e.first]
Sound ==
  \A s \in Sources :
    /\ \A i \in DOMAIN raw[s] : SoundEvent(s, raw[s][i])
    /\ \A k \in Sinks : \A i \in DOMAIN received[s][k] :
         SoundEvent(s, received[s][k][i])

(* While a Read is on its way, the reader's buffer is one it allocated.     *)
Begun(s) == raw[s][1].first
OwnBatch ==
  \A s \in Sources :
    pc[s] \in {"first", "drain"} =>
      /\ raw[s] = <<>> => rec[s] = 0
      /\ raw[s] # <<>> =>
           /\ rec[s] \in Events
           /\ Begun(s) <= rec[s] /\ rec[s] <= ends[s][Begun(s)]
           /\ \A i \in DOMAIN raw[s] : raw[s][i].first = Begun(s)
           /\ \A k \in Sinks : \A i \in DOMAIN received[s][k] :
                ends[s][received[s][k][i].first] < Begun(s)

DataSafe == Memory /\ Ordered /\ Sound /\ OwnBatch

(* The initial states: there are no events. *)
LEMMA InitDataSafe == Init => DataSafe
<1> SUFFICES ASSUME Init PROVE DataSafe
  OBVIOUS
<1>1. Memory
  <2>1. <<>> \in Seq(Nat)
    OBVIOUS
  <2> QED BY <2>1 DEF Init, Memory
<1>2. Ordered
  BY BoundsAssumption DEF Init, Ordered, Sampled
<1>3. Sound /\ OwnBatch
  BY DEF Init, Sound, OwnBatch
<1> QED BY <1>1, <1>2, <1>3 DEF DataSafe

(* Nothing but the records and their bound is new when one is output.       *)
LEMMA ProduceData ==
  ASSUME Types, DataSafe, NEW s \in Sources, NEW size \in Sizes, Produce(s, size)
  PROVE  DataSafe'
<1> USE DEF DataSafe
<1> DEFINE q == buffer[s]
           n == produced[s] + 1
           l == Lost(unreported[s])
           a == Sample(n, size)
<1>1. /\ UNCHANGED <<pc, raw, rec, heap, ends, received>>
      /\ produced' = [produced EXCEPT ![s] = n]
      /\ Total(produced) < MaxEvents
  BY DEF Produce, reader, sinks
<1>2. n \in Nat /\ produced[s] \in Nat /\ n <= MaxEvents /\ produced'[s] = n
      /\ \A t \in Sources \ {s} : produced'[t] = produced[t]
  BY <1>1, ProducedWithinBound, BoundsAssumption DEF Types
<1>3. q \in Seq(Records) /\ \A t \in Sources \ {s} : buffer'[t] = buffer[t]
  BY DEF Types, Produce
<1>4. /\ l \in Records /\ a \in Records
      /\ \/ buffer'[s] = q
         \/ unreported[s] > 0 /\ buffer'[s] = Append(Append(q, l), a)
         \/ buffer'[s] = Append(q, a)
  <2>1. l \in Records /\ a \in Records
    BY <1>2, SizesAssumption DEF Types, Records, Sample, Lost
  <2>2. Sample(produced'[s], size) = a
    BY <1>2
  <2>3. buffer \in [Sources -> Seq(Records)]
    BY DEF Types
  <2> HIDE DEF a, l, n
  <2>4. \/ buffer' = buffer
        \/ unreported[s] > 0 /\ buffer' = [buffer EXCEPT ![s] = @ \o (<<l>> \o <<a>>)]
        \/ buffer' = [buffer EXCEPT ![s] = @ \o (<<>> \o <<a>>)]
    BY <2>2 DEF Produce, l
  <2>5. /\ q \o (<<l>> \o <<a>>) = Append(Append(q, l), a)
        /\ q \o (<<>> \o <<a>>) = Append(q, a)
    <3> HIDE DEF q
    <3> QED BY <1>3, <2>1
  <2> QED BY <2>1, <2>3, <2>4, <2>5
<1>5. a.lost = 0 /\ a.id = n /\ (unreported[s] > 0 => l.lost # 0)
  BY DEF Sample, Lost, Types
<1> HIDE DEF q, n, l, a
<1>6. \A i \in Sampled(s)' :
         \/ i \in Sampled(s) /\ buffer'[s][i] = q[i]
         \/ /\ i \in DOMAIN buffer'[s] \ DOMAIN q
            /\ i = Len(buffer'[s]) /\ buffer'[s][i].id = n
  <2>1. CASE buffer'[s] = q
    BY <2>1 DEF Sampled, q
  <2>2. CASE unreported[s] > 0 /\ buffer'[s] = Append(Append(q, l), a)
    <3>1. /\ DOMAIN (Append(Append(q, l), a)) = 1 .. Len(q) + 2 /\ Len(q) \in Nat
          /\ DOMAIN q = 1 .. Len(q) /\ Len(Append(Append(q, l), a)) = Len(q) + 2
          /\ \A i \in DOMAIN q : (Append(Append(q, l), a))[i] = q[i]
          /\ (Append(Append(q, l), a))[Len(q) + 1] = l
          /\ (Append(Append(q, l), a))[Len(q) + 2] = a
      BY <1>3, <1>4
    <3>2. \A i \in 1 .. Len(q) + 2 :
            i \in DOMAIN q \/ i = Len(q) + 1 \/ i = Len(q) + 2
      BY <3>1
    <3> DEFINE b == Append(Append(q, l), a)
    <3>3. buffer'[s] = b
      BY <2>2
    <3>4. Len(q) + 2 \notin DOMAIN q
      BY <3>1
    <3> HIDE DEF b
    <3>5. \A i \in Sampled(s)' : i \in DOMAIN b /\ b[i].lost = 0
      BY <3>3 DEF Sampled
    <3> QED BY <1>5, <2>2, <3>1, <3>2, <3>3, <3>4, <3>5 DEF Sampled, q, b
  <2>3. CASE buffer'[s] = Append(q, a)
    <3>1. /\ DOMAIN (Append(q, a)) = 1 .. Len(q) + 1 /\ Len(q) \in Nat
          /\ DOMAIN q = 1 .. Len(q) /\ Len(Append(q, a)) = Len(q) + 1
          /\ \A i \in DOMAIN q : (Append(q, a))[i] = q[i]
          /\ (Append(q, a))[Len(q) + 1] = a
      BY <1>3, <1>4
    <3>2. \A i \in 1 .. Len(q) + 1 : i \in DOMAIN q \/ i = Len(q) + 1
      BY <3>1
    <3> DEFINE b == Append(q, a)
    <3>3. buffer'[s] = b
      BY <2>3
    <3>4. Len(q) + 1 \notin DOMAIN q
      BY <3>1
    <3> HIDE DEF b
    <3>5. \A i \in Sampled(s)' : i \in DOMAIN b /\ b[i].lost = 0
      BY <3>3 DEF Sampled
    <3> QED BY <1>5, <3>1, <3>2, <3>3, <3>4, <3>5 DEF Sampled, q, b
  <2> QED BY <1>4, <2>1, <2>2, <2>3
<1>7. /\ DOMAIN q = 1 .. Len(q) /\ Len(q) \in Nat
      /\ \A i \in DOMAIN q : q[i].id \in Nat
      /\ \E m \in Nat : DOMAIN buffer'[s] = 1 .. m /\ m = Len(buffer'[s])
      /\ DOMAIN q \subseteq DOMAIN buffer'[s]
  <2>1. \A i \in DOMAIN q : q[i] \in Records
    BY <1>3
  <2>2. \E m \in Nat : DOMAIN buffer'[s] = 1 .. m /\ m = Len(buffer'[s])
                       /\ m >= Len(q)
    <3> DEFINE p == buffer'[s]
    <3>1. /\ Len(q) \in Nat /\ p \in Seq(Records)
          /\ \/ Len(p) = Len(q) \/ Len(p) = Len(q) + 2 \/ Len(p) = Len(q) + 1
      BY <1>3, <1>4
    <3>2. DOMAIN p = 1 .. Len(p) /\ Len(p) \in Nat
      BY <3>1
    <3> DEFINE m == Len(p)  k == Len(q)
    <3>3. m >= k
      <4>1. m \in Nat /\ k \in Nat /\ (m = k \/ m = k + 2 \/ m = k + 1)
        BY <3>1, <3>2
      <4> HIDE DEF m, k
      <4> QED BY <4>1
    <3> HIDE DEF p
    <3> QED BY <3>2, <3>3 DEF p
  <2> QED BY <1>3, <2>1, <2>2 DEF Records
<1>8. \A t \in Sources \ {s} : Sampled(t)' = Sampled(t)
  BY <1>3 DEF Sampled
<1>9. Ordered'
  <2>1. ASSUME NEW t \in Sources \ {s}
        PROVE  /\ produced'[t] <= MaxEvents
               /\ \A i \in Sampled(t)' : buffer'[t][i].id \in 1 .. produced'[t]
               /\ \A i, j \in Sampled(t)' :
                    i < j => buffer'[t][i].id < buffer'[t][j].id
    BY <1>2, <1>3, <1>8 DEF Ordered
  <2>2. \A i \in Sampled(s) : i \in DOMAIN q /\ q[i].id \in 1 .. produced[s]
    BY DEF Ordered, Sampled, q
  <2>3. \A i \in Sampled(s)' : buffer'[s][i].id \in 1 .. n
    <3>1. n \in 1 .. n /\ \A x \in 1 .. produced[s] : x \in 1 .. n
      BY <1>2 DEF n
    <3> QED BY <1>6, <2>2, <3>1
  <2>4. ASSUME NEW i \in Sampled(s)', NEW j \in Sampled(s)', i < j
        PROVE  buffer'[s][i].id < buffer'[s][j].id
    <3>1. i \in DOMAIN buffer'[s] /\ j \in DOMAIN buffer'[s]
      BY DEF Sampled
    <3>2. i \in Sampled(s) /\ buffer'[s][i] = q[i]
      <4>1. ~(i = Len(buffer'[s]))
        BY <1>7, <2>4, <3>1
      <4> QED BY <1>6, <4>1
    <3>3. CASE j \in Sampled(s) /\ buffer'[s][j] = q[j]
      BY <2>4, <3>2, <3>3 DEF Ordered, q
    <3>4. CASE buffer'[s][j].id = n
      <4>1. q[i].id < n
        BY <1>2, <2>2, <3>2 DEF n
      <4> QED BY <3>2, <3>4, <4>1
    <3> QED BY <1>6, <3>3, <3>4
  <2> QED BY <1>2, <2>1, <2>3, <2>4 DEF Ordered
<1>10. ASSUME NEW t \in Sources, NEW e, SoundEvent(t, e)
       PROVE  SoundEvent(t, e)'
  <2>1. CASE t # s
    BY <1>1, <1>2, <1>3, <1>8, <1>10, <2>1 DEF SoundEvent
  <2>2. CASE t = s
    <3>1. ends[s][e.first] <= produced[s] /\ ends[s][e.first] \in Nat
      BY <1>10, <2>2 DEF SoundEvent, Memory
    <3>2. ends[s][e.first] <= n /\ ends[s][e.first] < n
      BY <1>2, <3>1 DEF n
    <3>3. \A i \in Sampled(s)' : ends[s][e.first] < buffer'[s][i].id
      BY <1>6, <1>10, <2>2, <3>2 DEF SoundEvent, q
    <3> QED BY <1>1, <1>2, <1>10, <2>2, <3>2, <3>3 DEF SoundEvent
  <2> QED BY <2>1, <2>2
<1>11. Sound'
  BY <1>1, <1>10 DEF Sound
<1>12. OwnBatch' /\ Memory'
  BY <1>1 DEF OwnBatch, Memory, Begun
<1> QED BY <1>9, <1>11, <1>12

(* Taking the first record off: the samples left have greater numbers.      *)
LEMMA TakenData ==
  ASSUME Types, DataSafe, NEW s \in Sources, buffer[s] # <<>>,
         buffer' = [buffer EXCEPT ![s] = Tail(@)], UNCHANGED produced
  PROVE  /\ Ordered' /\ Head(buffer[s]) \in Records
         /\ \A t \in Sources \ {s} : buffer'[t] = buffer[t]
         /\ \A i \in Sampled(s)' :
              i + 1 \in Sampled(s) /\ buffer'[s][i] = buffer[s][i + 1]
         /\ Head(buffer[s]).lost = 0 =>
              /\ 1 \in Sampled(s) /\ Head(buffer[s]) = buffer[s][1]
              /\ Head(buffer[s]).id \in 1 .. produced[s]
              /\ \A i \in Sampled(s)' : Head(buffer[s]).id < buffer'[s][i].id
<1> DEFINE q == buffer[s]  p == Tail(q)  r == Head(q)  n == Len(p)
<1>1. /\ q \in Seq(Records) /\ q # <<>> /\ buffer'[s] = p
      /\ \A t \in Sources \ {s} : buffer'[t] = buffer[t]
  BY DEF Types
<1>2. /\ r \in Records /\ r = q[1] /\ DOMAIN q = 1 .. n + 1 /\ DOMAIN p = 1 .. n
      /\ n \in Nat /\ \A i \in 1 .. n : p[i] = q[i + 1]
  <2> HIDE DEF q
  <2> QED BY <1>1
<1>3. \A i \in Sampled(s)' : i \in 1 .. n /\ p[i].lost = 0
  BY <1>1, <1>2 DEF Sampled
<1>4. /\ \A i \in Sampled(s)' : /\ i + 1 \in Sampled(s) /\ p[i] = q[i + 1]
                                /\ i \in Nat
      /\ r.lost = 0 => 1 \in Sampled(s)
  <2> HIDE DEF p, n, r
  <2> QED BY <1>2, <1>3 DEF Sampled
<1>5. /\ \A i \in Sampled(s) : q[i].id \in 1 .. produced[s]
      /\ \A i, j \in Sampled(s) : i < j => q[i].id < q[j].id
  BY DEF DataSafe, Ordered
<1> HIDE DEF q, p, r, n
<1>6. r.lost = 0 =>
        /\ r.id \in 1 .. produced[s]
        /\ \A i \in Sampled(s)' : r.id < p[i].id
  <2> SUFFICES ASSUME r.lost = 0
               PROVE  /\ r.id \in 1 .. produced[s]
                      /\ \A i \in Sampled(s)' : r.id < p[i].id
    OBVIOUS
  <2>1. \A i \in Sampled(s)' : 1 < i + 1
    BY <1>2, <1>3
  <2> QED BY <1>2, <1>4, <1>5, <2>1
<1>7. /\ \A i \in Sampled(s)' : p[i].id \in 1 .. produced[s]
      /\ \A i, j \in Sampled(s)' : i < j => p[i].id < p[j].id
  <2>1. \A i, j \in Sampled(s)' : i < j => i + 1 < j + 1
    BY <1>4
  <2> QED BY <1>4, <1>5, <2>1
<1>8. Ordered'
  <2>1. ASSUME NEW t \in Sources \ {s}
        PROVE  /\ produced'[t] <= MaxEvents
               /\ \A i \in Sampled(t)' : buffer'[t][i].id \in 1 .. produced'[t]
               /\ \A i, j \in Sampled(t)' :
                    i < j => buffer'[t][i].id < buffer'[t][j].id
    BY <1>1 DEF DataSafe, Ordered, Sampled
  <2>2. produced'[s] <= MaxEvents
    BY DEF DataSafe, Ordered
  <2> QED BY <1>1, <1>7, <2>1, <2>2 DEF Ordered
<1> QED BY <1>1, <1>2, <1>4, <1>6, <1>8 DEF q, p, r

(* An event stays sound when records are read that are not its Read's.      *)
LEMMA OldEventsSound ==
  ASSUME Types, DataSafe, NEW s \in Sources,
         \A i \in Sampled(s)' :
           i + 1 \in Sampled(s) /\ buffer'[s][i] = buffer[s][i + 1],
         UNCHANGED produced, NEW e, SoundEvent(s, e),
         heap'[s][e.buf] = heap[s][e.buf], ends'[s][e.first] = ends[s][e.first]
  PROVE  SoundEvent(s, e)'
<1>1. \A i \in Sampled(s)' : ends'[s][e.first] < buffer'[s][i].id
  BY DEF SoundEvent
<1> QED BY <1>1 DEF SoundEvent

(* ReadInto returns a lost count: only the statistics change.               *)
LEMMA LostData ==
  ASSUME Types, DataSafe, NEW s \in Sources, ReadInto(s),
         pc[s] \in {"first", "drain"}, pc' = [pc EXCEPT ![s] = "drain"],
         Head(buffer[s]).lost > 0, pc \in [Sources -> Locations]
  PROVE  DataSafe'
<1>1. /\ buffer[s] # <<>> /\ buffer' = [buffer EXCEPT ![s] = Tail(@)]
      /\ UNCHANGED <<produced, rec, heap, raw, ends, received>>
  BY DEF ReadInto, reader, sinks
<1>2. /\ Ordered' /\ \A t \in Sources \ {s} : buffer'[t] = buffer[t]
      /\ \A i \in Sampled(s)' :
           i + 1 \in Sampled(s) /\ buffer'[s][i] = buffer[s][i + 1]
  BY <1>1, TakenData
<1>3. ASSUME NEW t \in Sources, NEW e, SoundEvent(t, e)
      PROVE  SoundEvent(t, e)'
  <2>1. CASE t = s
    BY <1>1, <1>2, <1>3, <2>1, OldEventsSound
  <2>2. CASE t # s
    BY <1>1, <1>2, <1>3, <2>2 DEF SoundEvent, Sampled
  <2> QED BY <2>1, <2>2
<1>4. Sound' /\ Memory'
  BY <1>1, <1>3 DEF DataSafe, Sound, Memory
<1>5. OwnBatch'
  <2>1. \A t \in Sources :
          pc'[t] \in {"first", "drain"} => pc[t] \in {"first", "drain"}
    OBVIOUS
  <2> QED BY <1>1, <2>1 DEF DataSafe, OwnBatch, Begun
<1> QED BY <1>2, <1>4, <1>5 DEF DataSafe

(* ReadInto returns a sample.  Its buffer is the Read's own or a new one,   *)
(* so nothing changes in those of the events that were sent before.         *)
LEMMA SampleData ==
  ASSUME Types, HandedOn, DataSafe, NEW s \in Sources, ReadInto(s),
         pc[s] \in {"first", "drain"}, pc' = [pc EXCEPT ![s] = "drain"],
         ~(Head(buffer[s]).lost > 0), pc \in [Sources -> Locations]
  PROVE  DataSafe'
<1> DEFINE r == Head(buffer[s])
           id == r.id
           size == r.size
           b == Buffer(s, r)
           q == raw[s]
           f == IF q = <<>> THEN id ELSE q[1].first
           new == [id |-> id, buf |-> b, len |-> size, first |-> f]
<1>1. /\ buffer[s] # <<>> /\ buffer' = [buffer EXCEPT ![s] = Tail(@)]
      /\ UNCHANGED <<produced, received>>
      /\ rec' = [rec EXCEPT ![s] = b]
      /\ heap' = [heap EXCEPT ![s][b] = Copied(@, r)]
      /\ raw' = [raw EXCEPT ![s] = Append(@, new)]
      /\ ends' = [ends EXCEPT ![s][f] = id]
  BY DEF ReadInto, sinks
<1>2. /\ Ordered' /\ \A t \in Sources \ {s} : buffer'[t] = buffer[t]
      /\ \A i \in Sampled(s)' :
           i + 1 \in Sampled(s) /\ buffer'[s][i] = buffer[s][i + 1]
      /\ r \in Records
  BY <1>1, TakenData
<1>3. /\ 1 \in Sampled(s) /\ buffer[s][1].id = id /\ id \in 1 .. produced[s]
      /\ \A i \in Sampled(s)' : id < buffer'[s][i].id
  <2>1. r.lost = 0
    BY <1>2 DEF Records
  <2> QED BY <1>1, <2>1, TakenData
<1>4. /\ id \in Events /\ id \in Nat /\ size \in Nat /\ produced[s] \in Nat
      /\ id <= produced[s]
  <2>1. produced[s] \in Nat /\ produced[s] <= MaxEvents /\ MaxEvents \in Nat
    BY BoundsAssumption DEF DataSafe, Ordered, Types
  <2> HIDE DEF r
  <2> QED BY <1>2, <1>3, <2>1 DEF Events, Records
<1>5. \A e : SoundEvent(s, e) => ends[s][e.first] < id
  BY <1>3 DEF SoundEvent
<1>6. /\ ends[s] \in [Events -> Nat] /\ heap[s] \in [Events -> Seq(Nat)]
      /\ \A x \in Events : x \in Nat
  BY BoundsAssumption DEF DataSafe, Memory, Events
<1>7. q \in Seq(Slices) /\ \A i \in DOMAIN q : q[i] \in Slices /\ SoundEvent(s, q[i])
  BY DEF Types, DataSafe, Sound
<1>8. /\ b \in Events /\ f \in Events /\ f <= b /\ b <= id
      /\ b = id \/ b = rec[s]
  <2>1. b = id \/ (b = rec[s] /\ rec[s] # 0)
    BY DEF Buffer
  <2>2. CASE q = <<>>
    <3>1. rec[s] = 0
      BY <2>2 DEF DataSafe, OwnBatch
    <3> HIDE DEF b, id, q
    <3> QED BY <1>4, <2>1, <2>2, <3>1
  <2>3. CASE q # <<>>
    <3>1. /\ rec[s] \in Events /\ f <= rec[s] /\ rec[s] <= ends[s][f]
          /\ f = q[1].first
      BY <2>3 DEF DataSafe, OwnBatch, Begun
    <3>2. 1 \in DOMAIN q
      BY <1>7, <2>3
    <3>3. f \in Events /\ ends[s][f] < id /\ ends[s][f] \in Nat
      BY <1>5, <1>6, <1>7, <3>1, <3>2 DEF SoundEvent
    <3> DEFINE x == rec[s]  m == ends[s][f]
    <3>4. /\ x \in Events /\ f <= x /\ x <= m /\ m < id /\ m \in Nat
          /\ b = id \/ b = x
      BY <2>1, <3>1, <3>3
    <3>5. x \in Nat /\ f \in Nat
      BY <1>6, <3>3, <3>4
    <3> HIDE DEF b, id, q, f, x, m
    <3>6. f <= x /\ f <= id /\ x <= id /\ id <= id
      BY <1>4, <3>4, <3>5
    <3>7. b \in Events /\ f <= b /\ b <= id
      BY <1>4, <3>4, <3>6
    <3> QED BY <2>1, <3>3, <3>7
  <2> QED BY <2>2, <2>3
<1>9. /\ \A i \in DOMAIN q : q[i].first = f
      /\ \A k \in Sinks : \A i \in DOMAIN received[s][k] :
           ends[s][received[s][k][i].first] < f
  <2>1. CASE q = <<>>
    <3>1. f = id
      BY <2>1
    <3>2. \A k \in Sinks : \A i \in DOMAIN received[s][k] :
            SoundEvent(s, received[s][k][i])
      BY DEF DataSafe, Sound
    <3>3. DOMAIN q = {}
      BY <2>1
    <3> HIDE DEF f, id, q
    <3> QED BY <1>5, <3>1, <3>2, <3>3
  <2>2. CASE q # <<>>
    BY <2>2 DEF DataSafe, OwnBatch, Begun
  <2> QED BY <2>1, <2>2
<1>10. /\ Copied(heap[s][b], r) \in Seq(Nat)
       /\ Len(Copied(heap[s][b], r)) >= size
       /\ Len(Copied(heap[s][b], r)) >= Len(heap[s][b])
       /\ \A i \in 1 .. size : Copied(heap[s][b], r)[i] = id
       /\ \A i \in 1 .. Len(heap[s][b]) :
            Copied(heap[s][b], r)[i] \in {id, heap[s][b][i]}
  <2>1. heap[s][b] \in Seq(Nat)
    BY <1>6, <1>8
  <2>2. r.size \in Nat /\ r.id \in Nat
    BY <1>4
  <2> HIDE DEF r, b
  <2> QED BY <2>1, <2>2, CopiedCells DEF id, size
<1>11. /\ heap'[s] = [heap[s] EXCEPT ![b] = Copied(heap[s][b], r)]
       /\ ends'[s] = [ends[s] EXCEPT ![f] = id]
       /\ \A t \in Sources \ {s} :
            /\ heap'[t] = heap[t] /\ ends'[t] = ends[t] /\ raw'[t] = raw[t]
            /\ rec'[t] = rec[t] /\ pc'[t] = pc[t]
       /\ raw'[s] = Append(q, new) /\ rec'[s] = b /\ pc'[s] = "drain"
  <2> HIDE DEF r, b, f, id, size, new
  <2> QED BY <1>1 DEF DataSafe, Memory, Types
<1> HIDE DEF r, b, f, id, size, q
<1>12. new \in Slices
  BY <1>4, <1>6, <1>8 DEF Slices
<1>13. /\ \A i \in DOMAIN raw'[s] :
            (i \in DOMAIN q /\ raw'[s][i] = q[i]) \/ raw'[s][i] = new
       /\ raw'[s] # <<>> /\ raw'[s][1] = IF q = <<>> THEN new ELSE q[1]
  <2> HIDE DEF new
  <2>1. DOMAIN Append(q, new) = 1 .. Len(q) + 1 /\ Len(q) \in Nat
    BY <1>7, <1>12
  <2>2. \A i \in 1 .. Len(q) + 1 : i \in 1 .. Len(q) \/ i = Len(q) + 1
    BY <2>1
  <2>3. raw'[s] = Append(q, new) /\ q \in Seq(Slices)
    BY <1>7, <1>11
  <2>4. /\ \A i \in 1 .. Len(q) : raw'[s][i] = q[i]
        /\ raw'[s][Len(q) + 1] = new
    BY <1>12, <2>1, <2>3
  <2>5. /\ DOMAIN q = 1 .. Len(q) /\ DOMAIN raw'[s] = 1 .. Len(q) + 1
        /\ q = <<>> <=> Len(q) = 0
    BY <2>1, <2>3
  <2>6. 1 \in 1 .. Len(q) + 1 /\ (q # <<>> => 1 \in 1 .. Len(q))
    BY <2>1, <2>5
  <2>7. raw'[s] # <<>> /\ (q = <<>> => Len(q) + 1 = 1)
    BY <2>5, <2>6
  <2> HIDE DEF q
  <2> QED BY <2>2, <2>4, <2>5, <2>6, <2>7
<1>14. ASSUME NEW k \in Sinks, NEW i \in DOMAIN received[s][k],
              NEW e, e = received[s][k][i]
       PROVE  SoundEvent(s, e)'
  <2>1. SoundEvent(s, e) /\ ends[s][e.first] < f
    BY <1>9, <1>14 DEF DataSafe, Sound
  <2>2. /\ e.first \in Events /\ e.buf \in Events /\ e.id \in Events
        /\ e.first <= e.buf /\ e.buf <= e.id /\ e.id <= ends[s][e.first]
        /\ ends[s][e.first] \in Nat
    BY <1>6, <2>1 DEF SoundEvent
  <2> DEFINE g == e.first  h == e.buf  j == e.id  x == ends[s][e.first]
  <2>3. e.first # f /\ e.buf # b
    <3>1. /\ g \in Nat /\ h \in Nat /\ j \in Nat /\ x \in Nat
          /\ g <= h /\ h <= j /\ j <= x /\ x < f
      BY <2>1, <2>2 DEF Events
    <3>2. f \in Nat /\ b \in Nat /\ f <= b
      BY <1>6, <1>8 DEF Events
    <3> HIDE DEF g, h, j, x
    <3>3. g # f /\ h # b
      BY <3>1, <3>2
    <3> QED BY <3>3 DEF g, h
  <2>4. heap'[s][e.buf] = heap[s][e.buf] /\ ends'[s][e.first] = ends[s][e.first]
    BY <1>6, <1>11, <2>2, <2>3
  <2> QED BY <1>1, <1>2, <2>1, <2>4, OldEventsSound
<1>15. ASSUME NEW i \in DOMAIN q, NEW e, e = q[i] PROVE SoundEvent(s, e)'
  <2> DEFINE o == heap[s][e.buf]  c == Copied(heap[s][b], r)
             p == heap'[s][e.buf]  m == ends[s][f]  len == e.len
  <2>1. SoundEvent(s, e) /\ e.first = f /\ e \in Slices
    BY <1>7, <1>9, <1>15
  <2>2. /\ e.buf \in Events /\ e.id \in Events /\ e.first <= e.buf
        /\ e.buf <= e.id /\ e.id <= m /\ m \in Nat /\ m < id
        /\ len <= Len(o) /\ o \in Seq(Nat)
        /\ \A cell \in 1 .. len : o[cell] \in e.id .. m
        /\ len \in Nat
    BY <1>5, <1>6, <2>1 DEF SoundEvent, Slices
  <2>3. ends'[s][f] = id
    BY <1>6, <1>8, <1>11
  <2>4. p = o \/ (p = c /\ e.buf = b)
    BY <1>6, <1>8, <1>11, <2>2
  <2>5. /\ len <= Len(p)
        /\ \A cell \in 1 .. len : p[cell] = id \/ p[cell] = o[cell]
    <3>1. CASE p = o
      BY <2>2, <3>1
    <3>2. CASE p = c /\ e.buf = b
      <4>1. /\ Len(c) >= Len(o) /\ Len(c) \in Nat /\ Len(o) \in Nat
            /\ \A j \in 1 .. Len(o) : c[j] \in {id, o[j]}
        <5>1. o = heap[s][b]
          BY <3>2
        <5>2. Len(c) \in Nat /\ Len(o) \in Nat
          BY <1>10, <2>2
        <5>3. /\ Len(c) >= Len(heap[s][b])
              /\ \A j \in 1 .. Len(heap[s][b]) : c[j] \in {id, heap[s][b][j]}
          BY <1>10
        <5> HIDE DEF o, c
        <5> QED BY <5>1, <5>2, <5>3
      <4>2. 1 .. len \subseteq 1 .. Len(o) /\ len <= Len(c)
        <5> DEFINE x == Len(c)  y == Len(o)
        <5>1. x \in Nat /\ y \in Nat /\ x >= y /\ len <= y /\ len \in Nat
          BY <2>2, <4>1
        <5> HIDE DEF x, y, len
        <5>2. len <= x /\ 1 .. len \subseteq 1 .. y
          BY <5>1
        <5> QED BY <5>2 DEF x, y
      <4> HIDE DEF p, c, o, len
      <4> QED BY <3>2, <4>1, <4>2
    <3> QED BY <2>4, <3>1, <3>2
  <2>6. e.id <= id /\ \A cell \in 1 .. len : p[cell] \in e.id .. id
    <3> DEFINE x == e.id
    <3>1. /\ x \in Nat /\ x <= m /\ m \in Nat /\ m < id
          /\ \A cell \in 1 .. len : o[cell] \in x .. m
      BY <1>6, <2>2
    <3> HIDE DEF p, o, len, m, x
    <3>2. x <= id /\ id \in x .. id /\ \A y \in x .. m : y \in x .. id
      BY <1>4, <3>1
    <3>3. \A cell \in 1 .. len : p[cell] \in x .. id
      BY <2>5, <3>1, <3>2
    <3> QED BY <3>2, <3>3 DEF x
  <2>8. e.id \in Events /\ e.first \in Events
    BY <2>1 DEF SoundEvent
  <2>9. id <= produced'[s]
    BY <1>1, <1>4
  <2>10. ends'[s][e.first] = id
    BY <2>1, <2>3
  <2> QED BY <1>3, <2>2, <2>5, <2>6, <2>8, <2>9, <2>10
          DEF SoundEvent
<1>16. ASSUME NEW e, e = new PROVE SoundEvent(s, e)'
  <2> DEFINE c == Copied(heap[s][b], r)
  <2>1. heap'[s][b] = c /\ ends'[s][f] = id
    BY <1>6, <1>8, <1>11
  <2>2. /\ e.id = id /\ e.buf = b /\ e.len = size /\ e.first = f
    BY <1>16
  <2>3. id <= produced'[s] /\ id <= id /\ \A j \in 1 .. size : c[j] \in id .. id
    BY <1>1, <1>4, <1>10
  <2>4. size <= Len(c)
    <3> DEFINE x == Len(c)
    <3>1. x >= size /\ x \in Nat
      BY <1>10
    <3> HIDE DEF x
    <3>2. size <= x
      BY <1>4, <3>1
    <3> QED BY <3>2 DEF x
  <2> HIDE DEF new, c
  <2> QED BY <1>3, <1>4, <1>8, <2>1, <2>2, <2>3, <2>4 DEF SoundEvent
<1> HIDE DEF new
<1>17. ASSUME NEW t \in Sources \ {s}, NEW e, SoundEvent(t, e)
       PROVE  SoundEvent(t, e)'
  BY <1>1, <1>2, <1>11, <1>17 DEF SoundEvent, Sampled
<1>18. Sound'
  <2>1. ASSUME NEW t \in Sources \ {s}
        PROVE  /\ \A i \in DOMAIN raw'[t] : SoundEvent(t, raw[t][i])'
               /\ \A k \in Sinks : \A i \in DOMAIN received'[t][k] :
                    SoundEvent(t, received[t][k][i])'
    BY <1>1, <1>11, <1>17 DEF DataSafe, Sound
  <2>2. \A i \in DOMAIN raw'[s] : SoundEvent(s, raw[s][i])'
    BY <1>13, <1>15, <1>16
  <2>3. \A k \in Sinks : \A i \in DOMAIN received'[s][k] :
          SoundEvent(s, received[s][k][i])'
    BY <1>1, <1>14
  <2> QED BY <2>1, <2>2, <2>3 DEF Sound
<1>19. Memory'
  <2>0. id \in Nat
    BY <1>4
  <2>1. /\ heap'[s] \in [Events -> Seq(Nat)] /\ ends'[s] \in [Events -> Nat]
    <3> DEFINE c == Copied(heap[s][b], r)
    <3>1. c \in Seq(Nat) /\ heap'[s] = [heap[s] EXCEPT ![b] = c]
      BY <1>10, <1>11
    <3> HIDE DEF c
    <3>2. heap'[s] \in [Events -> Seq(Nat)]
      BY <1>6, <3>1
    <3>3. ends'[s] \in [Events -> Nat]
      <4>1. ends'[s] = [ends[s] EXCEPT ![f] = id]
        BY <1>11
      <4>2. ends[s] \in [Events -> Nat]
        BY <1>6
      <4> QED BY <2>0, <4>1, <4>2
    <3> QED BY <3>2, <3>3
  <2>2. /\ heap' = [heap EXCEPT ![s] = heap'[s]]
        /\ ends' = [ends EXCEPT ![s] = ends'[s]]
    BY <1>1, <1>11 DEF DataSafe, Memory
  <2> QED BY <2>1, <2>2 DEF DataSafe, Memory
<1>20. OwnBatch'
  <2>1. ASSUME NEW t \in Sources \ {s}, pc'[t] \in {"first", "drain"}
        PROVE  /\ raw'[t] = <<>> => rec'[t] = 0
               /\ raw'[t] # <<>> =>
                    /\ rec'[t] \in Events
                    /\ Begun(t)' <= rec'[t] /\ rec'[t] <= ends'[t][Begun(t)']
                    /\ \A i \in DOMAIN raw'[t] : raw'[t][i].first = Begun(t)'
                    /\ \A k \in Sinks : \A i \in DOMAIN received'[t][k] :
                         ends'[t][received'[t][k][i].first] < Begun(t)'
    BY <1>1, <1>11, <2>1 DEF DataSafe, OwnBatch, Begun
  <2>2. Begun(s)' = f
    <3>1. q # <<>> => 1 \in DOMAIN q
      BY <1>7
    <3> QED BY <1>9, <1>13, <3>1 DEF Begun, new
  <2>3. /\ rec'[s] \in Events /\ f <= rec'[s] /\ rec'[s] <= ends'[s][f]
    BY <1>6, <1>8, <1>11
  <2>4. \A i \in DOMAIN raw'[s] : raw'[s][i].first = f
    BY <1>9, <1>13 DEF new
  <2>5. ASSUME NEW k \in Sinks, NEW i \in DOMAIN received'[s][k]
        PROVE  ends'[s][received'[s][k][i].first] < f
    <3> DEFINE e == received[s][k][i]
    <3>1. SoundEvent(s, e) /\ ends[s][e.first] < f /\ received'[s][k][i] = e
      BY <1>1, <1>9, <2>5 DEF DataSafe, Sound
    <3>2. /\ e.first \in Events /\ e.buf \in Events /\ e.id \in Events
          /\ e.first <= e.buf /\ e.buf <= e.id /\ e.id <= ends[s][e.first]
          /\ ends[s][e.first] \in Nat
      BY <1>6, <3>1 DEF SoundEvent
    <3> HIDE DEF e
    <3>3. e.first # f
      <4> DEFINE g == e.first  h == e.buf  j == e.id  x == ends[s][e.first]
      <4>1. /\ g \in Nat /\ h \in Nat /\ j \in Nat /\ x \in Nat
            /\ g <= h /\ h <= j /\ j <= x /\ x < f
        BY <3>1, <3>2 DEF Events
      <4>2. f \in Nat
        BY <1>6, <1>8 DEF Events
      <4> HIDE DEF g, h, j, x
      <4>3. g # f
        BY <4>1, <4>2
      <4> QED BY <4>3 DEF g
    <3> QED BY <1>6, <1>11, <3>1, <3>2, <3>3
  <2> QED BY <1>13, <2>1, <2>2, <2>3, <2>4, <2>5 DEF OwnBatch
<1> QED BY <1>2, <1>18, <1>19, <1>20 DEF DataSafe

(* The other steps of a goroutine keep or drop events, or hand them on.     *)
LEMMA KeptData ==
  ASSUME DataSafe, NEW s \in Sources,
         UNCHANGED <<buffer, produced, heap, ends>>,
         \A t \in Sources \ {s} :
           /\ pc'[t] = pc[t] /\ rec'[t] = rec[t] /\ raw'[t] = raw[t]
           /\ received'[t] = received[t],
         \A i \in DOMAIN raw'[s] :
           \E j \in DOMAIN raw[s] : raw'[s][i] = raw[s][j],
         \A k \in Sinks : \A i \in DOMAIN received'[s][k] :
           \/ \E j \in DOMAIN raw[s] : received'[s][k][i] = raw[s][j]
           \/ /\ i \in DOMAIN received[s][k]
              /\ received'[s][k][i] = received[s][k][i],
         \/ pc'[s] \notin {"first", "drain"}
         \/ raw'[s] = <<>> /\ rec'[s] = 0
  PROVE  DataSafe'
<1>1. \A t \in Sources : \A e : SoundEvent(t, e) => SoundEvent(t, e)'
  BY DEF SoundEvent, Sampled
<1>2. /\ \A i \in DOMAIN raw'[s] : SoundEvent(s, raw[s][i])'
      /\ \A k \in Sinks : \A i \in DOMAIN received'[s][k] :
           SoundEvent(s, received[s][k][i])'
  <2>1. /\ \A i \in DOMAIN raw[s] : SoundEvent(s, raw[s][i])
        /\ \A k \in Sinks : \A i \in DOMAIN received[s][k] :
             SoundEvent(s, received[s][k][i])
    BY DEF DataSafe, Sound
  <2>2. ASSUME NEW i \in DOMAIN raw'[s], NEW e, e = raw'[s][i]
        PROVE  SoundEvent(s, e)'
    BY <1>1, <2>1, <2>2
  <2>3. ASSUME NEW k \in Sinks, NEW i \in DOMAIN received'[s][k],
               NEW e, e = received'[s][k][i]
        PROVE  SoundEvent(s, e)'
    BY <1>1, <2>1, <2>3
  <2> QED BY <2>2, <2>3
<1>3. Sound'
  <2>1. ASSUME NEW t \in Sources \ {s}
        PROVE  /\ \A i \in DOMAIN raw'[t] : SoundEvent(t, raw[t][i])'
               /\ \A k \in Sinks : \A i \in DOMAIN received'[t][k] :
                    SoundEvent(t, received[t][k][i])'
    BY <1>1 DEF DataSafe, Sound
  <2> QED BY <1>2, <2>1 DEF Sound
<1>4. OwnBatch'
  BY DEF DataSafe, OwnBatch, Begun
<1> QED BY <1>3, <1>4 DEF DataSafe, Ordered, Memory, Sampled

(* The steps of a source's goroutine keep the data of the events safe: a    *)
(* Read writes into a buffer of its own batch or into a new one.            *)
LEMMA ReadData ==
  ASSUME Control, Types, HandedOn, DataSafe, NEW s \in Sources,
         Reads(s) \/ Fails(s)
  PROVE  DataSafe'
<1>1. CASE FirstRecord(s) \/ DrainRecord(s)
  <2>1. /\ pc[s] \in {"first", "drain"} /\ pc' = [pc EXCEPT ![s] = "drain"]
        /\ ReadInto(s) /\ pc \in [Sources -> Locations]
    BY <1>1 DEF FirstRecord, DrainRecord, More, Goto, Control
  <2> QED BY <2>1, LostData, SampleData
<1>2. CASE Check(s)
  <2>1. /\ UNCHANGED <<buffer, produced, heap, ends, received>>
        /\ raw' = [raw EXCEPT ![s] = <<>>] /\ rec' = [rec EXCEPT ![s] = 0]
        /\ \A t \in Sources \ {s} : pc'[t] = pc[t]
    BY <1>2 DEF Check, FirstRec, Goto, kernel, sinks, Control
  <2>2. /\ raw'[s] = <<>> /\ rec'[s] = 0 /\ DOMAIN raw'[s] = {}
        /\ \A t \in Sources \ {s} : rec'[t] = rec[t] /\ raw'[t] = raw[t]
    BY <2>1 DEF Types
  <2> QED BY <2>1, <2>2, KeptData
<1>3. CASE DrainDone(s) \/ FirstFails(s) \/ DrainFails(s) \/ Fail(s)
  <2>1. /\ UNCHANGED <<buffer, produced, heap, ends, received, raw, rec>>
        /\ \A t \in Sources \ {s} : pc'[t] = pc[t]
        /\ pc'[s] \notin {"first", "drain"}
    BY <1>3 DEF DrainDone, FirstFails, DrainFails, ReadError, Fail, Goto,
       kernel, reader, sinks, Control
  <2> QED BY <2>1, KeptData
<1>4. CASE Decode(s)
  <2>1. /\ UNCHANGED <<buffer, produced, heap, ends, received, rec>>
        /\ raw' = [raw EXCEPT ![s] = Decoded(raw[s])]
        /\ \A t \in Sources \ {s} : pc'[t] = pc[t]
        /\ pc'[s] \notin {"first", "drain"}
    BY <1>4 DEF Decode, Goto, kernel, Control
  <2>2. ASSUME NEW i \in DOMAIN Decoded(raw[s])
        PROVE  \E j \in DOMAIN raw[s] : Decoded(raw[s])[i] = raw[s][j]
    <3> DEFINE q == raw[s]  S == {q[j] : j \in DOMAIN q}
    <3>1. q \in Seq(S)
      <4>1. q \in Seq(Slices)
        BY DEF Types
      <4> QED BY <4>1
    <3>2. Decoded(q) \in Seq(S)
      <4> HIDE DEF S
      <4> QED BY <3>1, DecodedBatch
    <3>3. Decoded(q)[i] \in S
      <4> HIDE DEF S, q
      <4> QED BY <2>2, <3>2 DEF q
    <3> QED BY <3>3
  <2>3. /\ raw'[s] = Decoded(raw[s])
        /\ \A t \in Sources \ {s} : raw'[t] = raw[t]
    BY <2>1 DEF Types
  <2> QED BY <2>1, <2>2, <2>3, KeptData
<1>5. ASSUME NEW k \in Sinks, Send(s, k) \/ SendFails(s, k)
      PROVE  DataSafe'
  <2>1. /\ UNCHANGED <<buffer, produced, heap, ends, raw, rec>>
        /\ \A t \in Sources \ {s} : pc'[t] = pc[t]
        /\ pc'[s] \notin {"first", "drain"}
        /\ \/ received' = received
           \/ received' = [received EXCEPT ![s][k] = @ \o raw[s]]
    BY <1>5 DEF Send, SendFails, Sent, Goto, kernel, reader, Control
  <2> DEFINE p == received[s][k]  q == raw[s]
  <2>2. p \in Seq(Slices) /\ q \in Seq(Slices)
    BY DEF Types
  <2>3. ASSUME NEW i \in DOMAIN (p \o q)
        PROVE  \/ \E j \in DOMAIN q : (p \o q)[i] = q[j]
               \/ i \in DOMAIN p /\ (p \o q)[i] = p[i]
    <3> HIDE DEF p, q
    <3>1. DOMAIN (p \o q) = 1 .. Len(p) + Len(q)
      BY <2>2, ConcatProperties
    <3>2. (p \o q)[i] = IF i <= Len(p) THEN p[i] ELSE q[i - Len(p)]
      BY <2>2, <2>3, <3>1, ConcatProperties
    <3>3. DOMAIN p = 1 .. Len(p) /\ DOMAIN q = 1 .. Len(q)
      BY <2>2
    <3> DEFINE m == Len(p)  n == Len(q)
    <3>4. m \in Nat /\ n \in Nat /\ i \in 1 .. m + n
      BY <2>2, <2>3, <3>1
    <3>5. (i <= m => i \in 1 .. m) /\ (~(i <= m) => i - m \in 1 .. n)
      <4> HIDE DEF m, n
      <4> QED BY <3>4
    <3> QED BY <3>2, <3>3, <3>5
  <2>4. /\ \A t \in Sources \ {s} : received'[t] = received[t]
        /\ \A l \in Sinks : \/ received'[s][l] = received[s][l]
                            \/ l = k /\ received'[s][l] = p \o q
    <3>1. CASE received' = received
      BY <3>1
    <3>2. CASE received' = [received EXCEPT ![s][k] = p \o q]
      <4> HIDE DEF p, q
      <4> QED BY <3>2 DEF Types
    <3> QED BY <2>1, <3>1, <3>2
  <2>5. \A l \in Sinks : \A i \in DOMAIN received'[s][l] :
           \/ \E j \in DOMAIN raw[s] : received'[s][l][i] = raw[s][j]
           \/ /\ i \in DOMAIN received[s][l]
              /\ received'[s][l][i] = received[s][l][i]
    BY <2>3, <2>4
  <2> HIDE DEF p, q
  <2> QED BY <2>1, <2>4, <2>5, KeptData
<1> QED BY <1>1, <1>2, <1>3, <1>4, <1>5 DEF Reads, Fails

(* Every step preserves the data of the events that are under way. *)
LEMMA NextDataSafe ==
  Control /\ Accounts /\ DataSafe /\ [Next]_vars => DataSafe'
<1> SUFFICES ASSUME Control, Types, HandedOn, DataSafe, [Next]_vars
             PROVE  DataSafe'
  BY DEF Accounts
<1>1. ASSUME NEW s \in Sources, Reads(s) \/ Fails(s) PROVE DataSafe'
  BY <1>1, ReadData
<1>2. ASSUME NEW s \in Sources, NEW size \in Sizes, Produce(s, size)
      PROVE  DataSafe'
  BY <1>2, ProduceData
<1>3. CASE Return \/ Cancel \/ CloseNext \/ CloseFails \/ UNCHANGED vars
  <2>1. UNCHANGED <<buffer, produced, heap, ends, raw, rec, pc, received>>
    BY <1>3 DEF Return, Cancel, CloseNext, CloseFails, CloseStep, vars, kernel,
                reader, sinks
  <2>2. \A s \in Sources : \A e : SoundEvent(s, e) => SoundEvent(s, e)'
    BY <2>1 DEF SoundEvent, Sampled
  <2>3. Sound'
    BY <2>1, <2>2 DEF DataSafe, Sound
  <2>4. OwnBatch'
    BY <2>1 DEF DataSafe, OwnBatch, Begun
  <2>5. Memory' /\ Ordered'
    BY <2>1 DEF DataSafe, Memory, Ordered, Sampled
  <2> QED BY <2>3, <2>4, <2>5 DEF DataSafe
<1> QED BY <1>1, <1>2, <1>3 DEF Next

(* What a sink keeps of an event are records of the Read the event came     *)
(* from, none of them earlier than it: no later Read writes into its data.  *)
THEOREM DataStaysOwn == Spec => []DataOfOwnRead
<1>1. DataSafe => DataOfOwnRead
  BY DEF DataSafe, Sound, SoundEvent, DataOfOwnRead
<1>2. Stopping => Control
  BY DEF Stopping
<1> QED BY <1>1, <1>2, InitStopping, NextStopping, InitAccounts, NextAccounts,
           InitDataSafe, NextDataSafe, PTL DEF Spec
=============================================================================
