--------------------------- MODULE PerfSamplerProofs ---------------------------
(***************************************************************************)
(* Proofs about SampleCollector and PerfSampler, which drives it, for      *)
(* every set of rings, every capacity and every fault.  Alone: the kernel  *)
(* and the worker thread share a ring without a lock, and the owner reads  *)
(* what the worker wrote only after the join.  Driven: all that is kept,   *)
(* stop() leaves no worker, a profile that is available counts every lost  *)
(* sample, and a failure of any ring makes the profile unavailable.        *)
(***************************************************************************)
EXTENDS PerfSampler, SequenceTheorems, FiniteSetTheorems, TLAPS

(* SampleCollector: the inductive invariant. *)

\* The positions whose samples drain() has stored.
Stored(r) == IF wpc = "copy" /\ ring = r THEN next ELSE tail[r]

\* The rings: data_tail never lags more than a ring, or passes data_head.
Rolling ==
    /\ \A r \in Rings : tail[r] <= DataHead(r)
    /\ wpc = "copy" => ring \in Rings

\* What is stored is finite and lies behind the worker, unless it has thrown.
Storing ==
    /\ IsFiniteSet(samples)
    /\ wpc # "done" => \A s \in samples : s[2] <= Stored(s[1])

\* No sample of the target is passed over.
NothingSkipped ==
    \A r \in Rings : \A p \in 1 .. Stored(r) :
        log[r][p].kind = "target" => <<r, p>> \in samples

\* lost_ counts what the LOST records behind the worker report.
Losses == UNION {LossesOf(r, Stored(r)) : r \in Rings}

Summing ==
    wpc # "done" \/ failure = "none" => IsFiniteSet(Losses) /\ lost = Cardinality(Losses)

\* A worker exists only from start() on.
Joining == phase = "new" => wpc = "none"

CollectorInv ==
    /\ TypeOK
    /\ Rolling /\ NoOverrun
    /\ OnlyGenuineSamples
    /\ Storing /\ NoDuplicateSample
    /\ NothingSkipped /\ Summing
    /\ Joining /\ NoUnjoinedRead

-----------------------------------------------------------------------------
(* The log only grows. *)

\* What the kernel writes at once: one record, or a LOST record before it.
LEMMA WrittenRecords ==
  ASSUME NEW r \in Rings, KernelWrites(r), TypeOK
  PROVE  \/ UNCHANGED log
         \/ \E recs \in Seq(Record) : /\ Len(recs) <= Space(r)
                                      /\ log' = [log EXCEPT ![r] = log[r] \o recs]
<1>1. PICK k \in Kind :
        LET rec  == [kind |-> k, count |-> 0]
            recs == IF dropped[r] = 0 THEN <<rec>> ELSE <<LostRecord(dropped[r]), rec>> IN
        IF Len(recs) <= Space(r) THEN log' = [log EXCEPT ![r] = @ \o recs]
                                 ELSE UNCHANGED log
  BY DEF KernelWrites, Kind
<1> DEFINE rec  == [kind |-> k, count |-> 0]
           recs == IF dropped[r] = 0 THEN <<rec>> ELSE <<LostRecord(dropped[r]), rec>>
<1>2. rec \in Record /\ LostRecord(dropped[r]) \in Record
  BY DEF TypeOK, Record, Kind, LostRecord
<1>3. recs \in Seq(Record)
  BY <1>2
<1> QED
  BY <1>1, <1>3

\* Whoever acts, no ring shrinks and no record in it changes.
LEMMA LogGrows ==
  ASSUME TypeOK, [Next]_collectorVars
  PROVE  /\ log' \in [Rings -> Seq(Record)]
         /\ \A r \in Rings : \A p \in 1 .. DataHead(r) :
              p \in 1 .. DataHead(r)' /\ log'[r][p] = log[r][p]
         /\ \A r \in Rings : DataHead(r) <= DataHead(r)'
<1>1. ASSUME NEW r \in Rings, KernelWrites(r)
      PROVE  UNCHANGED log \/ \E recs \in Seq(Record) : log' = [log EXCEPT ![r] = log[r] \o recs]
  BY <1>1, WrittenRecords
<1>2. CASE UNCHANGED log
  BY <1>2 DEF TypeOK, DataHead
<1>3. ASSUME NEW r \in Rings, NEW recs \in Seq(Record),
             log' = [log EXCEPT ![r] = log[r] \o recs]
      PROVE  /\ log' \in [Rings -> Seq(Record)]
             /\ \A q \in Rings : \A p \in 1 .. DataHead(q) :
                  p \in 1 .. DataHead(q)' /\ log'[q][p] = log[q][p]
             /\ \A q \in Rings : DataHead(q) <= DataHead(q)'
  <2>1. log[r] \in Seq(Record)
    BY DEF TypeOK
  <2>2. /\ log[r] \o recs \in Seq(Record)
        /\ Len(log[r] \o recs) = Len(log[r]) + Len(recs)
        /\ \A p \in 1 .. Len(log[r]) : (log[r] \o recs)[p] = log[r][p]
    BY <2>1, ConcatProperties
  <2>3. Len(recs) \in Nat /\ \A q \in Rings : Len(log[q]) \in Nat
    BY DEF TypeOK
  <2> QED
    BY <1>3, <2>2, <2>3 DEF TypeOK, DataHead
<1>4. UNCHANGED log \/ \E r \in Rings : KernelWrites(r)
  BY DEF Next, Kernel, Owner, Worker, TargetGone, CollectorStarts, StartFails,
         RequestStop, WriteWake, Join, WorkerChecks, BeginFinal, WorkerPolls, PassEnds,
         DrainBegins, DrainCopies, DrainPublishes, WorkerThrows, collectorVars, kernelVars
<1> QED
  BY <1>1, <1>2, <1>3, <1>4

\* What a write marks: samples it drops, the ring it notifies of.
LEMMA KernelMarks ==
  ASSUME NEW r \in Rings, KernelWrites(r), TypeOK
  PROVE  dropped' \in [Rings -> Nat] /\ notified' \in SUBSET Rings
<1>1. \/ dropped' = [dropped EXCEPT ![r] = 0] /\ notified' = notified \cup {r}
      \/ dropped' = [dropped EXCEPT ![r] = dropped[r] + 1] /\ UNCHANGED notified
  BY DEF KernelWrites
<1>2. dropped \in [Rings -> Nat] /\ notified \in SUBSET Rings
  BY DEF TypeOK
<1>3. dropped' \in [Rings -> Nat]
  BY <1>1, <1>2
<1>4. notified' \in SUBSET Rings
  BY <1>1, <1>2
<1> QED
  BY <1>3, <1>4

-----------------------------------------------------------------------------
(* Each part is kept by every step. *)

\* The worker and its owner write values of the right types.
LEMMA CollectorTypes ==
  ASSUME TypeOK, Rolling, NoOverrun, [Next]_collectorVars
  PROVE  TypeOK'
<1> USE DEF TypeOK, kernelVars, ownerVars, drainVars, resultVars, workerVars,
            Phase, Wpc, Cause
<1>1. log' \in [Rings -> Seq(Record)]
  BY LogGrows
<1>2. ASSUME NEW r \in Rings, KernelWrites(r) PROVE TypeOK'
  <2>1. dropped' \in [Rings -> Nat] /\ notified' \in SUBSET Rings
    BY <1>2, KernelMarks
  <2> QED
    BY <1>1, <1>2, <2>1 DEF KernelWrites
<1>3. CASE TargetGone
  BY <1>3 DEF TargetGone
<1>4. CASE CollectorStarts \/ StartFails
  BY <1>4 DEF CollectorStarts, StartFails, collectorVars
<1>5. CASE RequestStop \/ WriteWake \/ Join
  <2>1. phase' \in Phase
    BY <1>5 DEF RequestStop, WriteWake, AfterWake, Join
  <2>2. stopRequested' \in BOOLEAN /\ wakeError' \in BOOLEAN /\ wake' \in BOOLEAN
    BY <1>5, Zenon DEF RequestStop, WriteWake, Join
  <2>3. failure' \in Cause
    BY <1>5 DEF RequestStop, WriteWake, Join
  <2> QED
    BY <1>5, <2>1, <2>2, <2>3 DEF RequestStop, WriteWake, Join
<1>6. CASE WorkerChecks
  BY <1>6 DEF WorkerChecks, BeginFinal, FinalDrain
<1>7. CASE WorkerPolls
  BY <1>7 DEF WorkerPolls, BeginFinal, FinalDrain, Polled, WorkerThrows
<1>8. CASE PassEnds
  BY <1>8 DEF PassEnds
<1>9. ASSUME NEW r \in Rings, DrainBegins(r) PROVE TypeOK'
  BY <1>9 DEF DrainBegins, WorkerThrows, DataHead, TailAtBegin
<1>10. CASE DrainCopies
  <2>1. ring \in Rings
    BY <1>10 DEF DrainCopies, Rolling
  <2>2. CASE WorkerThrows("record")
    BY <1>10, <2>2 DEF WorkerThrows
  <2>3. CASE ~WorkerThrows("record")
    <3> DEFINE rec == RingRead(ring, next + 1)
               id  == <<ring, IF Intact(ring, next + 1) THEN next + 1 ELSE 0>>
    <3>1. /\ samples' = IF Keeps(rec) THEN samples \cup {id} ELSE samples
          /\ sampleCount' = IF Keeps(rec) THEN sampleCount + 1 ELSE sampleCount
          /\ lost' = lost + (IF rec.kind = "lost" THEN rec.count ELSE 0)
          /\ next' = next + 1
          /\ UNCHANGED <<kernelVars, tail, ownerVars, wake, wpc, watched, hups,
                         todo, final, ring, head, failure>>
      BY <1>10, <2>3 DEF DrainCopies, LostAfter
    <3>2. id \in Sample
      BY <2>1 DEF Sample
    <3>3. rec.kind = "lost" => rec.count \in Nat
      <4>1. Len(log[ring]) \in Nat
        BY <2>1
      <4>2. next + 1 \in 1 .. Len(log[ring])
        BY <1>10, <4>1 DEF DrainCopies, NoOverrun, DataHead
      <4>3. log[ring][next + 1] \in Record
        BY <2>1, <4>2
      <4> QED
        BY <4>3 DEF RingRead, Torn, Record
    <3>4. sampleCount' \in Nat /\ next' \in Nat /\ samples' \in SUBSET Sample
      BY <3>1, <3>2
    <3>5. lost' \in Nat
      BY <3>1, <3>3
    <3> QED
      BY <3>1, <3>4, <3>5
  <2> QED
    BY <2>2, <2>3
<1>11. CASE DrainPublishes
  BY <1>11 DEF DrainPublishes, TailAtEnd, Unwatched
<1>12. CASE UNCHANGED collectorVars
  BY <1>12 DEF collectorVars
<1> QED
  BY <1>2, <1>3, <1>4, <1>5, <1>6, <1>7, <1>8, <1>9, <1>10, <1>11, <1>12
     DEF Next, Kernel, Owner, Worker

\* No write takes more than the space left, and none moves a tail.
LEMMA WritesFit ==
  ASSUME TypeOK, NoOverrun, NEW r \in Rings, KernelWrites(r)
  PROVE  \A q \in Rings : DataHead(q)' - tail[q] <= Capacity
<1>1. \A q \in Rings : Len(log[q]) \in Nat /\ tail[q] \in Nat
  BY DEF TypeOK
<1>2. CASE UNCHANGED log
  BY <1>2 DEF NoOverrun, DataHead
<1>3. ASSUME NEW recs \in Seq(Record), Len(recs) <= Space(r),
             log' = [log EXCEPT ![r] = log[r] \o recs]
      PROVE  \A q \in Rings : DataHead(q)' - tail[q] <= Capacity
  <2>1. Len(log[r] \o recs) = Len(log[r]) + Len(recs) /\ Len(recs) \in Nat
    BY ConcatProperties DEF TypeOK
  <2>2. log \in [Rings -> Seq(Record)]
    BY DEF TypeOK
  <2>3. log'[r] = log[r] \o recs /\ \A q \in Rings \ {r} : log'[q] = log[q]
    BY <1>3, <2>2
  <2>4. DataHead(r)' - tail[r] <= Capacity
    BY <1>1, <1>3, <2>1, <2>3, CapacityAssumption DEF Space, DataHead
  <2> QED
    BY <2>3, <2>4 DEF NoOverrun, DataHead
<1> QED
  BY <1>2, <1>3, WrittenRecords

\* The rings are shared without a lock: drain() reads between data_tail and a
\* data_head that may only have moved on.
LEMMA StepRolling ==
  ASSUME TypeOK, Rolling, NoOverrun, [Next]_collectorVars
  PROVE  Rolling' /\ NoOverrun'
<1> USE DEF Rolling, NoOverrun, kernelVars, ownerVars, drainVars, resultVars, workerVars
<1>1. \A r \in Rings : /\ Len(log[r]) \in Nat /\ Len(log'[r]) \in Nat /\ tail[r] \in Nat
                       /\ DataHead(r) <= DataHead(r)'
  BY LogGrows DEF TypeOK
<1>2. tail \in [Rings -> Nat] /\ head \in Nat /\ next \in Nat /\ Capacity \in Nat
  BY CapacityAssumption DEF TypeOK
<1>3. ASSUME NEW r \in Rings, KernelWrites(r) PROVE Rolling' /\ NoOverrun'
  <2>1. UNCHANGED <<tail, wpc, ring, head, next, failure>>
    BY <1>3 DEF KernelWrites
  <2>2. \A q \in Rings : DataHead(q)' - tail[q] <= Capacity
    BY <1>3, WritesFit
  <2> QED
    BY <1>1, <1>2, <2>1, <2>2 DEF DataHead
<1>4. CASE TargetGone
  BY <1>4 DEF TargetGone, DataHead
<1>5. CASE CollectorStarts \/ StartFails \/ RequestStop \/ WriteWake \/ Join
  BY <1>5 DEF CollectorStarts, StartFails, RequestStop, WriteWake, Join,
              collectorVars, DataHead
<1>6. CASE WorkerChecks \/ WorkerPolls \/ PassEnds
  BY <1>6 DEF WorkerChecks, WorkerPolls, BeginFinal, WorkerThrows, PassEnds, DataHead
<1>7. ASSUME NEW r \in Rings, DrainBegins(r) PROVE Rolling' /\ NoOverrun'
  BY <1>1, <1>2, <1>7 DEF DrainBegins, WorkerThrows, TailAtBegin, DataHead
<1>8. CASE DrainCopies
  <2>1. UNCHANGED <<log, tail, ring, head>> /\ wpc' \in {wpc, "done"} /\ failure' \in {failure, "record"}
    BY <1>8 DEF DrainCopies, WorkerThrows
  <2>2. next # head /\ (wpc' = "copy" => next' = next + 1)
    BY <1>8 DEF DrainCopies, WorkerThrows
  <2> QED
    BY <1>1, <1>2, <2>1, <2>2 DEF DataHead
<1>9. CASE DrainPublishes
  <2>1. tail' = [tail EXCEPT ![ring] = next] /\ next = head /\ wpc = "copy" /\ wpc' = "scan"
        /\ UNCHANGED <<log, failure>>
    BY <1>9 DEF DrainPublishes, TailAtEnd
  <2> QED
    BY <1>1, <1>2, <2>1 DEF DataHead
<1>10. CASE UNCHANGED collectorVars
  BY <1>10 DEF collectorVars, DataHead
<1> QED
  BY <1>3, <1>4, <1>5, <1>6, <1>7, <1>8, <1>9, <1>10 DEF Next, Kernel, Owner, Worker

\* What a step of drain() stores is the record at the next position.
LEMMA Copying ==
  ASSUME TypeOK, Rolling, NoOverrun, DrainCopies
  PROVE  \/ UNCHANGED <<samples, sampleCount, next>> /\ wpc' = "done"
         \/ /\ next' = next + 1 /\ UNCHANGED wpc
            /\ next + 1 \in 1 .. DataHead(ring)
            /\ \/ /\ log[ring][next + 1].kind # "target"
                  /\ UNCHANGED <<samples, sampleCount>>
               \/ /\ log[ring][next + 1].kind = "target"
                  /\ samples' = samples \cup {<<ring, next + 1>>}
                  /\ sampleCount' = sampleCount + 1
<1>1. ring \in Rings /\ Len(log[ring]) \in Nat /\ next \in Nat /\ head \in Nat
      /\ tail[ring] \in Nat /\ Capacity \in Nat
  BY CapacityAssumption DEF TypeOK, Rolling, DrainCopies
<1>2. next + 1 \in 1 .. DataHead(ring) /\ Intact(ring, next + 1)
  BY <1>1 DEF DrainCopies, NoOverrun, Intact, DataHead
<1>3. log[ring][next + 1] \in Record
  BY <1>1, <1>2 DEF TypeOK, DataHead
<1>4. RingRead(ring, next + 1) = log[ring][next + 1]
  BY <1>2 DEF RingRead
<1>5. Keeps(log[ring][next + 1]) <=> log[ring][next + 1].kind = "target"
  BY <1>3 DEF Keeps, Record, Kind
<1>6. CASE WorkerThrows("record")
  BY <1>6 DEF WorkerThrows, workerVars, resultVars, drainVars
<1>7. CASE ~WorkerThrows("record")
  BY <1>2, <1>4, <1>5, <1>7 DEF DrainCopies
<1> QED
  BY <1>6, <1>7

\* Only drain() stores samples.
LEMMA StoresOnly ==
  ASSUME [Next]_collectorVars, ~DrainCopies
  PROVE  UNCHANGED <<samples, sampleCount>>
  BY DEF Next, Kernel, Owner, Worker, KernelWrites, TargetGone, CollectorStarts,
         StartFails, RequestStop, WriteWake, Join, WorkerChecks, WorkerPolls, BeginFinal,
         PassEnds, DrainBegins, DrainPublishes, WorkerThrows, collectorVars, workerVars,
         resultVars, kernelVars, ownerVars, drainVars

\* A sample is a record of the target, and stays one.
LEMMA StepGenuine ==
  ASSUME TypeOK, Rolling, NoOverrun, OnlyGenuineSamples, [Next]_collectorVars
  PROVE  OnlyGenuineSamples'
<1> SUFFICES ASSUME NEW s \in samples'
             PROVE  s[2] \in DOMAIN log'[s[1]] /\ log'[s[1]][s[2]].kind = "target"
  BY DEF OnlyGenuineSamples
<1>1. log \in [Rings -> Seq(Record)] /\ log' \in [Rings -> Seq(Record)]
  BY LogGrows DEF TypeOK
<1>2. \A r \in Rings : \A p \in 1 .. DataHead(r) :
        p \in DOMAIN log'[r] /\ log'[r][p] = log[r][p]
  BY <1>1, LogGrows DEF DataHead
<1>3. CASE s \in samples
  <2>1. s[1] \in Rings /\ s[2] \in 1 .. DataHead(s[1]) /\ log[s[1]][s[2]].kind = "target"
    BY <1>1, <1>3 DEF OnlyGenuineSamples, TypeOK, Sample, DataHead
  <2> QED
    BY <1>2, <2>1
<1>4. CASE s \notin samples
  <2>1. DrainCopies /\ ring \in Rings
    BY <1>4, StoresOnly DEF Rolling, DrainCopies
  <2>2. s = <<ring, next + 1>> /\ next + 1 \in 1 .. DataHead(ring)
        /\ log[ring][next + 1].kind = "target"
    BY <1>4, <2>1, Copying
  <2> QED
    BY <1>2, <2>1, <2>2
<1> QED
  BY <1>3, <1>4

\* Only drain() moves what is stored of a ring.
LEMMA StoredStays ==
  ASSUME TypeOK, Rolling, Joining, ~DrainCopies, [Next]_collectorVars
  PROVE  \A r \in Rings : Stored(r)' = Stored(r)
<1> USE DEF Stored, kernelVars, ownerVars, drainVars, resultVars, workerVars
<1>1. CASE Kernel
  BY <1>1 DEF Kernel, TargetGone, KernelWrites
<1>2. CASE Owner
  BY <1>2 DEF Owner, CollectorStarts, StartFails, RequestStop, WriteWake, Join,
              Joining, collectorVars
<1>3. CASE WorkerChecks \/ WorkerPolls \/ PassEnds
  BY <1>3 DEF WorkerChecks, WorkerPolls, BeginFinal, WorkerThrows, PassEnds
<1>4. ASSUME NEW r \in Rings, DrainBegins(r)
      PROVE  \A q \in Rings : Stored(q)' = Stored(q)
  BY <1>4 DEF DrainBegins, WorkerThrows, TailAtBegin, TypeOK
<1>5. CASE DrainPublishes
  BY <1>5 DEF DrainPublishes, TailAtEnd, TypeOK, Rolling
<1>6. CASE UNCHANGED collectorVars
  BY <1>6 DEF collectorVars
<1> QED
  BY <1>1, <1>2, <1>3, <1>4, <1>5, <1>6 DEF Next, Worker

\* A worker that has ended stays so.
LEMMA DoneIsLast ==
  ASSUME Joining, [Next]_collectorVars, wpc = "done"
  PROVE  wpc' = "done"
  BY DEF Joining, Next, Kernel, Owner, Worker, KernelWrites, TargetGone, CollectorStarts,
         StartFails, RequestStop, WriteWake, Join, WorkerChecks, WorkerPolls, PassEnds,
         DrainBegins, DrainCopies, DrainPublishes, collectorVars

\* Every position is stored at most once, over all drains of its ring.
LEMMA StepStoring ==
  ASSUME TypeOK, Rolling, NoOverrun, Storing, NoDuplicateSample, Joining,
         [Next]_collectorVars
  PROVE  Storing' /\ NoDuplicateSample'
<1>1. CASE DrainCopies
  <2>1. ring \in Rings /\ next \in Nat /\ wpc = "copy" /\ UNCHANGED <<tail, ring>>
    BY <1>1 DEF Rolling, TypeOK, DrainCopies, WorkerThrows, workerVars, drainVars
  <2>2. CASE UNCHANGED <<samples, sampleCount, next>> /\ wpc' = "done"
    BY <2>2 DEF Storing, NoDuplicateSample
  <2>3. CASE next' = next + 1 /\ UNCHANGED <<wpc, samples, sampleCount>>
    <3>1. \A s \in samples : s[1] \in Rings /\ s[2] \in Nat /\ tail[s[1]] \in Nat
      BY DEF TypeOK, Sample
    <3> QED
      BY <2>1, <2>3, <3>1 DEF Storing, NoDuplicateSample, Stored
  <2>4. CASE /\ next' = next + 1 /\ UNCHANGED wpc
             /\ samples' = samples \cup {<<ring, next + 1>>}
             /\ sampleCount' = sampleCount + 1
    <3> DEFINE id == <<ring, next + 1>>
    <3>1. \A s \in samples : s[1] \in Rings /\ s[2] \in Nat /\ tail[s[1]] \in Nat
      BY DEF TypeOK, Sample
    <3>2. id \notin samples
      BY <2>1, <3>1 DEF Storing, Stored
    <3>3. IsFiniteSet(samples') /\ Cardinality(samples') = Cardinality(samples) + 1
      BY <2>4, <3>2, FS_AddElement DEF Storing
    <3>4. \A s \in samples' : s[2] <= Stored(s[1])'
      BY <2>1, <2>4, <3>1 DEF Storing, Stored
    <3> QED
      BY <2>4, <3>3, <3>4 DEF Storing, NoDuplicateSample
  <2> QED
    BY <1>1, <2>2, <2>3, <2>4, Copying
<1>2. CASE ~DrainCopies
  <2>1. UNCHANGED <<samples, sampleCount>>
    BY <1>2, StoresOnly
  <2>2. \A s \in samples : s[1] \in Rings
    BY DEF TypeOK, Sample
  <2>3. wpc' # "done" => \A s \in samples : s[2] <= Stored(s[1])'
    BY <1>2, <2>2, StoredStays, DoneIsLast DEF Storing
  <2> QED
    BY <2>1, <2>3 DEF Storing, NoDuplicateSample
<1> QED
  BY <1>1, <1>2

\* A record is passed when it is stored, or when it is none of the target.
LEMMA StepNothingSkipped ==
  ASSUME TypeOK, Rolling, NoOverrun, NothingSkipped, Joining, [Next]_collectorVars
  PROVE  NothingSkipped'
<1>1. \A r \in Rings : /\ Stored(r) \in Nat /\ Stored(r) <= DataHead(r)
                       /\ tail[r] \in Nat /\ tail[r] <= Stored(r)
  BY DEF TypeOK, Rolling, NoOverrun, Stored, DataHead
<1>2. \A r \in Rings : \A p \in 1 .. DataHead(r) : log'[r][p] = log[r][p]
  BY LogGrows
<1>3. \A r \in Rings : DataHead(r) \in Nat
  BY DEF TypeOK, DataHead
<1>4. CASE DrainCopies
  <2>1. ring \in Rings /\ wpc = "copy" /\ UNCHANGED <<log, tail, ring>>
    BY <1>4 DEF Rolling, DrainCopies, WorkerThrows, kernelVars, workerVars, drainVars
  <2>2. CASE UNCHANGED <<samples, sampleCount, next>> /\ wpc' = "done"
    BY <1>1, <2>1, <2>2 DEF NothingSkipped, Stored
  <2>3. CASE ~(UNCHANGED <<samples, sampleCount, next>> /\ wpc' = "done")
    <3>1. /\ next' = next + 1 /\ wpc' = "copy" /\ samples \subseteq samples'
          /\ log[ring][next + 1].kind = "target" => <<ring, next + 1>> \in samples'
      BY <1>4, <2>1, <2>3, Copying
    <3>2. \A r \in Rings : \A p \in 1 .. Stored(r)' :
            p \in 1 .. Stored(r) \/ (r = ring /\ p = next + 1)
      BY <1>1, <2>1, <3>1 DEF Stored
    <3> QED
      BY <2>1, <3>1, <3>2 DEF NothingSkipped
  <2> QED
    BY <2>2, <2>3
<1>5. CASE ~DrainCopies
  <2>1. UNCHANGED samples /\ \A r \in Rings : Stored(r)' = Stored(r)
    BY <1>5, StoresOnly, StoredStays
  <2>2. \A r \in Rings : \A p \in 1 .. Stored(r) : p \in 1 .. DataHead(r)
    BY <1>1, <1>3
  <2> QED
    BY <1>2, <2>1, <2>2 DEF NothingSkipped
<1> QED
  BY <1>4, <1>5

-----------------------------------------------------------------------------
(* The losses behind the worker. *)

\* The pairs that name the losses of the first n records.
LEMMA LossIs ==
  ASSUME NEW r \in Rings, NEW n \in Nat, NEW t
  PROVE  t \in LossesOf(r, n) <=>
           \E p \in 1 .. n : /\ log[r][p].kind = "lost"
                             /\ t \in {<<r, p>>} \X (1 .. log[r][p].count)
  BY DEF LossesOf

\* A record that is not a LOST record adds none, a LOST record as many as it says.
LEMMA NextLosses ==
  ASSUME NEW r \in Rings, NEW n \in Nat
  PROVE  LossesOf(r, n + 1) =
           LossesOf(r, n) \cup (IF log[r][n + 1].kind = "lost"
                                THEN {<<r, n + 1>>} \X (1 .. log[r][n + 1].count) ELSE {})
<1> DEFINE More == IF log[r][n + 1].kind = "lost"
                   THEN {<<r, n + 1>>} \X (1 .. log[r][n + 1].count) ELSE {}
<1>1. \A p : p \in 1 .. n + 1 <=> p \in 1 .. n \/ p = n + 1
  OBVIOUS
<1>2. ASSUME NEW t
      PROVE  t \in LossesOf(r, n + 1) <=> t \in LossesOf(r, n) \/ t \in More
  <2>1. t \in LossesOf(r, n + 1) <=>
          \E p \in 1 .. n + 1 : /\ log[r][p].kind = "lost"
                                /\ t \in {<<r, p>>} \X (1 .. log[r][p].count)
    BY LossIs, n + 1 \in Nat
  <2>2. t \in LossesOf(r, n) <=>
          \E p \in 1 .. n : /\ log[r][p].kind = "lost"
                            /\ t \in {<<r, p>>} \X (1 .. log[r][p].count)
    BY LossIs
  <2>3. t \in More <=> /\ log[r][n + 1].kind = "lost"
                       /\ t \in {<<r, n + 1>>} \X (1 .. log[r][n + 1].count)
    OBVIOUS
  <2> HIDE DEF More
  <2> QED
    BY <1>1, <2>1, <2>2, <2>3, Zenon
<1> QED
  BY <1>2, Zenon

\* Before anything is read, nothing is lost.
LEMMA EmptyLosses ==
  ASSUME \A r \in Rings : Stored(r) = 0
  PROVE  IsFiniteSet(Losses) /\ Cardinality(Losses) = 0
<1>1. \A r \in Rings : LossesOf(r, Stored(r)) = {}
  <2> SUFFICES ASSUME NEW r \in Rings, NEW t \in LossesOf(r, 0) PROVE FALSE
    BY Zenon
  <2> QED
    BY LossIs, 0 \in Nat
<1>2. Losses = {}
  BY <1>1 DEF Losses
<1> QED
  BY <1>2, FS_EmptySet

\* What was written stays: so do the losses that it reports.
LEMMA LossesStay ==
  ASSUME TypeOK, [Next]_collectorVars, NEW r \in Rings, NEW n \in 0 .. DataHead(r)
  PROVE  LossesOf(r, n)' = LossesOf(r, n)
<1>1. \A p \in 1 .. n : log'[r][p] = log[r][p]
  BY LogGrows DEF TypeOK, DataHead
<1> QED
  BY <1>1 DEF LossesOf

\* The next record, when it does not end the worker, is added up.
LEMMA CopyingLosses ==
  ASSUME TypeOK, Rolling, NoOverrun, DrainCopies
  PROVE  \/ wpc' = "done" /\ failure' = "record"
         \/ /\ next' = next + 1 /\ wpc' = "copy"
            /\ lost' = lost + (IF log[ring][next + 1].kind = "lost"
                               THEN log[ring][next + 1].count ELSE 0)
<1>1. ring \in Rings /\ Len(log[ring]) \in Nat /\ next \in Nat /\ head \in Nat
      /\ tail[ring] \in Nat /\ Capacity \in Nat
  BY CapacityAssumption DEF TypeOK, Rolling, DrainCopies
<1>2. Intact(ring, next + 1)
  BY <1>1 DEF DrainCopies, NoOverrun, Intact, DataHead
<1>3. RingRead(ring, next + 1) = log[ring][next + 1]
  BY <1>2 DEF RingRead
<1>4. CASE WorkerThrows("record")
  BY <1>4 DEF WorkerThrows
<1>5. CASE ~WorkerThrows("record")
  BY <1>3, <1>5 DEF DrainCopies, LostAfter
<1> QED
  BY <1>4, <1>5

\* Only drain() adds to lost_, and nothing but a failure ends the worker early.
LEMMA LostOnly ==
  ASSUME Joining, [Next]_collectorVars, ~DrainCopies
  PROVE  /\ UNCHANGED lost
         /\ failure' = "none" => failure = "none"
         /\ wpc' # "done" \/ failure' = "none" => wpc # "done" \/ failure = "none"
<1> USE DEF kernelVars, ownerVars, drainVars, resultVars, workerVars
<1>1. CASE Kernel
  BY <1>1 DEF Kernel, TargetGone, KernelWrites
<1>2. CASE CollectorStarts \/ StartFails \/ RequestStop \/ WriteWake \/ Join
  BY <1>2 DEF Joining, CollectorStarts, StartFails, RequestStop, WriteWake, Join, collectorVars
<1>3. CASE WorkerChecks \/ WorkerPolls \/ PassEnds
  BY <1>3 DEF WorkerChecks, WorkerPolls, BeginFinal, WorkerThrows, PassEnds
<1>4. ASSUME NEW r \in Rings, DrainBegins(r)
      PROVE  UNCHANGED lost /\ wpc = "scan" /\ (failure' = "none" => failure = "none")
  BY <1>4 DEF DrainBegins, WorkerThrows
<1>5. CASE DrainPublishes
  BY <1>5 DEF DrainPublishes
<1>6. CASE UNCHANGED collectorVars
  BY <1>6 DEF collectorVars
<1> QED
  BY <1>1, <1>2, <1>3, <1>4, <1>5, <1>6 DEF Next, Owner, Worker

\* Every loss is added once, in whichever order the rings are drained.
LEMMA StepSumming ==
  ASSUME TypeOK, Rolling, NoOverrun, Summing, Joining, [Next]_collectorVars
  PROVE  Summing'
<1>1. \A r \in Rings : Stored(r) \in 0 .. DataHead(r)
  BY DEF TypeOK, Rolling, NoOverrun, Stored, DataHead
<1>3. CASE DrainCopies
  <2>1. ring \in Rings /\ next \in Nat /\ wpc = "copy" /\ UNCHANGED <<log, tail, ring>>
    BY <1>3 DEF TypeOK, Rolling, DrainCopies, WorkerThrows, kernelVars, workerVars, drainVars
  <2>2. CASE wpc' = "done" /\ failure' = "record"
    BY <2>2 DEF Summing
  <2>3. CASE /\ next' = next + 1 /\ wpc' = "copy"
             /\ lost' = lost + (IF log[ring][next + 1].kind = "lost"
                                THEN log[ring][next + 1].count ELSE 0)
    <3> DEFINE More == IF log[ring][next + 1].kind = "lost"
                       THEN {<<ring, next + 1>>} \X (1 .. log[ring][next + 1].count) ELSE {}
    <3>1. IsFiniteSet(Losses) /\ lost = Cardinality(Losses)
      BY <2>1 DEF Summing
    <3>2. next + 1 \in 1 .. DataHead(ring) /\ Stored(ring) = next
      BY <2>1, <2>3, <1>3 DEF DrainCopies, NoOverrun, Stored, TypeOK, DataHead
    <3>3. log[ring][next + 1].count \in Nat
      <4>1. log[ring] \in Seq(Record)
        BY <2>1 DEF TypeOK
      <4>2. log[ring][next + 1] \in Record
        BY <3>2, <4>1 DEF DataHead
      <4> QED
        BY <4>2 DEF Record
    <3>4. IsFiniteSet(More) /\ Cardinality(More) = lost' - lost
      <4> DEFINE N == log[ring][next + 1].count
      <4>1. lost \in Nat /\ 1 \in Int /\ N \in Int /\ N \in Nat
        BY <3>3 DEF TypeOK
      <4> HIDE DEF N
      <4>2. IsFiniteSet(1 .. N) /\ Cardinality(1 .. N) = N
        <5>1. /\ IsFiniteSet(1 .. N)
              /\ Cardinality(1 .. N) = IF 1 > N THEN 0 ELSE N - 1 + 1
          BY <4>1, FS_Interval
        <5> QED
          BY <4>1, <5>1
      <4>3. IsFiniteSet({<<ring, next + 1>>}) /\ Cardinality({<<ring, next + 1>>}) = 1
        BY FS_Singleton
      <4>4. CASE log[ring][next + 1].kind = "lost"
        <5>1. More = ({<<ring, next + 1>>} \X (1 .. N)) /\ lost' = lost + N
          BY <2>3, <4>4 DEF N
        <5>2. /\ IsFiniteSet({<<ring, next + 1>>} \X (1 .. N))
              /\ Cardinality({<<ring, next + 1>>} \X (1 .. N)) =
                   Cardinality({<<ring, next + 1>>}) * Cardinality(1 .. N)
          BY <4>2, <4>3, FS_Product
        <5>3. IsFiniteSet(More) /\ Cardinality(More) = 1 * N
          BY <4>2, <4>3, <5>1, <5>2
        <5> QED
          BY <4>1, <5>1, <5>3
      <4>5. CASE log[ring][next + 1].kind # "lost"
        <5>1. More = {} /\ lost' = lost
          BY <2>3, <4>1, <4>5
        <5> QED
          BY <4>1, <5>1, FS_EmptySet
      <4> QED
        BY <4>4, <4>5
    <3>5. Losses \cap More = {}
      <4> SUFFICES ASSUME NEW t \in Losses, t \in More PROVE FALSE
        OBVIOUS
      <4>1. t[1] = <<ring, next + 1>>
        OBVIOUS
      <4>2. PICK r \in Rings : t \in LossesOf(r, Stored(r))
        BY DEF Losses
      <4>3. PICK p \in 1 .. Stored(r) : t \in {<<r, p>>} \X (1 .. log[r][p].count)
        BY <1>1, <4>2, LossIs DEF DataHead, TypeOK
      <4>4. t[1] = <<r, p>>
        BY <4>3
      <4> QED
        BY <2>1, <3>2, <4>1, <4>3, <4>4
    <3>6. Losses' = Losses \cup More
      <4>1. LossesOf(ring, Stored(ring)') = LossesOf(ring, Stored(ring)) \cup More
        BY <2>1, <2>3, <3>2, NextLosses DEF Stored
      <4>2. \A r \in Rings \ {ring} : Stored(r)' = Stored(r)
        BY <2>1, <2>3 DEF Stored
      <4>3. \A r \in Rings : Stored(r)' \in 0 .. DataHead(r)
        BY <1>1, <2>1, <2>3, <3>2, <4>2 DEF Stored
      <4>4. \A r \in Rings : LossesOf(r, Stored(r))' = LossesOf(r, Stored(r)')
        BY <2>1, <4>3 DEF LossesOf
      <4> HIDE DEF More
      <4> QED
        BY <2>1, <4>1, <4>2, <4>4, Zenon DEF Losses
    <3> HIDE DEF More
    <3>7. IsFiniteSet(Losses') /\ Cardinality(Losses') = lost'
      <4>1. /\ IsFiniteSet(Losses \cup More)
            /\ Cardinality(Losses \cup More) = Cardinality(Losses) + Cardinality(More)
                                                 - Cardinality(Losses \cap More)
        BY <3>1, <3>4, FS_Union
      <4>2. lost \in Nat /\ lost' \in Nat
        BY CollectorTypes DEF TypeOK
      <4>3. Cardinality(Losses \cap More) = 0
        BY <3>5, FS_EmptySet
      <4> QED
        BY <3>1, <3>4, <3>6, <4>1, <4>2, <4>3
    <3> QED
      BY <3>7 DEF Summing
  <2> QED
    BY <1>3, <2>2, <2>3, CopyingLosses
<1>4. CASE ~DrainCopies
  <2>1. \A r \in Rings : Stored(r)' = Stored(r)
    BY <1>4, StoredStays
  <2>2. \A r \in Rings : LossesOf(r, Stored(r))' = LossesOf(r, Stored(r))
    BY <1>1, <2>1, LossesStay DEF LossesOf
  <2>3. Losses' = Losses
    BY <2>2, Zenon DEF Losses
  <2> QED
    BY <1>4, <2>3, LostOnly DEF Summing
<1> QED
  BY <1>3, <1>4

-----------------------------------------------------------------------------
\* Only a finished join lets the owner pass.
LEMMA StepJoining ==
  ASSUME Joining, NoUnjoinedRead, [Next]_collectorVars
  PROVE  Joining' /\ NoUnjoinedRead'
<1> USE DEF Joining, NoUnjoinedRead, kernelVars, ownerVars, drainVars, resultVars,
            workerVars
<1>1. CASE Kernel
  BY <1>1 DEF Kernel, TargetGone, KernelWrites
<1>2. CASE Owner
  BY <1>2 DEF Owner, CollectorStarts, StartFails, RequestStop, WriteWake, AfterWake,
              Join, collectorVars
<1>3. CASE Worker
  BY <1>3 DEF Worker, WorkerChecks, WorkerPolls, BeginFinal, WorkerThrows, PassEnds,
              DrainBegins, DrainCopies, DrainPublishes
<1>4. CASE UNCHANGED collectorVars
  BY <1>4 DEF collectorVars
<1> QED
  BY <1>1, <1>2, <1>3, <1>4 DEF Next

-----------------------------------------------------------------------------
\* A new collector has read nothing of empty rings.
LEMMA CollectorInitially == Init => CollectorInv
<1> SUFFICES ASSUME Init PROVE CollectorInv
  OBVIOUS
<1>1. TypeOK
  <2>1. <<>> \in Seq(Record)
    OBVIOUS
  <2>2. log \in [Rings -> Seq(Record)] /\ tail \in [Rings -> Nat] /\ dropped \in [Rings -> Nat]
    BY <2>1 DEF Init, CollectorInit
  <2>3. /\ notified \in SUBSET Rings /\ hungUp \in SUBSET Rings /\ enabled \in SUBSET Rings
        /\ watched \in SUBSET Rings /\ hups \in SUBSET Rings /\ todo \in SUBSET Rings
        /\ samples \in SUBSET Sample
    BY DEF Init, CollectorInit
  <2> QED
    BY <2>2, <2>3 DEF Init, CollectorInit, TypeOK, Phase, Wpc, Cause
<1>2. Rolling /\ NoOverrun
  BY CapacityAssumption DEF Init, CollectorInit, Rolling, NoOverrun, DataHead
<1>3. OnlyGenuineSamples /\ Joining /\ NoUnjoinedRead
  BY DEF Init, CollectorInit, OnlyGenuineSamples, Joining, NoUnjoinedRead
<1>4. Storing /\ NoDuplicateSample
  BY FS_EmptySet DEF Init, CollectorInit, Storing, NoDuplicateSample
<1>5. NothingSkipped
  BY DEF Init, CollectorInit, NothingSkipped, Stored
<1>6. Summing
  BY EmptyLosses DEF Init, CollectorInit, Summing, Stored
<1> QED
  BY <1>1, <1>2, <1>3, <1>4, <1>5, <1>6 DEF CollectorInv

\* The invariant is kept by the kernel, the owner and the worker.
LEMMA CollectorInvariance == CollectorInv /\ [Next]_collectorVars => CollectorInv'
  BY CollectorTypes, StepRolling, StepGenuine, StepStoring,
     StepNothingSkipped, StepSumming, StepJoining DEF CollectorInv

\* The inductive invariant holds however the three interleave.
THEOREM CollectorInvariant == Spec => []CollectorInv
  BY CollectorInitially, CollectorInvariance, PTL DEF Spec

\* The kernel never overwrites what was not copied: no reader sees an overrun.
THEOREM NeverOverrun == Spec => []NoOverrun
  BY CollectorInvariant, PTL DEF CollectorInv

\* Every stored sample is a whole record of the target.
THEOREM GenuineSamples == Spec => []OnlyGenuineSamples
  BY CollectorInvariant, PTL DEF CollectorInv

\* No record is counted twice.
THEOREM SamplesOnce == Spec => []NoDuplicateSample
  BY CollectorInvariant, PTL DEF CollectorInv

\* What drain() has passed of a ring, it has stored.
THEOREM NoneSkipped == Spec => []NothingSkipped
  BY CollectorInvariant, PTL DEF CollectorInv

\* The results are read only when their writer is gone.
THEOREM ReadsAreJoined == Spec => []NoUnjoinedRead
  BY CollectorInvariant, PTL DEF CollectorInv

-----------------------------------------------------------------------------

(* PerfSampler: the inductive invariant. *)

\* The loops over the events of start() and stop(), and what they have left on.
Driving ==
    /\ SamplerTypeOK
    /\ spc = "stopped" => phase = "stopped"
    /\ spc = "enabling" => Rings \ pendingRings \subseteq enabled
    /\ spc = "started" => started /\ enabled = Rings
    /\ spc \in {"stopping", "stopped"} => pendingRings = {}
    /\ spc \in {"disabling", "stopping", "stopped"} /\ samplerFailure = "none" =>
         enabled \ hungUp \subseteq pendingRings

\* A sampler that was never started sampled nothing.
Idle ==
    \/ spc = "constructed"
    \/ spc \in {"disabling", "stopping", "stopped"} /\ samplerFailure = "none" /\ ~started
    => enabled = {} /\ \A r \in Rings : log[r] = <<>>

\* The final drain: it comes when no event is enabled, and what it has passed
\* stays passed.
Finishing ==
    /\ wake \/ final \/ stopRequested => spc \in {"stopping", "stopped"}
    /\ final => wpc \in {"scan", "copy", "done"}
    /\ final /\ samplerFailure = "none" =>
         /\ \A r \in Rings \ todo : tail[r] = DataHead(r)
         /\ wpc = "copy" => head = DataHead(ring)
    /\ wpc = "done" /\ failure = "none" => final /\ todo = {}
    /\ wpc = "none" => /\ spc \notin {"enabling", "started"} /\ enabled = {}
                      /\ \A r \in Rings : log[r] = <<>>

SamplerInv == CollectorInv /\ Driving /\ Idle /\ Finishing

-----------------------------------------------------------------------------
\* A step of the sampler is one of the collector, or only changes the events.
LEMMA SamplerSteps ==
  ASSUME [SamplerNext]_samplerVars
  PROVE  \/ [Next]_collectorVars
         \/ \E r \in Rings : EnableRing(r) \/ DisableRing(r)
<1>1. CASE Start \/ StartReturns \/ Stop \/ StopCollector \/ StopSteps \/ StopReturned
  BY <1>1 DEF Start, StartReturns, Stop, StopCollector, StopSteps, CollectorStep,
              StopReturned, Next, Owner
<1>2. CASE Kernel \/ Worker \/ UNCHANGED samplerVars
  BY <1>2 DEF Next, samplerVars
<1> QED
  BY <1>1, <1>2 DEF SamplerNext, Caller

\* The calls on events change nothing that the collector relies on.
LEMMA EventCalls ==
  ASSUME NEW r \in Rings, EnableRing(r) \/ DisableRing(r)
  PROVE  /\ UNCHANGED <<log, dropped, notified, hungUp, tail, ownerVars, wake, wpc,
                        workerVars, failure>>
         /\ enabled' \in {enabled, enabled \cup {r}, enabled \ {r}}
  BY DEF EnableRing, DisableRing

\* The collector's invariant does not depend on who enables its rings.
LEMMA StepCollectorInv ==
  ASSUME CollectorInv, [SamplerNext]_samplerVars
  PROVE  CollectorInv'
<1>1. CASE [Next]_collectorVars
  BY <1>1, CollectorInvariance
<1>2. ASSUME NEW r \in Rings, EnableRing(r) \/ DisableRing(r) PROVE CollectorInv'
  <2>1. /\ UNCHANGED <<log, dropped, notified, hungUp, tail, ownerVars, wake, wpc,
                       workerVars, failure>>
        /\ enabled' \in {enabled, enabled \cup {r}, enabled \ {r}}
    BY <1>2, EventCalls
  <2>2. TypeOK'
    BY <2>1 DEF CollectorInv, TypeOK, ownerVars, workerVars, drainVars, resultVars
  <2>3. Rolling' /\ NoOverrun' /\ OnlyGenuineSamples'
    BY <2>1 DEF CollectorInv, Rolling, NoOverrun, OnlyGenuineSamples, DataHead,
                workerVars, drainVars, resultVars
  <2>4. Storing' /\ NoDuplicateSample' /\ NothingSkipped' /\ Joining' /\ NoUnjoinedRead'
        /\ Summing'
    BY <2>1 DEF CollectorInv, Storing, Stored, NoDuplicateSample, NothingSkipped, Joining,
                NoUnjoinedRead, Summing, Losses, LossesOf, ownerVars, workerVars, drainVars, resultVars
  <2> QED
    BY <2>2, <2>3, <2>4 DEF CollectorInv
<1> QED
  BY <1>1, <1>2, SamplerSteps

\* Failures are reasons; the first one is kept.
LEMMA Failing ==
  ASSUME NEW c \in Cause \cup SamplerFaultKinds, samplerFailure \in Cause \cup SamplerFaultKinds,
         Fail(c)
  PROVE  /\ samplerFailure' \in Cause \cup SamplerFaultKinds
         /\ samplerFailure' = "none" => samplerFailure = "none" /\ c = "none"
  BY DEF Fail

\* The caller's loops reach every event, also after a failure.
LEMMA StepDriving ==
  ASSUME CollectorInv, CollectorInv', Driving, [SamplerNext]_samplerVars
  PROVE  Driving'
<1>1. TypeOK'
  BY DEF CollectorInv
<1> USE DEF Driving, SamplerTypeOK, Spc, callerVars, ownerVars
<1>2. CASE Start
  <2>1. CASE CollectorStarts /\ spc' = "enabling" /\ pendingRings' = Rings
             /\ UNCHANGED <<started, samplerFailure>>
    BY <1>1, <1>2, <2>1 DEF Start, CollectorStarts, kernelVars
  <2>2. CASE StartFails /\ Fail("thread") /\ BeginStop /\ UNCHANGED started
    BY <1>1, <2>2, Failing DEF BeginStop, Cause, Fail
  <2> QED
    BY <1>2, <2>1, <2>2 DEF Start
<1>3. CASE StartReturns \/ Stop
  BY <1>1, <1>3 DEF StartReturns, Stop, BeginStop, collectorVars, kernelVars, TypeOK
<1>4. ASSUME NEW r \in Rings, EnableRing(r) PROVE Driving'
  <2>1. CASE spc' = "enabling"
    BY <1>1, <1>4, <2>1 DEF EnableRing, EnableFails, BeginStop
  <2>2. CASE spc' # "enabling"
    BY <1>1, <1>4, <2>2 DEF EnableRing, EnableFails, BeginStop, Fail, SamplerFaultKinds
  <2> QED
    BY <2>1, <2>2
<1>5. ASSUME NEW r \in Rings, DisableRing(r) PROVE Driving'
  <2>1. spc = "disabling" /\ spc' = "disabling" /\ pendingRings' = pendingRings \ {r}
        /\ UNCHANGED <<hungUp, started, phase>>
    BY <1>5 DEF DisableRing
  <2>2. \/ enabled' = enabled \ {r} /\ UNCHANGED samplerFailure
        \/ r \in hungUp /\ UNCHANGED <<enabled, samplerFailure>>
        \/ Fail("disable") /\ UNCHANGED enabled
    BY <1>5 DEF DisableRing
  <2>3. samplerFailure' \in Cause \cup SamplerFaultKinds
    BY <2>2 DEF Fail, SamplerFaultKinds
  <2>4. samplerFailure' = "none" => enabled' \ hungUp' \subseteq pendingRings'
    BY <2>1, <2>2 DEF Fail
  <2> QED
    BY <1>1, <2>1, <2>3, <2>4
<1>6. CASE StopCollector
  BY <1>1, <1>6 DEF StopCollector, Disabled, RequestStop, kernelVars
<1>7. CASE StopSteps
  BY <1>1, <1>7 DEF StopSteps, CollectorStep, WriteWake, Join, kernelVars
<1>8. CASE StopReturned
  <2>1. samplerFailure' \in Cause \cup SamplerFaultKinds
        /\ (samplerFailure' = "none" => samplerFailure = "none")
    BY <1>8 DEF StopReturned, Fail, TypeOK
  <2> QED
    BY <1>1, <1>8, <2>1 DEF StopReturned, collectorVars, kernelVars
<1>9. CASE (Kernel \/ Worker) /\ UNCHANGED callerVars
  <2>1. UNCHANGED <<enabled, phase>> /\ hungUp \subseteq hungUp'
    BY <1>9 DEF Kernel, KernelWrites, TargetGone, Worker, WorkerChecks, WorkerPolls,
                BeginFinal, WorkerThrows, PassEnds, DrainBegins, DrainCopies,
                DrainPublishes, kernelVars, TypeOK
  <2> QED
    BY <1>1, <1>9, <2>1
<1>10. CASE UNCHANGED samplerVars
  BY <1>1, <1>10 DEF samplerVars, collectorVars, kernelVars
<1> QED
  BY <1>2, <1>3, <1>4, <1>5, <1>6, <1>7, <1>8, <1>9, <1>10 DEF SamplerNext, Caller

\* The kernel writes to enabled rings only.
LEMMA StepIdle ==
  ASSUME Driving, Idle, [SamplerNext]_samplerVars
  PROVE  Idle'
<1> USE DEF Idle, callerVars, kernelVars
<1>1. CASE Start
  BY <1>1 DEF Start, BeginStop, Fail
<1>2. CASE StartReturns \/ Stop \/ StopCollector \/ StopSteps
  BY <1>2 DEF Driving, StartReturns, Stop, BeginStop, StopCollector, StopSteps,
              CollectorStep, RequestStop, WriteWake, Join, collectorVars
<1>3. CASE StopReturned
  BY <1>3 DEF StopReturned, Fail, collectorVars
<1>4. ASSUME NEW r \in Rings, EnableRing(r) PROVE Idle'
  BY <1>4 DEF EnableRing, EnableFails, BeginStop, Fail
<1>5. ASSUME NEW r \in Rings, DisableRing(r) PROVE Idle'
  BY <1>5 DEF DisableRing, Fail
<1>6. CASE Kernel /\ UNCHANGED callerVars
  BY <1>6 DEF Kernel, KernelWrites, TargetGone
<1>7. CASE Worker /\ UNCHANGED callerVars
  BY <1>7 DEF Worker, WorkerChecks, WorkerPolls, BeginFinal, WorkerThrows, PassEnds,
              DrainBegins, DrainCopies, DrainPublishes
<1>8. CASE UNCHANGED samplerVars
  BY <1>8 DEF samplerVars, collectorVars
<1> QED
  BY <1>1, <1>2, <1>3, <1>4, <1>5, <1>6, <1>7, <1>8 DEF SamplerNext, Caller

\* While nothing failed, the kernel is silent from the stop request on.
LEMMA StepFinishing ==
  ASSUME CollectorInv, Driving, Finishing, [SamplerNext]_samplerVars
  PROVE  Finishing'
<1> USE DEF Finishing, callerVars, kernelVars, ownerVars, drainVars, workerVars, resultVars,
            DataHead
<1>1. CASE Start
  BY <1>1 DEF Start, StartFails, CollectorStarts, BeginStop, Fail, CollectorInv, Joining,
              collectorVars
<1>2. CASE StartReturns \/ Stop
  BY <1>2 DEF StartReturns, Stop, BeginStop, collectorVars
<1>3. CASE StopCollector
  BY <1>3 DEF StopCollector, RequestStop
<1>4. CASE StopSteps
  <2>1. /\ spc = "stopping"
        /\ UNCHANGED <<callerVars, kernelVars, tail, stopRequested, wpc, workerVars>>
        /\ failure' = "none" => failure = "none"
    BY <1>4 DEF StopSteps, CollectorStep, WriteWake, Join
  <2> QED
    BY <2>1
<1>5. CASE StopReturned
  BY <1>5 DEF StopReturned, Fail, collectorVars
<1>6. ASSUME NEW r \in Rings, EnableRing(r) PROVE Finishing'
  BY <1>6 DEF EnableRing, EnableFails, BeginStop, Fail
<1>7. ASSUME NEW r \in Rings, DisableRing(r) PROVE Finishing'
  BY <1>7 DEF DisableRing, Fail
<1>8. CASE Kernel /\ UNCHANGED callerVars
  <2>1. CASE TargetGone
    BY <1>8, <2>1 DEF TargetGone
  <2>2. ASSUME NEW r \in Rings, KernelWrites(r) PROVE Finishing'
    <3>1. r \in enabled \ hungUp
          /\ UNCHANGED <<hungUp, enabled, tail, ownerVars, wake, wpc, workerVars, failure>>
      BY <2>2 DEF KernelWrites
    <3>2. wpc # "none" /\ (final => samplerFailure # "none")
      BY <3>1 DEF Driving
    <3> QED
      BY <1>8, <3>1, <3>2
  <2> QED
    BY <1>8, <2>1, <2>2 DEF Kernel
<1>9. CASE Worker /\ UNCHANGED callerVars
  <2>1. CASE WorkerChecks \/ WorkerPolls
    BY <1>9, <2>1 DEF WorkerChecks, WorkerPolls, BeginFinal, FinalDrain, WorkerThrows
  <2>2. CASE PassEnds
    BY <1>9, <2>2 DEF PassEnds
  <2>3. ASSUME NEW r \in Rings, DrainBegins(r) PROVE Finishing'
    BY <1>9, <2>3 DEF DrainBegins, WorkerThrows, TailAtBegin, CollectorInv, TypeOK
  <2>4. CASE DrainCopies
    BY <1>9, <2>4 DEF DrainCopies, WorkerThrows
  <2>5. CASE DrainPublishes
    BY <1>9, <2>5 DEF DrainPublishes, TailAtEnd, CollectorInv, TypeOK, Rolling
  <2> QED
    BY <1>9, <2>1, <2>2, <2>3, <2>4, <2>5 DEF Worker
<1>10. CASE UNCHANGED samplerVars
  BY <1>10 DEF samplerVars, collectorVars
<1> QED
  BY <1>1, <1>2, <1>3, <1>4, <1>5, <1>6, <1>7, <1>8, <1>9, <1>10 DEF SamplerNext, Caller

-----------------------------------------------------------------------------
\* A constructed sampler has opened its rings and enabled none.
LEMMA SamplerInitially == SamplerInit => SamplerInv
<1> SUFFICES ASSUME SamplerInit PROVE SamplerInv
  OBVIOUS
<1>1. TypeOK
  <2>1. <<>> \in Seq(Record)
    OBVIOUS
  <2>2. log \in [Rings -> Seq(Record)] /\ tail \in [Rings -> Nat] /\ dropped \in [Rings -> Nat]
    BY <2>1 DEF SamplerInit, CollectorInit
  <2>3. /\ notified \in SUBSET Rings /\ hungUp \in SUBSET Rings /\ enabled \in SUBSET Rings
        /\ watched \in SUBSET Rings /\ hups \in SUBSET Rings /\ todo \in SUBSET Rings
        /\ samples \in SUBSET Sample
    BY DEF SamplerInit, CollectorInit
  <2> QED
    BY <2>2, <2>3 DEF SamplerInit, CollectorInit, TypeOK, Phase, Wpc, Cause
<1>2. Rolling /\ NoOverrun
  BY CapacityAssumption DEF SamplerInit, CollectorInit, Rolling, NoOverrun, DataHead
<1>3. OnlyGenuineSamples /\ Joining /\ NoUnjoinedRead
  BY DEF SamplerInit, CollectorInit, OnlyGenuineSamples, Joining, NoUnjoinedRead
<1>4. Storing /\ NoDuplicateSample
  BY FS_EmptySet DEF SamplerInit, CollectorInit, Storing, NoDuplicateSample
<1>5. Driving /\ Idle
  BY <1>1 DEF SamplerInit, CollectorInit, Driving, SamplerTypeOK, Idle, Spc, Cause
<1>6. Finishing /\ NothingSkipped
  BY DEF SamplerInit, CollectorInit, Finishing, NothingSkipped, Stored
<1>7. Summing
  BY EmptyLosses DEF SamplerInit, CollectorInit, Summing, Stored
<1> QED
  BY <1>1, <1>2, <1>3, <1>4, <1>5, <1>6, <1>7 DEF SamplerInv, CollectorInv

\* The inductive invariant holds for every fault of start() and stop().
THEOREM SamplerInvariant == SamplerSpec => []SamplerInv
<1>1. SamplerInv /\ [SamplerNext]_samplerVars => SamplerInv'
  BY StepCollectorInv, StepDriving, StepIdle, StepFinishing DEF SamplerInv
<1> QED
  BY <1>1, SamplerInitially, PTL DEF SamplerSpec

\* Every variable of the sampler and its collector keeps its type.
THEOREM SamplerTypeCorrect == SamplerSpec => []SamplerTypeOK
  BY SamplerInvariant, PTL DEF SamplerInv, Driving

\* What the collector promises of its rings and samples, it keeps when the
\* sampler drives it.
THEOREM SamplerKeepsCollector ==
  SamplerSpec => [](NoOverrun /\ OnlyGenuineSamples /\ NoDuplicateSample /\ NoUnjoinedRead)
  BY SamplerInvariant, PTL DEF SamplerInv, CollectorInv

\* An available profile misses no sample that reached a ring.
THEOREM SamplesKept == SamplerSpec => []EverySampleKept
<1>1. SamplerInv => EverySampleKept
  <2> SUFFICES ASSUME SamplerInv, Available, NEW r \in Rings, NEW p \in DOMAIN log[r],
                      log[r][p].kind = "target"
               PROVE  <<r, p>> \in samples
    BY DEF EverySampleKept
  <2>1. wpc \in {"none", "done"} /\ failure = "none" /\ samplerFailure = "none"
    BY DEF SamplerInv, CollectorInv, NoUnjoinedRead, Available, Readable
  <2>2. CASE wpc = "none"
    BY <2>2 DEF SamplerInv, Finishing
  <2>3. CASE wpc = "done"
    <3>1. tail[r] = DataHead(r)
      BY <2>1, <2>3 DEF SamplerInv, Finishing
    <3>2. p \in 1 .. Stored(r)
      BY <2>3, <3>1 DEF Stored, DataHead, SamplerInv, CollectorInv, TypeOK
    <3> QED
      BY <3>2 DEF SamplerInv, CollectorInv, NothingSkipped
  <2> QED
    BY <2>1, <2>2, <2>3
<1> QED
  BY <1>1, SamplerInvariant, PTL

\* An available profile has every sample, and every loss the kernel reported.
THEOREM ProfileComplete == SamplerSpec => []CompleteWhenAvailable
<1>1. SamplerInv => (Available =>
        lost = Cardinality(UNION {LossesOf(r, DataHead(r)) : r \in Rings}))
  <2> SUFFICES ASSUME SamplerInv, Available
               PROVE  lost = Cardinality(UNION {LossesOf(r, DataHead(r)) : r \in Rings})
    OBVIOUS
  <2>1. wpc \in {"none", "done"} /\ failure = "none" /\ samplerFailure = "none"
    BY DEF SamplerInv, CollectorInv, NoUnjoinedRead, Available, Readable
  <2>2. lost = Cardinality(Losses)
    BY <2>1 DEF SamplerInv, CollectorInv, Summing
  <2>3. \A r \in Rings : Stored(r) = DataHead(r)
    <3>1. \A r \in Rings : tail[r] \in Nat /\ tail[r] <= DataHead(r)
      BY DEF SamplerInv, CollectorInv, TypeOK, Rolling
    <3>2. CASE wpc = "none"
      <4>1. \A r \in Rings : DataHead(r) = 0
        BY <3>2 DEF SamplerInv, Finishing, DataHead
      <4> QED
        BY <3>1, <3>2, <4>1 DEF Stored
    <3>3. CASE wpc = "done"
      BY <2>1, <3>3 DEF SamplerInv, Finishing, Stored
    <3> QED
      BY <2>1, <3>2, <3>3
  <2>4. Losses = UNION {LossesOf(r, DataHead(r)) : r \in Rings}
    BY <2>3, Zenon DEF Losses
  <2> QED
    BY <2>2, <2>4
<1>2. SamplerSpec => [](Available =>
        lost = Cardinality(UNION {LossesOf(r, DataHead(r)) : r \in Rings}))
  BY <1>1, SamplerInvariant, PTL
<1>3. EverySampleKept /\ (Available =>
        lost = Cardinality(UNION {LossesOf(r, DataHead(r)) : r \in Rings}))
        => CompleteWhenAvailable
  BY DEF CompleteWhenAvailable
<1> QED
  BY <1>2, <1>3, SamplesKept, PTL

\* start() returns with every event enabled, and an available profile comes
\* from a sampler that was started and whose events were all disabled.
THEOREM FailuresReported == SamplerSpec => []FailureIsReported
<1>1. SamplerInv => FailureIsReported
  <2>1. SamplerInv /\ spc = "started" => enabled = Rings
    BY DEF SamplerInv, Driving
  <2>2. ASSUME SamplerInv, Available PROVE enabled \ hungUp = {}
    BY <2>2 DEF SamplerInv, Driving, Available
  <2>3. ASSUME SamplerInv, Available, ~started PROVE samples = {}
    <3>1. \A r \in Rings : log[r] = <<>>
      BY <2>3 DEF SamplerInv, Idle, Available
    <3>2. ASSUME NEW s \in samples PROVE FALSE
      <4>1. s[1] \in Rings /\ s[2] \in DOMAIN log[s[1]]
        BY <2>3, <3>2 DEF SamplerInv, CollectorInv, TypeOK, Sample, OnlyGenuineSamples
      <4> QED
        BY <3>1, <4>1
    <3> QED
      BY <3>2
  <2> QED
    BY <2>1, <2>2, <2>3 DEF FailureIsReported
<1> QED
  BY <1>1, SamplerInvariant, PTL
=============================================================================
