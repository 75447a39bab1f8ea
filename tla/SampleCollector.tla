--------------------------- MODULE SampleCollector ---------------------------
(***************************************************************************)
(* detail::SampleCollector (src/perf/sample_collector.cpp): a worker       *)
(* thread polls one perf ring per CPU and drains it while the kernel keeps *)
(* writing; stop() requests the end, wakes the worker and joins it.        *)
(*                                                                         *)
(* A ring holds Capacity records.  Positions count from 1 and never wrap:  *)
(* writing position p destroys position p - Capacity, which is all that    *)
(* the modulo of copyRingBytes does to a reader.  log[r] is everything the *)
(* kernel ever wrote to ring r, so Len(log[r]) is its data_head.           *)
(***************************************************************************)
EXTENDS Integers, Sequences, FiniteSets

CONSTANTS
    Rings,        \* one ring per sampled CPU
    NoRing,       \* no ring is being drained
    Capacity,     \* records a ring can hold
    MaxRecords,   \* bound: records the kernel writes to a ring
    MaxDropped,   \* bound: samples dropped in a row on a full ring
    Faults        \* what may go wrong: subset of FaultKinds

FaultKinds == {"thread", "wake", "poll", "descriptor", "record"}

ASSUME RingsAssumption == Rings # {} /\ NoRing \notin Rings
ASSUME CapacityAssumption == Capacity \in Nat \ {0}
ASSUME BoundsAssumption == MaxRecords \in Nat /\ MaxDropped \in Nat
ASSUME FaultsAssumption == Faults \subseteq FaultKinds

VARIABLES
    log, tail,            \* per ring: records written, data_tail
    dropped,              \* per ring: samples not written and not reported yet
    notified, hungUp,     \* rings whose poll reports POLLIN, POLLHUP
    enabled,              \* rings whose event is enabled
    phase,                \* the owner: where start() and stop() are
    stopRequested, wake,  \* the stop token, the eventfd
    wakeError,            \* the shutdown write failed
    wpc,                  \* the worker
    watched, hups,        \* its pollfd set, the POLLHUPs poll() reported
    todo, final,          \* rings left to drain, whether it is the last time
    ring, head, next,     \* drain(): its ring, head snapshot, local tail
    samples, sampleCount, \* samples_ by identity, and its length
    lost, failure         \* lost_, failure_

kernelVars == <<log, dropped, notified, hungUp, enabled>>
ownerVars  == <<phase, stopRequested, wakeError>>
drainVars  == <<ring, head, next>>
resultVars == <<samples, sampleCount, lost>>
workerVars == <<watched, hups, todo, final, drainVars, resultVars>>
collectorVars == <<kernelVars, tail, ownerVars, wake, wpc, workerVars, failure>>

-----------------------------------------------------------------------------
\* Parsed records: a sample of the target, a sample of one of its child
\* processes, a PERF_RECORD_LOST, one that does not parse, or bytes that were
\* overwritten while they were read.
Kind   == {"target", "child", "lost", "malformed"}
Record == [kind: Kind, count: Nat]
Torn   == [kind |-> "torn", count |-> 0]
Sample == Rings \X Nat         \* a stored sample's ring and position (0: torn)

Phase  == {"new", "running", "requested", "joining", "stopped"}
Wpc    == {"none", "check", "poll", "scan", "copy", "publish", "done"}
Cause  == {"none", "thread", "poll", "descriptor", "overrun", "record", "wake"}

DataHead(r) == Len(log[r])

TypeOK ==
    /\ log \in [Rings -> Seq(Record)] /\ tail \in [Rings -> Nat]
    /\ dropped \in [Rings -> Nat]
    /\ notified \in SUBSET Rings /\ hungUp \in SUBSET Rings
    /\ enabled \in SUBSET Rings
    /\ phase \in Phase /\ stopRequested \in BOOLEAN
    /\ wake \in BOOLEAN /\ wakeError \in BOOLEAN
    /\ wpc \in Wpc
    /\ watched \in SUBSET Rings /\ hups \in SUBSET Rings
    /\ todo \in SUBSET Rings /\ final \in BOOLEAN
    /\ ring \in Rings \cup {NoRing} /\ head \in Nat /\ next \in Nat
    /\ samples \in SUBSET Sample /\ sampleCount \in Nat
    /\ lost \in Nat
    /\ failure \in Cause

CollectorInit ==
    /\ log = [r \in Rings |-> <<>>] /\ tail = [r \in Rings |-> 0]
    /\ dropped = [r \in Rings |-> 0]
    /\ notified = {} /\ hungUp = {}
    /\ phase = "new" /\ stopRequested = FALSE
    /\ wake = FALSE /\ wakeError = FALSE
    /\ wpc = "none"
    /\ watched = Rings /\ hups = {} /\ todo = {} /\ final = FALSE
    /\ ring = NoRing /\ head = 0 /\ next = 0
    /\ samples = {} /\ sampleCount = 0 /\ lost = 0
    /\ failure = "none"

-----------------------------------------------------------------------------
(* The kernel's side of a ring. *)

Space(r) == Capacity - (DataHead(r) - tail[r])

LostRecord(n) == [kind |-> "lost", count |-> n]

\* An event on a CPU of an enabled ring.  A full ring drops it; the next one
\* that fits is preceded by a LOST record for those dropped before.
KernelWrites(r) ==
    /\ r \in enabled \ hungUp
    /\ \E k \in {"target", "child"} \cup (IF "record" \in Faults THEN {"malformed"} ELSE {}) :
         LET rec  == [kind |-> k, count |-> 0]
             recs == IF dropped[r] = 0 THEN <<rec>> ELSE <<LostRecord(dropped[r]), rec>> IN
         /\ DataHead(r) + Len(recs) <= MaxRecords
         /\ IF Len(recs) <= Space(r)
            THEN /\ log' = [log EXCEPT ![r] = @ \o recs]
                 /\ dropped' = [dropped EXCEPT ![r] = 0]
                 /\ notified' = notified \cup {r}
            ELSE /\ dropped[r] < MaxDropped
                 /\ dropped' = [dropped EXCEPT ![r] = @ + 1]
                 /\ UNCHANGED <<log, notified>>
    /\ UNCHANGED <<hungUp, enabled, tail, ownerVars, wake, wpc, workerVars, failure>>

\* The target and everything that inherited its events are gone.
TargetGone ==
    /\ hungUp # Rings
    /\ hungUp' = Rings
    /\ UNCHANGED <<log, dropped, notified, enabled, tail, ownerVars, wake, wpc,
                   workerVars, failure>>

-----------------------------------------------------------------------------
(* The owner: start() and stop(), called by one thread. *)

\* start() may be called once, and not after stop().
CollectorStarts ==
    /\ phase = "new"
    /\ phase' = "running"
    /\ wpc' = "check"
    /\ UNCHANGED <<kernelVars, tail, stopRequested, wakeError, wake, workerVars, failure>>

\* std::jthread's constructor, or the signal mask, fails: start() throws and
\* the collector is as it was.
StartFails == "thread" \in Faults /\ phase = "new" /\ UNCHANGED collectorVars

\* stop(): a worker is asked to stop; without one there is nothing to join.
RequestStop ==
    /\ \/ phase = "running" /\ phase' = "requested" /\ stopRequested' = TRUE
       \/ phase = "new" /\ phase' = "stopped" /\ UNCHANGED stopRequested
    /\ UNCHANGED <<kernelVars, tail, wakeError, wake, wpc, workerVars, failure>>

AfterWake_skipsJoin(failed) == IF failed THEN "stopped" ELSE "joining"
AfterWake(failed) == "joining"

\* The eventfd write wakes the worker's poll; it may fail.
WriteWake ==
    /\ phase = "requested"
    /\ \E failed \in IF "wake" \in Faults THEN BOOLEAN ELSE {FALSE} :
         /\ wakeError' = failed /\ wake' = ~failed
         /\ phase' = AfterWake(failed)
    /\ UNCHANGED <<kernelVars, tail, stopRequested, wpc, workerVars, failure>>

\* join() returns; only then are samples_ and failure_ the owner's to read.
Join ==
    /\ phase = "joining" /\ wpc = "done"
    /\ phase' = "stopped"
    /\ failure' = IF wakeError /\ failure = "none" THEN "wake" ELSE failure
    /\ UNCHANGED <<kernelVars, tail, stopRequested, wakeError, wake, wpc, workerVars>>

\* checkStopped lets samples() and lostSamples() through.
Readable == phase = "stopped" /\ failure = "none"

-----------------------------------------------------------------------------
(* The worker: collect() and drain(). *)

\* An exception ends the worker without the final drain.
WorkerThrows(c) ==
    /\ failure' = c /\ wpc' = "done"
    /\ UNCHANGED <<kernelVars, tail, ownerVars, wake, workerVars>>

FinalDrain_skipped == {}
FinalDrain == Rings

\* Leaving the loop: every ring is drained once more, watched or not.
BeginFinal ==
    /\ wpc' = "scan" /\ final' = TRUE /\ todo' = FinalDrain
    /\ UNCHANGED <<kernelVars, tail, ownerVars, wake, watched, hups, drainVars,
                   resultVars, failure>>

WorkerChecks ==
    /\ wpc = "check"
    /\ \/ stopRequested /\ BeginFinal
       \/ ~stopRequested /\ wpc' = "poll"
          /\ UNCHANGED <<kernelVars, tail, ownerVars, wake, workerVars, failure>>

PollTimesOut_never == FALSE
PollTimesOut == TRUE                       \* after 1000 ms, with no event

Polled == watched \cap (notified \cup hungUp)

\* poll() returns with events, by its timeout, or with an error.
WorkerPolls ==
    /\ wpc = "poll"
    /\ \/ wake /\ BeginFinal
       \/ /\ ~wake
          /\ Polled # {} \/ PollTimesOut
          /\ todo' = Polled /\ hups' = watched \cap hungUp
          /\ notified' = notified \ watched
          /\ wpc' = "scan"
          /\ UNCHANGED <<log, dropped, hungUp, enabled, tail, ownerVars, wake,
                         watched, final, drainVars, resultVars, failure>>
       \/ "poll" \in Faults /\ WorkerThrows("poll")

TailAtBegin_publishesHead(r) == DataHead(r)
TailAtBegin(r) == tail[r]

\* The next ring of this pass: a failed descriptor throws, otherwise drain()
\* snapshots its head; data_tail is the worker's own.
DrainBegins(r) ==
    /\ wpc = "scan" /\ r \in todo
    /\ \/ ~final /\ "descriptor" \in Faults /\ WorkerThrows("descriptor")
       \/ DataHead(r) - tail[r] > Capacity /\ WorkerThrows("overrun")
       \/ /\ DataHead(r) - tail[r] <= Capacity
          /\ ring' = r /\ head' = DataHead(r) /\ next' = tail[r]
          /\ tail' = [tail EXCEPT ![r] = TailAtBegin(r)]
          /\ wpc' = "copy"
          /\ UNCHANGED <<kernelVars, ownerVars, wake, watched, hups, todo,
                         final, resultVars, failure>>

PassEnds ==
    /\ wpc = "scan" /\ todo = {}
    /\ wpc' = IF final THEN "done" ELSE "check"
    /\ UNCHANGED <<kernelVars, tail, ownerVars, wake, workerVars, failure>>

\* What the bytes of position p hold: that record, or, once the kernel has
\* reused them, none that was ever written.
Intact(r, p) == DataHead(r) - p < Capacity
RingRead(r, p) == IF Intact(r, p) THEN log[r][p] ELSE Torn

\* Samples of child processes are left out.
Keeps_everyProcess(rec) == rec.kind \in {"target", "child", "torn"}
Keeps(rec) == rec.kind \in {"target", "torn"}

\* LOST records are added up.
LostAfter_lastOnly(rec) == IF rec.kind = "lost" THEN rec.count ELSE lost
LostAfter(rec) == lost + (IF rec.kind = "lost" THEN rec.count ELSE 0)

\* One record: copied, parsed, stored; it stays in the ring until published.
DrainCopies ==
    /\ wpc = "copy" /\ next # head
    /\ LET rec == RingRead(ring, next + 1)
           id  == <<ring, IF Intact(ring, next + 1) THEN next + 1 ELSE 0>> IN
       \/ rec.kind = "malformed" /\ WorkerThrows("record")
       \/ /\ rec.kind # "malformed"
          /\ samples' = IF Keeps(rec) THEN samples \cup {id} ELSE samples
          /\ sampleCount' = IF Keeps(rec) THEN sampleCount + 1 ELSE sampleCount
          /\ lost' = LostAfter(rec)
          /\ next' = next + 1
          /\ UNCHANGED <<kernelVars, tail, ownerVars, wake, wpc, watched, hups,
                         todo, final, ring, head, failure>>

TailAtEnd_previousLap == next - Capacity
TailAtEnd_notPublished == tail[ring]
TailAtEnd == next

Unwatched_latestHup == hungUp
Unwatched == hups

\* The tail is stored after the copies; a ring poll() reported as hung up is
\* polled no more.
DrainPublishes ==
    /\ wpc = "copy" /\ next = head
    /\ tail' = [tail EXCEPT ![ring] = TailAtEnd]
    /\ todo' = todo \ {ring}
    /\ watched' = IF ring \in Unwatched /\ ~final THEN watched \ {ring} ELSE watched
    /\ wpc' = "scan"
    /\ UNCHANGED <<kernelVars, ownerVars, wake, hups, final, drainVars,
                   resultVars, failure>>

-----------------------------------------------------------------------------
Kernel == TargetGone \/ \E r \in Rings : KernelWrites(r)

Owner == CollectorStarts \/ StartFails \/ RequestStop \/ WriteWake \/ Join

Worker ==
    \/ WorkerChecks \/ WorkerPolls \/ PassEnds
    \/ \E r \in Rings : DrainBegins(r)
    \/ DrainCopies \/ DrainPublishes

\* The collector as its own test drives it: on rings that are being written.
Init == CollectorInit /\ enabled = Rings
Next == Kernel \/ Owner \/ Worker
Spec == Init /\ [][Next]_collectorVars

-----------------------------------------------------------------------------
(* Safety. *)

\* Whatever the kernel writes during drain(), every stored sample is one the
\* target really caused: no torn record, none of a child process.
OnlyGenuineSamples ==
    \A s \in samples : /\ s[2] \in DOMAIN log[s[1]]
                       /\ log[s[1]][s[2]].kind = "target"

\* No record is stored twice, over any number of drains of the same ring.
NoDuplicateSample == Cardinality(samples) = sampleCount

\* The kernel is never given space whose records are not stored yet, and no
\* reader ever finds the ring overrun.
NoOverrun ==
    /\ failure # "overrun"
    /\ \A r \in Rings : DataHead(r) - tail[r] <= Capacity
    /\ wpc = "copy" => /\ tail[ring] <= next /\ next <= head /\ head <= DataHead(ring)

\* samples() and lostSamples() never read what the worker still writes.
NoUnjoinedRead == phase = "stopped" => wpc \in {"none", "done"}

\* The losses that the first n records of a ring report, one by one.
LossesOf(r, n) ==
    UNION {{<<r, p>>} \X (1 .. log[r][p].count) :
              p \in {q \in 1 .. n : log[r][q].kind = "lost"}}

(* Liveness, under the fairness of whoever drives the collector. *)

\* While the worker runs, what the kernel wrote is eventually taken, also
\* from a ring whose target exits during its drain.
ReaderCatchesUp ==
    \A r \in Rings :
        wpc # "none" /\ DataHead(r) > tail[r] ~> DataHead(r) = tail[r] \/ wpc = "done"
=============================================================================
