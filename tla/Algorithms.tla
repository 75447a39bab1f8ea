----------------------------- MODULE Algorithms -----------------------------
(***************************************************************************)
(* The pure functions of the program, each applied once to every input of  *)
(* a small domain: scaleCounter, compareProfiles, loadApplicationMetrics.  *)
(***************************************************************************)
EXTENDS CounterScaling, Analysis, WorkloadMetrics, FiniteSets

CONSTANTS
    ScaleJobs,     \* [raw, enabled, running] of words
    ProfileJobs,   \* [baseline, candidate] of sequences of profiles
    Documents      \* metrics files

ASSUME ScaleJobsAssumption == ScaleJobs \subseteq [raw: Word, enabled: Word, running: Word \ {0}]
ASSUME ProfilesAssumption ==
    \A input \in ProfileJobs : AreProfiles(input.baseline) /\ AreProfiles(input.candidate)
ASSUME DocumentsAssumption == Documents \subseteq Document \cup {NoFile, Unparsable}

VARIABLES job, answer

vars == <<job, answer>>

Pending == [kind |-> "pending"]

Init ==
    /\ answer = Pending
    /\ \/ job \in [kind: {"scale"}, input: ScaleJobs]
       \/ job \in [kind: {"profiles"}, input: ProfileJobs]
       \/ job \in [kind: {"metrics"}, input: Documents]

Scale ==
    /\ answer = Pending /\ job.kind = "scale"
    /\ answer' = [kind |-> "scale",
                  value |-> ScaleCounter(job.input.raw, job.input.enabled, job.input.running)]
    /\ UNCHANGED job

Compare ==
    /\ answer = Pending /\ job.kind = "profiles"
    /\ answer' = [kind |-> "profiles",
                  value |-> CompareProfiles(job.input.baseline, job.input.candidate)]
    /\ UNCHANGED job

Load ==
    /\ answer = Pending /\ job.kind = "metrics"
    /\ answer' = [kind |-> "metrics", value |-> LoadApplicationMetrics(job.input)]
    /\ UNCHANGED job

Next == Scale \/ Compare \/ Load

Spec == Init /\ [][Next]_vars

-----------------------------------------------------------------------------
\* A scaled count is a word, at least the raw count, and less than 2.5 away
\* from raw * enabled / running, although a large product, the quotient and
\* the half that is added are each rounded; it saturates only for what is at
\* least the largest word.  A whole quotient below half the word range, of a
\* product that a word can hold, is exact.
ScaledCounterAccurate ==
    answer.kind = "scale" =>
        LET raw == job.input.raw
            enabled == job.input.enabled
            running == job.input.running
            exact == raw * enabled
        IN /\ answer.value \in Word /\ answer.value >= raw
           /\ running >= enabled => answer.value = raw
           /\ running < enabled =>
                \/ /\ 2 * answer.value * running < 2 * exact + 5 * running
                   /\ 2 * exact < 2 * answer.value * running + 5 * running
                \/ answer.value = MaxWord /\ exact >= MaxWord * running
           /\ /\ running < enabled /\ exact \in Word /\ exact % running = 0
              /\ 2 * (exact \div running) < MaxWord
              => answer.value * running = exact

\* The sum of fractions over one denominator.
SumOfShares(entries, side) ==
    Cardinality(Units([i \in DOMAIN entries |-> entries[i][side][1]]))

\* Every function that either side sampled appears once; on each side that
\* has samples the shares add up to the whole, whatever functions only the
\* other side has; the list begins with the largest change.
ProfileSharesConsistent ==
    answer.kind = "profiles" =>
        LET entries == answer.value
            sides == [baseline |-> job.input.baseline, candidate |-> job.input.candidate]
        IN /\ \A side \in DOMAIN sides :
                SumOfShares(entries, side) = TotalOf(sides[side])
           /\ \A i, j \in DOMAIN entries :
                /\ i # j => entries[i].function # entries[j].function
                /\ i < j => ~Larger(Magnitude(entries[j].change), Magnitude(entries[i].change))

\* docs/workload-protocol.md: no negative value, no count that is not
\* positive, no percentile above a higher one, and at least one measurement
\* in everything that a run accepts.
MetricsFollowProtocol ==
    answer.kind = "metrics" /\ answer.value \notin {NoMetric, Rejected} =>
        LET metrics == answer.value
            given == {p \in Percentile : metrics.latency[p] # NoMetric}
        IN /\ metrics.operations = NoMetric \/ metrics.operations > 0
           /\ metrics.throughput = NoMetric \/ metrics.throughput >= 0
           /\ \A p \in given : metrics.latency[p] >= 0
           /\ ~\E p, q \in given : Rank[p] < Rank[q] /\ metrics.latency[p] > metrics.latency[q]
           /\ given # {} \/ {metrics.operations, metrics.throughput} # {NoMetric}

\* "Invalid data makes the run fail" (docs/workload-protocol.md:19): a latency
\* that is not an object is not accepted as no latency.
InvalidLatencyFails ==
    answer.kind = "metrics" /\ job.input \notin {NoFile, Unparsable} /\ answer.value # Rejected =>
        job.input.latency # WrongType
=============================================================================
