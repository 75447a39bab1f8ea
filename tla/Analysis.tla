------------------------------ MODULE Analysis ------------------------------
(***************************************************************************)
(* The decision part of src/analysis: summaries of measured runs, relative *)
(* changes, the limits of the user, and the comparison of CPU profiles.  A *)
(* measurement is a whole number of a unit and a median is kept doubled,   *)
(* which a double holds exactly; the relative change is computed in        *)
(* doubles, as the program does.  A share of samples is <<count, total>>.  *)
(***************************************************************************)
EXTENDS FloatingPoint, Sequences, SequencesExt

CONSTANTS NoValue,            \* std::nullopt
          OperationsMultiple, \* a multiple of every operation count that occurs
          Precision           \* bits in the mantissa of a double: 53

ASSUME NoValueAssumption == NoValue \notin Int
ASSUME OperationsAssumption == OperationsMultiple \in Nat \ {0}
\* Enough bits for percentages of what the mantissa holds.
ASSUME PrecisionAssumption == Precision \in Nat /\ Precision >= 9

\* The metrics a limit may be set for, and those where less is worse.
Metric == {"runtime", "p99_latency", "throughput", "cpu_time_per_operation", "max_rss"}
HigherIsBetter == {"throughput"}

\* What summarizeRuns extracts from one run for a metric.  CPU time per
\* operation is in units of 1/OperationsMultiple, which keeps it whole.
Extract(run, m) ==
    CASE m = "runtime"     -> run.wallTime
      [] m = "max_rss"     -> run.maxRss
      [] m = "throughput"  -> run.throughput
      [] m = "p99_latency" -> run.p99
      [] m = "cpu_time_per_operation" ->
           IF run.operations \in {NoValue, 0} THEN NoValue
           ELSE (run.cpuTime * OperationsMultiple) \div run.operations

\* std::sort: a rearrangement with no element behind one that it comes before.
Sort(list, Before(_, _)) ==
    LET places == DOMAIN list
        order == CHOOSE p \in Bijection(places, places) :
                   \A i, j \in places : i < j => ~Before(list[p[j]], list[p[i]])
    IN [i \in places |-> list[order[i]]]

\* summarize: twice the median of a non-empty sample.
MedianTwice(values) ==
    LET sorted == Sort(values, <)
        middle == Len(values) \div 2
    IN IF Len(values) % 2 = 0 THEN sorted[middle] + sorted[middle + 1]
                              ELSE 2 * sorted[middle + 1]

\* collectOptional: one run without the metric leaves the summary without it.
Summary_ofMeasuredRuns(runs, m) ==
    LET values == [i \in DOMAIN runs |-> Extract(runs[i], m)]
        measured == SelectSeq(values, LAMBDA v : v # NoValue)
    IN IF measured = <<>> THEN NoValue ELSE MedianTwice(measured)

Summary(runs, m) ==
    LET values == [i \in DOMAIN runs |-> Extract(runs[i], m)]
    IN IF \E i \in DOMAIN values : values[i] = NoValue THEN NoValue
       ELSE MedianTwice(values)

\* compareMetrics and percentChange: a metric missing on either side is not
\* compared, and a change from zero is only defined towards zero.
Comparable(b, c) == b # NoValue /\ c # NoValue /\ (b = 0 => c = 0)

\* How much worse the candidate is; below zero if it is better.
Worsening_anyDirection(m, b, c) == c - b
Worsening(m, b, c) == IF m \in HigherIsBetter THEN b - c ELSE c - b

\* percentChange of doubled medians, (c - b) / b * 100: each operation rounds.
Double(x) == Round(x, Precision)
PercentOf(change, b) ==
    Double(Times(Double(Over(Double(Whole(change)), Whole(b))), Whole(100)))

\* regression > limit.  Limits are not negative, so only a change for the
\* worse can exceed one; percentages are fractions, like every double.
Exceeds(m, b, c, limit) ==
    /\ b > 0 /\ Worsening(m, b, c) > 0
    /\ ~AtLeast(limit, PercentOf(Worsening(m, b, c), b))

\* evaluateThresholds: "error" if a limit cannot be evaluated, else the
\* metrics that exceed theirs.
Evaluate(baseline, candidate, limits) ==
    LET limited == {m \in Metric : limits[m] # NoValue}
        b(m) == Summary(baseline, m)
        c(m) == Summary(candidate, m)
    IN IF \E m \in limited : ~Comparable(b(m), c(m)) THEN "error"
       ELSE IF \E m \in limited : Exceeds(m, b(m), c(m), limits[m])
            THEN "violations" ELSE "pass"

\* overrideThreshold: a limit of the command line replaces one of the file.
Overridden_fileFirst(file, options) ==
    [m \in Metric |-> IF file[m] # NoValue THEN file[m] ELSE options[m]]
Overridden(file, options) ==
    [m \in Metric |-> IF options[m] # NoValue THEN options[m] ELSE file[m]]

-----------------------------------------------------------------------------
(* compareProfiles.  A run's profile is a function from the functions that   *)
(* have samples to their numbers; an unavailable profile has none.           *)

\* As many elements as the natural numbers of a function sum up to.
Units(weight) == UNION {{x} \X (1 .. weight[x]) : x \in DOMAIN weight}

AreProfiles(runs) ==
    /\ IsFiniteSet(DOMAIN runs)
    /\ \A i \in DOMAIN runs : /\ IsFiniteSet(DOMAIN runs[i])
                              /\ runs[i] \in [DOMAIN runs[i] -> Nat]

\* aggregateProfile, sample by sample: <<<<run, function>>, number>>.
SamplesOf(runs) ==
    LET recorded == UNION {{i} \X DOMAIN runs[i] : i \in DOMAIN runs}
    IN Units([p \in recorded |-> runs[p[1]][p[2]]])
CountOf(runs, f) == Cardinality({s \in SamplesOf(runs) : s[1][2] = f})
TotalOf(runs) == Cardinality(SamplesOf(runs))
Sampled(runs) == UNION {DOMAIN runs[i] : i \in DOMAIN runs}

Share(runs, f) ==
    IF TotalOf(runs) = 0 THEN <<0, 1>> ELSE <<CountOf(runs, f), TotalOf(runs)>>

\* The change from share b to share c, as a fraction that may be negative.
Change(b, c) == <<c[1] * b[2] - b[1] * c[2], b[2] * c[2]>>
Magnitude(change) == IF change[1] < 0 THEN <<-change[1], change[2]>> ELSE change
Larger(x, y) == x[1] * y[2] > y[1] * x[2]

Compared_baselineOnly(baseline, candidate) == Sampled(baseline)
Compared(baseline, candidate) == Sampled(baseline) \cup Sampled(candidate)

Entry(baseline, candidate, f) ==
    [function  |-> f,
     baseline  |-> Share(baseline, f),
     candidate |-> Share(candidate, f),
     change    |-> Change(Share(baseline, f), Share(candidate, f))]

LargerChange(x, y) == Larger(Magnitude(x.change), Magnitude(y.change))

\* The largest change first; the order of equal ones is not determined.
CompareProfiles(baseline, candidate) ==
    Sort(SetToSeq({Entry(baseline, candidate, f) : f \in Compared(baseline, candidate)}),
         LargerChange)
=============================================================================
