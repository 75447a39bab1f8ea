-------------------------- MODULE BenchmarkRunner --------------------------
(***************************************************************************)
(* One invocation of perflens: runBenchmark and runComparison              *)
(* (src/analysis/benchmark_runner.cpp) under main (src/cli/main.cpp).      *)
(* Warm-up runs, then measured runs, are executed one at a time.  Of each  *)
(* run only what RunContract promises is used, which ProcessRunner         *)
(* implements; SIGINT and SIGTERM may arrive during a run or between two.  *)
(***************************************************************************)
EXTENDS Analysis

CONSTANTS Commands,     \* {"run", "compare"}, or one of them
          Repeats,      \* values of --repeat
          Warmups,      \* values of --warmup
          FileLimits,   \* thresholds of a --config file
          LimitOptions, \* thresholds of the --max-... options
          RunResults,   \* measurements of a successful run
          Groups        \* the process groups a run may start

ASSUME CommandsAssumption == Commands \subseteq {"run", "compare"}
ASSUME CountsAssumption == Repeats \subseteq Nat \ {0} /\ Warmups \subseteq Nat

\* A percentage n / d, not negative.
Limit == Nat \X (Nat \ {0})
ASSUME LimitsAssumption ==
    FileLimits \cup LimitOptions \subseteq [Metric -> Limit \cup {NoValue}]

\* What a run measures; the last three only if the workload reports them.
RunResult ==
    [wallTime: Nat, maxRss: Nat, cpuTime: Nat,
     throughput: Nat \cup {NoValue}, p99: Nat \cup {NoValue}, operations: Nat \cup {NoValue}]

ASSUME RunResultsAssumption == RunResults \subseteq RunResult
\* A double holds the double of every measurement.
ASSUME MeasurementsAssumption ==
    \A run \in RunResults, m \in Metric :
        Extract(run, m) # NoValue => Extract(run, m) <= 2 ^ (Precision - 1)

VARIABLES
    command, repeat, warmup,  \* the parsed command line
    fileLimits, optionLimits,   \* thresholds, by where they were given
    pc,
    remaining,     \* per variant: executions of this phase still to do
    runs,          \* per variant: result.runs
    executed,      \* per variant: successful executions, warm-ups included
    exitCode,      \* None until main returns
    variant,       \* the variant that is being run
    phase, alive, verdict,   \* the call of ProcessRunner::run
    receivedSignal,          \* the sig_atomic_t of its handlers
    outcomeSignal,           \* outcome.signal of an interrupted run
    delivered                \* history: the signals that arrived in this run

arguments == <<command, repeat, warmup>>
limits == <<fileLimits, optionLimits>>
results == <<remaining, runs, executed>>
signals == <<receivedSignal, outcomeSignal, delivered>>
call == <<phase, alive, verdict>>
vars == <<arguments, limits, pc, results, exitCode, variant, call, signals>>

Variant == {"baseline", "candidate"}
None == -1
NoVerdict == "none"
NoSignal == "none"
Signal == {"INT", "TERM"}
SignalNumber == [INT |-> 2, TERM |-> 15]

\* How run() may end: an outcome that is a success or not (runSuccessful), an
\* interruption, or an exception, which main catches.
Interrupted == [INT |-> "interrupted by INT", TERM |-> "interrupted by TERM"]
Failed == {"failure", "signaled", "timedOut", "error"}
Verdict == {"success"} \cup Failed \cup {Interrupted[s] : s \in Signal}

Call == INSTANCE RunContract WITH Verdicts <- Verdict, None <- NoVerdict

\* runSuccessful: the exit code of BenchmarkError, or of another exception.
InterruptCode_unshifted(s) == SignalNumber[s]
InterruptCode(s) == 128 + SignalNumber[s]
FailureCode(v) ==
    IF v \in Failed THEN 2 ELSE InterruptCode(CHOOSE s \in Signal : Interrupted[s] = v)

\* The executions of one phase: runBenchmark has one variant.
PhaseOf(n) == [v \in Variant |-> IF command = "run" /\ v = "candidate" THEN 0 ELSE n]

NoLimits == [m \in Metric |-> NoValue]

TypeOK ==
    /\ command \in Commands /\ repeat \in Repeats /\ warmup \in Warmups
    /\ fileLimits \in [Metric -> Limit \cup {NoValue}]
    /\ optionLimits \in [Metric -> Limit \cup {NoValue}]
    /\ pc \in {"begin", "warmup", "measure", "report", "done", "killed"}
    /\ remaining \in [Variant -> Nat] /\ executed \in [Variant -> Nat]
    /\ runs \in [Variant -> Seq(RunResults)]
    /\ exitCode \in {None, 0, 1, 2, 130, 143}
    /\ variant \in Variant
    /\ phase \in {"idle", "running", "ended", "abandoned"}
    /\ alive \subseteq Groups
    /\ verdict \in Verdict \cup {NoVerdict}
    /\ receivedSignal \in Signal \cup {NoSignal}
    /\ outcomeSignal \in Signal \cup {NoSignal}
    /\ delivered \subseteq Signal

Init ==
    /\ command \in Commands /\ repeat \in Repeats /\ warmup \in Warmups
    /\ fileLimits = NoLimits /\ optionLimits = NoLimits
    /\ pc = "begin"
    /\ remaining = [v \in Variant |-> 0]
    /\ runs = [v \in Variant |-> <<>>]
    /\ executed = [v \in Variant |-> 0]
    /\ exitCode = None
    /\ variant = "baseline"
    /\ Call!ContractInit
    /\ receivedSignal = NoSignal /\ outcomeSignal = NoSignal /\ delivered = {}

Return(code) == pc' = "done" /\ exitCode' = code

\* A duration, endpoint, command or limit may be malformed; otherwise the
\* warm-up starts.
Begin ==
    /\ pc = "begin"
    /\ \/ Return(2) /\ UNCHANGED <<remaining, limits>>
       \/ /\ pc' = "warmup" /\ remaining' = PhaseOf(warmup)
          /\ IF command = "run" THEN UNCHANGED limits
             ELSE fileLimits' \in FileLimits /\ optionLimits' \in LimitOptions
          /\ UNCHANGED exitCode
    /\ UNCHANGED <<arguments, runs, executed, variant, call, signals>>

Executing == pc \in {"warmup", "measure"}

-----------------------------------------------------------------------------
(* One call of ProcessRunner::run. *)

\* SignalHandlerGuard clears what an earlier run received.
Forgotten_kept == receivedSignal
Forgotten == NoSignal

\* balancedOrder shuffles as many baseline as candidate executions, so the
\* next variant is any that still has executions left.
StartRun(v) ==
    /\ Executing /\ phase = "idle" /\ remaining[v] > 0
    /\ Call!Start
    /\ variant' = v
    /\ receivedSignal' = Forgotten /\ outcomeSignal' = NoSignal /\ delivered' = {}
    /\ UNCHANGED <<arguments, limits, pc, results, exitCode>>

\* run() throws before it starts anything.
RunRejected(v) ==
    /\ Executing /\ phase = "idle" /\ remaining[v] > 0
    /\ Call!Reject /\ verdict' \in Failed
    /\ variant' = v
    /\ UNCHANGED <<arguments, limits, pc, results, exitCode, signals>>

RunLives ==
    /\ Executing /\ Call!Live
    /\ UNCHANGED <<arguments, limits, pc, results, exitCode, variant, signals>>

\* An interrupted run() reads the signal received last; one that comes later
\* has no effect.
ReadSignal ==
    /\ phase = "running" /\ receivedSignal # NoSignal /\ outcomeSignal = NoSignal
    /\ outcomeSignal' = receivedSignal
    /\ UNCHANGED <<arguments, limits, pc, results, exitCode, variant, call,
                   receivedSignal, delivered>>

\* A signal that comes when the run is already stopping, or over, may be
\* without effect.
RunEnds ==
    /\ Call!End
    /\ \A s \in Signal : verdict' = Interrupted[s] => outcomeSignal = s
    /\ UNCHANGED <<arguments, limits, pc, results, exitCode, variant, signals>>

\* rememberSignal
SignalDuringRun(s) ==
    /\ phase = "running"
    /\ receivedSignal' = s /\ delivered' = delivered \cup {s}
    /\ UNCHANGED <<arguments, limits, pc, results, exitCode, variant, call, outcomeSignal>>

\* SIGKILL in a run: what it started may be left.
KilledDuringRun ==
    /\ Call!Abandon
    /\ pc' = "killed"
    /\ UNCHANGED <<arguments, limits, results, exitCode, variant, signals>>

\* Outside of run() the signals have their default action.
KilledBetweenRuns ==
    /\ phase \in {"idle", "ended"} /\ pc \notin {"done", "killed"}
    /\ pc' = "killed"
    /\ UNCHANGED <<arguments, limits, results, exitCode, variant, call, signals>>

-----------------------------------------------------------------------------
(* runSuccessful and the two loops. *)

\* Only measured runs are kept.
Kept_everyRun(result) == Append(runs[variant], result)
Kept(result) == IF pc = "measure" THEN Append(runs[variant], result) ELSE runs[variant]

TakeSuccess ==
    /\ Executing /\ phase = "ended" /\ verdict = "success"
    /\ remaining' = [remaining EXCEPT ![variant] = @ - 1]
    /\ executed' = [executed EXCEPT ![variant] = @ + 1]
    /\ \E result \in RunResults : runs' = [runs EXCEPT ![variant] = Kept(result)]
    /\ phase' = "idle" /\ verdict' = NoVerdict
    /\ UNCHANGED <<arguments, limits, pc, exitCode, variant, alive, signals>>

\* The invocation ends at the first run that is no success.
TakeFailure ==
    /\ Executing /\ phase = "ended" /\ verdict # "success"
    /\ Return(FailureCode(verdict))
    /\ UNCHANGED <<arguments, limits, results, variant, call, signals>>

PhaseEnds ==
    /\ Executing /\ phase = "idle" /\ \A v \in Variant : remaining[v] = 0
    /\ IF pc = "warmup" THEN pc' = "measure" /\ remaining' = PhaseOf(repeat)
                        ELSE pc' = "report" /\ UNCHANGED remaining
    /\ UNCHANGED <<arguments, limits, runs, executed, exitCode, variant, call, signals>>

Answer ==
    Evaluate(runs["baseline"], runs["candidate"], Overridden(fileLimits, optionLimits))

CompareCode ==
    CASE Answer = "error" -> 2 [] Answer = "violations" -> 1 [] Answer = "pass" -> 0

\* Summaries, thresholds, the report and the optional JSON file, which may
\* fail to be written.
Report ==
    /\ pc = "report"
    /\ Return(IF command = "run" THEN 0 ELSE CompareCode) \/ Return(2)
    /\ UNCHANGED <<arguments, limits, results, variant, call, signals>>

Next ==
    \/ Begin \/ PhaseEnds \/ Report \/ TakeSuccess \/ TakeFailure
    \/ \E v \in Variant : StartRun(v) \/ RunRejected(v)
    \/ RunLives \/ ReadSignal \/ RunEnds
    \/ \E s \in Signal : SignalDuringRun(s)
    \/ KilledDuringRun \/ KilledBetweenRuns

Spec == Init /\ [][Next]_vars

-----------------------------------------------------------------------------
(* Properties. *)

Values(v, m) == [i \in DOMAIN runs[v] |-> Extract(runs[v][i], m)]

\* Twice the median, from ranks: the smallest value that half of the sample
\* does not exceed plus the largest that half of it reaches.
RankMedianTwice(values) ==
    LET Half(S) == 2 * Cardinality(S) >= Len(values)
        lower == {x \in Range(values) : Half({i \in DOMAIN values : values[i] <= x})}
        upper == {x \in Range(values) : Half({i \in DOMAIN values : values[i] >= x})}
    IN Min(lower) + Max(upper)

\* A result rests on exactly --repeat measured runs of each variant, and on
\* --warmup discarded ones before them, in whatever order they were drawn.
BalancedMeasurement ==
    pc = "report" \/ (pc = "done" /\ exitCode \in {0, 1}) =>
        \A v \in Variant : /\ Len(runs[v]) = PhaseOf(repeat)[v]
                           /\ executed[v] = PhaseOf(repeat + warmup)[v]

\* The limits the user set: <<metric, percentage>>.  One of the command line
\* stands in for one of the file.
UserLimits ==
    {<<m, optionLimits[m]>> : m \in {n \in Metric : optionLimits[n] # NoValue}}
    \cup {<<m, fileLimits[m]>> : m \in {n \in Metric : fileLimits[n] # NoValue
                                                   /\ optionLimits[n] = NoValue}}

\* Every measured run of both sides reported the metric.
Measured(limit) ==
    \A v \in Variant : \A i \in DOMAIN runs[v] : Extract(runs[v][i], limit[1]) # NoValue

\* "Throughput checks for a decrease" (README.md:41), the others for an increase.
Loss(m, b, c) == IF m = "throughput" THEN b - c ELSE c - b

\* The candidate's median is worse than the baseline's by more than the limit
\* times the fraction `times'.
Regressed(limit, times) ==
    LET b == RankMedianTwice(Values("baseline", limit[1]))
        c == RankMedianTwice(Values("candidate", limit[1]))
        percent == limit[2]
    IN (100 * Loss(limit[1], b, c)) * (percent[2] * times[2])
           > (percent[1] * times[1]) * b

\* The three operations of percentChange each move a value by at most 1 in
\* 2 ^ Precision; a regression that is not this close to its limit is told from
\* it rightly.
Below == <<2 ^ Precision - 3, 2 ^ Precision>>
Above == <<2 ^ Precision, 2 ^ Precision - 3>>
Exactly == <<1, 1>>

\* A comparison passes only if every limit the user set was measured in every
\* run of both sides and, but for rounding, no median exceeds it, whichever way
\* is better and wherever the limit was given.
PassIsSound ==
    command = "compare" /\ exitCode = 0 =>
        \A limit \in UserLimits : Measured(limit) /\ ~Regressed(limit, Above)

\* Exit code 1 means that a limit, measured in every run, was exceeded but for
\* rounding, never that a run failed.
RejectIsSound ==
    exitCode = 1 => /\ command = "compare"
                    /\ \A limit \in UserLimits : Measured(limit)
                    /\ \E limit \in UserLimits : Regressed(limit, Below)

\* "The exit code is `0` for a pass, `1` if a limit is exceeded"
\* (README.md:39): code 1 means that one was exceeded, not only reached.
RejectMeansExceeded ==
    exitCode = 1 => \E limit \in UserLimits : Regressed(limit, Exactly)

\* An exit code of 128 plus a signal means that this signal arrived during
\* the run that was executing, not in one before, and that no process group of
\* that run was left unkilled.
SignalCodeGenuine ==
    \A s \in Signal : exitCode = 128 + SignalNumber[s] =>
        s \in delivered /\ alive = {}
=============================================================================
