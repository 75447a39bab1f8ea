# A TLA+ model of PerfLens

PerfLens runs a program (or a service with a client workload) several times,
collects resource usage, hardware counters and CPU samples of each run, and
compares a baseline with a candidate.  This directory models the parts of it
that decide, wait or run concurrently: the supervision of the measured
processes, the counters, the collection of samples by a worker thread, the way
from sampled addresses to functions, and the decision that becomes the exit
code.  Twelve TLC runs check it on small instances; eight proof modules prove
every safety property that the passing runs check for every instance.  Only
liveness rests on model checking alone.

## Inventory

| component | source | state | operations | what is hard |
|---|---|---|---|---|
| `ProcessRunner` | `src/process/process_runner.cpp` | pid and guard of target and workload, start pipe, error pipe, deadlines, flags of the loop, the signal that its handler saw | `run()`: fork behind a barrier, open/start/stop/read collectors, poll loop, service life cycle, unwinding | the runner, two process groups with descendants, SIGINT/SIGTERM and the clock interleave; every step can throw |
| `PerfCounterCollector` | `src/perf/perf_counter.cpp` | one group of six events | open, start, stop, read, `scaleCounter` | partial opening; scaling of multiplexed counts |
| `PerfSampler` | `src/perf/perf_sampler.cpp` | one event and ring per CPU, a failure, `started`, `stopped` | open, start, stop, samples, lostSamples | one of n events fails; order of disabling and draining |
| `SampleCollector` | `src/perf/sample_collector.cpp` | worker thread, stop token, eventfd, samples, losses, failure | start, stop, collect, drain | shared ring with the kernel; join; a lost wake-up |
| `BenchmarkRunner`, command line | `src/analysis/benchmark_runner.cpp`, `src/cli/main.cpp` | runs per variant, order still to execute | runBenchmark, runComparison, main | balance of a random order; failures in the middle; exit codes |
| `Analysis` | `src/analysis/statistics.cpp`, `comparison.cpp` | none | summaries, relative changes, thresholds, profile changes | missing metrics, zero baselines, direction of a metric |
| `Symbolizer` | `src/symbols/symbolizer.cpp`, `currentExecutable` and the capture in `run()` | the last captured mappings | capture, resolve, addr2line, count | the target executes, remaps and exits around each capture; a child process that fails |
| Workload metrics | `src/process/workload_metrics.cpp`, `src/model.cpp` | a temporary file | load and validate | omitted, null and mistyped values; a file that is cut off |
| Terminal report, JSON output | `src/report`, `src/model.cpp` | none | formatting | - |

`main` calls `runBenchmark` or `runComparison`; these call `ProcessRunner::run`
once per execution, one at a time, and use nothing of it but its result.
`run()` owns the collectors, calls them from its own thread and never
concurrently.  `PerfSampler` owns a `SampleCollector`, whose worker is the only
other thread of the program; it shares with its owner the stop token, the
eventfd and, after the join, the samples.  Everything else that moves is
outside of the program: the target, the workload, their descendants, the kernel
that writes the rings, and the user who sends signals.

What makes each component correct:

- `ProcessRunner`: whatever a run started was reaped or killed when it ends; a
  success is one of the measured program; nothing is measured before the
  collectors run, or after they stop; a stop request, a timeout and the death of
  the runner end the run; a collector failure is reported or fails the run.
- `SampleCollector`, `PerfSampler`: only samples of the target, each once, none
  torn; a profile that is called available is complete; `stop()` returns.
- `PerfCounterCollector`: a value is the activity between start and stop; every
  event is closed once.
- `Symbolizer`: each sample counted once, under a file that was mapped where the
  sample was taken, by mappings that are all of one program.
- Workload metrics: what is accepted keeps the protocol of the documentation.
- `BenchmarkRunner`, `Analysis`: balanced samples, an exit code of 0 or 1 only when
  every limit was really evaluated, and the right one of the two but for the
  rounding of doubles.

## Modules

| module | models | role |
|---|---|---|
| `ProcessRunner` | `ProcessRunner::run`, the child up to exec, its environment | specification |
| `RunContract` | what the benchmark loop relies on | abstract specification |
| `SampleCollector` | the worker, its owner, and the kernel's rings | specification |
| `PerfSampler` | extends `SampleCollector` by start and stop over all CPUs | composition |
| `PerfCounters` | the counter group, its owner, the kernel's multiplexing | specification |
| `Symbolizer` | the capture of mappings, the target, `symbolizeSamples` | specification |
| `FloatingPoint` | the floating-point numbers of the hardware | operators |
| `CounterScaling` | `scaleCounter` in long doubles | operators |
| `WorkloadMetrics` | `loadApplicationMetrics` | operators |
| `Analysis` | medians, changes, limits, comparison of profiles | operators |
| `Algorithms` | applies the operators to every input of a small domain | specification |
| `BenchmarkRunner` | one invocation of `perflens`, over `RunContract` | composition |
| `ProcessRunnerProofs` | theorems about `ProcessRunner` and its refinement of `RunContract` | proofs |
| `PerfSamplerProofs` | theorems about `SampleCollector`, alone and driven by `PerfSampler` | proofs |
| `CommonProofs` | powers, rounding, orders: lemmas for more than one module | proofs |
| `CounterScalingProofs` | theorems about `scaleCounter` | proofs |
| `PerfCountersProofs`, `SymbolizerProofs`, `AlgorithmsProofs`, `BenchmarkRunnerProofs` | theorems about these specifications and the operators they use | proofs |
| `MC...` | instances | model checking |

`ProcessRunner` implements `RunContract`, and `BenchmarkRunner` uses of a run only
what `RunContract` says (`Call == INSTANCE RunContract`): the contract is proved
on one side and assumed on the other.  In the same way `PerfSampler` extends
`SampleCollector`, and `ProcessRunner` has the counters and the sampler as two
small state machines whose insides are `PerfCounters` and `PerfSampler`.

A definition named `X_what`, directly before `X`, is `X` with a plausible bug.
No specification uses it.  Replacing `X` by it makes one property fail, which
is how each property is known to watch the code that it is about.

### ProcessRunner

`pc` names the place of the runner in `run()`.  A step of it is the code
between two places where another actor can interfere visibly: one system call
that the others can see and the private work around it.  The loop is

    wait -> service (-> start -> spawn) -> workload (-> stop -> judge) -> signals -> wait

and `after`, `check`, `stop`, `conclude`, `collect`, `verdict` are the code
after it.  Exceptions go to `unwind`, which runs the destructors of the two
`ChildGuard`s in their order.

`life[g]` is the life of the leader of a process group, `kin[g]` whether it has
descendants, `pending[g]` the signals sent to it while alive.  A process may
ignore SIGINT and SIGTERM for ever, never SIGKILL.  `kin[g]` is about descendants
that stay in the group and were not killed yet: `kill(-pid, SIGKILL)` clears it, since
nothing of the group runs user code after it, although `release()` does not wait
until the descendants are gone (tests/process_runner_test.cpp:127 polls for that).
A descendant that leaves the group with `setsid` is out of the runner's reach and
not tracked.  A group in `Privileged` may take another user's credentials at any moment;
it is then in `shielded`, and `kill` fails with EPERM: `signalProcessGroup` throws
from the loop, in the order in which the groups are signalled, while the
destructors ignore the error.  The child has two places of
its own before its program, `setup` and `barrier`.  `counters` and `sampler`
are the states of the two collectors; each of open, start, stop and read may
fail.  `SystemCallFails` stands for the three checks of `setpgid`, `wait4` and
`waitpid`, which throw.

The loop reads its clock once per iteration and compares that one value with
all its deadlines.  `left[d]` is the distance of deadline `d` at that reading;
it shrinks by 0 to `MaxAdvance` per iteration and stops at 0.  Durations are
therefore in units of an arbitrary iteration time.

Abstracted: how metrics are computed from `rusage` and `/proc`; the socket
calls of the TCP probe (it accepts or not); which CPUs are sampled; the
contents of environments; the memory mappings, whose capture is in `Symbolizer`.
A call that `run()` rejects because a command is empty ends like one with another invalid option.

### RunContract

Three variables: the phase of the call, the process groups that are alive, the
verdict.  The one thing it forbids is to end the call while something is alive,
or to let something live after that, where a process that was sent SIGKILL no longer
counts as alive.  A killed runner promises nothing.

### SampleCollector and PerfSampler

`log[r]` is everything the kernel ever wrote to ring `r`, so `Len(log[r])` is
`data_head`; position `p` is overwritten once `p + Capacity` is written, and
reading it then gives `Torn`.  Records have the size of one slot; the byte
arithmetic of `copyRingBytes` is the condition `Intact`.  `DrainBegins` is the
acquire of `data_head`, `DrainCopies` one record, `DrainPublishes` the release
of `data_tail`, and the kernel writes between any two of them.  A full ring
drops samples and announces them with a LOST record before the next one that
fits.  `phase` follows `start()` and `stop()` of the owner, one value per
system call; `Join` waits for the worker.

`PerfSampler` adds the caller: the worker is started, every ring is enabled,
later every ring is disabled and then the collector stopped.  Each of these may
fail at each ring.  Samples are compared by identity (ring and position); that
they are finally sorted by time is left out.  Drops at the very end of a run
are never reported by the kernel and so not counted by anyone;
`EverySampleKept` is about samples that reached a ring, and
`CompleteWhenAvailable` adds the losses that were reported: `lost` is the size of
the set of the drops that the LOST records in the rings name (`LossesOf`).

### PerfCounters and CounterScaling

`descriptors` is the list of the constructor and `open` what the kernel has
open; `closeAll` works on the first, so a leak or a double close is a
difference between the two.  A tick of the target counts in every open event
when the group is enabled and scheduled.  The measured program is steady, one
event of each kind per tick: then extrapolation must give back exactly the
length of the window, and whatever else is counted or missed is visible.
`CounterScaling` rounds each operation to `Mantissa` bits, to nearest and ties
to even, in words of `Width` bits.

### Symbolizer

`layout` is what is mapped at each address now, `hosts` what the n-th program that
the target executed ever mapped there.  A target is at first a copy of the runner.  `BeginCapture`
compares the executables and opens the maps file, `ReadMaps` reads it part by
part while the target goes on, `EndCapture` replaces the mappings unless it read
none.  The capture is throttled to one per 20 ms; here it may happen at any
time.  The count of a function is the set of samples counted under it.
`NameModule` is one addr2line child, which may name all, some or none of the
addresses of its module; `Addr2lineThrows` is the failure of a system call
around it.  A sample taken between two captures is given what the last capture
found, which is why `AttributionIsGenuine` speaks of the whole history of an
address: nothing better can be known from mappings read from outside.  What can be
known is that the mappings are of one program: a maps file that was opened before
an exec is at its end after it, and each capture starts from an empty list
(`CapturedFromOneProgram`).  A scan that an exec or the exit cuts short replaces a
complete one unless it is empty, as in the code; the samples it can no longer
resolve are counted as unknown.

### WorkloadMetrics

A document is a record of the shapes its values may have: missing, null, of a
wrong type, negative, zero, positive.  A file may be missing, or cut off by the
death of its writer (`Unparsable`).

### Analysis, Algorithms and BenchmarkRunner

A measurement is a whole number of some unit, small enough that a double holds its
double (`MeasurementsAssumption`); medians are doubled to stay whole.  CPU time per
operation is counted in units of 1 / `OperationsMultiple` and cut there.  The percentage
of a change is what `percentChange` computes: a difference, a quotient and a product,
each rounded to the `Precision` bits of a double (`FloatingPoint`), and
"regression > limit" compares this rounded number with the limit, a fraction.  So
the code's answer may differ from the exact one when a regression is within three
roundings of its limit.  `PassIsSound` and `RejectIsSound` allow for exactly that, a
factor of 1 - 3 / 2 ^ `Precision`, and no more; `RejectMeansExceeded` does not, and fails.
`CompareProfiles` merges
the functions of both sides; a side without samples has only zero shares.  A
sum of sample counts is the cardinality of the set of the samples (`Units`,
`SamplesOf`), and `Sort` is any rearrangement that keeps the order it is given,
which is what `std::sort` promises; neither needs recursion, so both can be
reasoned about.
`Algorithms` has one step: it applies one function to one input.

`BenchmarkRunner` draws the next variant from those with executions left, which
is what shuffling a balanced list amounts to.  It calls `RunContract!Start`, lets the
run live and end, and then takes its result; a signal may arrive at any moment,
inside a run (where the handler remembers it) or outside (where it kills
`perflens`).  An interrupted run reports the signal that `receivedSignal` held when the
outcome was built (`outcomeSignal`); a later one may still change `receivedSignal`
before the call returns.  Option parsing is one choice (`Begin` may return 2).  What
CLI11 itself refuses (`CLI11_PARSE`, with exit codes of its own) never gets here; it
has rejected a `--repeat` of zero before.  A limit comes from the file or from an
option.

## Runs

| run | instance | what it shows |
|---|---|---|
| `supervision` | one program with all mixes of collectors and `--require-perf`, timeout none / 2 / 0 (invalid), grace 0 and 1; a service with and without TCP probe and counters, delay 0 and 1, readiness 2, timeout none or 3, graces 1; optional counters; clock 0..2; both groups may become privileged | safety of a run, and that it implements `RunContract` |
| `run_liveness` | programs and services with and without timeout, no collectors | a stop request, a timeout or the death of the runner end everything |
| `perf_degrades` | counters without `--require-perf` | a finding, below |
| `interrupt_reported` | a service without collectors | a finding, below |
| `sampler_safety` | two symmetric rings of two records, three written to each, every fault of owner, worker and caller on every ring | ring discipline, the join, honest availability |
| `sampler_liveness` | one ring of two records, six written: it laps, and loses twice | `stop()` returns, the worker catches up, all reported losses are counted |
| `symbolizer` | two symmetric addresses, two execs, one remap, two samples; two libraries with one file name, anonymous memory | attribution, conservation, captures of one program |
| `counters` | three events, ten ticks, a failure at each step | the window and the descriptors |
| `algorithms` | all triples of five-bit words; all profiles of three functions with counts 1 and 2, and pairs of runs of two functions; every shape of metrics file | the pure functions against their definitions |
| `invalid_metrics` | the metrics files of `algorithms` with one operation | a finding, below |
| `benchmark` | 1 or 2 runs per variant, 0 or 1 warm-ups, six results, limits unset / 0 / 30.5 in the file and unset / 0 / 10 / 40.5 / 55 in the options, signals anywhere, doubles of 9 bits | balance and exit codes; 20 to 31 reaches 55 exactly and rounds to more |
| `limit_reached` | one run per variant, of 20 or 31 units, limit 55 | a finding, below |

Bounds.  Deadlines of one to three iterations with a clock step of two let each
deadline pass before, with and after each other one.  Only one target and one
workload exist in the code, and one bit per group for descendants is enough,
since the code only ever addresses the group.  Two rings suffice for the
properties of the collector, which never relate three; a capacity of two with
six records covers a full ring, drops, two LOST records and three laps.
`MaxRecords` and `MaxDropped` bound the kernel, not the collector.  Two execs
and one remap give the chain runner, shell, program, with a library that moves
in any of them; the captured state never relates three addresses.  Three events
have one that is neither the leader nor the last.  Five-bit words with a
five-bit mantissa have the relation of 64 to 64 bits of x86-64: products that do
not fit, quotients that round, results that saturate.  Doubles of nine bits are the
shortest for which the theorems hold, and percentages of small medians round in them.
The liveness run has `Privileged = {}`: nothing bounds a run whose target the runner
may not kill.  An even and an odd number
of runs exercise both branches of the median.

Deadlock checking is off where the system may really stop: a finished run, an
invocation that returned, a sampler whose caller does nothing more, a target
that hangs before a runner with no timeout, counters whose owner keeps them.

Fairness.  `ProcessRunner`: the runner and the forked child are scheduled (the
loop never blocks longer than 2 ms in a poll, and `waitpid` of a SIGKILLed
leader returns); the steady clock advances again and again; SIGKILL kills.
Targets and workloads are not obliged to exit, and nobody is obliged to send a
signal.  `PerfSampler`: the worker is scheduled and its `poll` times out after
1000 ms; the caller finishes a call that it began.  The liveness run leaves out
the faults that are a choice of the worker's own step (`poll`, `descriptor`):
fairness must not be able to force one.  Strong fairness appears only for the
clock, whose step is enabled in one place of each iteration.

## Findings

- `limit_reached`: README.md:39 says that a limit of 10 "allows up to a 10%
  increase" and that the exit code is "`1` if a limit is exceeded".  The percentage
  is computed in doubles (comparison.cpp:21) and compared as it is (line 229), so a
  median that only reaches its limit can be reported as a regression.  The run finds
  20 and 31 with a limit of 55 in nine bits; in the 53 bits of the program the same
  numbers exceed, and 100 and 107 with a limit of 7 give 7.000000000000001.
- `perf_degrades`: README.md:43 says "`--require-perf` makes unavailable
  collection fail the run".  Enabling the counters (process_runner.cpp:667) is
  the only collector call of `run()` that is not caught, so a failure of it
  fails the run without `--require-perf` too.
- `interrupt_reported`: tests/sampler_integration_test.cpp:186 expects an
  interrupted run to be reported as interrupted, and `run()` exempts
  interrupted runs from life-cycle failures after its loop (lines 854, 860).
  In the loop (line 791) it does not: a workload that dies of the forwarded
  signal turns the interruption into "workload terminated by signal" and exit
  code 2.
- `invalid_metrics`: docs/workload-protocol.md:19 says "latency percentiles must
  be in order. Invalid data makes the run fail".  `from_json` (model.cpp:106) looks
  the percentiles up with `find()`, which finds nothing in a value that is no
  object: `{"operations": 1, "latency": 7}` is accepted as a file without latency,
  while a percentile of a wrong type is refused.

## Proofs

All theorems hold for every value of the constants under the assumptions named in
the modules.  Most of these only give the constants their types: options are
records of the type `RunOptions`, there is at least one ring, a ring holds at
least one record, there is at least one event, file names are not `[unknown]`;
limits are fractions that are not negative, or unset (`LimitsAssumption`; the command
line and the configuration reader refuse others), measurements are records of
`RunResult` (`RunResultsAssumption`), profiles are finite functions to natural
numbers (`ProfilesAssumption`), counts and times are words and the running time
is not zero (`ScaleJobsAssumption`; `scaleCounter` throws for zero).  Four say more.
`PrecisionAssumption` and `MeasurementsAssumption`: a double has at least nine bits (53
in the program), and every measurement is a whole number up to half of what they
hold, which for nanoseconds is 52 days.  `WidthAssumption`: a mantissa holds a word,
as the 64 bits of x86-64 do; on a machine whose `long double` is a `double` the
theorems about `scaleCounter` do not apply.
`TicksAssumption`: a window is shorter than `2 ^ Width / 16` units, which for
nanoseconds in 64 bits is 36 years.  Nothing is assumed about timeouts being
positive, or about which options occur together.  Every inductive invariant was
first checked by TLC on the instances above.

### ProcessRunnerProofs

`TypeCorrect`, `NothingLeftUnkilled`, `GenuineSuccess`, `BarrierHolds` and
`ChildErrorsThrown` prove the safety properties of `supervision` that do not
depend on the collectors' states; `Refinement` proves `Spec => KeepsContract`.

None of these properties is inductive.  `IInv` strengthens them with three
parts.  `Guarding` says that whatever is alive has an armed guard, that no
guard is armed where `run()` may return, and that a group in the middle of a
destructor was struck: it has no descendants and its leader cannot fork any.
It is what makes "nothing is left unkilled" a property of each step instead of a
property of the end; groups that the runner may not signal are excepted.
`Barrier` ties the byte in the start pipe to the collectors.  `Accounting` ties the
flags: a managed stop to a workload that exited 0, and the end of a service without
a completed workload to another explanation, so that a success must come from the
measured program.  Each part
is kept by each action (one step of the proof per action); `LastStep`,
`QuietOutside` and `PhaseOrder` describe how a run can end and are shared by the
proof of `GenuineSuccess` and by the refinement.

The second part of the module proves the other four properties of `supervision`:
`WorkloadMeasured`, `PerfHonoured`,
`StalePids`, `AskedBeforeKilled`.  `PInv` adds four parts to `IInv`.  `Collecting`
tells the states of both collectors from the flags `collectorsStarted` and
`collectorsStopped` and from the place in the loop; it is needed because
`startCollectors` and `stopCollectors` are called from several places.
`Requiring` says that with `requirePerf` nobody goes on without a collector;
`Leaving`, that only a failed stop leaves a reaped target guarded; `Asking`, that
a loop that is stopping has asked every leader that is alive.

### PerfSamplerProofs

`CollectorInv` is proved for every number of rings and every capacity:
`Rolling` (the tail never passes the head), `NoOverrun` (and is never
more than a ring behind), `Storing` (what was stored lies behind the worker),
`NothingSkipped` (and nothing of the target behind the worker is missing),
`Summing` (the counter of losses is the number of drops that the LOST records
behind the worker name), `Joining`.  The log of a ring only grows (`LogGrows`), so what was
true of a copied record stays true while the kernel writes.  The second part
reuses the preservation lemma for each collector step (`StepCollectorInv`) and
adds `Driving` and `Idle`, the loops of `start()` and `stop()` over the events, and
`Finishing`: the final drain comes when every event is disabled, so while
nothing failed the kernel is silent and a ring that was drained stays drained.
With `NothingSkipped` that is `SamplesKept`, and with `Summing` it is
`ProfileComplete`: an available profile has every sample that reached a ring, and
its losses are all that the kernel reported.  Drops are counted as elements of
a set, disjoint for different records (`CopyingLosses`), so that no induction over
the log is needed.

### CounterScalingProofs

`scaleCounter` for every word width and every mantissa that holds a word.  The
proof is about rounding, in four layers, the first two of which are in `CommonProofs`:

1. Powers of two.  `2 ^ n` is the number of subsets of `n` things; from that come
   `PowerAdds` and `PowersGrow` without an induction.
2. `Round`.  `ExponentExists` finds the exponent (by the least element of a set
   of naturals, `Least`), so that the `CHOOSE` of the definition is defined for
   every fraction that occurs.  `Rounded` says what comes out, as the predicate
   `Near`: a relative error of at most `2 ^ -bits`; an absolute one of at most a
   half below `2 ^ bits`; and no crossing of a fraction `N / 2 ^ k` with `N` up
   to `2 ^ bits`, since such a fraction is itself representable or the unit
   is coarser (`Grid`).
3. The three roundings of `scaleCounter`.  `ErrorsAddUp` adds what each can
   contribute in either direction: less than 1 from the product, a half from the
   quotient, a half from the sum, and a half from adding 0.5 and truncating, which
   together stay below 2.5; `StaysAWord` shows that the half which is added never carries a value past the
   largest word, the case in which the conversion would be undefined in C++;
   `SaturatedIsClose` that saturation is no jump; `WholeQuotient` that a whole
   quotient of a product that is a word is computed exactly.
4. `ScaledAccurately` puts them together for all words; `SteadyIsExact` is the case
   that `PerfCounters` needs, where the product may be larger than a mantissa holds
   and the result is exact all the same.

### PerfCountersProofs

`Listed` (the list and the kernel agree, in the order of the events) gives
`ClosedOnce`.  `Counted` relates the counts to the window and the times to the
target's clock, `Placed` bounds that clock.  `UnscaledIsExact`: without
multiplexing a value is the window itself, with no arithmetic and for a window of
any length.  `WindowIsMeasured`: with multiplexing too, by `SteadyIsExact`, for
windows within `TicksAssumption`.  `CountersTypeCorrect` needs `ScaledAccurately`:
that a value is a word is a fact about the rounding.

### SymbolizerProofs

`Hosted` says that the layout, the scan and the captured mappings are each of one
program, the scan of the running one while there is still something to read, and
that nothing is read of the runner's own copy; `HostsGrow` carries this through every
step.  `Settled`: counting begins when samples are final.  `Counting`: a sample of a
named module has exactly one function and the others none yet.  They give
`OneProgramCaptured`, `GenuineAttribution` and `NoSampleLost`.

### AlgorithmsProofs

`ProtocolKept`: whatever numbers and shapes a metrics file has, what
`loadApplicationMetrics` accepts keeps the rules of docs/workload-protocol.md.
`SharesConsistent`: for all lists of profiles, the comparison names each function
once, the shares of each side add up to its samples, and the list begins with the
largest change.  `EntriesListed` lists the result of `CompareProfiles`, and `CountsAddUp`
counts the samples of a side by the functions (`Fibres`: a finite set is as large as
its fibres together).  `OrderExists` (in `CommonProofs`): every finite list has a
rearrangement in which nothing comes before what it belongs behind, so `Sort` is
defined; the proof takes the size as the measure and, where an induction would go,
the least size without such a rearrangement (`Least`).  `ScaledAccurate`:
`ScaledAccurately` as the run's property.

### BenchmarkRunnerProofs

`Calling` is what the contract keeps of the call in progress, `Balance` the
equation of executions done and executions left.  They give `Balanced` and
`GenuineSignalCode`.  `TypeOK`, `Outstanding` and `Decided` say that the results have
their types, that executions are left only in the phases that execute, and that an
exit code of 0 or 1 of a comparison is the answer of `Evaluate` on complete results.
Two chains lead from there to `PassSound` and `RejectSound`:

1. The medians.  `SortedSample` and `SameCount` say what the middle of a sorted sample
   is: as many values of the sample lie on one side as positions do, whatever
   rearrangement was chosen.  So the medians of the code and those of the property
   agree (`MedianByRank`), and are numbers of which the doubles are exact
   (`MedianBounded`).
2. The percentage.  Each operation is in range of a double (`DoubleRounds`) and stays
   within one rounding; `RoundingsAddUp` adds them, and `PercentWithin` is the result
   for `percentChange`: within three roundings of the exact one.  `ToldApart` turns
   that into the two comparisons: a rounded percentage above the limit shows an exact
   one above the limit less three roundings, and the other way round.

### Only model-checked

Liveness: `SignalEndsRun`, `TimeoutBoundsRun`, `UnreleasedTargetDies`,
`SamplerStopReturns` and `ReaderCatchesUp` depend on fairness and `ENABLED`, which
are out of the prover's reach.  The four findings are runs, not theorems.

## Not modelled

The terminal report, the JSON output and its readers, the example targets, the
benchmark script and the build have no behaviour beyond conversion or are not
part of the tool.  Of the modelled parts these are left out: mean and standard
deviation, and metrics without a limit, which are only reported; the sort of
samples and of functions; the times computed from `rusage` and `/proc/<pid>/stat`,
and which window they cover; the durations below a millisecond that
`parseDuration` truncates; parsing of options and of `/proc/<pid>/maps`; the
ELF reader, as the contents of files do not change during a run, including the
"(deleted)" suffix of a file that is replaced; the choice of CPUs.

## Plan

Done: all components that have state or take a decision, their composition,
and the proofs above.  What would add most from here:

1. One module that joins `ProcessRunner` to `PerfSampler` and `PerfCounters` in
   place of their two small state machines, if its state space can be kept small.
2. An abstract specification of the sampler (a set of records that arrive, a set
   that is reported, a verdict) that `PerfSampler` refines, as `ProcessRunner` does
   `RunContract`.
3. CPU times of a run and of the service's window.
