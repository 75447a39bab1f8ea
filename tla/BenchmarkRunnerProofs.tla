------------------------- MODULE BenchmarkRunnerProofs -------------------------
(***************************************************************************)
(* Proofs about BenchmarkRunner, for every number of runs and warm-ups,    *)
(* every limit, every result and every precision of a double: runs are     *)
(* measured in balance, an exit code names the signal that really ended    *)
(* the invocation, and a verdict is right but for rounding.  Of a run they *)
(* use what RunContract says, which ProcessRunner implements               *)
(* (ProcessRunnerProofs).                                                  *)
(***************************************************************************)
EXTENDS BenchmarkRunner, CommonProofs

(* The inductive invariant. *)

\* The call of run() in progress: nothing is alive outside of one, and what it
\* says of a signal is true.
Calling ==
    /\ phase \in {"idle", "running", "ended", "abandoned"}
    /\ phase \in {"idle", "ended"} => alive = {}
    /\ receivedSignal # NoSignal => receivedSignal \in delivered
    /\ outcomeSignal # NoSignal => outcomeSignal \in delivered
    /\ phase = "ended" =>
         /\ verdict \in Verdict
         /\ \A s \in Signal : verdict = Interrupted[s] => s \in delivered
    /\ pc \in {"begin", "report"} => phase = "idle"
    /\ pc = "done" => phase \in {"idle", "ended"}
    /\ pc # "done" => exitCode = None

\* Executions that are done and executions that remain make up what was asked.
Balance ==
    /\ repeat \in Nat /\ warmup \in Nat
    /\ variant \in Variant
    /\ remaining \in [Variant -> Int] /\ executed \in [Variant -> Int]
    /\ runs \in [Variant -> Seq(RunResults)]
    /\ pc = "begin" => \A v \in Variant : Len(runs[v]) = 0 /\ executed[v] = 0
    /\ pc = "warmup" => \A v \in Variant :
         Len(runs[v]) = 0 /\ executed[v] + remaining[v] = PhaseOf(warmup)[v]
    /\ pc = "measure" => \A v \in Variant :
         /\ Len(runs[v]) + remaining[v] = PhaseOf(repeat)[v]
         /\ executed[v] + remaining[v] = PhaseOf(repeat + warmup)[v]

\* The run in progress is one that remains to be done.
Outstanding == phase \in {"running", "ended"} /\ Executing => remaining[variant] > 0

\* An exit code of 0 or 1 is the answer that the results of a comparison give.
Decided ==
    /\ exitCode = 1 => command = "compare" /\ Answer = "violations"
    /\ exitCode = 0 /\ command = "compare" => Answer = "pass"

BenchmarkInv ==
    /\ Calling /\ Balance /\ TypeOK /\ Outstanding
    /\ SignalCodeGenuine /\ BalancedMeasurement /\ Decided

-----------------------------------------------------------------------------
\* The verdicts and the codes of the two signals differ from all others.
LEMMA Codes ==
  /\ \A s, t \in Signal : Interrupted[s] = Interrupted[t] => s = t
  /\ \A s, t \in Signal : SignalNumber[s] = SignalNumber[t] => s = t
  /\ \A s \in Signal : /\ Interrupted[s] \in Verdict \ Failed
                       /\ SignalNumber[s] \in {2, 15}
  /\ \A v \in Failed : v \in Verdict /\ v # "success"
<1>1. Interrupted["INT"] = "interrupted by INT" /\ Interrupted["TERM"] = "interrupted by TERM"
  BY DEF Interrupted
<1>2. SignalNumber["INT"] = 2 /\ SignalNumber["TERM"] = 15
  BY DEF SignalNumber
<1>3. \A s \in Signal : Interrupted[s] \in Verdict \ Failed /\ SignalNumber[s] \in {2, 15}
  BY <1>1, <1>2 DEF Signal, Verdict, Failed
<1>4. \A v \in Failed : v \in Verdict /\ v # "success"
  BY DEF Verdict, Failed
<1>5. \A s, t \in Signal : Interrupted[s] = Interrupted[t] => s = t
  BY <1>1 DEF Signal
<1>6. \A s, t \in Signal : SignalNumber[s] = SignalNumber[t] => s = t
  BY <1>2 DEF Signal
<1> QED
  BY <1>3, <1>4, <1>5, <1>6

\* A run that is no success ends with 2 or with the code of its own signal.
LEMMA FailureCodes ==
  ASSUME NEW v \in Verdict \ {"success"}
  PROVE  \/ v \in Failed /\ FailureCode(v) = 2
         \/ \E s \in Signal : v = Interrupted[s] /\ FailureCode(v) = 128 + SignalNumber[s]
<1>1. CASE v \in Failed
  BY <1>1 DEF FailureCode
<1>2. CASE v \notin Failed
  <2>1. \E s \in Signal : Interrupted[s] = v
    BY <1>2 DEF Verdict
  <2> DEFINE t == CHOOSE s \in Signal : Interrupted[s] = v
  <2>2. t \in Signal /\ Interrupted[t] = v
    BY <2>1
  <2> QED
    BY <1>2, <2>2 DEF FailureCode, InterruptCode
<1> QED
  BY <1>1, <1>2

\* A comparison answers with 0, 1 or 2.
LEMMA CompareCodes == CompareCode \in {0, 1, 2}
<1>1. Answer \in {"error", "violations", "pass"}
  BY DEF Answer, Evaluate
<1> QED
  BY <1>1 DEF CompareCode

\* Every variant has its executions in a phase.
LEMMA PhaseTypes ==
  ASSUME NEW n \in Nat
  PROVE  PhaseOf(n) \in [Variant -> Nat]
  BY DEF PhaseOf

-----------------------------------------------------------------------------
\* Calls start one after the other; a signal is remembered for its own run.
LEMMA StepCalling ==
  ASSUME Calling, [Next]_vars
  PROVE  Calling'
<1> USE DEF Calling, arguments, results, signals, call, limits
<1>1. CASE Begin
  BY <1>1 DEF Begin, Return
<1>2. CASE PhaseEnds
  BY <1>2 DEF PhaseEnds, Executing
<1>3. CASE Report
  BY <1>3 DEF Report, Return
<1>4. CASE TakeSuccess
  BY <1>4 DEF TakeSuccess, Executing
<1>5. CASE TakeFailure
  BY <1>5 DEF TakeFailure, Return
<1>6. ASSUME NEW v \in Variant, StartRun(v) PROVE Calling'
  BY <1>6 DEF StartRun, Executing, Call!Start, Forgotten
<1>7. ASSUME NEW v \in Variant, RunRejected(v) PROVE Calling'
  BY <1>7, Codes DEF RunRejected, Executing, Call!Reject
<1>8. CASE RunLives
  BY <1>8 DEF RunLives, Executing, Call!Live
<1>13. CASE ReadSignal
  BY <1>13 DEF ReadSignal
<1>9. CASE RunEnds
  BY <1>9 DEF RunEnds, Call!End, NoSignal, Signal
<1>10. ASSUME NEW s \in Signal, SignalDuringRun(s) PROVE Calling'
  BY <1>10 DEF SignalDuringRun
<1>11. CASE KilledDuringRun \/ KilledBetweenRuns
  BY <1>11 DEF KilledDuringRun, KilledBetweenRuns, Call!Abandon
<1>12. CASE UNCHANGED vars
  BY <1>12 DEF vars
<1> QED
  BY <1>1, <1>2, <1>3, <1>4, <1>5, <1>6, <1>7, <1>8, <1>9, <1>10, <1>11, <1>12, <1>13 DEF Next

\* Each success is one execution of the variant that was run.
LEMMA StepBalance ==
  ASSUME Balance, [Next]_vars
  PROVE  Balance'
<1> USE DEF Balance, arguments, results, limits
<1>1. CASE Begin
  <2>1. CASE pc' = "done"
    BY <1>1, <2>1 DEF Begin, Return
  <2>2. CASE pc' # "done"
    <3>1. /\ pc = "begin" /\ pc' = "warmup" /\ remaining' = PhaseOf(warmup)
          /\ UNCHANGED <<command, repeat, warmup, runs, executed, variant>>
      BY <1>1, <2>2 DEF Begin, Return
    <3>2. remaining' \in [Variant -> Nat] /\ PhaseOf(warmup)' = PhaseOf(warmup)
      BY <3>1, PhaseTypes DEF PhaseOf
    <3> QED
      BY <3>1, <3>2
  <2> QED
    BY <2>1, <2>2
<1>2. CASE PhaseEnds
  <2>1. /\ \A v \in Variant : remaining[v] = 0
        /\ UNCHANGED <<command, repeat, warmup, runs, executed, variant>>
    BY <1>2 DEF PhaseEnds
  <2>2. CASE pc = "warmup"
    <3>1. pc' = "measure" /\ remaining' = PhaseOf(repeat)
      BY <1>2, <2>2 DEF PhaseEnds
    <3>2. /\ remaining' \in [Variant -> Nat]
          /\ \A v \in Variant : PhaseOf(repeat + warmup)[v]
                                  = PhaseOf(repeat)[v] + PhaseOf(warmup)[v]
      BY <3>1, PhaseTypes DEF PhaseOf
    <3>3. /\ PhaseOf(repeat)' = PhaseOf(repeat)
          /\ PhaseOf(repeat + warmup)' = PhaseOf(repeat + warmup)
          /\ \A v \in Variant : executed[v] = PhaseOf(warmup)[v] /\ PhaseOf(warmup)[v] \in Nat
      BY <2>1, <2>2, PhaseTypes DEF PhaseOf
    <3>4. \A v \in Variant :
            /\ Len(runs'[v]) + remaining'[v] = PhaseOf(repeat)[v]
            /\ executed'[v] + remaining'[v] = PhaseOf(repeat + warmup)[v]
      <4> SUFFICES ASSUME NEW v \in Variant
                   PROVE  /\ Len(runs'[v]) + remaining'[v] = PhaseOf(repeat)[v]
                          /\ executed'[v] + remaining'[v] = PhaseOf(repeat + warmup)[v]
        OBVIOUS
      <4>1. PhaseOf(repeat)[v] \in Nat /\ remaining'[v] = PhaseOf(repeat)[v]
        BY <3>1, PhaseTypes
      <4>2. Len(runs'[v]) = 0 /\ executed'[v] = PhaseOf(warmup)[v]
        BY <2>1, <2>2, <3>3
      <4> QED
        BY <3>2, <3>3, <4>1, <4>2
    <3> QED
      BY <2>1, <3>1, <3>2, <3>3, <3>4
  <2>3. CASE pc # "warmup"
    BY <1>2, <2>1, <2>3 DEF PhaseEnds, Executing
  <2> QED
    BY <2>2, <2>3
<1>3. CASE Report \/ TakeFailure
  BY <1>3 DEF Report, TakeFailure, Return
<1>4. CASE TakeSuccess
  <2>1. /\ remaining' = [remaining EXCEPT ![variant] = remaining[variant] - 1]
        /\ executed' = [executed EXCEPT ![variant] = executed[variant] + 1]
        /\ UNCHANGED <<command, repeat, warmup, pc, variant>> /\ pc \in {"warmup", "measure"}
    BY <1>4 DEF TakeSuccess, Executing
  <2>2. PICK result \in RunResults : runs' = [runs EXCEPT ![variant] = Kept(result)]
    BY <1>4 DEF TakeSuccess
  <2>3. \A n : PhaseOf(n)' = PhaseOf(n)
    BY <2>1 DEF PhaseOf
  <2>4. /\ remaining' \in [Variant -> Int] /\ executed' \in [Variant -> Int]
        /\ \A v \in Variant : executed'[v] + remaining'[v] = executed[v] + remaining[v]
    BY <2>1
  <2>5. CASE pc = "warmup"
    <3>1. runs' = runs
      BY <2>2, <2>5 DEF Kept
    <3> QED
      BY <2>1, <2>3, <2>4, <2>5, <3>1 DEF PhaseOf
  <2>6. CASE pc = "measure"
    <3>1. Kept(result) = Append(runs[variant], result)
      BY <2>6 DEF Kept
    <3>2. /\ Kept(result) \in Seq(RunResults)
          /\ Len(Kept(result)) = Len(runs[variant]) + 1
          /\ \A v \in Variant : Len(runs[v]) \in Nat
      BY <3>1
    <3>3. /\ runs' \in [Variant -> Seq(RunResults)]
          /\ \A v \in Variant : Len(runs'[v]) + remaining'[v] = Len(runs[v]) + remaining[v]
      <4>1. runs' \in [Variant -> Seq(RunResults)]
        BY <2>2, <3>2
      <4>2. /\ remaining'[variant] = remaining[variant] - 1
            /\ Len(runs'[variant]) = Len(runs[variant]) + 1
        BY <2>1, <2>2, <3>2
      <4>3. \A v \in Variant \ {variant} : remaining'[v] = remaining[v] /\ runs'[v] = runs[v]
        BY <2>1, <2>2
      <4>4. \A v \in Variant : remaining[v] \in Int
        OBVIOUS
      <4>5. \A v \in Variant : Len(runs'[v]) + remaining'[v] = Len(runs[v]) + remaining[v]
        <5> SUFFICES ASSUME NEW v \in Variant
                     PROVE  Len(runs'[v]) + remaining'[v] = Len(runs[v]) + remaining[v]
          OBVIOUS
        <5>1. CASE v = variant
          BY <3>2, <4>2, <4>4, <5>1
        <5>2. CASE v # variant
          BY <4>3, <5>2
        <5> QED
          BY <5>1, <5>2
      <4> QED
        BY <4>1, <4>5
    <3> QED
      BY <2>1, <2>3, <2>4, <2>6, <3>3 DEF PhaseOf
  <2> QED
    BY <2>1, <2>5, <2>6
<1>5. ASSUME NEW v \in Variant, StartRun(v) \/ RunRejected(v) PROVE Balance'
  BY <1>5 DEF StartRun, RunRejected, PhaseOf
<1>6. CASE RunLives \/ ReadSignal \/ RunEnds
  BY <1>6 DEF RunLives, ReadSignal, RunEnds, PhaseOf
<1>7. ASSUME NEW s \in Signal, SignalDuringRun(s) PROVE Balance'
  BY <1>7 DEF SignalDuringRun, PhaseOf
<1>8. CASE KilledDuringRun \/ KilledBetweenRuns
  BY <1>8 DEF KilledDuringRun, KilledBetweenRuns, PhaseOf
<1>9. CASE UNCHANGED vars
  BY <1>9 DEF vars, PhaseOf
<1> QED
  BY <1>1, <1>2, <1>3, <1>4, <1>5, <1>6, <1>7, <1>8, <1>9 DEF Next

\* How an invocation gets its exit code.
LEMMA Returning ==
  ASSUME Calling, [Next]_vars, pc' = "done" \/ pc' = "report"
  PROVE  \/ /\ pc' = pc
            /\ UNCHANGED <<command, repeat, warmup, limits, exitCode, runs, executed,
                           delivered, alive>>
         \/ Begin \/ TakeFailure \/ Report \/ PhaseEnds
<1> USE DEF Calling, arguments, results, signals, call, limits
<1>1. CASE TakeSuccess \/ RunLives \/ ReadSignal \/ RunEnds \/ KilledDuringRun \/ KilledBetweenRuns
  BY <1>1 DEF TakeSuccess, RunLives, ReadSignal, RunEnds, KilledDuringRun, KilledBetweenRuns,
              Executing, Call!End
<1>2. ASSUME NEW v \in Variant, StartRun(v) \/ RunRejected(v) PROVE FALSE
  BY <1>2 DEF StartRun, RunRejected, Executing
<1>3. ASSUME NEW s \in Signal, SignalDuringRun(s) PROVE FALSE
  BY <1>3 DEF SignalDuringRun
<1>4. CASE UNCHANGED vars
  BY <1>4 DEF vars
<1> QED
  BY <1>1, <1>2, <1>3, <1>4 DEF Next

\* An exit code is that of the last run, or of the report.
LEMMA StepSignalCode ==
  ASSUME Calling, SignalCodeGenuine, [Next]_vars
  PROVE  SignalCodeGenuine'
<1> SUFFICES ASSUME NEW s \in Signal, exitCode' = 128 + SignalNumber[s]
             PROVE  s \in delivered' /\ alive' = {}
  BY DEF SignalCodeGenuine
<1>1. SignalNumber[s] \in {2, 15} /\ 128 + SignalNumber[s] \notin {0, 1, 2, None}
  BY Codes DEF None
<1>2. pc' = "done"
  BY <1>1, StepCalling DEF Calling
<1>3. CASE UNCHANGED <<exitCode, delivered, alive>>
  BY <1>3 DEF SignalCodeGenuine
<1>4. CASE Begin
  BY <1>1, <1>2, <1>4 DEF Begin, Return
<1>5. CASE PhaseEnds
  BY <1>2, <1>5 DEF PhaseEnds
<1>6. CASE Report
  BY <1>1, <1>6, CompareCodes DEF Report, Return
<1>7. CASE TakeFailure
  <2>1. /\ phase = "ended" /\ verdict \in Verdict \ {"success"}
        /\ exitCode' = FailureCode(verdict) /\ UNCHANGED <<delivered, alive>>
    BY <1>7 DEF TakeFailure, Return, Calling, call, signals
  <2>2. PICK t \in Signal : verdict = Interrupted[t] /\ exitCode' = 128 + SignalNumber[t]
    BY <1>1, <2>1, FailureCodes
  <2>3. s = t
    BY <1>1, <2>2, Codes
  <2> QED
    BY <2>1, <2>2, <2>3 DEF Calling
<1> QED
  BY <1>2, <1>3, <1>4, <1>5, <1>6, <1>7, Returning

\* A result is reached only by way of both phases.
LEMMA StepBalanced ==
  ASSUME Calling, Balance, BalancedMeasurement, [Next]_vars
  PROVE  BalancedMeasurement'
<1> SUFFICES ASSUME pc' = "report" \/ (pc' = "done" /\ exitCode' \in {0, 1}),
                    NEW v \in Variant
             PROVE  /\ Len(runs'[v]) = PhaseOf(repeat)'[v]
                    /\ executed'[v] = PhaseOf(repeat + warmup)'[v]
  BY DEF BalancedMeasurement
<1> USE DEF arguments, results, limits
<1>1. CASE /\ pc' = pc
           /\ UNCHANGED <<command, repeat, warmup, limits, exitCode, runs, executed,
                          delivered, alive>>
  BY <1>1 DEF BalancedMeasurement, PhaseOf
<1>2. CASE Begin
  BY <1>2 DEF Begin, Return
<1>3. CASE PhaseEnds
  <2>1. /\ pc = "measure" /\ remaining[v] = 0
        /\ UNCHANGED <<command, repeat, warmup, runs, executed>>
    BY <1>3 DEF PhaseEnds, Executing
  <2>2. Len(runs[v]) \in Nat /\ executed[v] \in Int
    BY DEF Balance
  <2>3. Len(runs[v]) + 0 = PhaseOf(repeat)[v] /\ executed[v] + 0 = PhaseOf(repeat + warmup)[v]
    BY <2>1 DEF Balance
  <2> QED
    BY <2>1, <2>2, <2>3 DEF PhaseOf
<1>4. CASE Report
  BY <1>4 DEF Report, BalancedMeasurement, PhaseOf
<1>5. CASE TakeFailure
  <2>1. verdict \in Verdict \ {"success"} /\ exitCode' = FailureCode(verdict) /\ pc' = "done"
    BY <1>5 DEF TakeFailure, Return, Calling
  <2>2. exitCode' \notin {0, 1}
    BY <2>1, FailureCodes, Codes
  <2> QED
    BY <2>1, <2>2
<1> QED
  BY <1>1, <1>2, <1>3, <1>4, <1>5, Returning

\* Every variable keeps its type.
LEMMA StepTypes ==
  ASSUME TypeOK, Outstanding, Calling, Balance, Balance', [Next]_vars
  PROVE  TypeOK'
<1> USE DEF TypeOK, arguments, results, signals, call, limits
<1>1. runs' \in [Variant -> Seq(RunResults)] /\ variant' \in Variant
  BY DEF Balance
<1>2. CASE Begin
  <2>1. PhaseOf(warmup) \in [Variant -> Nat]
    BY PhaseTypes DEF Balance
  <2> QED
    BY <1>1, <1>2, <2>1, LimitsAssumption DEF Begin, Return
<1>3. CASE PhaseEnds
  <2>1. PhaseOf(repeat) \in [Variant -> Nat]
    BY PhaseTypes DEF Balance
  <2> QED
    BY <1>1, <1>3, <2>1 DEF PhaseEnds
<1>4. CASE Report
  <2>1. exitCode' \in {0, 1, 2}
    BY <1>4, CompareCodes DEF Report, Return
  <2> QED
    BY <1>1, <1>4, <2>1 DEF Report, Return
<1>5. CASE TakeSuccess
  <2>1. remaining[variant] \in Nat /\ remaining[variant] > 0
    BY <1>5 DEF TakeSuccess, Outstanding
  <2>2. remaining' \in [Variant -> Nat] /\ executed' \in [Variant -> Nat]
    BY <1>5, <2>1 DEF TakeSuccess
  <2> QED
    BY <1>1, <1>5, <2>2 DEF TakeSuccess
<1>6. CASE TakeFailure
  <2>1. verdict \in Verdict \ {"success"} /\ exitCode' = FailureCode(verdict)
    BY <1>6 DEF TakeFailure, Return, Calling
  <2>2. FailureCode(verdict) = 2 \/ \E s \in Signal : FailureCode(verdict) = 128 + SignalNumber[s]
    <3> HIDE DEF TypeOK
    <3> QED
      BY <2>1, FailureCodes
  <2>3. ASSUME NEW s \in Signal PROVE 128 + SignalNumber[s] \in {130, 143}
    <3>1. SignalNumber[s] = 2 \/ SignalNumber[s] = 15
      BY Codes
    <3>2. 128 + 2 = 130 /\ 128 + 15 = 143
      OBVIOUS
    <3> QED
      BY <3>1, <3>2, Zenon
  <2>4. exitCode' \in {2, 130, 143}
    BY <2>1, <2>2, <2>3
  <2> QED
    BY <1>1, <1>6, <2>4 DEF TakeFailure, Return
<1>7. ASSUME NEW v \in Variant, StartRun(v) PROVE TypeOK'
  BY <1>1, <1>7 DEF StartRun, Call!Start, Forgotten
<1>8. ASSUME NEW v \in Variant, RunRejected(v) PROVE TypeOK'
  BY <1>1, <1>8 DEF RunRejected, Call!Reject
<1>9. CASE RunLives \/ ReadSignal \/ RunEnds
  BY <1>1, <1>9 DEF RunLives, ReadSignal, RunEnds, Call!Live, Call!End
<1>10. ASSUME NEW s \in Signal, SignalDuringRun(s) PROVE TypeOK'
  BY <1>1, <1>10 DEF SignalDuringRun
<1>11. CASE KilledDuringRun \/ KilledBetweenRuns
  BY <1>1, <1>11 DEF KilledDuringRun, KilledBetweenRuns, Call!Abandon
<1>12. CASE UNCHANGED vars
  BY <1>1, <1>12 DEF vars
<1> QED
  BY <1>2, <1>3, <1>4, <1>5, <1>6, <1>7, <1>8, <1>9, <1>10, <1>11, <1>12 DEF Next

\* A run is started only while executions of its variant remain.
LEMMA StepOutstanding ==
  ASSUME Outstanding, Calling, [Next]_vars
  PROVE  Outstanding'
<1> USE DEF Outstanding, Executing, arguments, results, signals, call, limits
<1>1. CASE Begin
  BY <1>1 DEF Begin, Return, Calling
<1>2. CASE PhaseEnds
  BY <1>2 DEF PhaseEnds
<1>3. CASE Report \/ TakeFailure
  BY <1>3 DEF Report, TakeFailure, Return
<1>4. CASE TakeSuccess
  BY <1>4 DEF TakeSuccess
<1>5. ASSUME NEW v \in Variant, StartRun(v) \/ RunRejected(v) PROVE Outstanding'
  BY <1>5 DEF StartRun, RunRejected
<1>6. CASE RunLives \/ ReadSignal \/ RunEnds
  BY <1>6 DEF RunLives, ReadSignal, RunEnds, Call!Live, Call!End
<1>7. ASSUME NEW s \in Signal, SignalDuringRun(s) PROVE Outstanding'
  BY <1>7 DEF SignalDuringRun
<1>8. CASE KilledDuringRun \/ KilledBetweenRuns
  BY <1>8 DEF KilledDuringRun, KilledBetweenRuns
<1>9. CASE UNCHANGED vars
  BY <1>9 DEF vars
<1> QED
  BY <1>1, <1>2, <1>3, <1>4, <1>5, <1>6, <1>7, <1>8, <1>9 DEF Next

\* Only the report of a comparison answers, and nothing changes afterwards.
LEMMA StepDecided ==
  ASSUME Decided, Calling, TypeOK, [Next]_vars
  PROVE  Decided'
<1> SUFFICES ASSUME exitCode' \in {0, 1} PROVE Decided'
  BY DEF Decided
<1> USE DEF arguments, results, limits
<1>1. pc' = "done"
  BY StepCalling DEF Calling, None
<1>2. CASE /\ pc' = pc
           /\ UNCHANGED <<command, repeat, warmup, limits, exitCode, runs, executed,
                          delivered, alive>>
  BY <1>2 DEF Decided, Answer
<1>3. CASE Begin
  BY <1>1, <1>3 DEF Begin, Return
<1>4. CASE PhaseEnds
  BY <1>1, <1>4 DEF PhaseEnds
<1>5. CASE Report
  <2>1. /\ exitCode' \in {IF command = "run" THEN 0 ELSE CompareCode, 2}
        /\ UNCHANGED <<command, runs, fileLimits, optionLimits>>
    BY <1>5 DEF Report, Return
  <2>2. Answer' = Answer /\ Answer \in {"error", "violations", "pass"}
    BY <2>1 DEF Answer, Evaluate
  <2>3. /\ CompareCode = 0 => Answer = "pass"
        /\ CompareCode = 1 => Answer = "violations"
    BY <2>2 DEF CompareCode
  <2>4. command \in {"run", "compare"}
    BY CommandsAssumption DEF TypeOK
  <2>5. CASE command = "run"
    BY <2>1, <2>5 DEF Decided
  <2>6. CASE command = "compare"
    BY <2>1, <2>2, <2>3, <2>6 DEF Decided
  <2> QED
    BY <2>4, <2>5, <2>6
<1>6. CASE TakeFailure
  <2>1. verdict \in Verdict \ {"success"} /\ exitCode' = FailureCode(verdict)
    BY <1>6 DEF TakeFailure, Return, Calling
  <2>2. exitCode' \notin {0, 1}
    BY <2>1, FailureCodes, Codes
  <2> QED
    BY <2>2
<1> QED
  BY <1>1, <1>2, <1>3, <1>4, <1>5, <1>6, Returning

-----------------------------------------------------------------------------
(* The verdict of a comparison. *)

\* A sorted sample is the sample in another order, and does not decrease.
LEMMA SortedSample ==
  ASSUME NEW n \in Nat, NEW values \in [1 .. n -> Int]
  PROVE  \E p \in Bijection(1 .. n, 1 .. n) :
           /\ Sort(values, <) = [i \in 1 .. n |-> values[p[i]]]
           /\ \A i, j \in 1 .. n : i <= j => values[p[i]] <= values[p[j]]
<1> DEFINE R == {pair \in Int \X Int : pair[1] < pair[2]}
           Ordered(p) == \A i, j \in 1 .. n : i < j => ~(values[p[j]] < values[p[i]])
           order == CHOOSE p \in Bijection(1 .. n, 1 .. n) : Ordered(p)
<1>1. IsOrder(R, Int)
  BY DEF IsOrder
<1>2. PICK p \in Bijection(1 .. n, 1 .. n) : InOrder(p, values, n, R)
  <2> HIDE DEF R
  <2> QED
    BY <1>1, OrderExists
<1>3. Ordered(p)
  <2>1. p \in [1 .. n -> 1 .. n]
    BY DEF Bijection, Injection
  <2>2. \A i, j \in 1 .. n : i < j => <<values[p[j]], values[p[i]]>> \notin R
    BY <1>2 DEF InOrder
  <2>3. \A i \in 1 .. n : values[p[i]] \in Int
    BY <2>1
  <2> QED
    BY <2>2, <2>3
<1>4. order \in Bijection(1 .. n, 1 .. n) /\ Ordered(order)
  <2> HIDE DEF Ordered
  <2> QED
    BY <1>3
<1>5. Sort(values, <) = [i \in 1 .. n |-> values[order[i]]]
  <2>1. DOMAIN values = 1 .. n
    OBVIOUS
  <2> QED
    BY <2>1 DEF Sort
<1>6. \A i, j \in 1 .. n : i <= j => values[order[i]] <= values[order[j]]
  <2> HIDE DEF order
  <2>1. order \in [1 .. n -> 1 .. n]
    BY <1>4 DEF Bijection, Injection
  <2> SUFFICES ASSUME NEW i \in 1 .. n, NEW j \in 1 .. n, i <= j
               PROVE  values[order[i]] <= values[order[j]]
    OBVIOUS
  <2>2. values[order[i]] \in Int /\ values[order[j]] \in Int
    BY <2>1
  <2>3. CASE i = j
    BY <2>2, <2>3
  <2>4. CASE i < j
    BY <1>4, <2>2, <2>4
  <2> QED
    BY <2>3, <2>4
<1> QED
  BY <1>4, <1>5, <1>6, Zenon

\* The places of the first n elements of a list that are in X.
Where(list, n, X) == {i \in 1 .. n : list[i] \in X}

\* Rearranging a sample leaves the number of its elements in a set alone.
LEMMA SameCount ==
  ASSUME NEW n \in Nat, NEW values \in [1 .. n -> Int], NEW X,
         NEW p \in Bijection(1 .. n, 1 .. n), NEW s,
         \A i \in 1 .. n : s[i] = values[p[i]]
  PROVE  Cardinality(Where(values, n, X)) = Cardinality(Where(s, n, X))
<1> DEFINE I == Where(values, n, X)
           J == Where(s, n, X)
           f == [j \in J |-> p[j]]
<1>1. /\ p \in [1 .. n -> 1 .. n]
      /\ \A i, j \in 1 .. n : p[i] = p[j] => i = j
      /\ \A t \in 1 .. n : \E i \in 1 .. n : p[i] = t
  BY DEF Bijection, Injection, Surjection, IsInjective
<1>2. f \in [J -> I]
  BY <1>1 DEF Where
<1>3. ASSUME NEW i \in I PROVE \E j \in J : f[j] = i
  <2>1. i \in 1 .. n /\ values[i] \in X
    BY DEF Where
  <2>2. PICK j \in 1 .. n : p[j] = i
    BY <1>1, <2>1
  <2>3. j \in J
    BY <2>1, <2>2 DEF Where
  <2> QED
    BY <2>2, <2>3
<1>4. \A i, j \in J : f[i] = f[j] => i = j
  BY <1>1 DEF Where
<1>5. ExistsBijection(J, I)
  <2> HIDE DEF f, I, J
  <2>1. f \in Bijection(J, I)
    BY <1>2, <1>3, <1>4 DEF Bijection, Injection, Surjection, IsInjective
  <2> QED
    BY <2>1 DEF ExistsBijection
<1>6. IsFiniteSet(J)
  <2>1. IsFiniteSet(1 .. n)
    BY FS_Interval
  <2>2. J \in SUBSET (1 .. n)
    BY DEF Where
  <2> QED
    BY <2>1, <2>2, FS_Subset
<1> QED
  BY <1>5, <1>6, FS_Bijection

\* A set of indices that holds all from a to b, or only such, counts as many.
LEMMA CountBounds ==
  ASSUME NEW n \in Nat, NEW I \in SUBSET (1 .. n), NEW a \in Int, NEW b \in Int, a <= b + 1
  PROVE  /\ a .. b \subseteq I => Cardinality(I) >= b - a + 1
         /\ I \subseteq a .. b => Cardinality(I) <= b - a + 1
<1>1. IsFiniteSet(1 .. n) /\ IsFiniteSet(a .. b) /\ Cardinality(a .. b) = b - a + 1
  BY FS_Interval
<1>2. IsFiniteSet(I) /\ Cardinality(I) \in Nat
  BY <1>1, FS_Subset, FS_CardinalityType
<1>3. a .. b \subseteq I => Cardinality(a .. b) <= Cardinality(I)
  BY <1>2, FS_Subset
<1>4. I \subseteq a .. b => Cardinality(I) <= Cardinality(a .. b)
  BY <1>1, FS_Subset
<1> QED
  BY <1>1, <1>2, <1>3, <1>4

\* In a sorted sample s, the h-th element is the smallest that half of the
\* sample does not exceed, for h = n / 2 rounded up.
LEMMA LowerMiddle ==
  ASSUME NEW n \in Nat \ {0}, NEW s \in [1 .. n -> Int],
         \A i, j \in 1 .. n : i <= j => s[i] <= s[j],
         NEW h \in 1 .. n, 2 * h >= n, 2 * (h - 1) < n
  PROVE  /\ 2 * Cardinality({j \in 1 .. n : s[j] <= s[h]}) >= n
         /\ \A x \in Int : 2 * Cardinality({j \in 1 .. n : s[j] <= x}) >= n => s[h] <= x
<1> DEFINE J(x) == {j \in 1 .. n : s[j] <= x}
<1>1. \A x : J(x) \in SUBSET (1 .. n)
  OBVIOUS
<1>2. 1 .. h \subseteq J(s[h])
  OBVIOUS
<1>3. ASSUME NEW x \in Int, x < s[h] PROVE J(x) \subseteq 1 .. h - 1
  <2> SUFFICES ASSUME NEW j \in 1 .. n, s[j] <= x, h <= j PROVE FALSE
    OBVIOUS
  <2>1. s[h] <= s[j] /\ s[h] \in Int /\ s[j] \in Int
    OBVIOUS
  <2> QED
    BY <1>3, <2>1
<1> HIDE DEF J
<1>4. ASSUME NEW x PROVE Cardinality(J(x)) \in Nat
  <2>1. IsFiniteSet(1 .. n)
    BY FS_Interval
  <2>2. IsFiniteSet(J(x))
    BY <1>1, <2>1, FS_Subset
  <2> QED
    BY <2>2, FS_CardinalityType
<1>5. Cardinality(J(s[h])) >= h - 1 + 1
  <2>1. n \in Nat /\ J(s[h]) \in SUBSET (1 .. n) /\ 1 \in Int /\ h \in Int /\ 1 <= h + 1
    BY <1>1
  <2> QED
    BY <1>2, <2>1, CountBounds
<1>6. ASSUME NEW x \in Int, x < s[h] PROVE Cardinality(J(x)) <= h - 1 - 1 + 1
  <2>1. J(x) \subseteq 1 .. h - 1
    BY <1>3, <1>6
  <2>2. /\ n \in Nat /\ J(x) \in SUBSET (1 .. n)
        /\ 1 \in Int /\ h - 1 \in Int /\ 1 <= h - 1 + 1
    BY <1>1
  <2> QED
    BY <2>1, <2>2, CountBounds
<1>7. 2 * Cardinality(J(s[h])) >= n
  BY <1>4, <1>5
<1>8. ASSUME NEW x \in Int, 2 * Cardinality(J(x)) >= n PROVE s[h] <= x
  <2>1. ~(x < s[h])
    BY <1>4, <1>6, <1>8
  <2> QED
    BY <2>1
<1> QED
  BY <1>7, <1>8 DEF J

\* The g-th element is the largest that half of the sample reaches, for
\* g = n / 2 rounded down, plus one.
LEMMA UpperMiddle ==
  ASSUME NEW n \in Nat \ {0}, NEW s \in [1 .. n -> Int],
         \A i, j \in 1 .. n : i <= j => s[i] <= s[j],
         NEW g \in 1 .. n, 2 * (n - g + 1) >= n, 2 * (n - g) < n
  PROVE  /\ 2 * Cardinality({j \in 1 .. n : s[j] >= s[g]}) >= n
         /\ \A x \in Int : 2 * Cardinality({j \in 1 .. n : s[j] >= x}) >= n => s[g] >= x
<1> DEFINE J(x) == {j \in 1 .. n : s[j] >= x}
<1>1. \A x : J(x) \in SUBSET (1 .. n)
  OBVIOUS
<1>2. g .. n \subseteq J(s[g])
  OBVIOUS
<1>3. ASSUME NEW x \in Int, x > s[g] PROVE J(x) \subseteq g + 1 .. n
  <2> SUFFICES ASSUME NEW j \in 1 .. n, s[j] >= x, j <= g PROVE FALSE
    OBVIOUS
  <2>1. s[j] <= s[g] /\ s[g] \in Int /\ s[j] \in Int
    OBVIOUS
  <2> QED
    BY <1>3, <2>1
<1> HIDE DEF J
<1>4. ASSUME NEW x PROVE Cardinality(J(x)) \in Nat
  <2>1. IsFiniteSet(1 .. n)
    BY FS_Interval
  <2>2. IsFiniteSet(J(x))
    BY <1>1, <2>1, FS_Subset
  <2> QED
    BY <2>2, FS_CardinalityType
<1>5. Cardinality(J(s[g])) >= n - g + 1
  <2>1. n \in Nat /\ J(s[g]) \in SUBSET (1 .. n) /\ g \in Int /\ n \in Int /\ g <= n + 1
    BY <1>1
  <2> QED
    BY <1>2, <2>1, CountBounds
<1>6. ASSUME NEW x \in Int, x > s[g] PROVE Cardinality(J(x)) <= n - (g + 1) + 1
  <2>1. J(x) \subseteq g + 1 .. n
    BY <1>3, <1>6
  <2>2. /\ n \in Nat /\ J(x) \in SUBSET (1 .. n)
        /\ g + 1 \in Int /\ n \in Int /\ g + 1 <= n + 1
    BY <1>1
  <2> QED
    BY <2>1, <2>2, CountBounds
<1>7. 2 * Cardinality(J(s[g])) >= n
  BY <1>4, <1>5
<1>8. ASSUME NEW x \in Int, 2 * Cardinality(J(x)) >= n PROVE s[g] >= x
  <2>1. ~(x > s[g])
    BY <1>4, <1>6, <1>8
  <2> QED
    BY <2>1
<1> QED
  BY <1>7, <1>8 DEF J

\* The median that the sort finds is the median by rank.
LEMMA MedianByRank ==
  ASSUME NEW values \in Seq(Int), values # <<>>
  PROVE  MedianTwice(values) = RankMedianTwice(values)
<1>1. PICK n \in Nat \ {0} : n = Len(values)
  OBVIOUS
<1>2. DOMAIN values = 1 .. n /\ values \in [1 .. n -> Int]
  BY <1>1
<1>3. PICK p \in Bijection(1 .. n, 1 .. n) :
        /\ Sort(values, <) = [i \in 1 .. n |-> values[p[i]]]
        /\ \A i, j \in 1 .. n : i <= j => values[p[i]] <= values[p[j]]
  <2>1. n \in Nat /\ values \in [1 .. n -> Int]
    BY <1>2
  <2> QED
    BY <2>1, SortedSample, Zenon
<1> DEFINE s == [i \in 1 .. n |-> values[p[i]]]
           lower == {x \in Range(values) : 2 * Cardinality({i \in 1 .. n : values[i] <= x}) >= n}
           upper == {x \in Range(values) : 2 * Cardinality({i \in 1 .. n : values[i] >= x}) >= n}
<1>4. MedianTwice(values) = IF n % 2 = 0 THEN s[n \div 2] + s[n \div 2 + 1]
                                         ELSE 2 * s[n \div 2 + 1]
  <2> HIDE DEF s
  <2>1. Sort(values, <) = s
    BY <1>3, Zenon DEF s
  <2> QED
    BY <1>1, <2>1, Zenon DEF MedianTwice
<1>5. RankMedianTwice(values) = Min(lower) + Max(upper)
  BY <1>1, <1>2 DEF RankMedianTwice
<1>6. PICK h \in 1 .. n, g \in 1 .. n :
        /\ g = n \div 2 + 1 /\ 2 * h >= n /\ 2 * (h - 1) < n
        /\ 2 * (n - g + 1) >= n /\ 2 * (n - g) < n
        /\ n % 2 = 0 => h = n \div 2
        /\ n % 2 # 0 => h = g
  <2>1. /\ (n + 1) \div 2 \in 1 .. n /\ n \div 2 + 1 \in 1 .. n
        /\ 2 * ((n + 1) \div 2) >= n /\ 2 * ((n + 1) \div 2 - 1) < n
        /\ 2 * (n - (n \div 2 + 1) + 1) >= n /\ 2 * (n - (n \div 2 + 1)) < n
        /\ n % 2 = 0 => (n + 1) \div 2 = n \div 2
        /\ n % 2 # 0 => (n + 1) \div 2 = n \div 2 + 1
    OBVIOUS
  <2> QED
    BY <2>1
<1>7. p \in [1 .. n -> 1 .. n] /\ \A i \in 1 .. n : \E j \in 1 .. n : p[j] = i
  BY DEF Bijection, Injection, Surjection
<1>8. /\ s \in [1 .. n -> Int]
      /\ \A i, j \in 1 .. n : i <= j => s[i] <= s[j]
      /\ \A i \in 1 .. n : s[i] = values[p[i]]
  BY <1>2, <1>3, <1>7
<1> HIDE DEF s
<1>9. \A x \in Int :
        /\ Cardinality({i \in 1 .. n : values[i] <= x}) = Cardinality({j \in 1 .. n : s[j] <= x})
        /\ Cardinality({i \in 1 .. n : values[i] >= x}) = Cardinality({j \in 1 .. n : s[j] >= x})
  <2> SUFFICES ASSUME NEW x \in Int
               PROVE  /\ Cardinality({i \in 1 .. n : values[i] <= x})
                            = Cardinality({j \in 1 .. n : s[j] <= x})
                      /\ Cardinality({i \in 1 .. n : values[i] >= x})
                            = Cardinality({j \in 1 .. n : s[j] >= x})
    OBVIOUS
  <2> DEFINE X == {y \in Int : y <= x}
             Y == {y \in Int : y >= x}
  <2>1. /\ Cardinality(Where(values, n, X)) = Cardinality(Where(s, n, X))
        /\ Cardinality(Where(values, n, Y)) = Cardinality(Where(s, n, Y))
    <3>1. /\ n \in Nat /\ values \in [1 .. n -> Int] /\ p \in Bijection(1 .. n, 1 .. n)
          /\ \A i \in 1 .. n : s[i] = values[p[i]]
      BY <1>2, <1>8
    <3> HIDE DEF X, Y
    <3> QED
      BY <3>1, SameCount
  <2>2. /\ {i \in 1 .. n : values[i] <= x} = Where(values, n, X)
        /\ {i \in 1 .. n : values[i] >= x} = Where(values, n, Y)
    BY <1>2 DEF Where
  <2>3. /\ {j \in 1 .. n : s[j] <= x} = Where(s, n, X)
        /\ {j \in 1 .. n : s[j] >= x} = Where(s, n, Y)
    BY <1>8 DEF Where
  <2> QED
    BY <2>1, <2>2, <2>3
<1>10. Range(values) \subseteq Int /\ \A i \in 1 .. n : s[i] \in Range(values)
  BY <1>2, <1>7, <1>8 DEF Range
<1>11. s[h] \in lower /\ \A x \in lower : s[h] <= x
  <2>1. /\ 2 * Cardinality({j \in 1 .. n : s[j] <= s[h]}) >= n
        /\ \A x \in Int : 2 * Cardinality({j \in 1 .. n : s[j] <= x}) >= n => s[h] <= x
    BY <1>6, <1>8, LowerMiddle
  <2> QED
    BY <1>8, <1>9, <1>10, <2>1
<1>12. s[g] \in upper /\ \A x \in upper : s[g] >= x
  <2>1. /\ 2 * Cardinality({j \in 1 .. n : s[j] >= s[g]}) >= n
        /\ \A x \in Int : 2 * Cardinality({j \in 1 .. n : s[j] >= x}) >= n => s[g] >= x
    BY <1>6, <1>8, UpperMiddle
  <2> QED
    BY <1>8, <1>9, <1>10, <2>1
<1>13. Min(lower) = s[h] /\ Max(upper) = s[g]
  <2>1. lower \subseteq Int /\ upper \subseteq Int
    BY <1>10
  <2> HIDE DEF lower, upper
  <2>2. ASSUME NEW x \in lower, \A y \in lower : x <= y PROVE x = s[h]
    <3>1. x \in Int /\ s[h] \in Int /\ x <= s[h] /\ s[h] <= x
      BY <1>8, <1>11, <2>1, <2>2
    <3> QED
      BY <3>1
  <2>3. ASSUME NEW x \in upper, \A y \in upper : x >= y PROVE x = s[g]
    <3>1. x \in Int /\ s[g] \in Int /\ x >= s[g] /\ s[g] >= x
      BY <1>8, <1>12, <2>1, <2>3
    <3> QED
      BY <3>1
  <2> QED
    BY <1>11, <1>12, <2>2, <2>3 DEF Min, Max
<1> HIDE DEF lower, upper
<1> QED
  BY <1>4, <1>5, <1>6, <1>8, <1>13

\* The median of natural numbers is one, and no larger than the largest.
LEMMA MedianBounded ==
  ASSUME NEW bound \in Nat, NEW values \in Seq(0 .. bound), values # <<>>
  PROVE  MedianTwice(values) \in 0 .. 2 * bound
<1>1. PICK n \in Nat \ {0} : n = Len(values)
  OBVIOUS
<1>2. values \in [1 .. n -> 0 .. bound] /\ values \in [1 .. n -> Int] /\ n \in Nat
  BY <1>1
<1>3. PICK p \in Bijection(1 .. n, 1 .. n) : Sort(values, <) = [i \in 1 .. n |-> values[p[i]]]
  <2>1. n \in Nat /\ values \in [1 .. n -> Int]
    BY <1>2
  <2>2. \E p \in Bijection(1 .. n, 1 .. n) :
          /\ Sort(values, <) = [i \in 1 .. n |-> values[p[i]]]
          /\ \A i, j \in 1 .. n : i <= j => values[p[i]] <= values[p[j]]
    BY <2>1, SortedSample, Zenon
  <2> QED
    BY <2>2, Zenon
<1> DEFINE s == [i \in 1 .. n |-> values[p[i]]]
<1>4. s \in [1 .. n -> 0 .. bound]
  BY <1>2 DEF Bijection, Injection
<1> HIDE DEF s
<1>5. MedianTwice(values) = IF n % 2 = 0 THEN s[n \div 2] + s[n \div 2 + 1]
                                         ELSE 2 * s[n \div 2 + 1]
  <2>1. Sort(values, <) = s
    BY <1>3, Zenon DEF s
  <2> QED
    BY <1>1, <2>1, Zenon DEF MedianTwice
<1>6. n \div 2 + 1 \in 1 .. n /\ (n % 2 = 0 => n \div 2 \in 1 .. n)
  <2>1. n \div 2 \in Nat /\ 2 * (n \div 2) <= n /\ n \div 2 + 1 <= n
    OBVIOUS
  <2>2. n % 2 = 0 => n \div 2 >= 1
    OBVIOUS
  <2> QED
    BY <2>1, <2>2
<1>7. \A i \in 1 .. n : s[i] \in 0 .. bound
  BY <1>4
<1>8. s[n \div 2 + 1] \in 0 .. bound /\ (n % 2 = 0 => s[n \div 2] \in 0 .. bound)
  BY <1>6, <1>7
<1>9. CASE n % 2 = 0
  BY <1>5, <1>8, <1>9
<1>10. CASE n % 2 # 0
  BY <1>5, <1>8, <1>10
<1> QED
  BY <1>9, <1>10

\* The doubles that occur: 2 ^ Precision is large, and twice half of it.
LEMMA Doubles ==
  /\ Precision \in Nat \ {0} /\ 2 ^ Precision \in Nat /\ 2 ^ Precision >= 400
  /\ 2 ^ (Precision - 1) \in Nat /\ 2 * 2 ^ (Precision - 1) = 2 ^ Precision
  /\ 2 ^ (2 * Precision) = 2 ^ Precision * 2 ^ Precision
<1>1. /\ Precision \in Nat /\ Precision >= 9 /\ Precision - 1 \in Nat
      /\ (Precision - 1) + 1 = Precision /\ Precision + Precision = 2 * Precision
  BY PrecisionAssumption
<1>2. 2 ^ 9 = 512
  <2>1. 2 ^ (3 + 3) = 8 * 8 /\ 2 ^ ((3 + 3) + 3) = (8 * 8) * 8
    BY SmallPowers, PowerAdds, 3 \in Nat, 3 + 3 \in Nat
  <2>2. (3 + 3) + 3 = 9 /\ (8 * 8) * 8 = 512
    OBVIOUS
  <2> QED
    BY <2>1, <2>2
<1>3. 2 ^ 9 <= 2 ^ Precision
  BY <1>1, PowersGrow, 9 \in Nat
<1>4. 2 ^ Precision \in Nat /\ 2 ^ (Precision - 1) \in Nat
  BY <1>1, PowerType
<1>5. 2 * 2 ^ (Precision - 1) = 2 ^ Precision
  BY <1>1, PowerDoubles
<1>6. 2 ^ (2 * Precision) = 2 ^ Precision * 2 ^ Precision
  BY <1>1, PowerAdds
<1> QED
  BY <1>1, <1>2, <1>3, <1>4, <1>5, <1>6

\* A run's value of a metric is a number of which a double holds the double,
\* or it is missing.
LEMMA ExtractTypes ==
  ASSUME NEW run \in RunResults, NEW m \in Metric
  PROVE  Extract(run, m) \in (0 .. 2 ^ (Precision - 1)) \cup {NoValue}
<1>1. /\ run.wallTime \in Nat /\ run.maxRss \in Nat /\ run.cpuTime \in Nat
      /\ run.throughput \in Nat \cup {NoValue} /\ run.p99 \in Nat \cup {NoValue}
      /\ run.operations \in Nat \cup {NoValue}
  BY RunResultsAssumption DEF RunResult
<1>2. run.operations \notin {NoValue, 0} =>
        (run.cpuTime * OperationsMultiple) \div run.operations \in Nat
  BY <1>1, OperationsAssumption
<1>3. Extract(run, m) \in Nat \cup {NoValue}
  BY <1>1, <1>2 DEF Extract, Metric
<1>4. Extract(run, m) # NoValue => Extract(run, m) <= 2 ^ (Precision - 1)
  BY MeasurementsAssumption
<1> QED
  BY <1>3, <1>4, Doubles

\* A summary that exists is the median by rank of a value from every run.
LEMMA SummaryByRank ==
  ASSUME NEW measured \in Seq(RunResults), measured # <<>>, NEW m \in Metric,
         Summary(measured, m) # NoValue
  PROVE  /\ \A i \in DOMAIN measured : Extract(measured[i], m) # NoValue
         /\ Summary(measured, m) \in 0 .. 2 ^ Precision
         /\ Summary(measured, m)
              = RankMedianTwice([i \in DOMAIN measured |-> Extract(measured[i], m)])
<1> DEFINE values == [i \in DOMAIN measured |-> Extract(measured[i], m)]
           bound == 2 ^ (Precision - 1)
<1>1. \A i \in DOMAIN measured : values[i] \in (0 .. bound) \cup {NoValue}
  BY ExtractTypes
<1>2. /\ ~\E i \in DOMAIN values : values[i] = NoValue
      /\ Summary(measured, m) = MedianTwice(values)
  BY DEF Summary
<1>3. /\ DOMAIN values = 1 .. Len(measured) /\ Len(measured) \in Nat \ {0}
      /\ \A i \in 1 .. Len(measured) : values[i] \in 0 .. bound
  BY <1>1, <1>2
<1>4. \A i \in DOMAIN measured : Extract(measured[i], m) # NoValue
  BY <1>2
<1>5. values = [i \in 1 .. Len(measured) |-> values[i]]
  OBVIOUS
<1>6. bound \in Nat /\ 2 * bound = 2 ^ Precision
  BY Doubles
<1> HIDE DEF values, bound
<1>7. values \in Seq(0 .. bound) /\ values \in Seq(Int) /\ values # <<>>
  <2>1. values \in [1 .. Len(measured) -> 0 .. bound]
    BY <1>3, <1>5
  <2>2. values \in [1 .. Len(measured) -> Int]
    BY <2>1
  <2>3. \A S : values \in [1 .. Len(measured) -> S] => values \in Seq(S)
    BY <1>3
  <2>4. values # <<>>
    BY <1>3
  <2> QED
    BY <2>1, <2>2, <2>3, <2>4
<1>8. MedianTwice(values) \in 0 .. 2 * bound
  BY <1>6, <1>7, MedianBounded
<1> QED
  BY <1>2, <1>4, <1>6, <1>7, <1>8, MedianByRank DEF values

\* The limits in force: those of the command line, and of the file where the
\* command line has none.
LEMMA LimitsInForce ==
  LET inForce == Overridden(fileLimits, optionLimits)
  IN UserLimits = {<<m, inForce[m]>> : m \in {k \in Metric : inForce[k] # NoValue}}
  BY DEF UserLimits, Overridden

\* What rounding does to a fraction it does to its multiples.
LEMMA WithinScaled ==
  ASSUME NEW a \in Nat, NEW b \in Nat, NEW c \in Nat, NEW d \in Nat, NEW k \in Nat,
         Within(a, b, c, d, k, Precision), NEW x \in Nat
  PROVE  /\ Within(a, b * x, c, d * x, k, Precision)
         /\ Within(a * x, b, c * x, d, k, Precision)
<1> DEFINE H == 2 ^ Precision
           K == H - k
<1>1. H \in Nat /\ K \in Int
  BY Doubles
<1>2. K * (a * d) <= H * (c * b) /\ K * (c * b) <= H * (a * d)
  BY DEF Within
<1> HIDE DEF H, K
<1>3. /\ (K * (a * d)) * x <= (H * (c * b)) * x
      /\ (K * (c * b)) * x <= (H * (a * d)) * x
  <2>1. \A z \in Nat, u, v \in Int : u <= v => u * z <= v * z
    OBVIOUS
  <2>2. /\ K * (a * d) \in Int /\ H * (c * b) \in Int
        /\ K * (c * b) \in Int /\ H * (a * d) \in Int
    BY <1>1
  <2> QED
    BY <1>2, <2>1, <2>2
<1>4. /\ (K * (a * d)) * x = K * (a * (d * x)) /\ (H * (c * b)) * x = H * (c * (b * x))
      /\ (K * (c * b)) * x = K * (c * (b * x)) /\ (H * (a * d)) * x = H * (a * (d * x))
  BY <1>1
<1>5. /\ (K * (a * d)) * x = K * ((a * x) * d) /\ (H * (c * b)) * x = H * ((c * x) * b)
      /\ (K * (c * b)) * x = K * ((c * x) * b) /\ (H * (a * d)) * x = H * ((a * x) * d)
  BY <1>1
<1>6. Within(a, b * x, c, d * x, k, Precision)
  BY <1>3, <1>4 DEF Within, H, K
<1>7. Within(a * x, b, c * x, d, k, Precision)
  BY <1>3, <1>5 DEF Within, H, K
<1> QED
  BY <1>6, <1>7

\* Each of the three operations of percentChange is in range of a double.
LEMMA DoubleRounds ==
  ASSUME NEW a \in Nat \ {0}, NEW b \in Nat \ {0},
         b <= a * 2 ^ Precision, a <= b * (2 ^ Precision * 2 ^ Precision)
  PROVE  \E c \in Nat \ {0}, d \in Nat \ {0} :
           Double(<<a, b>>) = <<c, d>> /\ Near(a, b, c, d, Precision)
                                       /\ Within(a, b, c, d, 1, Precision)
<1>1. InRange(a, b, Precision) /\ Precision \in Nat \ {0} /\ 2 ^ Precision \in Nat
      /\ 2 ^ Precision >= 400
  BY Doubles DEF InRange
<1>2. PICK c \in Nat, d \in Nat \ {0} : Round(<<a, b>>, Precision) = <<c, d>>
                                        /\ Near(a, b, c, d, Precision)
  BY <1>1, Rounded
<1>3. Within(a, b, c, d, 1, Precision)
  BY <1>1, <1>2, NearIsWithin
<1>4. c # 0
  <2> DEFINE H == 2 ^ Precision
  <2>1. (H - 1) * (a * d) <= H * (c * b) /\ H \in Nat /\ H >= 400
    BY <1>1, <1>3 DEF Within
  <2> HIDE DEF H
  <2>2. \A x, y \in Nat \ {0} : x * y \in Nat \ {0}
    OBVIOUS
  <2>3. (H - 1) * (a * d) >= 1
    <3>1. H - 1 \in Nat \ {0} /\ a * d \in Nat \ {0}
      BY <2>1, <2>2
    <3>2. (H - 1) * (a * d) \in Nat \ {0}
      BY <2>2, <3>1
    <3> QED
      BY <3>2
  <2>4. ASSUME c = 0 PROVE FALSE
    <3>1. H * (c * b) = 0
      BY <2>1, <2>4
    <3> QED
      BY <2>1, <2>3, <3>1
  <2> QED
    BY <2>4
<1> QED
  BY <1>2, <1>3, <1>4 DEF Double

\* percentChange is within three roundings of the change.
LEMMA PercentWithin ==
  ASSUME NEW w \in Nat \ {0}, NEW b \in Nat \ {0}, w <= 2 ^ Precision, b <= 2 ^ Precision
  PROVE  \E r \in Nat \ {0}, g \in Nat \ {0} :
           PercentOf(w, b) = <<r, g>> /\ Within(w * 100, b, r, g, 3, Precision)
<1> DEFINE H == 2 ^ Precision
<1>1. H \in Nat /\ H >= 400 /\ w <= H /\ b <= H /\ Precision \in Nat
  BY Doubles
<1>2. 1 <= w * H /\ w <= 1 * (H * H)
  <2> HIDE DEF H
  <2>1. 1 <= w * H /\ H <= H * H
    BY <1>1
  <2> QED
    BY <1>1, <2>1
<1>3. PICK w1 \in Nat \ {0}, d1 \in Nat \ {0} :
        /\ Double(<<w, 1>>) = <<w1, d1>>
        /\ Near(w, 1, w1, d1, Precision) /\ Within(w, 1, w1, d1, 1, Precision)
  BY <1>2, DoubleRounds, 1 \in Nat \ {0}
<1>4. Within(w, b, w1, d1 * b, 1, Precision)
  <2>1. Within(w, 1 * b, w1, d1 * b, 1, Precision)
    BY <1>3, WithinScaled, 1 \in Nat
  <2> QED
    BY <2>1
<1>5. d1 <= w1 /\ (H - 1) * w1 <= H * (w * d1)
  <2>1. d1 <= w1
    <3>1. w * 1 <= w => w * d1 <= w1
      <4>1. /\ Precision \in Nat \ {0} /\ w \in Nat /\ 1 \in Nat /\ w1 \in Nat /\ d1 \in Nat
            /\ w <= 2 ^ Precision /\ Near(w, 1, w1, d1, Precision)
        BY <1>3, Doubles
      <4> QED
        BY <4>1, Sides, Zenon
    <3>2. d1 <= w * d1 /\ w * 1 = w
      OBVIOUS
    <3> QED
      BY <3>1, <3>2
  <2>2. (H - 1) * (w1 * 1) <= H * (w * d1)
    BY <1>3 DEF Within
  <2> QED
    BY <2>1, <2>2
<1>6. d1 * b <= w1 * H /\ w1 <= (2 * H) * d1 /\ w1 <= (d1 * b) * (H * H)
  <2> HIDE DEF H
  <2>1. d1 * b <= d1 * H /\ d1 * H <= w1 * H
    BY <1>1, <1>5
  <2>2. w1 <= 2 * (w * d1)
    <3>1. H * w1 <= 2 * ((H - 1) * w1)
      BY <1>1
    <3>2. w1 * H <= (2 * (w * d1)) * H
      <4>1. (H - 1) * w1 \in Int /\ H * (w * d1) \in Int /\ H * w1 \in Int
        BY <1>1
      <4>2. (2 * (w * d1)) * H = 2 * (H * (w * d1)) /\ w1 * H = H * w1
        BY <1>1
      <4> QED
        BY <1>5, <3>1, <4>1, <4>2
    <3> QED
      BY <1>1, <3>2, Scaled, 2 * (w * d1) \in Int, w1 \in Int, H \in Nat \ {0}
  <2>3. w * d1 <= H * d1 /\ w * d1 \in Int /\ H * d1 \in Int
    BY <1>1, Scaled
  <2>4. w1 <= (2 * H) * d1
    <3>1. (2 * H) * d1 = 2 * (H * d1)
      BY <1>1
    <3> QED
      BY <2>2, <2>3, <3>1
  <2>5. (2 * H) * d1 <= (H * H) * (d1 * b)
    <3>1. 2 * H <= H * H /\ d1 <= d1 * b /\ d1 * b \in Nat /\ 2 * H \in Nat /\ H * H \in Nat
      BY <1>1
    <3>2. \A x, y, z, t \in Nat : x <= y /\ z <= t => x * z <= y * t
      OBVIOUS
    <3> QED
      BY <3>1, <3>2
  <2>6. (H * H) * (d1 * b) = (d1 * b) * (H * H) /\ (2 * H) * d1 \in Int
        /\ (d1 * b) * (H * H) \in Int /\ d1 * b \in Int /\ d1 * H \in Int /\ w1 * H \in Int
    BY <1>1
  <2> QED
    BY <2>1, <2>4, <2>5, <2>6
<1>7. PICK q \in Nat \ {0}, f \in Nat \ {0} :
        /\ Double(<<w1, d1 * b>>) = <<q, f>>
        /\ Near(w1, d1 * b, q, f, Precision) /\ Within(w1, d1 * b, q, f, 1, Precision)
  BY <1>6, DoubleRounds, d1 * b \in Nat \ {0}
<1>8. Within(w, b, q, f, 2, Precision)
  <2>1. /\ 1 + 1 <= 2 ^ Precision /\ 1 \in Nat /\ Precision \in Nat /\ 1 + 1 = 2
        /\ w \in Nat /\ b \in Nat /\ w1 \in Nat \ {0} /\ d1 * b \in Nat \ {0}
        /\ q \in Nat /\ f \in Nat
    BY <1>1
  <2>2. Within(w, b, q, f, 1 + 1, Precision)
    BY <1>4, <1>7, <2>1, RoundingsAddUp, Zenon
  <2> QED
    BY <2>1, <2>2
<1>9. f <= (q * 100) * H /\ q * 100 <= f * (H * H)
  <2>1. (H - 2) * (w * f) <= H * (q * b) /\ (H - 1) * (q * (d1 * b)) <= H * (w1 * f)
    BY <1>7, <1>8 DEF Within
  <2> HIDE DEF H
  <2>2. f <= (q * 100) * H
    <3>1. (H - 2) * f <= (H - 2) * (w * f)
      <4>1. f <= w * f /\ w * f \in Int /\ H - 2 \in Nat
        BY <1>1
      <4> QED
        BY <4>1
    <3>2. H * (q * b) <= H * (q * H)
      <4>1. q * b <= q * H /\ q * b \in Int /\ q * H \in Int
        BY <1>1
      <4> QED
        BY <1>1, <4>1
    <3>3. H * f <= 2 * ((H - 2) * f)
      BY <1>1
    <3>4. f * H <= (2 * (q * H)) * H
      <4>1. (2 * (q * H)) * H = 2 * (H * (q * H)) /\ f * H = H * f
        BY <1>1
      <4>2. /\ H * f \in Int /\ (H - 2) * f \in Int /\ (H - 2) * (w * f) \in Int
            /\ H * (q * b) \in Int /\ H * (q * H) \in Int
        BY <1>1
      <4> QED
        BY <2>1, <3>1, <3>2, <3>3, <4>1, <4>2
    <3>5. f <= 2 * (q * H)
      BY <1>1, <3>4, Scaled, f \in Int, 2 * (q * H) \in Int, H \in Nat \ {0}
    <3>6. (q * 100) * H = 100 * (q * H) /\ q * H \in Nat
      BY <1>1
    <3> QED
      BY <3>5, <3>6
  <2>3. q * 100 <= f * (H * H)
    <3>1. (H - 1) * (q * d1) <= H * ((2 * H) * d1 * f)
      <4>1. q * d1 <= q * (d1 * b) /\ q * d1 \in Nat /\ q * (d1 * b) \in Nat /\ H - 1 \in Nat
        <5>1. d1 <= d1 * b
          OBVIOUS
        <5> QED
          BY <1>1, <5>1
      <4>2. (H - 1) * (q * d1) <= (H - 1) * (q * (d1 * b))
        <5>1. \A x \in Nat, y, z \in Int : y <= z => x * y <= x * z
          OBVIOUS
        <5> QED
          BY <4>1, <5>1
      <4>3. w1 * f <= ((2 * H) * d1) * f /\ w1 * f \in Int /\ ((2 * H) * d1) * f \in Int
        BY <1>1, <1>6, Scaled, (2 * H) * d1 \in Int, w1 \in Int
      <4>4. H * (w1 * f) <= H * (((2 * H) * d1) * f)
        <5>1. \A x \in Nat, y, z \in Int : y <= z => x * y <= x * z
          OBVIOUS
        <5> QED
          BY <1>1, <4>3, <5>1
      <4>5. /\ (H - 1) * (q * d1) \in Int /\ (H - 1) * (q * (d1 * b)) \in Int
            /\ H * (w1 * f) \in Int /\ H * (((2 * H) * d1) * f) \in Int
        BY <1>1, <4>1, <4>3
      <4> QED
        BY <2>1, <4>2, <4>4, <4>5
    <3>2. H * (q * d1) <= 2 * ((H - 1) * (q * d1))
      <4>1. q * d1 \in Nat
        OBVIOUS
      <4> DEFINE z == q * d1
      <4> HIDE DEF z
      <4>2. z \in Nat => H * z <= 2 * ((H - 1) * z)
        BY <1>1
      <4> QED
        BY <4>1, <4>2 DEF z
    <3>3. q * (H * d1) <= ((4 * H) * f) * (H * d1)
      <4>1. /\ q * (H * d1) = H * (q * d1)
            /\ ((4 * H) * f) * (H * d1) = 2 * (H * ((2 * H) * d1 * f))
        BY <1>1
      <4>2. /\ H * (q * d1) \in Int /\ (H - 1) * (q * d1) \in Int
            /\ H * ((2 * H) * d1 * f) \in Int
        BY <1>1
      <4> QED
        BY <3>1, <3>2, <4>1, <4>2
    <3>4. q <= (4 * H) * f
      <4>1. H * d1 \in Nat \ {0} /\ (4 * H) * f \in Int /\ q \in Int
        BY <1>1
      <4> QED
        BY <3>3, <4>1, Scaled
    <3>5. 100 * ((4 * H) * f) <= f * (H * H)
      <4>1. 100 * ((4 * H) * f) = (400 * H) * f /\ f * (H * H) = (H * H) * f
        BY <1>1
      <4>2. 400 * H <= H * H /\ 400 * H \in Int /\ H * H \in Int
        BY <1>1
      <4> QED
        BY <4>1, <4>2, Scaled
    <3>6. (4 * H) * f \in Int /\ f * (H * H) \in Int
      BY <1>1
    <3> QED
      BY <3>4, <3>5, <3>6
  <2> QED
    BY <2>2, <2>3
<1>10. PICK r \in Nat \ {0}, g \in Nat \ {0} :
         Double(<<q * 100, f>>) = <<r, g>> /\ Within(q * 100, f, r, g, 1, Precision)
  BY <1>9, DoubleRounds, q * 100 \in Nat \ {0}
<1>11. Within(w * 100, b, r, g, 3, Precision)
  <2>1. Within(w * 100, b, q * 100, f, 2, Precision)
    BY <1>8, WithinScaled, 100 \in Nat, 2 \in Nat
  <2>2. /\ 2 + 1 <= 2 ^ Precision /\ 2 \in Nat /\ Precision \in Nat /\ 2 + 1 = 3
        /\ w * 100 \in Nat /\ b \in Nat /\ q * 100 \in Nat \ {0} /\ f \in Nat \ {0}
        /\ r \in Nat /\ g \in Nat
    BY <1>1
  <2>3. Within(w * 100, b, r, g, 2 + 1, Precision)
    BY <1>10, <2>1, <2>2, RoundingsAddUp, Zenon
  <2> QED
    BY <2>2, <2>3
<1>12. PercentOf(w, b) = <<r, g>>
  <2>1. /\ Over(<<w1, d1>>, Whole(b)) = <<w1 * 1, d1 * b>>
        /\ Times(<<q, f>>, Whole(100)) = <<q * 100, f * 1>>
    BY DEF Over, Times, Whole
  <2>2. w1 * 1 = w1 /\ f * 1 = f /\ Whole(w) = <<w, 1>>
    BY DEF Whole
  <2> QED
    BY <1>3, <1>7, <1>10, <2>1, <2>2 DEF PercentOf
<1> QED
  BY <1>11, <1>12

\* "regression > limit" of a rounded regression tells the exact one from every
\* limit that is not within three roundings of it.
LEMMA ToldApart ==
  ASSUME NEW w \in Nat, NEW b \in Nat \ {0}, NEW n \in Nat, NEW d \in Nat \ {0},
         NEW r \in Nat \ {0}, NEW g \in Nat \ {0},
         Within(w * 100, b, r, g, 3, Precision)
  PROVE  /\ n * g < r * d =>
              (100 * w) * (d * 2 ^ Precision) > (n * (2 ^ Precision - 3)) * b
         /\ r * d <= n * g =>
              ~((100 * w) * (d * (2 ^ Precision - 3)) > (n * 2 ^ Precision) * b)
<1> DEFINE H == 2 ^ Precision
           K == H - 3
           p == w * 100
<1>1. H \in Nat /\ H > 0 /\ K \in Nat /\ K > 0 /\ p \in Nat
  BY Doubles
<1>2. K * (p * g) <= H * (r * b) /\ K * (r * b) <= H * (p * g)
  BY DEF Within
<1>3. p = 100 * w
  OBVIOUS
<1> HIDE DEF H, K, p
<1>4. /\ (K * (p * g)) * d <= (H * (r * b)) * d
      /\ (K * (r * b)) * d <= (H * (p * g)) * d
  <2>1. /\ K * (p * g) \in Int /\ H * (r * b) \in Int
        /\ K * (r * b) \in Int /\ H * (p * g) \in Int
    BY <1>1
  <2> QED
    BY <1>2, <2>1, Scaled
<1>5. ASSUME n * g < r * d PROVE p * (d * H) > (n * K) * b
  <2>1. (n * g) * (K * b) < (r * d) * (K * b)
    <3>1. K * b \in Nat \ {0} /\ n * g \in Int /\ r * d \in Int
      BY <1>1
    <3> QED
      BY <1>5, <3>1, Scaled
  <2>2. /\ (n * g) * (K * b) = ((n * K) * b) * g /\ (r * d) * (K * b) = (K * (r * b)) * d
        /\ (H * (p * g)) * d = (p * (d * H)) * g
    BY <1>1
  <2>3. ((n * K) * b) * g < (p * (d * H)) * g
    <3>1. /\ (n * g) * (K * b) \in Int /\ (r * d) * (K * b) \in Int
          /\ (H * (p * g)) * d \in Int
      BY <1>1
    <3> QED
      BY <1>4, <2>1, <2>2, <3>1
  <2>4. (n * K) * b \in Int /\ p * (d * H) \in Int
    BY <1>1
  <2> QED
    BY <2>3, <2>4, Scaled
<1>6. ASSUME r * d <= n * g PROVE p * (d * K) <= (n * H) * b
  <2>1. (r * d) * (H * b) <= (n * g) * (H * b)
    <3>1. H * b \in Nat \ {0} /\ n * g \in Int /\ r * d \in Int
      BY <1>1
    <3> QED
      BY <1>6, <3>1, Scaled
  <2>2. /\ (n * g) * (H * b) = ((n * H) * b) * g /\ (r * d) * (H * b) = (H * (r * b)) * d
        /\ (K * (p * g)) * d = (p * (d * K)) * g
    BY <1>1
  <2>3. (p * (d * K)) * g <= ((n * H) * b) * g
    <3>1. /\ (n * g) * (H * b) \in Int /\ (r * d) * (H * b) \in Int
          /\ (K * (p * g)) * d \in Int
      BY <1>1
    <3> QED
      BY <1>4, <2>1, <2>2, <3>1
  <2>4. (n * H) * b \in Int /\ p * (d * K) \in Int
    BY <1>1
  <2> QED
    BY <2>3, <2>4, Scaled
<1>7. p * (d * K) \in Int /\ (n * H) * b \in Int
  BY <1>1
<1> QED
  BY <1>3, <1>5, <1>6, <1>7 DEF H, K

\* What the code says of two medians is what they are, but for rounding.
LEMMA ExceedsIsRegressed ==
  ASSUME NEW m \in Metric, NEW b \in 0 .. 2 ^ Precision, NEW c \in 0 .. 2 ^ Precision,
         b = 0 => c = 0, NEW n \in Nat, NEW d \in Nat \ {0}
  PROVE  LET w == Worsening(m, b, c)
             H == 2 ^ Precision
         IN /\ Exceeds(m, b, c, <<n, d>>) => (100 * w) * (d * H) > (n * (H - 3)) * b
            /\ ~Exceeds(m, b, c, <<n, d>>) => ~((100 * w) * (d * (H - 3)) > (n * H) * b)
<1> DEFINE w == Worsening(m, b, c)
           H == 2 ^ Precision
<1>1. H \in Nat /\ H >= 400 /\ b \in Nat /\ c \in Nat /\ b <= H /\ c <= H
  BY Doubles
<1>2. w \in Int /\ w <= H /\ (b = 0 => w = 0)
  BY <1>1 DEF Worsening
<1>3. CASE w > 0
  <2>1. w \in Nat \ {0} /\ b \in Nat \ {0}
    BY <1>1, <1>2, <1>3
  <2>2. PICK r \in Nat \ {0}, g \in Nat \ {0} :
          PercentOf(w, b) = <<r, g>> /\ Within(w * 100, b, r, g, 3, Precision)
    <3> HIDE DEF w
    <3> QED
      BY <1>1, <1>2, <2>1, PercentWithin
  <2>3. Exceeds(m, b, c, <<n, d>>) <=> n * g < r * d
    <3>1. ~AtLeast(<<n, d>>, <<r, g>>) <=> n * g < r * d
      <4>1. n * g \in Int /\ r * d \in Int
        OBVIOUS
      <4> QED
        BY <4>1 DEF AtLeast
    <3>2. Exceeds(m, b, c, <<n, d>>) <=> ~AtLeast(<<n, d>>, PercentOf(w, b))
      <4> HIDE DEF H
      <4> QED
        BY <1>3, <2>1 DEF Exceeds
    <3> QED
      BY <2>2, <3>1, <3>2
  <2>4. n * g \in Int /\ r * d \in Int
    OBVIOUS
  <2> HIDE DEF w
  <2>5. /\ n * g < r * d => (100 * w) * (d * H) > (n * (H - 3)) * b
        /\ r * d <= n * g => ~((100 * w) * (d * (H - 3)) > (n * H) * b)
    BY <2>1, <2>2, ToldApart
  <2> QED
    BY <2>3, <2>4, <2>5 DEF w
<1>4. CASE ~(w > 0)
  <2>1. ~Exceeds(m, b, c, <<n, d>>)
    BY <1>4 DEF Exceeds
  <2> HIDE DEF w, H
  <2>2. d * (H - 3) \in Nat /\ (n * H) * b >= 0 /\ (n * H) * b \in Int /\ 100 * w <= 0 /\ 100 * w \in Int
    BY <1>1, <1>2, <1>4
  <2>3. (100 * w) * (d * (H - 3)) <= 0 /\ (100 * w) * (d * (H - 3)) \in Int
    <3>1. \A x \in Int, y \in Nat : x <= 0 => x * y <= 0 /\ x * y \in Int
      OBVIOUS
    <3> QED
      BY <2>2, <3>1
  <2>4. ~((100 * w) * (d * (H - 3)) > (n * H) * b)
    BY <2>2, <2>3
  <2> QED
    BY <2>1, <2>4 DEF w, H
<1> QED
  BY <1>2, <1>3, <1>4

\* If every limit could be evaluated, the code and the user agree on each of
\* them, but for rounding.
LEMMA LimitsAgree ==
  ASSUME TypeOK, BalancedMeasurement, pc = "done", exitCode \in {0, 1},
         command = "compare", Answer # "error",
         NEW m \in Metric, Overridden(fileLimits, optionLimits)[m] # NoValue
  PROVE  LET limit == Overridden(fileLimits, optionLimits)[m]
             exceeds == Exceeds(m, Summary(runs["baseline"], m),
                                   Summary(runs["candidate"], m), limit)
         IN /\ Measured(<<m, limit>>)
            /\ exceeds => Regressed(<<m, limit>>, Below)
            /\ ~exceeds => ~Regressed(<<m, limit>>, Above)
<1> DEFINE limit == Overridden(fileLimits, optionLimits)[m]
           b == Summary(runs["baseline"], m)
           c == Summary(runs["candidate"], m)
<1>1. Comparable(b, c)
  BY DEF Answer, Evaluate
<1>2. limit \in Limit
  BY DEF TypeOK, Overridden
<1>3. \A v \in Variant : runs[v] \in Seq(RunResults) /\ runs[v] # <<>>
  <2>1. repeat \in Nat \ {0}
    BY CountsAssumption DEF TypeOK
  <2>2. \A v \in Variant : Len(runs[v]) = repeat
    BY DEF BalancedMeasurement, PhaseOf
  <2> QED
    BY <2>1, <2>2 DEF TypeOK
<1>4. \A v \in Variant : Summary(runs[v], m) # NoValue
  BY <1>1 DEF Comparable, Variant
<1>5. \A v \in Variant :
        /\ \A i \in DOMAIN runs[v] : Extract(runs[v][i], m) # NoValue
        /\ Summary(runs[v], m) \in 0 .. 2 ^ Precision
        /\ Summary(runs[v], m) = RankMedianTwice(Values(v, m))
  BY <1>3, <1>4, SummaryByRank DEF Values
<1>6. Measured(<<m, limit>>)
  BY <1>5 DEF Measured
<1>7. /\ b \in 0 .. 2 ^ Precision /\ b = RankMedianTwice(Values("baseline", m))
      /\ c \in 0 .. 2 ^ Precision /\ c = RankMedianTwice(Values("candidate", m))
      /\ b = 0 => c = 0
  BY <1>1, <1>5 DEF Variant, Comparable
<1> HIDE DEF limit, b, c
<1>8. PICK n \in Nat, d \in Nat \ {0} : limit = <<n, d>>
  BY <1>2 DEF Limit
<1> DEFINE w == Worsening(m, b, c)
           H == 2 ^ Precision
<1>9. /\ Exceeds(m, b, c, limit) => (100 * w) * (d * H) > (n * (H - 3)) * b
      /\ ~Exceeds(m, b, c, limit) => ~((100 * w) * (d * (H - 3)) > (n * H) * b)
  BY <1>7, <1>8, ExceedsIsRegressed
<1>10. Loss(m, b, c) = w
  BY DEF Loss, Worsening, HigherIsBetter
<1> HIDE DEF w
<1>11. /\ Regressed(<<m, limit>>, Below) <=> (100 * w) * (d * H) > (n * (H - 3)) * b
       /\ Regressed(<<m, limit>>, Above) <=> (100 * w) * (d * (H - 3)) > (n * H) * b
  BY <1>7, <1>8, <1>10 DEF Regressed, Below, Above
<1>12. /\ Exceeds(m, b, c, limit) => Regressed(<<m, limit>>, Below)
       /\ ~Exceeds(m, b, c, limit) => ~Regressed(<<m, limit>>, Above)
  BY <1>9, <1>11
<1> QED
  BY <1>6, <1>12 DEF limit, b, c

\* A comparison passes exactly if no limit was exceeded, and every limit was
\* evaluated on a measurement of every run.
LEMMA VerdictSound ==
  ASSUME BenchmarkInv
  PROVE  PassIsSound /\ RejectIsSound
<1> DEFINE inForce == Overridden(fileLimits, optionLimits)
           exceeded(m) == Exceeds(m, Summary(runs["baseline"], m),
                                     Summary(runs["candidate"], m), inForce[m])
<1>1. exitCode \in {0, 1} => pc = "done"
  BY DEF BenchmarkInv, Calling, None
<1>2. ASSUME exitCode \in {0, 1}, command = "compare", Answer # "error",
             NEW m \in Metric, inForce[m] # NoValue
      PROVE  /\ Measured(<<m, inForce[m]>>)
             /\ exceeded(m) => Regressed(<<m, inForce[m]>>, Below)
             /\ ~exceeded(m) => ~Regressed(<<m, inForce[m]>>, Above)
  BY <1>1, <1>2, LimitsAgree DEF BenchmarkInv
<1>3. /\ Answer = "pass" => ~\E m \in Metric : inForce[m] # NoValue /\ exceeded(m)
      /\ Answer = "violations" => \E m \in Metric : inForce[m] # NoValue /\ exceeded(m)
  BY DEF Answer, Evaluate
<1>4. UserLimits = {<<m, inForce[m]>> : m \in {k \in Metric : inForce[k] # NoValue}}
  BY LimitsInForce
<1> HIDE DEF inForce, exceeded
<1>5. PassIsSound
  BY <1>2, <1>3, <1>4 DEF PassIsSound, BenchmarkInv, Decided
<1>6. RejectIsSound
  BY <1>2, <1>3, <1>4 DEF RejectIsSound, BenchmarkInv, Decided
<1> QED
  BY <1>5, <1>6

-----------------------------------------------------------------------------
\* An invocation begins with nothing run and nobody alive.
LEMMA BenchmarkInitially == Init => BenchmarkInv
<1> SUFFICES ASSUME Init PROVE BenchmarkInv
  OBVIOUS
<1>1. Calling
  BY DEF Init, Calling, Call!ContractInit
<1>2. Balance
  BY CountsAssumption DEF Init, Balance, Variant
<1>3. SignalCodeGenuine
  BY Codes DEF Init, SignalCodeGenuine, None
<1>4. BalancedMeasurement
  BY DEF Init, BalancedMeasurement
<1>5. TypeOK
  BY <1>2 DEF Init, TypeOK, Balance, Call!ContractInit, NoLimits, Variant
<1>6. Outstanding
  BY DEF Init, Outstanding, Executing
<1>7. Decided
  BY DEF Init, Decided, None
<1> QED
  BY <1>1, <1>2, <1>3, <1>4, <1>5, <1>6, <1>7 DEF BenchmarkInv

\* The inductive invariant holds, however each run ends.
THEOREM BenchmarkInvariant == Spec => []BenchmarkInv
<1>1. BenchmarkInv /\ [Next]_vars => BenchmarkInv'
  BY StepCalling, StepBalance, StepTypes, StepOutstanding, StepSignalCode, StepBalanced,
     StepDecided DEF BenchmarkInv
<1> QED
  BY <1>1, BenchmarkInitially, PTL DEF Spec

\* A result rests on the runs that were asked for, on both sides.
THEOREM Balanced == Spec => []BalancedMeasurement
  BY BenchmarkInvariant, PTL DEF BenchmarkInv

\* The exit code of a signal is that of one that arrived in the last run.
THEOREM GenuineSignalCode == Spec => []SignalCodeGenuine
  BY BenchmarkInvariant, PTL DEF BenchmarkInv

\* Every variable has its type, for every set of limits and results.
THEOREM TypeCorrect == Spec => []TypeOK
  BY BenchmarkInvariant, PTL DEF BenchmarkInv

\* A pass means that every limit was measured and none exceeded by more than
\* three roundings hide.
THEOREM PassSound == Spec => []PassIsSound
<1>1. BenchmarkInv => PassIsSound
  BY VerdictSound
<1> QED
  BY <1>1, BenchmarkInvariant, PTL

\* Exit code 1 means that a measured limit was exceeded, or missed by no more
\* than three roundings.
THEOREM RejectSound == Spec => []RejectIsSound
<1>1. BenchmarkInv => RejectIsSound
  BY VerdictSound
<1> QED
  BY <1>1, BenchmarkInvariant, PTL
=============================================================================
