---------------------------- MODULE ProcessRunner ----------------------------
(***************************************************************************)
(* ProcessRunner::run (src/process/process_runner.cpp): one supervised     *)
(* measurement.  The runner forks the target behind a start barrier, opens *)
(* the perf collectors on it, releases it, and supervises it in a polling  *)
(* loop that, for a service, also starts and reaps a workload client.      *)
(*                                                                         *)
(* The steps of the runner interleave with the target, the workload, their *)
(* descendants, SIGINT/SIGTERM sent to the runner, and the clock.  The     *)
(* program reads its clock once per iteration, so time is what that read   *)
(* returns: left[d] is how far deadline d still is at the last read.       *)
(***************************************************************************)
EXTENDS Integers

CONSTANTS
    Options,      \* the RunOptions callers may pass
    MaxAdvance,   \* how far the clock can move between two iterations
    Privileged    \* the groups whose program may change its credentials

Group  == {"target", "workload"}       \* the two process groups of a run
Polite == {"INT", "TERM"}
Signal == Polite \cup {"KILL"}
Timer  == {"delay", "ready", "timeout", "grace"}

NoTimeout == -1000                      \* std::nullopt of RunOptions::timeout
NoSignal  == "none"

RunOptions ==
    [service: BOOLEAN, readyTcp: BOOLEAN, collectPerfCounters: BOOLEAN,
     sampling: BOOLEAN, requirePerf: BOOLEAN, metrics: BOOLEAN,
     timeout: Int, terminationGrace: Int, startupDelay: Int,
     readyTimeout: Int, shutdownGrace: Int]

ASSUME OptionsAssumption == Options \subseteq RunOptions
ASSUME MaxAdvanceAssumption == MaxAdvance \in Nat \ {0}
ASSUME PrivilegedAssumption == Privileged \subseteq Group

VARIABLES
    options,             \* the RunOptions of this run
    pc,                  \* where the runner is
    receivedSignal,      \* the sig_atomic_t its handlers write
    life, status,        \* per leader: its life cycle and its wait status
    kin,                 \* per group: it has descendants of the leader to
                         \* which no SIGKILL was sent
    pending,             \* per group: the signals its leader was sent alive
    shielded,            \* the groups that the runner may not signal (EPERM)
    startPipe,           \* the start barrier
    childError,          \* what the child wrote to the error pipe
    guarded,             \* the groups whose ChildGuard is armed
    counters, sampler,   \* the two collectors
    collectorsStarted, collectorsStopped,
    left,                \* distance to each deadline at the last clock read
    stopping, timedOut, interrupted, sentKill,
    workloadCompleted, managedStop, lifecycleFailure,
    result               \* the outcome returned or the error thrown

procVars == <<life, status, kin, pending, shielded, startPipe, childError>>
perfVars == <<counters, sampler, collectorsStarted, collectorsStopped>>
flagVars == <<stopping, timedOut, interrupted, sentKill>>
workVars == <<workloadCompleted, managedStop, lifecycleFailure>>
vars == <<options, pc, receivedSignal, procVars, guarded, perfVars,
          left, flagVars, workVars, result>>

-----------------------------------------------------------------------------
Life   == {"none", "setup", "barrier", "running", "zombie", "reaped"}
Alive  == {"setup", "barrier", "running"}
Status == {"none", "success", "failure", "crash"} \cup Signal
Collector == {"off", "failed", "open", "running", "stopped", "read"}
Lifecycle == {"none", "readyTimeout", "workloadFailed", "serviceDied",
              "serviceEarly"}

\* The pc values between which the supervision loop moves.
InLoop == {"wait", "service", "start", "spawn", "workload", "stop", "judge",
           "signals"}
PC == InLoop \cup {"begin", "open", "release", "barrierFailed", "after",
                   "afterReap", "check", "conclude", "collect", "verdict",
                   "unwind", "unwindReap", "done", "killed"}

PerfCause == {"counterOpen", "samplerOpen", "counterStart", "samplerStart",
              "counterStop", "samplerStop", "counterRead", "samplerRead"}
Reason == {"success", "failure", "signaled", "timedOut", "interrupted"}
Cause  == {"invalid", "resources", "release", "childError", "spawn", "kill",
           "lifecycle", "metrics"} \cup PerfCause
Result == [kind: {"none"}, why: {"none"}]
          \cup [kind: {"outcome"}, why: Reason]
          \cup [kind: {"error"}, why: Cause]

NoResult   == [kind |-> "none", why |-> "none"]
Outcome(r) == [kind |-> "outcome", why |-> r]
Error(c)   == [kind |-> "error", why |-> c]

Succeeded == result = Outcome("success")
Ended     == pc \in {"done", "killed"}

TypeOK ==
    /\ options \in Options
    /\ pc \in PC
    /\ receivedSignal \in Polite \cup {NoSignal}
    /\ life \in [Group -> Life]
    /\ status \in [Group -> Status]
    /\ kin \in [Group -> BOOLEAN]
    /\ pending \in [Group -> SUBSET Signal]
    /\ shielded \in SUBSET Group
    /\ startPipe \in {"empty", "byte", "closed"}
    /\ childError \in {"none", "setup", "barrier", "exec"}
    /\ guarded \in SUBSET Group
    /\ counters \in Collector /\ sampler \in Collector
    /\ collectorsStarted \in BOOLEAN /\ collectorsStopped \in BOOLEAN
    /\ left \in [Timer -> Int]
    /\ stopping \in BOOLEAN /\ timedOut \in BOOLEAN
    /\ interrupted \in BOOLEAN /\ sentKill \in BOOLEAN
    /\ workloadCompleted \in BOOLEAN /\ managedStop \in BOOLEAN
    /\ lifecycleFailure \in Lifecycle
    /\ result \in Result

Init ==
    /\ options \in Options
    /\ pc = "begin"
    /\ receivedSignal \in Polite \cup {NoSignal}    \* left by an earlier run
    /\ life = [g \in Group |-> "none"]
    /\ status = [g \in Group |-> "none"]
    /\ kin = [g \in Group |-> FALSE]
    /\ pending = [g \in Group |-> {}]
    /\ shielded = {}
    /\ startPipe = "empty" /\ childError = "none"
    /\ guarded = {}
    /\ counters = "off" /\ sampler = "off"
    /\ collectorsStarted = FALSE /\ collectorsStopped = FALSE
    /\ left = [d \in Timer |-> 0]
    /\ stopping = FALSE /\ timedOut = FALSE
    /\ interrupted = FALSE /\ sentKill = FALSE
    /\ workloadCompleted = FALSE /\ managedStop = FALSE
    /\ lifecycleFailure = "none"
    /\ result = NoResult

-----------------------------------------------------------------------------
(* Helpers shared by the runner's steps. *)

\* The validation at the top of run().  The commands are never empty here:
\* an option set that leaves one empty is rejected the same way.
ValidOptions(o) ==
    /\ o.timeout # NoTimeout => o.timeout > 0
    /\ o.terminationGrace >= 0
    /\ o.service => o.readyTimeout > 0 /\ o.shutdownGrace >= 0

Elapsed(d) == left[d] <= 0

\* kill(-group, s) for every (g, s) in the function sent that the runner may
\* signal: a leader that is alive has s pending; SIGKILL leaves no descendant
\* in the group that it was not sent to.  Nobody waits for those to die.
SignalGroups(sent) ==
    LET reached == DOMAIN sent \ shielded IN
    /\ pending' = [g \in Group |->
                     IF g \in reached /\ life[g] \in Alive
                     THEN pending[g] \cup {sent[g]} ELSE pending[g]]
    /\ kin' = [g \in Group |-> kin[g] /\ ~(g \in reached /\ sent[g] = "KILL")]
    /\ UNCHANGED <<life, status, shielded, startPipe, childError>>

\* workload != -1: a spawned workload that was not reaped yet.
WorkloadStarted == life["workload"] \notin {"none", "reaped"}

\* The groups the loop signals: the target's, and the workload's if any.
Supervised == {"target"} \cup (IF WorkloadStarted THEN {"workload"} ELSE {})

\* ChildGuard::release sends SIGKILL to what the leader left in its group; it
\* neither waits nor looks at the result of kill.
KinAfterRelease_leaksKin(g) == kin
KinAfterRelease(g) == [kin EXCEPT ![g] = kin[g] /\ g \in shielded]

Throw(c) == result' = Error(c) /\ pc' = "unwind"

\* signalProcessGroup for each of the groups, the target's before the
\* workload's.  It throws when the runner may not signal the group.
SignalInOrder(groups, s) ==
    SignalGroups([g \in IF "target" \in shielded THEN {} ELSE groups |-> s])

\* After the groups were asked to stop, their grace period begins, unless one
\* of the kills has thrown.
BeginGrace(groups, grace, next) ==
    IF groups \cap shielded = {}
    THEN /\ left' = [left EXCEPT !["grace"] = grace]
         /\ pc' = next /\ UNCHANGED result
    ELSE Throw("kill") /\ UNCHANGED left

\* A collector that just became unavailable fails the run.
LostFatally_ignored(old, new) == FALSE
LostFatally(old, new) == new = "failed" /\ old # "failed" /\ options.requirePerf

-----------------------------------------------------------------------------
(* Set-up: from run() to the release of the start barrier. *)

\* Options are validated; pipes, metrics file, handlers and fork may fail.
\* The handler guard forgets a signal that an earlier run left behind.
Begin ==
    /\ pc = "begin"
    /\ \/ /\ ~ValidOptions(options)
          /\ result' = Error("invalid") /\ pc' = "done"
          /\ UNCHANGED <<receivedSignal, life, guarded>>
       \/ /\ ValidOptions(options)
          /\ receivedSignal' \in {receivedSignal, NoSignal}
          /\ result' = Error("resources") /\ pc' = "done"
          /\ UNCHANGED <<life, guarded>>
       \/ /\ ValidOptions(options)
          /\ receivedSignal' = NoSignal
          /\ life' = [life EXCEPT !["target"] = "setup"]
          /\ guarded' = {"target"}
          /\ pc' = "open"
          /\ UNCHANGED result
    /\ UNCHANGED <<options, status, kin, pending, shielded, startPipe,
                   childError, perfVars, left, flagVars, workVars>>

AfterOpen_unarmed == "release"
AfterOpen == IF options.service THEN "release" ELSE "start"

\* A collector that cannot be opened is given up, or fails the run.
OpenCollectors ==
    /\ pc = "open"
    /\ \E c \in IF options.collectPerfCounters THEN {"open", "failed"} ELSE {"off"},
          s \in IF options.sampling THEN {"open", "failed"} ELSE {"off"} :
         IF LostFatally("off", c)
         THEN Throw("counterOpen") /\ counters' = c /\ UNCHANGED sampler
         ELSE /\ counters' = c /\ sampler' = s
              /\ IF LostFatally("off", s)
                 THEN Throw("samplerOpen")
                 ELSE /\ pc' = AfterOpen
                      /\ UNCHANGED result
    /\ UNCHANGED <<options, receivedSignal, procVars, guarded,
                   collectorsStarted, collectorsStopped, left, flagVars,
                   workVars>>

\* The lambda startCollectors: before the release of a program, or once a
\* service is ready.  Only a sampler failure is caught.
StartCollectors ==
    /\ pc = "start"
    /\ \/ /\ counters = "open"
          /\ Throw("counterStart")
          /\ UNCHANGED perfVars
       \/ /\ counters' = IF counters = "open" THEN "running" ELSE counters
          /\ \/ /\ sampler = "open" /\ sampler' = "failed" /\ options.requirePerf
                /\ Throw("samplerStart")
                /\ UNCHANGED collectorsStarted
             \/ /\ \/ sampler = "open" /\ sampler' = "running"
                   \/ sampler = "open" /\ sampler' = "failed" /\ ~options.requirePerf
                   \/ sampler # "open" /\ UNCHANGED sampler
                /\ collectorsStarted' = TRUE
                /\ pc' = IF options.service THEN "spawn" ELSE "release"
                /\ UNCHANGED result
          /\ UNCHANGED collectorsStopped
    /\ UNCHANGED <<options, receivedSignal, procVars, guarded, left, flagVars,
                   workVars>>

\* One byte releases the target.  The write fails (EPIPE) when the child is
\* already dead; otherwise the deadlines start to run.
Release ==
    /\ pc = "release"
    /\ IF life["target"] \in Alive
       THEN /\ startPipe' = "byte"
            /\ left' = [delay   |-> options.startupDelay,
                        ready   |-> options.readyTimeout,
                        timeout |-> options.timeout,
                        grace   |-> 0]
            /\ pc' = "wait"
       ELSE /\ startPipe' = "closed"
            /\ pc' = "barrierFailed"
            /\ UNCHANGED left
    /\ UNCHANGED <<options, receivedSignal, life, status, kin, pending,
                   shielded, childError, guarded, perfVars, flagVars,
                   workVars, result>>

\* The target died before its release: it is reaped and its error thrown, or
\* that of reading it.
BarrierFailed ==
    /\ pc = "barrierFailed"
    /\ life["target"] = "zombie"
    /\ life' = [life EXCEPT !["target"] = "reaped"]
    /\ kin' = KinAfterRelease("target")
    /\ guarded' = guarded \ {"target"}
    /\ \/ Throw("resources")
       \/ Throw(IF childError # "none" THEN "childError" ELSE "release")
    /\ UNCHANGED <<options, receivedSignal, status, pending, shielded,
                   startPipe, childError, perfVars, left, flagVars, workVars>>

-----------------------------------------------------------------------------
(* One iteration of the supervision loop. *)

\* wait4(child, WNOHANG), then the iteration's only clock read.
WaitTarget(d) ==
    /\ pc = "wait"
    /\ life["target"] # "zombie"
    /\ left' = [t \in Timer |-> left[t] - (IF left[t] > d THEN d
                                           ELSE IF left[t] > 0 THEN left[t] ELSE 0)]
    /\ pc' = "service"
    /\ UNCHANGED <<options, receivedSignal, procVars, guarded, perfVars,
                   flagVars, workVars, result>>

ReapTarget ==
    /\ pc = "wait"
    /\ life["target"] = "zombie"
    /\ life' = [life EXCEPT !["target"] = "reaped"]
    /\ pc' = "after"
    /\ UNCHANGED <<options, receivedSignal, status, kin, pending, shielded,
                   startPipe, childError, guarded, perfVars, left, flagVars,
                   workVars, result>>

AwaitsReadiness ==
    /\ options.service /\ ~WorkloadStarted /\ ~workloadCompleted
    /\ lifecycleFailure = "none" /\ ~stopping

\* The delay elapsed and, if a TCP endpoint is given, it accepted.
ServiceReady ==
    /\ pc = "service" /\ AwaitsReadiness
    /\ Elapsed("delay")
    /\ pc' = "start"
    /\ UNCHANGED <<options, receivedSignal, procVars, guarded, perfVars, left,
                   flagVars, workVars, result>>

NotReady == ~Elapsed("delay") \/ options.readyTcp

ServiceNotReady ==
    /\ pc = "service" /\ AwaitsReadiness /\ NotReady
    /\ ~Elapsed("ready")
    /\ pc' = "signals"
    /\ UNCHANGED <<options, receivedSignal, procVars, guarded, perfVars, left,
                   flagVars, workVars, result>>

ReadinessTimeout ==
    /\ pc = "service" /\ AwaitsReadiness /\ NotReady
    /\ Elapsed("ready")
    /\ lifecycleFailure' = "readyTimeout"
    /\ stopping' = TRUE
    /\ SignalInOrder({"target"}, "TERM")
    /\ BeginGrace({"target"}, options.shutdownGrace, "signals")
    /\ UNCHANGED <<options, receivedSignal, guarded, perfVars, timedOut,
                   interrupted, sentKill, workloadCompleted, managedStop>>

NothingToStart ==
    /\ pc = "service" /\ ~AwaitsReadiness
    /\ pc' = IF WorkloadStarted THEN "workload" ELSE "signals"
    /\ UNCHANGED <<options, receivedSignal, procVars, guarded, perfVars, left,
                   flagVars, workVars, result>>

\* startWorkload: posix_spawn reports a failed exec, which ends the run.
SpawnWorkload ==
    /\ pc = "spawn"
    /\ \/ /\ life' = [life EXCEPT !["workload"] = "running"]
          /\ guarded' = guarded \cup {"workload"}
          /\ pc' = "workload"
          /\ UNCHANGED result
       \/ Throw("spawn") /\ UNCHANGED <<life, guarded>>
    /\ UNCHANGED <<options, receivedSignal, status, kin, pending, shielded,
                   startPipe, childError, perfVars, left, flagVars, workVars>>

\* setpgid after the fork, or a wait of the loop, fails.
SystemCallFails ==
    /\ pc \in {"open", "wait", "workload"}
    /\ Throw("resources")
    /\ UNCHANGED <<options, receivedSignal, procVars, guarded, perfVars, left,
                   flagVars, workVars>>

\* waitpid(workload, WNOHANG): releasing its guard kills what it left running.
CheckWorkload ==
    /\ pc = "workload"
    /\ IF life["workload"] = "zombie"
       THEN /\ life' = [life EXCEPT !["workload"] = "reaped"]
            /\ kin' = KinAfterRelease("workload")
            /\ guarded' = guarded \ {"workload"}
            /\ pc' = "stop"
       ELSE /\ pc' = "signals"
            /\ UNCHANGED <<life, kin, guarded>>
    /\ UNCHANGED <<options, receivedSignal, status, pending, shielded,
                   startPipe, childError, perfVars, left, flagVars, workVars,
                   result>>

\* The lambda stopCollectors, called in the loop when the workload ended and
\* again after it.  A collector that fails to stop is dropped.
StopCollectors ==
    LET next == IF life["target"] = "reaped" THEN "conclude" ELSE "judge" IN
    /\ pc = "stop"
    /\ IF ~collectorsStarted \/ collectorsStopped
       THEN pc' = next /\ UNCHANGED <<perfVars, result>>
       ELSE /\ \E c \in IF counters = "running" THEN {"stopped", "failed"} ELSE {counters},
                  s \in IF sampler = "running" THEN {"stopped", "failed"} ELSE {sampler} :
                 IF LostFatally(counters, c)
                 THEN /\ Throw("counterStop")
                      /\ counters' = c /\ UNCHANGED <<sampler, collectorsStopped>>
                 ELSE /\ counters' = c /\ sampler' = s
                      /\ IF LostFatally(sampler, s)
                         THEN Throw("samplerStop") /\ UNCHANGED collectorsStopped
                         ELSE /\ collectorsStopped' = TRUE
                              /\ pc' = next
                              /\ UNCHANGED result
            /\ UNCHANGED collectorsStarted
    /\ UNCHANGED <<options, receivedSignal, procVars, guarded, left, flagVars,
                   workVars>>

\* The workload's exit status decides; the service is asked to stop.
JudgeWorkload ==
    /\ pc = "judge"
    /\ workloadCompleted' = (status["workload"] = "success")
    /\ IF status["workload"] = "success"
       THEN managedStop' = TRUE /\ UNCHANGED lifecycleFailure
       ELSE lifecycleFailure' = "workloadFailed" /\ UNCHANGED managedStop
    /\ stopping' = TRUE
    /\ SignalInOrder({"target"}, "TERM")
    /\ BeginGrace({"target"}, options.shutdownGrace, "signals")
    /\ UNCHANGED <<options, receivedSignal, guarded, perfVars, timedOut,
                   interrupted, sentKill>>

InterruptReaches_targetOnly == {"target"}
InterruptReaches == Supervised

StopForSignal ==
    /\ ~stopping /\ receivedSignal # NoSignal
    /\ interrupted' = TRUE /\ stopping' = TRUE
    /\ SignalInOrder(InterruptReaches, receivedSignal)
    /\ BeginGrace(InterruptReaches, options.terminationGrace, "wait")
    /\ UNCHANGED <<timedOut, sentKill>>

TimeoutDue_onlyWithoutWorkload ==
    options.timeout # NoTimeout /\ Elapsed("timeout") /\ ~WorkloadStarted
TimeoutDue == options.timeout # NoTimeout /\ Elapsed("timeout")

TimeoutSignal_atOnce == "KILL"
TimeoutSignal == "TERM"

StopForTimeout ==
    /\ ~stopping /\ receivedSignal = NoSignal
    /\ TimeoutDue
    /\ timedOut' = TRUE /\ stopping' = TRUE
    /\ SignalInOrder(Supervised, TimeoutSignal)
    /\ BeginGrace(Supervised, options.terminationGrace, "wait")
    /\ UNCHANGED <<interrupted, sentKill>>

GraceOver_onlyAfterTimeout == timedOut /\ stopping /\ ~sentKill /\ Elapsed("grace")
GraceOver == stopping /\ ~sentKill /\ Elapsed("grace")

KillAfterGrace ==
    /\ GraceOver
    /\ SignalInOrder(Supervised, "KILL")
    /\ IF Supervised \cap shielded = {}
       THEN sentKill' = TRUE /\ pc' = "wait" /\ UNCHANGED result
       ELSE Throw("kill") /\ UNCHANGED sentKill
    /\ UNCHANGED <<stopping, timedOut, interrupted, left>>

KeepWaiting ==
    /\ ~stopping => receivedSignal = NoSignal /\ ~TimeoutDue
    /\ ~GraceOver
    /\ pc' = "wait"
    /\ UNCHANGED <<procVars, flagVars, left, result>>

CheckSignals ==
    /\ pc = "signals"
    /\ StopForSignal \/ StopForTimeout \/ KillAfterGrace \/ KeepWaiting
    /\ UNCHANGED <<options, receivedSignal, guarded, perfVars, workVars>>

-----------------------------------------------------------------------------
(* After the loop: the target has been reaped. *)

\* A workload that is still guarded outlived its service: the guard kills it.
LeftWorkload_forgotten == FALSE
LeftWorkload == "workload" \in guarded

KillLeftWorkload ==
    /\ pc = "after" /\ LeftWorkload
    /\ lifecycleFailure' = IF lifecycleFailure = "none" /\ ~interrupted /\ ~timedOut
                           THEN "serviceDied" ELSE lifecycleFailure
    /\ SignalGroups([g \in {"workload"} |-> "KILL"])
    /\ pc' = "afterReap"
    /\ UNCHANGED <<options, receivedSignal, guarded, perfVars, left, flagVars,
                   workloadCompleted, managedStop, result>>

ReapLeftWorkload ==
    /\ pc = "afterReap" /\ life["workload"] = "zombie"
    /\ life' = [life EXCEPT !["workload"] = "reaped"]
    /\ guarded' = guarded \ {"workload"}
    /\ pc' = "check"
    /\ UNCHANGED <<options, receivedSignal, status, kin, pending, shielded,
                   startPipe, childError, perfVars, left, flagVars, workVars,
                   result>>

CheckService ==
    /\ \/ pc = "after" /\ ~LeftWorkload
       \/ pc = "check"
    /\ lifecycleFailure' =
         IF /\ options.service /\ ~workloadCompleted
            /\ lifecycleFailure = "none" /\ ~interrupted /\ ~timedOut
         THEN "serviceEarly" ELSE lifecycleFailure
    /\ pc' = "stop"
    /\ UNCHANGED <<options, receivedSignal, procVars, guarded, perfVars, left,
                   flagVars, workloadCompleted, managedStop, result>>

GuardedAfterLoop_releasedLate == guarded
GuardedAfterLoop == guarded \ {"target"}

ChildErrorSeen_setupOnly == childError = "setup"
ChildErrorSeen == childError # "none"

\* The target's guard is released, which kills its descendants; then a child
\* error (or that of reading it) is thrown before a lifecycle failure.
Conclude ==
    /\ pc = "conclude"
    /\ kin' = KinAfterRelease("target")
    /\ guarded' = GuardedAfterLoop
    /\ \/ Throw("resources")
       \/ ChildErrorSeen /\ Throw("childError")
       \/ ~ChildErrorSeen /\ lifecycleFailure # "none" /\ Throw("lifecycle")
       \/ /\ ~ChildErrorSeen /\ lifecycleFailure = "none"
          /\ pc' = "collect" /\ UNCHANGED result
    /\ UNCHANGED <<options, receivedSignal, life, status, pending, shielded,
                   startPipe, childError, perfVars, left, flagVars, workVars>>

\* What reading a collector can yield.  One that was never started fails:
\* counters were never scheduled, a sampler was never stopped.
ReadResult(c) == CASE c = "stopped" -> {"read", "failed"}
                   [] c = "open"    -> {"failed"}
                   [] OTHER         -> {c}

ReadCollectors ==
    /\ pc = "collect"
    /\ \E c \in ReadResult(counters), s \in ReadResult(sampler) :
         IF LostFatally(counters, c)
         THEN Throw("counterRead") /\ counters' = c /\ UNCHANGED sampler
         ELSE /\ counters' = c /\ sampler' = s
              /\ IF LostFatally(sampler, s)
                 THEN Throw("samplerRead")
                 ELSE pc' = "verdict" /\ UNCHANGED result
    /\ UNCHANGED <<options, receivedSignal, procVars, guarded,
                   collectorsStarted, collectorsStopped, left, flagVars,
                   workVars>>

TerminationReason_managedFirst ==
    CASE managedStop                    -> "success"
      [] ~managedStop /\ interrupted    -> "interrupted"
      [] ~managedStop /\ ~interrupted /\ timedOut -> "timedOut"
      [] OTHER -> IF status["target"] \in {"success", "failure"}
                  THEN status["target"] ELSE "signaled"

TerminationReason_statusFirst ==
    IF status["target"] \in {"success", "failure"} THEN status["target"]
    ELSE IF interrupted THEN "interrupted"
    ELSE IF timedOut THEN "timedOut" ELSE "signaled"

TerminationReason_rawStatus ==
    CASE interrupted                   -> "interrupted"
      [] ~interrupted /\ timedOut      -> "timedOut"
      [] ~interrupted /\ ~timedOut /\ managedStop -> "success"
      [] OTHER -> status["target"]

TerminationReason ==
    CASE interrupted                   -> "interrupted"
      [] ~interrupted /\ timedOut      -> "timedOut"
      [] ~interrupted /\ ~timedOut /\ managedStop -> "success"
      [] OTHER -> IF status["target"] \in {"success", "failure"}
                  THEN status["target"] ELSE "signaled"

\* Invalid application metrics fail the run; otherwise it has an outcome.
Verdict ==
    /\ pc = "verdict"
    /\ \/ options.metrics /\ Throw("metrics")
       \/ result' = Outcome(TerminationReason) /\ pc' = "done"
    /\ UNCHANGED <<options, receivedSignal, procVars, guarded, perfVars, left,
                   flagVars, workVars>>

-----------------------------------------------------------------------------
(* Stack unwinding: the guards' destructors, in reverse construction order. *)

NextGuard == IF "workload" \in guarded THEN "workload" ELSE "target"

\* ~ChildGuard kills the group and its leader; the collectors are destroyed
\* between the workload's guard and the target's.
UnwindKill ==
    /\ pc = "unwind" /\ guarded # {}
    /\ SignalGroups([g \in {NextGuard} |-> "KILL"])
    /\ IF NextGuard = "target" THEN counters' = "off" /\ sampler' = "off"
                               ELSE UNCHANGED <<counters, sampler>>
    /\ pc' = "unwindReap"
    /\ UNCHANGED <<options, receivedSignal, guarded, collectorsStarted,
                   collectorsStopped, left, flagVars, workVars, result>>

\* waitpid returns at once (ECHILD) when the leader was reaped before.
UnwindReap ==
    /\ pc = "unwindReap" /\ life[NextGuard] \in {"zombie", "reaped"}
    /\ life' = [life EXCEPT ![NextGuard] = "reaped"]
    /\ guarded' = guarded \ {NextGuard}
    /\ pc' = "unwind"
    /\ UNCHANGED <<options, receivedSignal, status, kin, pending, shielded,
                   startPipe, childError, perfVars, left, flagVars, workVars,
                   result>>

UnwindDone ==
    /\ pc = "unwind" /\ guarded = {}
    /\ pc' = "done"
    /\ UNCHANGED <<options, receivedSignal, procVars, guarded, perfVars, left,
                   flagVars, workVars, result>>

-----------------------------------------------------------------------------
(* The child before its exec, and the processes the runner supervises. *)

runnerVars == <<options, pc, guarded, perfVars, left, flagVars,
                workVars, result>>

\* A leader that SIGKILL was sent to runs no more of its program, though it
\* may have been exiting already.
Doomed(g) == "KILL" \in pending[g]

ChildFails(e) ==
    /\ childError' = e
    /\ life' = [life EXCEPT !["target"] = "zombie"]
    /\ status' = [status EXCEPT !["target"] = "failure"]

\* executeChild up to the barrier: affinity or environment may fail.
ChildSetup ==
    /\ life["target"] = "setup" /\ ~Doomed("target")
    /\ \/ /\ life' = [life EXCEPT !["target"] = "barrier"]
          /\ UNCHANGED <<status, childError>>
       \/ ChildFails("setup")
    /\ UNCHANGED <<runnerVars, receivedSignal, kin, pending, shielded,
                   startPipe>>

BarrierEof_writeEndInherited == FALSE
BarrierEof == startPipe = "closed"

\* waitForRelease, then execvp.  End of file means the runner is gone.
ChildReleased ==
    /\ life["target"] = "barrier" /\ ~Doomed("target")
    /\ \/ /\ startPipe = "byte"
          /\ \/ /\ life' = [life EXCEPT !["target"] = "running"]
                /\ UNCHANGED <<status, childError>>
             \/ ChildFails("exec")
       \/ BarrierEof /\ ChildFails("barrier")
    /\ UNCHANGED <<runnerVars, receivedSignal, kin, pending, shielded,
                   startPipe>>

LeaderEnds(g, s) ==
    /\ life' = [life EXCEPT ![g] = "zombie"]
    /\ status' = [status EXCEPT ![g] = s]
    /\ UNCHANGED <<runnerVars, receivedSignal, kin, pending, shielded,
                   startPipe, childError>>

\* A running leader exits at any time; any leader can die of a signal that is
\* not the runner's.
Exits(g) == \/ life[g] = "running" /\ \E s \in {"success", "failure"} : LeaderEnds(g, s)
            \/ life[g] \in Alive /\ LeaderEnds(g, "crash")

DiesOfSignal(g, s) ==
    /\ life[g] \in Alive /\ s \in pending[g]
    /\ LeaderEnds(g, s)

\* Descendants that leave the group (setsid) are not the runner's: it knows
\* only groups.
Forks(g) ==
    /\ life[g] = "running" /\ ~Doomed(g) /\ ~kin[g]
    /\ kin' = [kin EXCEPT ![g] = TRUE]
    /\ UNCHANGED <<runnerVars, receivedSignal, life, status, pending,
                   shielded, startPipe, childError>>

\* The last descendant exits or leaves the group.
KinExits(g) ==
    /\ kin[g]
    /\ kin' = [kin EXCEPT ![g] = FALSE]
    /\ UNCHANGED <<runnerVars, receivedSignal, life, status, pending,
                   shielded, startPipe, childError>>

\* The program takes other credentials (setuid) and hands them to what it
\* forks: kill(2) fails with EPERM from then on.
GainsPrivilege(g) ==
    /\ g \in Privileged \ shielded
    /\ life[g] = "running" /\ ~Doomed(g)
    /\ shielded' = shielded \cup {g}
    /\ UNCHANGED <<runnerVars, receivedSignal, life, status, kin, pending,
                   startPipe, childError>>

\* rememberSignal, while the handler guard is installed.
RunnerSignalled(s) ==
    /\ pc \notin {"begin", "done", "killed"}
    /\ receivedSignal' = s
    /\ UNCHANGED <<runnerVars, procVars>>

\* The runner itself is killed: no destructor runs, its pipe ends close.
RunnerKilled ==
    /\ pc \notin {"begin", "done", "killed"}
    /\ pc' = "killed"
    /\ startPipe' = IF startPipe = "byte" THEN "byte" ELSE "closed"
    /\ UNCHANGED <<options, receivedSignal, life, status, kin, pending,
                   shielded, childError, guarded, perfVars, left, flagVars,
                   workVars, result>>

-----------------------------------------------------------------------------
Clock == \E d \in 0 .. MaxAdvance : WaitTarget(d)

RunnerStep ==
    \/ Begin \/ OpenCollectors \/ StartCollectors \/ Release \/ BarrierFailed
    \/ Clock \/ ReapTarget
    \/ ServiceReady \/ ServiceNotReady \/ ReadinessTimeout \/ NothingToStart
    \/ SpawnWorkload \/ SystemCallFails \/ CheckWorkload \/ StopCollectors \/ JudgeWorkload
    \/ CheckSignals
    \/ KillLeftWorkload \/ ReapLeftWorkload \/ CheckService
    \/ Conclude \/ ReadCollectors \/ Verdict
    \/ UnwindKill \/ UnwindReap \/ UnwindDone

ChildStep == ChildSetup \/ ChildReleased

Environment ==
    \/ \E g \in Group : Exits(g) \/ Forks(g) \/ KinExits(g) \/ GainsPrivilege(g)
    \/ \E g \in Group, s \in Signal : DiesOfSignal(g, s)
    \/ \E s \in Polite : RunnerSignalled(s)
    \/ RunnerKilled

Next == RunnerStep \/ ChildStep \/ Environment

Spec == Init /\ [][Next]_vars

\* The scheduler runs the runner and the forked child, the steady clock
\* advances, and SIGKILL kills.  Nothing obliges a target to exit.
Fairness ==
    /\ WF_vars(RunnerStep)
    /\ SF_vars(\E d \in 1 .. MaxAdvance : WaitTarget(d))
    /\ WF_vars(ChildStep)
    /\ \A g \in Group : WF_vars(DiesOfSignal(g, "KILL"))

FairSpec == Spec /\ Fairness

-----------------------------------------------------------------------------
(* Safety. *)

\* What is left of a group: a leader that was not reaped, or descendants that
\* the runner could have killed and did not.
GroupAlive(g) ==
    life[g] \in Alive \cup {"zombie"} \/ (kin[g] /\ g \notin shielded)

\* Whichever way run() ends (outcome, exception in any step), both leaders are
\* reaped and SIGKILL was sent to every descendant of theirs that is still in
\* their groups (guards and release(), which do not wait for descendants),
\* except in a group that the runner may not signal.
NoProcessLeftUnkilled == pc = "done" => \A g \in Group : ~GroupAlive(g)

\* A run counts as successful only if the measured program itself exited 0:
\* the target, or the workload of a service; never after a stop that the
\* runner forced, a failed exec, or a failed life cycle.
SuccessIsGenuine ==
    Succeeded => /\ ~interrupted /\ ~timedOut
                 /\ childError = "none" /\ lifecycleFailure = "none"
                 /\ status[IF options.service THEN "workload" ELSE "target"] = "success"

\* The start barrier: a program does not execute its first instruction
\* before its collectors run.
StartBarrierHolds ==
    ~options.service /\ life["target"] = "running" => collectorsStarted

\* Whatever the workload of a service does, from its spawn until SIGKILL was
\* sent to the last descendant in its group, happens while every collector
\* that opened is running (for descendants, if the runner may signal them).
WorkloadFullyMeasured ==
    life["workload"] \in Alive \/ (kin["workload"] /\ "workload" \notin shielded) =>
        /\ collectorsStarted /\ ~collectorsStopped
        /\ counters \in {"off", "failed", "running"}
        /\ sampler \in {"off", "failed", "running"}

\* The loop's SIGKILL reaches no leader that was not asked to stop before.
PoliteBeforeKill ==
    pc \in InLoop /\ life["target"] # "reaped" =>
        \A g \in Group : "KILL" \in pending[g] => pending[g] \cap Polite # {}

\* ~ChildGuard signals a pid after it was reaped in one case only: a
\* collector fails to stop after the loop of a run that requires perf.
StalePidOnlyOnStopFailure ==
    pc = "unwind" /\ guarded # {} /\ life[NextGuard] = "reaped" =>
        options.requirePerf /\ result.why \in {"counterStop", "samplerStop"}

\* A target that failed before or in exec is never reported as an outcome.
ChildErrorReported == result.kind = "outcome" => childError = "none"

\* With requirePerf, an outcome comes with every collector asked for.
RequirePerfHonoured ==
    result.kind = "outcome" /\ options.requirePerf =>
        /\ options.collectPerfCounters => counters = "read"
        /\ options.sampling => sampler = "read"

(* Refinement: a run keeps the contract its callers rely on. *)

Contract == INSTANCE RunContract WITH
    Groups   <- Group,
    Verdicts <- Result \ {NoResult},
    None     <- NoResult,
    phase    <- CASE pc = "begin"  -> "idle"
                  [] pc = "done"   -> "ended"
                  [] pc = "killed" -> "abandoned"
                  [] OTHER         -> "running",
    alive    <- {g \in Group : GroupAlive(g)},
    verdict  <- IF pc = "done" THEN result ELSE NoResult

KeepsContract == Contract!ContractSpec

(* Liveness, under FairSpec. *)

\* A signal that arrives while the loop supervises ends the run, even if the
\* target, the workload and their descendants ignore it.
SignalEndsRun == receivedSignal # NoSignal /\ pc \in InLoop ~> Ended

\* A run with a timeout ends, whatever the target and the workload do.
TimeoutBoundsRun == options.timeout > 0 ~> Ended

\* A target that was not released when the runner is killed does not linger
\* at the barrier: it sees the end of file and exits.
UnreleasedTargetDies ==
    pc = "killed" /\ startPipe = "closed" ~> life["target"] \in {"zombie", "reaped"}

(* Statements of the documentation that the code does not keep. *)

\* "--require-perf makes unavailable collection fail the run": without it,
\* no collector failure fails the run.
PerfFailureDegrades ==
    result.kind = "error" /\ result.why \in PerfCause => options.requirePerf

\* A run that a signal interrupted is not blamed on its service or workload:
\* "runner interrupt" expects it to be reported as interrupted.
InterruptReported == pc = "done" /\ interrupted => result # Error("lifecycle")
=============================================================================
