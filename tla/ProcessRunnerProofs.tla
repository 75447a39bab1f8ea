------------------------- MODULE ProcessRunnerProofs -------------------------
(***************************************************************************)
(* Proofs about ProcessRunner, for every set of options, every duration    *)
(* and every clock: its types, the safety of processes and of results,     *)
(* that it implements RunContract, what its collectors measure and which   *)
(* processes it signals.                                                   *)
(***************************************************************************)
EXTENDS ProcessRunner, TLAPS

(* The inductive invariant, in three parts. *)

\* A group that SIGKILL was sent to: what descends in it was sent one too, and
\* its leader forks no more; unless the runner may not signal it.
Struck(g) == g \in shielded \/ (~kin[g] /\ (life[g] \in Alive => Doomed(g)))

\* Whatever is alive has an armed guard, at every step of the runner.
Guarding ==
    /\ pc # "killed" => \A g \in Group : GroupAlive(g) => g \in guarded
    /\ pc \in {"begin", "collect", "verdict", "done"} => guarded = {}
    /\ pc \in {"check", "stop", "judge", "conclude"} => "workload" \notin guarded
    /\ pc \in {"after", "afterReap", "check", "conclude", "collect", "verdict"} =>
         life["target"] = "reaped"
    /\ pc \in {"open", "release", "barrierFailed"} \cup (InLoop \ {"stop"}) =>
         life["target"] # "reaped"
    /\ pc = "afterReap" => Struck("workload")
    /\ pc = "unwindReap" => Struck(NextGuard)

\* The target runs its program only after the byte, which a program gets only
\* after its collectors were started.
Barrier ==
    /\ ~options.service /\ pc = "release" => collectorsStarted
    /\ ~options.service /\ startPipe = "byte" => collectorsStarted
    /\ life["target"] = "running" => startPipe = "byte"

\* After the loop and until the verdict, a service without a completed
\* workload has another explanation.
Explained ==
    options.service =>
        workloadCompleted \/ lifecycleFailure # "none" \/ interrupted \/ timedOut

\* What the flags of a managed stop and an outcome rest on.
Accounting ==
    /\ pc \in {"begin", "open", "start", "spawn", "judge"} => ~workloadCompleted
    /\ pc = "spawn" \/ life["workload"] # "none" => options.service
    /\ pc = "judge" \/ (pc = "stop" /\ life["target"] # "reaped") =>
         life["workload"] = "reaped" /\ ~workloadCompleted
    /\ workloadCompleted => life["workload"] = "reaped" /\ status["workload"] = "success"
    /\ managedStop => workloadCompleted
    /\ pc \in {"conclude", "collect", "verdict"} \/ (pc = "stop" /\ life["target"] = "reaped")
         => Explained
    /\ pc \in {"collect", "verdict"} \/ result.kind = "outcome" =>
         /\ childError = "none" /\ lifecycleFailure = "none"
         /\ life["target"] = "reaped"
    /\ result.kind = "outcome" => pc = "done"
    /\ pc \in {"unwind", "unwindReap", "done"} => result # NoResult

IInv == TypeOK /\ Guarding /\ Barrier /\ Accounting /\ SuccessIsGenuine

-----------------------------------------------------------------------------
(* Types. *)

\* What run() returns or throws is a result.
LEMMA ResultTypes ==
  /\ NoResult \in Result
  /\ \A c \in Cause : Error(c) \in Result /\ Error(c) # NoResult
  /\ \A r \in Reason : Outcome(r) \in Result /\ Outcome(r) # NoResult
  BY DEF Result, NoResult, Error, Outcome

\* An exception is an error, and the stack is unwound.
LEMMA Throwing ==
  \A c : Throw(c) => pc' = "unwind" /\ result'.kind = "error" /\ result' # NoResult
  BY DEF Throw, Error, NoResult

\* Before the call ends it has no outcome.
LEMMA InitialResult == NoResult.kind = "none"
  BY DEF NoResult

\* Signals change only what is pending and who descends.
LEMMA SignalTypes ==
  ASSUME TypeOK, NEW groups \in SUBSET Group, NEW s \in Signal, SignalInOrder(groups, s)
  PROVE  /\ pending' \in [Group -> SUBSET Signal] /\ kin' \in [Group -> BOOLEAN]
         /\ UNCHANGED <<life, status, shielded, startPipe, childError>>
  BY DEF SignalInOrder, SignalGroups, TypeOK

\* The loop signals process groups of the run only.
LEMMA SupervisedGroups == Supervised \in SUBSET Group
  BY DEF Supervised, Group

\* After a request to stop the runner goes on, or a kill has thrown.
LEMMA Asked ==
  ASSUME NEW groups, NEW grace, NEW next, BeginGrace(groups, grace, next)
  PROVE  \/ groups \cap shielded = {} /\ pc' = next /\ UNCHANGED result
         \/ pc' = "unwind" /\ result'.kind = "error" /\ result' # NoResult
  BY Throwing DEF BeginGrace

\* Every grace period is an integer.
LEMMA GraceTypes ==
  ASSUME TypeOK, NEW groups, NEW next \in PC,
         NEW grace \in {options.shutdownGrace, options.terminationGrace},
         BeginGrace(groups, grace, next)
  PROVE  left' \in [Timer -> Int] /\ pc' \in PC /\ result' \in Result
<1>1. grace \in Int
  BY OptionsAssumption DEF TypeOK, RunOptions
<1>2. "unwind" \in PC /\ Error("kill") \in Result
  BY ResultTypes DEF PC, Cause
<1> QED
  BY <1>1, <1>2 DEF BeginGrace, Throw, TypeOK, Timer

\* run() starts with variables of their types.
LEMMA InitTypes == Init => TypeOK
<1> SUFFICES ASSUME Init PROVE TypeOK
  OBVIOUS
<1>1. /\ life \in [Group -> Life] /\ status \in [Group -> Status]
      /\ kin \in [Group -> BOOLEAN] /\ pending \in [Group -> SUBSET Signal]
      /\ left \in [Timer -> Int]
  BY DEF Init, Life, Status
<1>2. result \in Result
  BY ResultTypes DEF Init
<1> QED
  BY <1>1, <1>2 DEF Init, TypeOK, Collector, PC, InLoop, Lifecycle

\* No step of the runner, the child or the environment leaves the types.
LEMMA StepTypes == ASSUME TypeOK, [Next]_vars PROVE TypeOK'
<1> USE DEF TypeOK, Group, Timer, Polite, Signal, PC, InLoop, Life, Alive, Status,
            Collector, Lifecycle, perfVars, flagVars, workVars, procVars
<1>1. CASE Begin
  <2>1. result' \in Result
    BY <1>1, ResultTypes DEF Begin, Cause
  <2>2. receivedSignal' \in Polite \cup {NoSignal} /\ pc' \in PC
    BY <1>1 DEF Begin
  <2>3. life' \in [Group -> Life] /\ guarded' \in SUBSET Group
    BY <1>1 DEF Begin
  <2> QED
    BY <1>1, <2>1, <2>2, <2>3 DEF Begin
<1>2. CASE OpenCollectors
  BY <1>2
     DEF OpenCollectors, Throw, Error, Result, Cause, PerfCause, LostFatally,
         AfterOpen
<1>3. CASE StartCollectors
  <2>1. result' \in Result
    BY <1>3, ResultTypes DEF StartCollectors, Throw, Cause, PerfCause
  <2>2. counters' \in Collector /\ sampler' \in Collector
        /\ collectorsStarted' \in BOOLEAN /\ collectorsStopped' \in BOOLEAN
    BY <1>3 DEF StartCollectors
  <2>3. pc' \in PC
    BY <1>3 DEF StartCollectors, Throw
  <2> QED
    BY <1>3, <2>1, <2>2, <2>3 DEF StartCollectors
<1>4. CASE Release
  BY <1>4, OptionsAssumption DEF Release, RunOptions
<1>5. CASE BarrierFailed
  BY <1>5 DEF BarrierFailed, Throw, Error, Result, Cause, PerfCause, KinAfterRelease
<1>6. CASE Clock
  BY <1>6, MaxAdvanceAssumption DEF Clock, WaitTarget
<1>7. CASE ReapTarget
  BY <1>7 DEF ReapTarget
<1>8. CASE ServiceReady
  BY <1>8 DEF ServiceReady
<1>9. CASE ServiceNotReady
  BY <1>9 DEF ServiceNotReady
<1>10. CASE ReadinessTimeout
  <2>1. /\ pending' \in [Group -> SUBSET Signal] /\ kin' \in [Group -> BOOLEAN]
        /\ UNCHANGED <<life, status, shielded, startPipe, childError>>
    BY <1>10, SignalTypes, {"target"} \in SUBSET Group, "TERM" \in Signal, Zenon
       DEF ReadinessTimeout
  <2>2. left' \in [Timer -> Int] /\ pc' \in PC /\ result' \in Result
    BY <1>10, GraceTypes DEF ReadinessTimeout
  <2> QED
    BY <1>10, <2>1, <2>2 DEF ReadinessTimeout
<1>11. CASE NothingToStart
  BY <1>11 DEF NothingToStart
<1>12. CASE SpawnWorkload
  <2>1. result' \in Result
    BY <1>12, ResultTypes DEF SpawnWorkload, Throw, Cause
  <2>2. life' \in [Group -> Life] /\ guarded' \in SUBSET Group /\ pc' \in PC
    BY <1>12 DEF SpawnWorkload, Throw
  <2> QED
    BY <1>12, <2>1, <2>2 DEF SpawnWorkload
<1>13. CASE CheckWorkload
  <2>1. life' \in [Group -> Life] /\ kin' \in [Group -> BOOLEAN]
        /\ guarded' \in SUBSET Group /\ pc' \in PC
    BY <1>13 DEF CheckWorkload, KinAfterRelease
  <2> QED
    BY <1>13, <2>1 DEF CheckWorkload
<1>14. CASE StopCollectors
  <2>1. result' \in Result
    BY <1>14, ResultTypes DEF StopCollectors, Throw, Cause, PerfCause
  <2>2. counters' \in Collector /\ sampler' \in Collector
        /\ collectorsStarted' \in BOOLEAN /\ collectorsStopped' \in BOOLEAN
    BY <1>14 DEF StopCollectors
  <2>3. pc' \in PC
    BY <1>14 DEF StopCollectors, Throw
  <2> QED
    BY <1>14, <2>1, <2>2, <2>3 DEF StopCollectors
<1>15. CASE JudgeWorkload
  <2>1. /\ pending' \in [Group -> SUBSET Signal] /\ kin' \in [Group -> BOOLEAN]
        /\ UNCHANGED <<life, status, shielded, startPipe, childError>>
    BY <1>15, SignalTypes, {"target"} \in SUBSET Group, "TERM" \in Signal, Zenon
       DEF JudgeWorkload
  <2>2. left' \in [Timer -> Int] /\ pc' \in PC /\ result' \in Result
    BY <1>15, GraceTypes DEF JudgeWorkload
  <2>3. workloadCompleted' \in BOOLEAN
    BY <1>15, Zenon DEF JudgeWorkload
  <2>4. managedStop' \in BOOLEAN /\ lifecycleFailure' \in Lifecycle
    BY <1>15 DEF JudgeWorkload
  <2> QED
    BY <1>15, <2>1, <2>2, <2>3, <2>4 DEF JudgeWorkload
<1>16. CASE CheckSignals
  <2>1. CASE StopForSignal
    <3>1. receivedSignal \in Signal
      BY <2>1 DEF StopForSignal
    <3>2. /\ pending' \in [Group -> SUBSET Signal] /\ kin' \in [Group -> BOOLEAN]
          /\ UNCHANGED <<life, status, shielded, startPipe, childError>>
      BY <2>1, <3>1, SignalTypes, SupervisedGroups DEF StopForSignal, InterruptReaches
    <3>3. left' \in [Timer -> Int] /\ pc' \in PC /\ result' \in Result
      BY <2>1, GraceTypes DEF StopForSignal
    <3> QED
      BY <1>16, <2>1, <3>2, <3>3 DEF CheckSignals, StopForSignal
  <2>2. CASE StopForTimeout
    <3>1. /\ pending' \in [Group -> SUBSET Signal] /\ kin' \in [Group -> BOOLEAN]
          /\ UNCHANGED <<life, status, shielded, startPipe, childError>>
      BY <2>2, SignalTypes, SupervisedGroups DEF StopForTimeout, TimeoutSignal
    <3>2. left' \in [Timer -> Int] /\ pc' \in PC /\ result' \in Result
      BY <2>2, GraceTypes DEF StopForTimeout
    <3> QED
      BY <1>16, <2>2, <3>1, <3>2 DEF CheckSignals, StopForTimeout
  <2>3. CASE KillAfterGrace
    <3>1. /\ pending' \in [Group -> SUBSET Signal] /\ kin' \in [Group -> BOOLEAN]
          /\ UNCHANGED <<life, status, shielded, startPipe, childError>>
      BY <2>3, SignalTypes, SupervisedGroups DEF KillAfterGrace
    <3>2. pc' \in PC /\ result' \in Result /\ sentKill' \in BOOLEAN
      BY <2>3, ResultTypes DEF KillAfterGrace, Throw, Cause
    <3> QED
      BY <1>16, <2>3, <3>1, <3>2 DEF CheckSignals, KillAfterGrace
  <2>4. CASE KeepWaiting
    BY <1>16, <2>4 DEF CheckSignals, KeepWaiting
  <2> QED
    BY <1>16, <2>1, <2>2, <2>3, <2>4 DEF CheckSignals
<1>17. CASE KillLeftWorkload
  BY <1>17 DEF KillLeftWorkload, SignalGroups
<1>18. CASE ReapLeftWorkload
  BY <1>18 DEF ReapLeftWorkload
<1>19. CASE CheckService
  BY <1>19 DEF CheckService
<1>20. CASE Conclude
  BY <1>20
     DEF Conclude, Throw, Error, Result, Cause, PerfCause, KinAfterRelease,
         GuardedAfterLoop
<1>21. CASE ReadCollectors
  BY <1>21
     DEF ReadCollectors, Throw, Error, Result, Cause, PerfCause, ReadResult,
         LostFatally
<1>22. CASE Verdict
  BY <1>22
     DEF Verdict, Throw, Error, Result, Cause, PerfCause, Outcome, TerminationReason,
         Reason
<1>23. CASE UnwindKill
  BY <1>23 DEF UnwindKill, SignalGroups, NextGuard
<1>24. CASE UnwindReap
  BY <1>24 DEF UnwindReap, NextGuard
<1>25. CASE UnwindDone
  BY <1>25 DEF UnwindDone
<1>26. CASE ChildSetup
  BY <1>26 DEF ChildSetup, ChildFails, runnerVars
<1>27. CASE ChildReleased
  BY <1>27 DEF ChildReleased, ChildFails, runnerVars
<1>28. ASSUME NEW g \in Group, Exits(g) PROVE TypeOK'
  <2>1. PICK s \in {"success", "failure", "crash"} : LeaderEnds(g, s)
    BY <1>28 DEF Exits
  <2> QED
    BY <2>1 DEF LeaderEnds, runnerVars
<1>29. ASSUME NEW g \in Group, Forks(g) PROVE TypeOK'
  BY <1>29 DEF Forks, runnerVars
<1>30. ASSUME NEW g \in Group, KinExits(g) PROVE TypeOK'
  BY <1>30 DEF KinExits, runnerVars
<1>31. ASSUME NEW g \in Group, NEW s \in Signal, DiesOfSignal(g, s) PROVE TypeOK'
  BY <1>31 DEF DiesOfSignal, LeaderEnds, runnerVars
<1>32. ASSUME NEW s \in Polite, RunnerSignalled(s) PROVE TypeOK'
  BY <1>32 DEF RunnerSignalled, runnerVars
<1>33. CASE RunnerKilled
  BY <1>33 DEF RunnerKilled
<1>34. CASE SystemCallFails
  BY <1>34 DEF SystemCallFails, Throw, Error, Result, Cause
<1>35. ASSUME NEW g \in Group, GainsPrivilege(g) PROVE TypeOK'
  BY <1>35 DEF GainsPrivilege, runnerVars
<1>36. CASE UNCHANGED vars
  BY <1>36 DEF vars
<1> QED
  BY <1>1, <1>2, <1>3, <1>4, <1>5, <1>6, <1>7, <1>8, <1>9, <1>10, <1>11, <1>12, <1>13,
     <1>14, <1>15, <1>16, <1>17, <1>18, <1>19, <1>20, <1>21, <1>22, <1>23, <1>24,
     <1>25, <1>26, <1>27, <1>28, <1>29, <1>30, <1>31, <1>32, <1>33, <1>34, <1>35, <1>36
     DEF Next, RunnerStep, ChildStep, Environment

-----------------------------------------------------------------------------
(* Safety. *)

\* The guards' constructors, release() and destructors keep Guarding.
LEMMA StepGuarding ==
  ASSUME TypeOK, Guarding, [Next]_vars
  PROVE  Guarding'
<1> USE
   DEF TypeOK, Group, Alive, procVars, perfVars, flagVars, workVars, Guarding,
       GroupAlive, Struck, Doomed, NextGuard, InLoop
<1>1. CASE Begin
  BY <1>1 DEF Begin
<1>2. CASE OpenCollectors
  BY <1>2 DEF OpenCollectors, Throw, AfterOpen
<1>3. CASE StartCollectors
  BY <1>3 DEF StartCollectors, Throw
<1>4. CASE Release
  BY <1>4 DEF Release
<1>5. CASE BarrierFailed
  BY <1>5 DEF BarrierFailed, Throw, KinAfterRelease
<1>6. CASE Clock
  BY <1>6 DEF Clock, WaitTarget
<1>7. CASE ReapTarget
  BY <1>7 DEF ReapTarget
<1>8. CASE ServiceReady
  BY <1>8 DEF ServiceReady
<1>9. CASE ServiceNotReady
  BY <1>9 DEF ServiceNotReady
<1>10. CASE ReadinessTimeout
  BY <1>10, Asked DEF ReadinessTimeout, SignalInOrder, SignalGroups
<1>11. CASE NothingToStart
  BY <1>11 DEF NothingToStart
<1>12. CASE SpawnWorkload
  BY <1>12 DEF SpawnWorkload, Throw
<1>13. CASE CheckWorkload
  BY <1>13 DEF CheckWorkload, KinAfterRelease
<1>14. CASE StopCollectors
  BY <1>14 DEF StopCollectors, Throw
<1>15. CASE JudgeWorkload
  BY <1>15, Asked DEF JudgeWorkload, SignalInOrder, SignalGroups
<1>16. CASE CheckSignals
  BY <1>16, Asked, Throwing
     DEF CheckSignals, StopForSignal, StopForTimeout, KillAfterGrace, KeepWaiting,
         TimeoutSignal, SignalInOrder, SignalGroups, InterruptReaches
<1>17. CASE KillLeftWorkload
  BY <1>17 DEF KillLeftWorkload, SignalGroups, LeftWorkload
<1>18. CASE ReapLeftWorkload
  BY <1>18 DEF ReapLeftWorkload
<1>19. CASE CheckService
  BY <1>19 DEF CheckService, LeftWorkload
<1>20. CASE Conclude
  BY <1>20 DEF Conclude, Throw, KinAfterRelease, GuardedAfterLoop, ChildErrorSeen
<1>21. CASE ReadCollectors
  BY <1>21 DEF ReadCollectors, Throw
<1>22. CASE Verdict
  BY <1>22 DEF Verdict, Throw, Outcome
<1>23. CASE UnwindKill
  BY <1>23 DEF UnwindKill, SignalGroups, NextGuard
<1>24. CASE UnwindReap
  BY <1>24 DEF UnwindReap, NextGuard
<1>25. CASE UnwindDone
  BY <1>25 DEF UnwindDone
<1>26. CASE ChildSetup
  BY <1>26 DEF ChildSetup, ChildFails, runnerVars
<1>27. CASE ChildReleased
  BY <1>27 DEF ChildReleased, ChildFails, runnerVars
<1>28. ASSUME NEW g \in Group, Exits(g) PROVE Guarding'
  BY <1>28 DEF Exits, LeaderEnds, runnerVars
<1>29. ASSUME NEW g \in Group, Forks(g) PROVE Guarding'
  BY <1>29 DEF Forks, runnerVars
<1>30. ASSUME NEW g \in Group, KinExits(g) PROVE Guarding'
  BY <1>30 DEF KinExits, runnerVars
<1>31. ASSUME NEW g \in Group, NEW s \in Signal, DiesOfSignal(g, s) PROVE Guarding'
  BY <1>31 DEF DiesOfSignal, LeaderEnds, runnerVars
<1>32. ASSUME NEW s \in Polite, RunnerSignalled(s) PROVE Guarding'
  BY <1>32 DEF RunnerSignalled, runnerVars
<1>33. CASE RunnerKilled
  BY <1>33 DEF RunnerKilled
<1>34. CASE SystemCallFails
  BY <1>34, Throwing DEF SystemCallFails
<1>35. ASSUME NEW g \in Group, GainsPrivilege(g) PROVE Guarding'
  BY <1>35 DEF GainsPrivilege, runnerVars
<1>36. CASE UNCHANGED vars
  BY <1>36 DEF vars
<1> QED
  BY <1>1, <1>2, <1>3, <1>4, <1>5, <1>6, <1>7, <1>8, <1>9, <1>10, <1>11, <1>12, <1>13,
     <1>14, <1>15, <1>16, <1>17, <1>18, <1>19, <1>20, <1>21, <1>22, <1>23, <1>24,
     <1>25, <1>26, <1>27, <1>28, <1>29, <1>30, <1>31, <1>32, <1>33, <1>34, <1>35, <1>36
     DEF Next, RunnerStep, ChildStep, Environment

\* Opening, starting and releasing keep the start barrier.
LEMMA StepBarrier ==
  ASSUME TypeOK, Barrier, [Next]_vars
  PROVE  Barrier'
<1> USE DEF TypeOK, Group, Alive, procVars, perfVars, flagVars, workVars, Barrier
<1>1. CASE Begin
  BY <1>1 DEF Begin
<1>2. CASE OpenCollectors
  BY <1>2 DEF OpenCollectors, Throw, AfterOpen
<1>3. CASE StartCollectors
  BY <1>3 DEF StartCollectors, Throw
<1>4. CASE Release
  BY <1>4 DEF Release
<1>5. CASE BarrierFailed
  BY <1>5 DEF BarrierFailed, Throw, KinAfterRelease
<1>6. CASE Clock
  BY <1>6 DEF Clock, WaitTarget
<1>7. CASE ReapTarget
  BY <1>7 DEF ReapTarget
<1>8. CASE ServiceReady
  BY <1>8 DEF ServiceReady
<1>9. CASE ServiceNotReady
  BY <1>9 DEF ServiceNotReady
<1>10. CASE ReadinessTimeout
  BY <1>10, Asked DEF ReadinessTimeout, SignalInOrder, SignalGroups
<1>11. CASE NothingToStart
  BY <1>11 DEF NothingToStart
<1>12. CASE SpawnWorkload
  BY <1>12 DEF SpawnWorkload, Throw
<1>13. CASE CheckWorkload
  BY <1>13 DEF CheckWorkload, KinAfterRelease
<1>14. CASE StopCollectors
  BY <1>14 DEF StopCollectors, Throw
<1>15. CASE JudgeWorkload
  BY <1>15, Asked DEF JudgeWorkload, SignalInOrder, SignalGroups
<1>16. CASE CheckSignals
  BY <1>16, Asked, Throwing
     DEF CheckSignals, StopForSignal, StopForTimeout, KillAfterGrace, KeepWaiting,
         TimeoutSignal, SignalInOrder, SignalGroups, InterruptReaches
<1>17. CASE KillLeftWorkload
  BY <1>17 DEF KillLeftWorkload, SignalGroups, LeftWorkload
<1>18. CASE ReapLeftWorkload
  BY <1>18 DEF ReapLeftWorkload
<1>19. CASE CheckService
  BY <1>19 DEF CheckService, LeftWorkload
<1>20. CASE Conclude
  BY <1>20 DEF Conclude, Throw, KinAfterRelease, GuardedAfterLoop, ChildErrorSeen
<1>21. CASE ReadCollectors
  BY <1>21 DEF ReadCollectors, Throw
<1>22. CASE Verdict
  BY <1>22 DEF Verdict, Throw, Outcome
<1>23. CASE UnwindKill
  BY <1>23 DEF UnwindKill, SignalGroups, NextGuard
<1>24. CASE UnwindReap
  BY <1>24 DEF UnwindReap, NextGuard
<1>25. CASE UnwindDone
  BY <1>25 DEF UnwindDone
<1>26. CASE ChildSetup
  BY <1>26 DEF ChildSetup, ChildFails, runnerVars
<1>27. CASE ChildReleased
  BY <1>27 DEF ChildReleased, ChildFails, runnerVars
<1>28. ASSUME NEW g \in Group, Exits(g) PROVE Barrier'
  BY <1>28 DEF Exits, LeaderEnds, runnerVars
<1>29. ASSUME NEW g \in Group, Forks(g) PROVE Barrier'
  BY <1>29 DEF Forks, runnerVars
<1>30. ASSUME NEW g \in Group, KinExits(g) PROVE Barrier'
  BY <1>30 DEF KinExits, runnerVars
<1>31. ASSUME NEW g \in Group, NEW s \in Signal, DiesOfSignal(g, s) PROVE Barrier'
  BY <1>31 DEF DiesOfSignal, LeaderEnds, runnerVars
<1>32. ASSUME NEW s \in Polite, RunnerSignalled(s) PROVE Barrier'
  BY <1>32 DEF RunnerSignalled, runnerVars
<1>33. CASE RunnerKilled
  BY <1>33 DEF RunnerKilled
<1>34. CASE SystemCallFails
  BY <1>34, Throwing DEF SystemCallFails
<1>35. ASSUME NEW g \in Group, GainsPrivilege(g) PROVE Barrier'
  BY <1>35 DEF GainsPrivilege, runnerVars
<1>36. CASE UNCHANGED vars
  BY <1>36 DEF vars
<1> QED
  BY <1>1, <1>2, <1>3, <1>4, <1>5, <1>6, <1>7, <1>8, <1>9, <1>10, <1>11, <1>12, <1>13,
     <1>14, <1>15, <1>16, <1>17, <1>18, <1>19, <1>20, <1>21, <1>22, <1>23, <1>24,
     <1>25, <1>26, <1>27, <1>28, <1>29, <1>30, <1>31, <1>32, <1>33, <1>34, <1>35, <1>36
     DEF Next, RunnerStep, ChildStep, Environment

\* The flags of the loop and the checks after it keep the accounts.
LEMMA StepAccounting ==
  ASSUME TypeOK, Guarding, Accounting, [Next]_vars
  PROVE  Accounting'
<1> USE
   DEF TypeOK, Group, Alive, procVars, perfVars, flagVars, workVars, Guarding,
       GroupAlive, Accounting, Explained, InLoop
<1>1. CASE Begin
  BY <1>1, ResultTypes DEF Begin, Error, NoResult, Cause
<1>2. CASE OpenCollectors
  BY <1>2, Throwing DEF OpenCollectors, AfterOpen
<1>3. CASE StartCollectors
  BY <1>3, Throwing DEF StartCollectors
<1>4. CASE Release
  BY <1>4 DEF Release
<1>5. CASE BarrierFailed
  BY <1>5, Throwing DEF BarrierFailed, KinAfterRelease
<1>6. CASE Clock
  BY <1>6 DEF Clock, WaitTarget
<1>7. CASE ReapTarget
  BY <1>7 DEF ReapTarget
<1>8. CASE ServiceReady
  BY <1>8 DEF ServiceReady, AwaitsReadiness, WorkloadStarted
<1>9. CASE ServiceNotReady
  BY <1>9 DEF ServiceNotReady
<1>10. CASE ReadinessTimeout
  BY <1>10, Asked DEF ReadinessTimeout, SignalInOrder, SignalGroups
<1>11. CASE NothingToStart
  BY <1>11 DEF NothingToStart
<1>12. CASE SpawnWorkload
  BY <1>12, Throwing DEF SpawnWorkload
<1>13. CASE CheckWorkload
  BY <1>13 DEF CheckWorkload, KinAfterRelease
<1>14. CASE StopCollectors
  BY <1>14, Throwing DEF StopCollectors
<1>15. CASE JudgeWorkload
  BY <1>15, Asked DEF JudgeWorkload, SignalInOrder, SignalGroups
<1>16. CASE CheckSignals
  BY <1>16, Asked, Throwing
     DEF CheckSignals, StopForSignal, StopForTimeout, KillAfterGrace, KeepWaiting,
         TimeoutSignal, SignalInOrder, SignalGroups, InterruptReaches
<1>17. CASE KillLeftWorkload
  BY <1>17 DEF KillLeftWorkload, SignalGroups, LeftWorkload
<1>18. CASE ReapLeftWorkload
  BY <1>18 DEF ReapLeftWorkload
<1>19. CASE CheckService
  BY <1>19 DEF CheckService, LeftWorkload
<1>20. CASE Conclude
  BY <1>20, Throwing DEF Conclude, GuardedAfterLoop, ChildErrorSeen
<1>21. CASE ReadCollectors
  BY <1>21, Throwing DEF ReadCollectors
<1>22. CASE Verdict
  BY <1>22, Throwing DEF Verdict, Outcome, NoResult
<1>23. CASE UnwindKill
  BY <1>23 DEF UnwindKill, SignalGroups, NextGuard
<1>24. CASE UnwindReap
  BY <1>24 DEF UnwindReap, NextGuard
<1>25. CASE UnwindDone
  BY <1>25 DEF UnwindDone
<1>26. CASE ChildSetup
  BY <1>26 DEF ChildSetup, ChildFails, runnerVars
<1>27. CASE ChildReleased
  BY <1>27 DEF ChildReleased, ChildFails, runnerVars
<1>28. ASSUME NEW g \in Group, Exits(g) PROVE Accounting'
  BY <1>28 DEF Exits, LeaderEnds, runnerVars
<1>29. ASSUME NEW g \in Group, Forks(g) PROVE Accounting'
  BY <1>29 DEF Forks, runnerVars
<1>30. ASSUME NEW g \in Group, KinExits(g) PROVE Accounting'
  BY <1>30 DEF KinExits, runnerVars
<1>31. ASSUME NEW g \in Group, NEW s \in Signal, DiesOfSignal(g, s) PROVE Accounting'
  BY <1>31 DEF DiesOfSignal, LeaderEnds, runnerVars
<1>32. ASSUME NEW s \in Polite, RunnerSignalled(s) PROVE Accounting'
  BY <1>32 DEF RunnerSignalled, runnerVars
<1>33. CASE RunnerKilled
  BY <1>33 DEF RunnerKilled
<1>34. CASE SystemCallFails
  BY <1>34, Throwing DEF SystemCallFails
<1>35. ASSUME NEW g \in Group, GainsPrivilege(g) PROVE Accounting'
  BY <1>35 DEF GainsPrivilege, runnerVars
<1>36. CASE UNCHANGED vars
  BY <1>36 DEF vars
<1> QED
  BY <1>1, <1>2, <1>3, <1>4, <1>5, <1>6, <1>7, <1>8, <1>9, <1>10, <1>11, <1>12, <1>13,
     <1>14, <1>15, <1>16, <1>17, <1>18, <1>19, <1>20, <1>21, <1>22, <1>23, <1>24,
     <1>25, <1>26, <1>27, <1>28, <1>29, <1>30, <1>31, <1>32, <1>33, <1>34, <1>35, <1>36
     DEF Next, RunnerStep, ChildStep, Environment

\* A run ends by three steps only.
LEMMA LastStep ==
  ASSUME [Next]_vars, pc # "done", pc' = "done"
  PROVE  Begin \/ Verdict \/ UnwindDone
<1>1. CASE RunnerStep
  BY <1>1, Throwing, Asked
     DEF RunnerStep, AfterOpen, StopForSignal, StopForTimeout, KillAfterGrace, KeepWaiting,
         OpenCollectors, StartCollectors, Release, BarrierFailed, Clock,
         WaitTarget, ReapTarget, ServiceReady, ServiceNotReady,
         ReadinessTimeout, NothingToStart, SpawnWorkload, SystemCallFails,
         CheckWorkload, StopCollectors, JudgeWorkload,
         CheckSignals, KillLeftWorkload, ReapLeftWorkload,
         CheckService, Conclude, ReadCollectors, UnwindKill,
         UnwindReap
<1>2. CASE ChildStep \/ Environment \/ UNCHANGED vars
  BY <1>2
     DEF ChildStep, Environment,
         ChildSetup, ChildReleased, ChildFails, Exits, LeaderEnds, Forks,
         KinExits, GainsPrivilege, DiesOfSignal, RunnerSignalled, RunnerKilled,
         runnerVars, vars
<1> QED
  BY <1>1, <1>2 DEF Next

\* Before run() and after it nothing happens but the call itself: whatever
\* could still move would be alive without a guard, or shielded descendants.
LEMMA QuietOutside ==
  ASSUME TypeOK, Guarding, [Next]_vars, pc \in {"begin", "done"}, ~Begin
  PROVE  UNCHANGED <<runnerVars, life, status, childError>>
<1>1. \A g \in Group : life[g] \notin Alive
  BY DEF Guarding, GroupAlive
<1>2. ~RunnerStep
  BY DEF RunnerStep, Verdict, UnwindDone, InLoop,
         OpenCollectors, StartCollectors, Release, BarrierFailed, Clock,
         WaitTarget, ReapTarget, ServiceReady, ServiceNotReady,
         ReadinessTimeout, NothingToStart, SpawnWorkload, SystemCallFails,
         CheckWorkload, StopCollectors, JudgeWorkload,
         CheckSignals, KillLeftWorkload, ReapLeftWorkload,
         CheckService, Conclude, ReadCollectors, UnwindKill,
         UnwindReap
<1>3. CASE ChildStep \/ Environment \/ UNCHANGED vars
  BY <1>1, <1>3
     DEF Group, Alive, procVars, ChildStep, Environment,
         ChildSetup, ChildReleased, ChildFails, Exits, LeaderEnds, Forks,
         KinExits, GainsPrivilege, DiesOfSignal, RunnerSignalled, RunnerKilled,
         runnerVars, vars
<1> QED
  BY <1>2, <1>3 DEF Next

\* The phases of a run follow each other; only its death cuts them short.
LEMMA PhaseOrder ==
  ASSUME [Next]_vars
  PROVE  /\ pc' = "begin" => pc = "begin"
         /\ pc = "killed" => pc' = "killed"
         /\ pc' = "killed" => pc = "killed" \/ RunnerKilled
<1>1. CASE RunnerStep
  BY <1>1, Throwing, Asked
     DEF RunnerStep, AfterOpen, StopForSignal, StopForTimeout, KillAfterGrace, KeepWaiting,
         Begin, Verdict, UnwindDone, InLoop, OpenCollectors,
         StartCollectors, Release, BarrierFailed, Clock,
         WaitTarget, ReapTarget, ServiceReady, ServiceNotReady,
         ReadinessTimeout, NothingToStart, SpawnWorkload, SystemCallFails,
         CheckWorkload, StopCollectors, JudgeWorkload,
         CheckSignals, KillLeftWorkload, ReapLeftWorkload,
         CheckService, Conclude, ReadCollectors, UnwindKill,
         UnwindReap
<1>2. CASE ChildStep \/ Environment \/ UNCHANGED vars
  BY <1>2
     DEF ChildStep, Environment,
         ChildSetup, ChildReleased, ChildFails, Exits, LeaderEnds, Forks,
         KinExits, GainsPrivilege, DiesOfSignal, RunnerSignalled, RunnerKilled,
         runnerVars, vars
<1> QED
  BY <1>1, <1>2 DEF Next

\* Results rest on the accounts at the verdict.
LEMMA StepSuccess ==
  ASSUME TypeOK, Guarding, Accounting, Accounting', SuccessIsGenuine, [Next]_vars
  PROVE  SuccessIsGenuine'
<1> USE DEF TypeOK, Group, Alive, procVars, perfVars, flagVars, workVars, GroupAlive,
            Succeeded
<1> SUFFICES ASSUME Succeeded' PROVE SuccessIsGenuine'
  BY DEF SuccessIsGenuine
<1>1. result'.kind = "outcome" /\ pc' = "done"
  BY DEF Outcome, Accounting
<1>2. CASE Verdict
  <2>1. TerminationReason = "success"
    BY <1>1, <1>2, Throwing DEF Verdict, Outcome, Accounting
  <2>2. ~interrupted /\ ~timedOut
    BY <2>1 DEF TerminationReason
  <2>3. managedStop \/ status["target"] = "success"
    BY <2>1 DEF TerminationReason
  <2>4. CASE options.service
    <3>1. status["workload"] = "success"
      BY <1>2, <2>2, <2>4 DEF Verdict, Accounting, Explained
    <3> QED
      BY <1>2, <2>2, <2>4, <3>1 DEF Verdict, Accounting, SuccessIsGenuine
  <2>5. CASE ~options.service
    <3>1. status["target"] = "success"
      BY <2>3, <2>5 DEF Accounting
    <3> QED
      BY <1>2, <2>2, <2>5, <3>1 DEF Verdict, Accounting, SuccessIsGenuine
  <2> QED
    BY <2>4, <2>5
<1>3. CASE ~Verdict
  <2>1. pc = "done"
    <3>1. SUFFICES ASSUME pc # "done" PROVE FALSE
      OBVIOUS
    <3>2. Begin \/ UnwindDone
      BY <1>1, <1>3, <3>1, LastStep
    <3>3. result'.kind # "outcome"
      BY <3>1, <3>2, ResultTypes DEF Begin, UnwindDone, Accounting, Error
    <3> QED
      BY <1>1, <3>3
  <2>2. UNCHANGED <<runnerVars, status, childError>>
    BY <2>1, QuietOutside DEF Begin
  <2> QED
    BY <2>2 DEF SuccessIsGenuine, runnerVars
<1> QED
  BY <1>2, <1>3
\* The inductive invariant is kept by every step.
LEMMA Invariance == IInv /\ [Next]_vars => IInv'
<1> SUFFICES ASSUME IInv, [Next]_vars PROVE IInv'
  OBVIOUS
<1>1. TypeOK'
  BY StepTypes DEF IInv
<1>2. Guarding'
  BY StepGuarding DEF IInv
<1>3. Barrier'
  BY StepBarrier DEF IInv
<1>4. Accounting'
  BY StepAccounting DEF IInv
<1>5. SuccessIsGenuine'
  BY <1>4, StepSuccess DEF IInv
<1> QED
  BY <1>1, <1>2, <1>3, <1>4, <1>5 DEF IInv

\* The inductive invariant holds when run() is called.
LEMMA Initially == Init => IInv
<1> SUFFICES ASSUME Init PROVE IInv
  OBVIOUS
<1>1. TypeOK
  BY InitTypes
<1>2. Guarding
  BY DEF Init, Guarding, Group, GroupAlive, Alive, InLoop
<1>3. Barrier
  BY DEF Init, Barrier, Group
<1>4. Accounting /\ SuccessIsGenuine
  BY InitialResult DEF Init, Accounting, Group, SuccessIsGenuine, Succeeded, Outcome
<1> QED
  BY <1>1, <1>2, <1>3, <1>4 DEF IInv

\* The inductive invariant holds in every state of every run.
THEOREM Invariant == Spec => []IInv
  BY Initially, Invariance, PTL DEF Spec

\* Every variable keeps its type, for every set of options.
THEOREM TypeCorrect == Spec => []TypeOK
  BY Invariant, PTL DEF IInv

\* Whichever way run() ends, the leaders are reaped and every descendant in a
\* group that the runner may signal was sent SIGKILL.
THEOREM NothingLeftUnkilled == Spec => []NoProcessLeftUnkilled
<1>1. IInv => NoProcessLeftUnkilled
  BY DEF IInv, Guarding, NoProcessLeftUnkilled
<1> QED
  BY <1>1, Invariant, PTL

\* A successful result is one of the measured program.
THEOREM GenuineSuccess == Spec => []SuccessIsGenuine
  BY Invariant, PTL DEF IInv

\* No program runs before its collectors do.
THEOREM BarrierHolds == Spec => []StartBarrierHolds
<1>1. IInv => StartBarrierHolds
  BY DEF IInv, Barrier, StartBarrierHolds
<1> QED
  BY <1>1, Invariant, PTL

\* A target whose set-up or exec failed has no outcome.
THEOREM ChildErrorsThrown == Spec => []ChildErrorReported
<1>1. IInv => ChildErrorReported
  BY DEF IInv, Accounting, ChildErrorReported
<1> QED
  BY <1>1, Invariant, PTL

-----------------------------------------------------------------------------
(* Refinement: what run() promises its caller. *)

\* A call that has not begun is idle and has no process.
LEMMA ContractStarts == Init => Contract!ContractInit
  BY DEF Init, Contract!ContractInit, Group, GroupAlive, Alive

\* Each step of the runner is a step of the contract or a stutter.
LEMMA ContractStep ==
  ASSUME IInv, IInv', [Next]_vars
  PROVE  [Contract!ContractNext]_(Contract!contractVars)
<1> USE DEF Contract!ContractNext, Contract!contractVars
<1>1. CASE pc \in {"begin", "done"} /\ ~Begin
  <2>1. UNCHANGED <<pc, result>>
    BY <1>1, QuietOutside DEF IInv, runnerVars
  <2>2. {g \in Group : GroupAlive(g)} = {} /\ {g \in Group : GroupAlive(g)}' = {}
    BY <1>1, <2>1 DEF IInv, Guarding
  <2> QED
    BY <2>1, <2>2
<1>2. CASE Begin
  <2>1. CASE pc' = "done"
    <3>1. {g \in Group : GroupAlive(g)}' = {g \in Group : GroupAlive(g)}
      BY <1>2, <2>1 DEF Begin, GroupAlive
    <3>2. result' \in Result \ {NoResult}
      BY <2>1 DEF IInv, TypeOK, Accounting
    <3>3. Contract!Reject
      BY <1>2, <2>1, <3>1, <3>2 DEF Begin, Contract!Reject
    <3> QED
      BY <3>3
  <2>2. CASE pc' # "done"
    <3>1. Contract!Start
      BY <1>2, <2>2 DEF Begin, Contract!Start
    <3> QED
      BY <3>1
  <2> QED
    BY <2>1, <2>2
<1>3. CASE pc = "killed"
  <2>1. Contract!Live
    BY <1>3, PhaseOrder DEF Contract!Live
  <2> QED
    BY <2>1
<1>4. CASE pc \notin {"begin", "done", "killed"}
  <2>1. CASE pc' = "done"
    <3>1. Verdict \/ UnwindDone
      BY <1>4, <2>1, LastStep DEF Begin
    <3>2. guarded = {} /\ UNCHANGED <<life, kin, shielded>>
      BY <3>1 DEF Verdict, UnwindDone, IInv, Guarding, procVars
    <3>3. {g \in Group : GroupAlive(g)} = {}
      BY <1>4, <3>2 DEF IInv, Guarding
    <3>4. {g \in Group : GroupAlive(g)}' = {}
      BY <3>2, <3>3 DEF GroupAlive
    <3>5. result' \in Result \ {NoResult}
      BY <2>1 DEF IInv, TypeOK, Accounting
    <3>6. Contract!End
      BY <1>4, <2>1, <3>3, <3>4, <3>5 DEF Contract!End
    <3> QED
      BY <3>6
  <2>2. CASE pc' = "killed"
    <3>1. RunnerKilled
      BY <1>4, <2>2, PhaseOrder
    <3>2. {g \in Group : GroupAlive(g)}' = {g \in Group : GroupAlive(g)}
      BY <3>1 DEF RunnerKilled, GroupAlive
    <3>3. Contract!Abandon
      BY <1>4, <2>2, <3>2 DEF Contract!Abandon
    <3> QED
      BY <3>3
  <2>3. CASE pc' \notin {"done", "killed"}
    <3>1. Contract!Live
      BY <1>4, <2>3, PhaseOrder DEF Contract!Live
    <3> QED
      BY <3>1
  <2> QED
    BY <2>1, <2>2, <2>3
<1> QED
  BY <1>1, <1>2, <1>3, <1>4

\* ProcessRunner implements RunContract.
THEOREM Refinement == Spec => KeepsContract
<1>1. Init => Contract!ContractInit
  BY ContractStarts
<1>2. IInv /\ IInv' /\ [Next]_vars => [Contract!ContractNext]_(Contract!contractVars)
  BY ContractStep
<1> QED
  BY <1>1, <1>2, Invariant, PTL DEF Spec, KeepsContract, Contract!ContractSpec

-----------------------------------------------------------------------------
(***************************************************************************)
(* The collectors cover the workload and are all read when perf is         *)
(* required; which pids a guard may signal; the loop asks before it kills. *)
(* Five strengthenings of the inductive invariant.                         *)
(***************************************************************************)

Measuring == pc \notin {"begin", "open", "barrierFailed", "unwind", "unwindReap",
                        "done", "killed"}

\* How far both collectors are, told from the two flags of startCollectors and
\* stopCollectors, and from where the runner is.
Collecting ==
    /\ pc \in {"begin", "open"} =>
         counters = "off" /\ sampler = "off" /\ ~collectorsStarted /\ ~collectorsStopped
    /\ Measuring =>
         /\ ~collectorsStarted => ~collectorsStopped
         /\ ~collectorsStarted /\ pc # "verdict" =>
              counters \in {"off", "failed", "open"} /\ sampler \in {"off", "failed", "open"}
         /\ collectorsStarted /\ ~collectorsStopped =>
              /\ counters \in {"off", "failed", "running"}
              /\ sampler \in {"off", "failed", "running"}
         /\ collectorsStopped =>
              /\ counters \in {"off", "failed", "stopped", "read"}
              /\ sampler \in {"off", "failed", "stopped", "read"}
    /\ pc \in {"begin", "open", "release", "start", "spawn"} => life["workload"] = "none"
    /\ pc = "start" \/ (options.service /\ pc = "release") => ~collectorsStarted
    /\ pc = "spawn" => collectorsStarted /\ ~collectorsStopped
    /\ pc \in {"conclude", "collect"} => ~collectorsStarted \/ collectorsStopped
    /\ options.service /\ collectorsStarted /\ pc \in InLoop
       /\ (pc = "stop" => life["target"] # "reaped") =>
         pc = "spawn" \/ life["workload"] # "none"
    /\ life["workload"] = "reaped" /\ pc \in InLoop \ {"stop", "judge"} => stopping
    /\ pc = "verdict" =>
         counters \in {"off", "failed", "read"} /\ sampler \in {"off", "failed", "read"}

\* With requirePerf nobody goes on without a collector that was asked for.
Requiring ==
    options.requirePerf /\ Measuring =>
        /\ options.collectPerfCounters => counters \notin {"off", "failed"}
        /\ options.sampling => sampler \notin {"off", "failed"}

\* An exception leaves a reaped target guarded only out of stopCollectors.
Leaving ==
    /\ "workload" \in guarded => life["workload"] \notin {"none", "reaped"}
    /\ pc \in {"unwind", "unwindReap"} /\ "target" \in guarded
       /\ life["target"] = "reaped" =>
         options.requirePerf /\ result.why \in {"counterStop", "samplerStop"}

\* While the loop stops, every leader that lives was asked to.
Asking ==
    /\ pc \in {"begin", "open", "release", "start", "spawn"} => ~stopping
    /\ \/ pc \in {"begin", "open", "release"}
       \/ pc \in InLoop /\ life["target"] # "reaped"
       => \A g \in Group :
            /\ "KILL" \in pending[g] => pending[g] \cap Polite # {}
            /\ stopping /\ life[g] \in Alive => pending[g] \cap Polite # {}

PInv == /\ IInv
        /\ Collecting /\ Requiring /\ WorkloadFullyMeasured /\ RequirePerfHonoured
        /\ Leaving /\ Asking

-----------------------------------------------------------------------------

\* The two lambdas and the steps around them keep the collectors' order.
LEMMA StepCollecting ==
  ASSUME TypeOK, Guarding, Collecting, [Next]_vars
  PROVE  Collecting'
<1> USE
   DEF TypeOK, Group, Alive, procVars, perfVars, flagVars, workVars, InLoop,
       Guarding, Collecting, Measuring
<1>1. CASE Begin
  BY <1>1 DEF Begin
<1>2. CASE OpenCollectors
  <2>1. /\ counters' \in {"off", "failed", "open"} /\ sampler' \in {"off", "failed", "open"}
        /\ pc' \in {"unwind", "release", "start"}
        /\ pc' = "start" => ~options.service
    BY <1>2 DEF OpenCollectors, Throw, AfterOpen
  <2>2. UNCHANGED <<options, life, collectorsStarted, collectorsStopped, stopping>>
    BY <1>2 DEF OpenCollectors
  <2> QED
    BY <1>2, <2>1, <2>2 DEF OpenCollectors
<1>3. CASE StartCollectors
  BY <1>3 DEF StartCollectors, Throw
<1>4. CASE Release
  BY <1>4 DEF Release
<1>5. CASE BarrierFailed
  BY <1>5 DEF BarrierFailed, Throw, KinAfterRelease
<1>6. CASE Clock
  BY <1>6 DEF Clock, WaitTarget
<1>7. CASE ReapTarget
  BY <1>7 DEF ReapTarget
<1>8. CASE ServiceReady
  BY <1>8 DEF ServiceReady, AwaitsReadiness, WorkloadStarted
<1>9. CASE ServiceNotReady
  BY <1>9 DEF ServiceNotReady
<1>10. CASE ReadinessTimeout
  BY <1>10, Asked DEF ReadinessTimeout, SignalInOrder, SignalGroups
<1>11. CASE NothingToStart
  BY <1>11 DEF NothingToStart
<1>12. CASE SpawnWorkload
  BY <1>12 DEF SpawnWorkload, Throw
<1>13. CASE CheckWorkload
  BY <1>13 DEF CheckWorkload, KinAfterRelease
<1>14. CASE StopCollectors
  BY <1>14 DEF StopCollectors, Throw
<1>15. CASE JudgeWorkload
  BY <1>15, Asked DEF JudgeWorkload, SignalInOrder, SignalGroups
<1>16. CASE CheckSignals
  BY <1>16, Asked, Throwing
     DEF CheckSignals, StopForSignal, StopForTimeout, KillAfterGrace, KeepWaiting,
         TimeoutSignal, SignalInOrder, SignalGroups, InterruptReaches
<1>17. CASE KillLeftWorkload
  BY <1>17 DEF KillLeftWorkload, SignalGroups, LeftWorkload
<1>18. CASE ReapLeftWorkload
  BY <1>18 DEF ReapLeftWorkload
<1>19. CASE CheckService
  BY <1>19 DEF CheckService, LeftWorkload
<1>20. CASE Conclude
  BY <1>20 DEF Conclude, Throw, KinAfterRelease, GuardedAfterLoop, ChildErrorSeen
<1>21. CASE ReadCollectors
  BY <1>21 DEF ReadCollectors, Throw, ReadResult
<1>22. CASE Verdict
  BY <1>22 DEF Verdict, Throw, Outcome
<1>23. CASE UnwindKill
  BY <1>23 DEF UnwindKill, SignalGroups, NextGuard
<1>24. CASE UnwindReap
  BY <1>24 DEF UnwindReap, NextGuard
<1>25. CASE UnwindDone
  BY <1>25 DEF UnwindDone
<1>26. CASE ChildSetup
  BY <1>26 DEF ChildSetup, ChildFails, runnerVars
<1>27. CASE ChildReleased
  BY <1>27 DEF ChildReleased, ChildFails, runnerVars
<1>28. ASSUME NEW g \in Group, Exits(g) PROVE Collecting'
  BY <1>28 DEF Exits, LeaderEnds, runnerVars
<1>29. ASSUME NEW g \in Group, Forks(g) PROVE Collecting'
  BY <1>29 DEF Forks, runnerVars
<1>30. ASSUME NEW g \in Group, KinExits(g) PROVE Collecting'
  BY <1>30 DEF KinExits, runnerVars
<1>31. ASSUME NEW g \in Group, NEW s \in Signal, DiesOfSignal(g, s) PROVE Collecting'
  BY <1>31 DEF DiesOfSignal, LeaderEnds, runnerVars
<1>32. ASSUME NEW s \in Polite, RunnerSignalled(s) PROVE Collecting'
  BY <1>32 DEF RunnerSignalled, runnerVars
<1>33. CASE RunnerKilled
  BY <1>33 DEF RunnerKilled
<1>34. CASE SystemCallFails
  BY <1>34, Throwing DEF SystemCallFails
<1>35. ASSUME NEW g \in Group, GainsPrivilege(g) PROVE Collecting'
  BY <1>35 DEF GainsPrivilege, runnerVars
<1>36. CASE UNCHANGED vars
  BY <1>36 DEF vars
<1> QED
  BY <1>1, <1>2, <1>3, <1>4, <1>5, <1>6, <1>7, <1>8, <1>9, <1>10, <1>11, <1>12,
     <1>13, <1>14, <1>15, <1>16, <1>17, <1>18, <1>19, <1>20, <1>21, <1>22, <1>23,
     <1>24, <1>25, <1>26, <1>27, <1>28, <1>29, <1>30, <1>31, <1>32, <1>33, <1>34, <1>35, <1>36
     DEF Next, RunnerStep, ChildStep, Environment

\* A collector that is lost ends the run that requires it.
LEMMA StepRequiring ==
  ASSUME TypeOK, Collecting, Requiring, [Next]_vars
  PROVE  Requiring'
<1> USE
   DEF TypeOK, Group, Alive, procVars, perfVars, flagVars, workVars, InLoop,
       Collecting, Requiring, Measuring
<1>1. CASE Begin
  BY <1>1 DEF Begin
<1>2. CASE OpenCollectors
  BY <1>2 DEF OpenCollectors, Throw, AfterOpen, LostFatally
<1>3. CASE StartCollectors
  BY <1>3 DEF StartCollectors, Throw
<1>4. CASE Release
  BY <1>4 DEF Release
<1>5. CASE BarrierFailed
  BY <1>5 DEF BarrierFailed, Throw, KinAfterRelease
<1>6. CASE Clock
  BY <1>6 DEF Clock, WaitTarget
<1>7. CASE ReapTarget
  BY <1>7 DEF ReapTarget
<1>8. CASE ServiceReady
  BY <1>8 DEF ServiceReady
<1>9. CASE ServiceNotReady
  BY <1>9 DEF ServiceNotReady
<1>10. CASE ReadinessTimeout
  BY <1>10, Asked DEF ReadinessTimeout, SignalInOrder, SignalGroups
<1>11. CASE NothingToStart
  BY <1>11 DEF NothingToStart
<1>12. CASE SpawnWorkload
  BY <1>12 DEF SpawnWorkload, Throw
<1>13. CASE CheckWorkload
  BY <1>13 DEF CheckWorkload, KinAfterRelease
<1>14. CASE StopCollectors
  BY <1>14 DEF StopCollectors, Throw, LostFatally
<1>15. CASE JudgeWorkload
  BY <1>15, Asked DEF JudgeWorkload, SignalInOrder, SignalGroups
<1>16. CASE CheckSignals
  BY <1>16, Asked, Throwing
     DEF CheckSignals, StopForSignal, StopForTimeout, KillAfterGrace, KeepWaiting,
         TimeoutSignal, SignalInOrder, SignalGroups, InterruptReaches
<1>17. CASE KillLeftWorkload
  BY <1>17 DEF KillLeftWorkload, SignalGroups, LeftWorkload
<1>18. CASE ReapLeftWorkload
  BY <1>18 DEF ReapLeftWorkload
<1>19. CASE CheckService
  BY <1>19 DEF CheckService, LeftWorkload
<1>20. CASE Conclude
  BY <1>20 DEF Conclude, Throw, KinAfterRelease, GuardedAfterLoop, ChildErrorSeen
<1>21. CASE ReadCollectors
  BY <1>21 DEF ReadCollectors, Throw, ReadResult, LostFatally
<1>22. CASE Verdict
  BY <1>22 DEF Verdict, Throw, Outcome
<1>23. CASE UnwindKill
  BY <1>23 DEF UnwindKill, SignalGroups, NextGuard
<1>24. CASE UnwindReap
  BY <1>24 DEF UnwindReap, NextGuard
<1>25. CASE UnwindDone
  BY <1>25 DEF UnwindDone
<1>26. CASE ChildSetup
  BY <1>26 DEF ChildSetup, ChildFails, runnerVars
<1>27. CASE ChildReleased
  BY <1>27 DEF ChildReleased, ChildFails, runnerVars
<1>28. ASSUME NEW g \in Group, Exits(g) PROVE Requiring'
  BY <1>28 DEF Exits, LeaderEnds, runnerVars
<1>29. ASSUME NEW g \in Group, Forks(g) PROVE Requiring'
  BY <1>29 DEF Forks, runnerVars
<1>30. ASSUME NEW g \in Group, KinExits(g) PROVE Requiring'
  BY <1>30 DEF KinExits, runnerVars
<1>31. ASSUME NEW g \in Group, NEW s \in Signal, DiesOfSignal(g, s) PROVE Requiring'
  BY <1>31 DEF DiesOfSignal, LeaderEnds, runnerVars
<1>32. ASSUME NEW s \in Polite, RunnerSignalled(s) PROVE Requiring'
  BY <1>32 DEF RunnerSignalled, runnerVars
<1>33. CASE RunnerKilled
  BY <1>33 DEF RunnerKilled
<1>34. CASE SystemCallFails
  BY <1>34, Throwing DEF SystemCallFails
<1>35. ASSUME NEW g \in Group, GainsPrivilege(g) PROVE Requiring'
  BY <1>35 DEF GainsPrivilege, runnerVars
<1>36. CASE UNCHANGED vars
  BY <1>36 DEF vars
<1> QED
  BY <1>1, <1>2, <1>3, <1>4, <1>5, <1>6, <1>7, <1>8, <1>9, <1>10, <1>11, <1>12,
     <1>13, <1>14, <1>15, <1>16, <1>17, <1>18, <1>19, <1>20, <1>21, <1>22, <1>23,
     <1>24, <1>25, <1>26, <1>27, <1>28, <1>29, <1>30, <1>31, <1>32, <1>33, <1>34, <1>35, <1>36
     DEF Next, RunnerStep, ChildStep, Environment

\* A workload lives between the start and the stop of the collectors.
LEMMA StepMeasured ==
  ASSUME TypeOK, Guarding, Collecting, WorkloadFullyMeasured, [Next]_vars
  PROVE  WorkloadFullyMeasured'
<1> USE
   DEF TypeOK, Group, Alive, procVars, perfVars, flagVars, workVars, InLoop,
       Guarding, GroupAlive, Collecting, Measuring, WorkloadFullyMeasured
<1>1. CASE Begin
  BY <1>1 DEF Begin
<1>2. CASE OpenCollectors
  BY <1>2 DEF OpenCollectors, Throw, AfterOpen
<1>3. CASE StartCollectors
  BY <1>3 DEF StartCollectors, Throw
<1>4. CASE Release
  BY <1>4 DEF Release
<1>5. CASE BarrierFailed
  BY <1>5 DEF BarrierFailed, Throw, KinAfterRelease
<1>6. CASE Clock
  BY <1>6 DEF Clock, WaitTarget
<1>7. CASE ReapTarget
  BY <1>7 DEF ReapTarget
<1>8. CASE ServiceReady
  BY <1>8 DEF ServiceReady
<1>9. CASE ServiceNotReady
  BY <1>9 DEF ServiceNotReady
<1>10. CASE ReadinessTimeout
  BY <1>10, Asked DEF ReadinessTimeout, SignalInOrder, SignalGroups
<1>11. CASE NothingToStart
  BY <1>11 DEF NothingToStart
<1>12. CASE SpawnWorkload
  BY <1>12 DEF SpawnWorkload, Throw
<1>13. CASE CheckWorkload
  BY <1>13 DEF CheckWorkload, KinAfterRelease
<1>14. CASE StopCollectors
  BY <1>14 DEF StopCollectors, Throw
<1>15. CASE JudgeWorkload
  BY <1>15, Asked DEF JudgeWorkload, SignalInOrder, SignalGroups
<1>16. CASE CheckSignals
  BY <1>16, Asked, Throwing
     DEF CheckSignals, StopForSignal, StopForTimeout, KillAfterGrace, KeepWaiting,
         TimeoutSignal, SignalInOrder, SignalGroups, InterruptReaches
<1>17. CASE KillLeftWorkload
  BY <1>17 DEF KillLeftWorkload, SignalGroups, LeftWorkload
<1>18. CASE ReapLeftWorkload
  BY <1>18 DEF ReapLeftWorkload
<1>19. CASE CheckService
  BY <1>19 DEF CheckService, LeftWorkload
<1>20. CASE Conclude
  BY <1>20 DEF Conclude, Throw, KinAfterRelease, GuardedAfterLoop, ChildErrorSeen
<1>21. CASE ReadCollectors
  BY <1>21 DEF ReadCollectors, Throw
<1>22. CASE Verdict
  BY <1>22 DEF Verdict, Throw, Outcome
<1>23. CASE UnwindKill
  BY <1>23 DEF UnwindKill, SignalGroups, NextGuard
<1>24. CASE UnwindReap
  BY <1>24 DEF UnwindReap, NextGuard
<1>25. CASE UnwindDone
  BY <1>25 DEF UnwindDone
<1>26. CASE ChildSetup
  BY <1>26 DEF ChildSetup, ChildFails, runnerVars
<1>27. CASE ChildReleased
  BY <1>27 DEF ChildReleased, ChildFails, runnerVars
<1>28. ASSUME NEW g \in Group, Exits(g) PROVE WorkloadFullyMeasured'
  BY <1>28 DEF Exits, LeaderEnds, runnerVars
<1>29. ASSUME NEW g \in Group, Forks(g) PROVE WorkloadFullyMeasured'
  BY <1>29 DEF Forks, runnerVars
<1>30. ASSUME NEW g \in Group, KinExits(g) PROVE WorkloadFullyMeasured'
  BY <1>30 DEF KinExits, runnerVars
<1>31. ASSUME NEW g \in Group, NEW s \in Signal, DiesOfSignal(g, s) PROVE WorkloadFullyMeasured'
  BY <1>31 DEF DiesOfSignal, LeaderEnds, runnerVars
<1>32. ASSUME NEW s \in Polite, RunnerSignalled(s) PROVE WorkloadFullyMeasured'
  BY <1>32 DEF RunnerSignalled, runnerVars
<1>33. CASE RunnerKilled
  BY <1>33 DEF RunnerKilled
<1>34. CASE SystemCallFails
  BY <1>34, Throwing DEF SystemCallFails
<1>35. ASSUME NEW g \in Group, GainsPrivilege(g) PROVE WorkloadFullyMeasured'
  BY <1>35 DEF GainsPrivilege, runnerVars
<1>36. CASE UNCHANGED vars
  BY <1>36 DEF vars
<1> QED
  BY <1>1, <1>2, <1>3, <1>4, <1>5, <1>6, <1>7, <1>8, <1>9, <1>10, <1>11, <1>12,
     <1>13, <1>14, <1>15, <1>16, <1>17, <1>18, <1>19, <1>20, <1>21, <1>22, <1>23,
     <1>24, <1>25, <1>26, <1>27, <1>28, <1>29, <1>30, <1>31, <1>32, <1>33, <1>34, <1>35, <1>36
     DEF Next, RunnerStep, ChildStep, Environment

\* Guards are disarmed with the wait; only stopCollectors can throw between.
LEMMA StepLeaving ==
  ASSUME TypeOK, Guarding, Leaving, [Next]_vars
  PROVE  Leaving'
<1> USE
   DEF TypeOK, Group, Alive, procVars, perfVars, flagVars, workVars, InLoop,
       Guarding, GroupAlive, Leaving
<1>1. CASE Begin
  BY <1>1 DEF Begin
<1>2. CASE OpenCollectors
  BY <1>2 DEF OpenCollectors, Throw, AfterOpen
<1>3. CASE StartCollectors
  BY <1>3 DEF StartCollectors, Throw
<1>4. CASE Release
  BY <1>4 DEF Release
<1>5. CASE BarrierFailed
  BY <1>5 DEF BarrierFailed, Throw, KinAfterRelease
<1>6. CASE Clock
  BY <1>6 DEF Clock, WaitTarget
<1>7. CASE ReapTarget
  BY <1>7 DEF ReapTarget
<1>8. CASE ServiceReady
  BY <1>8 DEF ServiceReady
<1>9. CASE ServiceNotReady
  BY <1>9 DEF ServiceNotReady
<1>10. CASE ReadinessTimeout
  BY <1>10, Asked DEF ReadinessTimeout, SignalInOrder, SignalGroups
<1>11. CASE NothingToStart
  BY <1>11 DEF NothingToStart
<1>12. CASE SpawnWorkload
  BY <1>12 DEF SpawnWorkload, Throw
<1>13. CASE CheckWorkload
  BY <1>13 DEF CheckWorkload, KinAfterRelease
<1>14. CASE StopCollectors
  BY <1>14 DEF StopCollectors, Throw, LostFatally, Error
<1>15. CASE JudgeWorkload
  BY <1>15, Asked DEF JudgeWorkload, SignalInOrder, SignalGroups
<1>16. CASE CheckSignals
  BY <1>16, Asked, Throwing
     DEF CheckSignals, StopForSignal, StopForTimeout, KillAfterGrace, KeepWaiting,
         TimeoutSignal, SignalInOrder, SignalGroups, InterruptReaches
<1>17. CASE KillLeftWorkload
  BY <1>17 DEF KillLeftWorkload, SignalGroups, LeftWorkload
<1>18. CASE ReapLeftWorkload
  BY <1>18 DEF ReapLeftWorkload
<1>19. CASE CheckService
  BY <1>19 DEF CheckService, LeftWorkload
<1>20. CASE Conclude
  BY <1>20 DEF Conclude, Throw, KinAfterRelease, GuardedAfterLoop, ChildErrorSeen
<1>21. CASE ReadCollectors
  BY <1>21 DEF ReadCollectors, Throw
<1>22. CASE Verdict
  BY <1>22 DEF Verdict, Throw, Outcome
<1>23. CASE UnwindKill
  BY <1>23 DEF UnwindKill, SignalGroups, NextGuard
<1>24. CASE UnwindReap
  BY <1>24 DEF UnwindReap, NextGuard
<1>25. CASE UnwindDone
  BY <1>25 DEF UnwindDone
<1>26. CASE ChildSetup
  BY <1>26 DEF ChildSetup, ChildFails, runnerVars
<1>27. CASE ChildReleased
  BY <1>27 DEF ChildReleased, ChildFails, runnerVars
<1>28. ASSUME NEW g \in Group, Exits(g) PROVE Leaving'
  BY <1>28 DEF Exits, LeaderEnds, runnerVars
<1>29. ASSUME NEW g \in Group, Forks(g) PROVE Leaving'
  BY <1>29 DEF Forks, runnerVars
<1>30. ASSUME NEW g \in Group, KinExits(g) PROVE Leaving'
  BY <1>30 DEF KinExits, runnerVars
<1>31. ASSUME NEW g \in Group, NEW s \in Signal, DiesOfSignal(g, s) PROVE Leaving'
  BY <1>31 DEF DiesOfSignal, LeaderEnds, runnerVars
<1>32. ASSUME NEW s \in Polite, RunnerSignalled(s) PROVE Leaving'
  BY <1>32 DEF RunnerSignalled, runnerVars
<1>33. CASE RunnerKilled
  BY <1>33 DEF RunnerKilled
<1>34. CASE SystemCallFails
  BY <1>34, Throwing DEF SystemCallFails
<1>35. ASSUME NEW g \in Group, GainsPrivilege(g) PROVE Leaving'
  BY <1>35 DEF GainsPrivilege, runnerVars
<1>36. CASE UNCHANGED vars
  BY <1>36 DEF vars
<1> QED
  BY <1>1, <1>2, <1>3, <1>4, <1>5, <1>6, <1>7, <1>8, <1>9, <1>10, <1>11, <1>12,
     <1>13, <1>14, <1>15, <1>16, <1>17, <1>18, <1>19, <1>20, <1>21, <1>22, <1>23,
     <1>24, <1>25, <1>26, <1>27, <1>28, <1>29, <1>30, <1>31, <1>32, <1>33, <1>34, <1>35, <1>36
     DEF Next, RunnerStep, ChildStep, Environment

\* Whoever sets stopping signals all that lives; SIGKILL follows later.
LEMMA StepAsking ==
  ASSUME TypeOK, Guarding, Accounting, Asking, [Next]_vars
  PROVE  Asking'
<1> USE
   DEF TypeOK, Group, Alive, Polite, Signal, procVars, perfVars, flagVars, workVars,
       InLoop, Guarding, Asking
<1>1. CASE Begin
  BY <1>1 DEF Begin
<1>2. CASE OpenCollectors
  BY <1>2 DEF OpenCollectors, Throw, AfterOpen
<1>3. CASE StartCollectors
  BY <1>3 DEF StartCollectors, Throw
<1>4. CASE Release
  BY <1>4 DEF Release
<1>5. CASE BarrierFailed
  BY <1>5 DEF BarrierFailed, Throw, KinAfterRelease
<1>6. CASE Clock
  BY <1>6 DEF Clock, WaitTarget
<1>7. CASE ReapTarget
  BY <1>7 DEF ReapTarget
<1>8. CASE ServiceReady
  BY <1>8 DEF ServiceReady, AwaitsReadiness
<1>9. CASE ServiceNotReady
  BY <1>9 DEF ServiceNotReady
<1>10. CASE ReadinessTimeout
  BY <1>10, Asked DEF ReadinessTimeout, SignalInOrder, SignalGroups, AwaitsReadiness, WorkloadStarted
<1>11. CASE NothingToStart
  BY <1>11 DEF NothingToStart
<1>12. CASE SpawnWorkload
  BY <1>12 DEF SpawnWorkload, Throw
<1>13. CASE CheckWorkload
  BY <1>13 DEF CheckWorkload, KinAfterRelease
<1>14. CASE StopCollectors
  BY <1>14 DEF StopCollectors, Throw
<1>15. CASE JudgeWorkload
  BY <1>15, Asked DEF JudgeWorkload, SignalInOrder, SignalGroups, Accounting
<1>16. CASE CheckSignals
  <2>1. CASE StopForSignal
    BY <1>16, <2>1, Asked
       DEF CheckSignals, StopForSignal, InterruptReaches, Supervised, WorkloadStarted,
           SignalInOrder, SignalGroups
  <2>2. CASE StopForTimeout
    BY <1>16, <2>2, Asked
       DEF CheckSignals, StopForTimeout, TimeoutSignal, Supervised,
           WorkloadStarted, SignalInOrder, SignalGroups
  <2>3. CASE KillAfterGrace
    BY <1>16, <2>3, Throwing
       DEF CheckSignals, KillAfterGrace, GraceOver, SignalInOrder, SignalGroups
  <2>4. CASE KeepWaiting
    BY <1>16, <2>4 DEF CheckSignals, KeepWaiting
  <2> QED
    BY <1>16, <2>1, <2>2, <2>3, <2>4 DEF CheckSignals
<1>17. CASE KillLeftWorkload
  BY <1>17 DEF KillLeftWorkload, SignalGroups, LeftWorkload
<1>18. CASE ReapLeftWorkload
  BY <1>18 DEF ReapLeftWorkload
<1>19. CASE CheckService
  BY <1>19 DEF CheckService, LeftWorkload
<1>20. CASE Conclude
  BY <1>20 DEF Conclude, Throw, KinAfterRelease, GuardedAfterLoop, ChildErrorSeen
<1>21. CASE ReadCollectors
  BY <1>21 DEF ReadCollectors, Throw
<1>22. CASE Verdict
  BY <1>22 DEF Verdict, Throw, Outcome
<1>23. CASE UnwindKill
  BY <1>23 DEF UnwindKill, SignalGroups, NextGuard
<1>24. CASE UnwindReap
  BY <1>24 DEF UnwindReap, NextGuard
<1>25. CASE UnwindDone
  BY <1>25 DEF UnwindDone
<1>26. CASE ChildSetup
  BY <1>26 DEF ChildSetup, ChildFails, runnerVars
<1>27. CASE ChildReleased
  BY <1>27 DEF ChildReleased, ChildFails, runnerVars
<1>28. ASSUME NEW g \in Group, Exits(g) PROVE Asking'
  BY <1>28 DEF Exits, LeaderEnds, runnerVars
<1>29. ASSUME NEW g \in Group, Forks(g) PROVE Asking'
  BY <1>29 DEF Forks, runnerVars
<1>30. ASSUME NEW g \in Group, KinExits(g) PROVE Asking'
  BY <1>30 DEF KinExits, runnerVars
<1>31. ASSUME NEW g \in Group, NEW s \in Signal, DiesOfSignal(g, s) PROVE Asking'
  BY <1>31 DEF DiesOfSignal, LeaderEnds, runnerVars
<1>32. ASSUME NEW s \in Polite, RunnerSignalled(s) PROVE Asking'
  BY <1>32 DEF RunnerSignalled, runnerVars
<1>33. CASE RunnerKilled
  BY <1>33 DEF RunnerKilled
<1>34. CASE SystemCallFails
  BY <1>34, Throwing DEF SystemCallFails
<1>35. ASSUME NEW g \in Group, GainsPrivilege(g) PROVE Asking'
  BY <1>35 DEF GainsPrivilege, runnerVars
<1>36. CASE UNCHANGED vars
  BY <1>36 DEF vars
<1> QED
  BY <1>1, <1>2, <1>3, <1>4, <1>5, <1>6, <1>7, <1>8, <1>9, <1>10, <1>11, <1>12,
     <1>13, <1>14, <1>15, <1>16, <1>17, <1>18, <1>19, <1>20, <1>21, <1>22, <1>23,
     <1>24, <1>25, <1>26, <1>27, <1>28, <1>29, <1>30, <1>31, <1>32, <1>33, <1>34, <1>35, <1>36
     DEF Next, RunnerStep, ChildStep, Environment

-----------------------------------------------------------------------------
\* An outcome is given by a verdict; every other step leaves none or the old one.
LEMMA StepRequirePerf ==
  ASSUME TypeOK, Guarding, Accounting, Accounting', Collecting, Requiring,
         RequirePerfHonoured, [Next]_vars
  PROVE  RequirePerfHonoured'
<1> SUFFICES ASSUME result'.kind = "outcome" PROVE RequirePerfHonoured'
  BY DEF RequirePerfHonoured
<1>1. pc' = "done"
  BY DEF Accounting
<1>2. CASE Verdict
  BY <1>2 DEF Verdict, Collecting, Requiring, Measuring, RequirePerfHonoured, perfVars
<1>3. CASE ~Verdict
  <2>1. pc = "done"
    <3>1. SUFFICES ASSUME pc # "done" PROVE FALSE
      OBVIOUS
    <3>2. Begin \/ UnwindDone
      BY <1>1, <1>3, <3>1, LastStep
    <3>3. result'.kind # "outcome"
      BY <3>1, <3>2, ResultTypes DEF Begin, UnwindDone, Accounting, Error
    <3> QED
      BY <3>3
  <2>2. UNCHANGED runnerVars
    BY <2>1, QuietOutside DEF Begin
  <2> QED
    BY <2>2 DEF RequirePerfHonoured, runnerVars, perfVars
<1> QED
  BY <1>2, <1>3

\* The strengthened invariant is kept by every step.
LEMMA PerfInvariance == PInv /\ [Next]_vars => PInv'
<1> SUFFICES ASSUME PInv, [Next]_vars PROVE PInv'
  OBVIOUS
<1>1. IInv'
  BY Invariance DEF PInv
<1>2. Collecting'
  BY StepCollecting DEF PInv, IInv
<1>3. Requiring'
  BY StepRequiring DEF PInv, IInv
<1>4. WorkloadFullyMeasured'
  BY StepMeasured DEF PInv, IInv
<1>5. RequirePerfHonoured'
  BY <1>1, StepRequirePerf DEF PInv, IInv
<1>6. Leaving'
  BY StepLeaving DEF PInv, IInv
<1>7. Asking'
  BY StepAsking DEF PInv, IInv
<1> QED
  BY <1>1, <1>2, <1>3, <1>4, <1>5, <1>6, <1>7 DEF PInv

\* It holds when run() is called.
LEMMA PerfInitially == Init => PInv
<1> SUFFICES ASSUME Init PROVE PInv
  OBVIOUS
<1>1. IInv
  BY Initially
<1>2. Collecting /\ Requiring
  BY DEF Init, Collecting, Requiring, Measuring, InLoop, Group
<1>3. WorkloadFullyMeasured
  BY DEF Init, WorkloadFullyMeasured, Alive, Group
<1>4. RequirePerfHonoured
  BY InitialResult DEF Init, RequirePerfHonoured
<1>5. Leaving /\ Asking
  BY DEF Init, Leaving, Asking, Group
<1> QED
  BY <1>1, <1>2, <1>3, <1>4, <1>5 DEF PInv

\* The strengthened invariant holds in every state of every run.
THEOREM PerfInvariant == Spec => []PInv
  BY PerfInitially, PerfInvariance, PTL DEF Spec

\* All of a workload's life is measured by every collector that opened.
THEOREM WorkloadMeasured == Spec => []WorkloadFullyMeasured
  BY PerfInvariant, PTL DEF PInv

\* With requirePerf an outcome has the results of every collector.
THEOREM PerfHonoured == Spec => []RequirePerfHonoured
  BY PerfInvariant, PTL DEF PInv

\* A destructor signals the pid of a reaped leader only after a failed stop.
THEOREM StalePids == Spec => []StalePidOnlyOnStopFailure
<1>1. PInv => StalePidOnlyOnStopFailure
  BY DEF PInv, IInv, TypeOK, Leaving, StalePidOnlyOnStopFailure, NextGuard, Group
<1> QED
  BY <1>1, PerfInvariant, PTL

\* The loop sends SIGKILL only to a leader it has asked before.
THEOREM AskedBeforeKilled == Spec => []PoliteBeforeKill
<1>1. PInv => PoliteBeforeKill
  BY DEF PInv, Asking, PoliteBeforeKill
<1> QED
  BY <1>1, PerfInvariant, PTL
=============================================================================
