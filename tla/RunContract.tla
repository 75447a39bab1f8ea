----------------------------- MODULE RunContract -----------------------------
(***************************************************************************)
(* What ProcessRunner::run promises its caller, runBenchmark or            *)
(* runComparison (src/analysis/benchmark_runner.cpp): a call starts        *)
(* processes, and it returns or throws only when it has reaped or sent     *)
(* SIGKILL to all that is left in the process groups it started; after     *)
(* that none of them comes to life again.  What was killed may still take  *)
(* a moment to die.  A runner that is itself killed promises nothing.      *)
(***************************************************************************)
CONSTANTS
    Groups,      \* the process groups a run may start
    Verdicts,    \* what a call can end with
    None         \* no verdict yet

VARIABLES
    phase,
    alive,       \* the groups with a process not yet reaped or killed
    verdict

contractVars == <<phase, alive, verdict>>

ContractTypeOK ==
    /\ phase \in {"idle", "running", "ended", "abandoned"}
    /\ alive \subseteq Groups
    /\ verdict \in Verdicts \cup {None}

ContractInit == phase = "idle" /\ alive = {} /\ verdict = None

\* The call is rejected before it starts anything.
Reject ==
    /\ phase = "idle"
    /\ phase' = "ended"
    /\ verdict' \in Verdicts
    /\ UNCHANGED alive

Start ==
    /\ phase = "idle"
    /\ phase' = "running"
    /\ alive' \in SUBSET Groups
    /\ UNCHANGED verdict

\* Groups appear and disappear, but only while the run is not over.
Live ==
    /\ phase \in {"running", "abandoned"}
    /\ alive' \in SUBSET Groups
    /\ UNCHANGED <<phase, verdict>>

\* On every way out ~ChildGuard and ChildGuard::release leave nothing that was
\* neither reaped nor killed.
End ==
    /\ phase = "running"
    /\ alive = {}
    /\ phase' = "ended"
    /\ verdict' \in Verdicts
    /\ UNCHANGED alive

Abandon ==
    /\ phase = "running"
    /\ phase' = "abandoned"
    /\ UNCHANGED <<alive, verdict>>

ContractNext == Reject \/ Start \/ Live \/ End \/ Abandon

ContractSpec == ContractInit /\ [][ContractNext]_contractVars
=============================================================================
