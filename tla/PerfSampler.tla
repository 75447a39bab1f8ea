----------------------------- MODULE PerfSampler -----------------------------
(***************************************************************************)
(* PerfSampler (src/perf/perf_sampler.cpp): one perf event and ring per    *)
(* CPU and the SampleCollector that drains them.  start() starts the       *)
(* worker and then enables every event; stop() disables every event and    *)
(* then stops the worker; any failure makes the profile unavailable.       *)
(***************************************************************************)
EXTENDS SampleCollector

CONSTANT SamplerFaults          \* subset of SamplerFaultKinds

SamplerFaultKinds == {"enable", "disable"}

ASSUME SamplerFaultsAssumption == SamplerFaults \subseteq SamplerFaultKinds

VARIABLES
    spc,              \* the calling thread: where it is in start() and stop()
    pendingRings,     \* rings its loop over the events did not reach yet
    started,          \* Impl::started
    samplerFailure    \* Impl::failure

callerVars == <<spc, pendingRings, started, samplerFailure>>
samplerVars == <<collectorVars, callerVars>>

Spc == {"constructed", "starting", "enabling", "started", "disabling",
        "stopping", "stopped"}

SamplerTypeOK ==
    /\ TypeOK
    /\ spc \in Spc /\ pendingRings \in SUBSET Rings
    /\ started \in BOOLEAN
    /\ samplerFailure \in Cause \cup SamplerFaultKinds

\* The constructor opened and mapped every ring; no event is enabled.
SamplerInit ==
    /\ CollectorInit /\ enabled = {}
    /\ spc = "constructed" /\ pendingRings = {}
    /\ started = FALSE /\ samplerFailure = "none"

Fail(c) == samplerFailure' = IF samplerFailure = "none" THEN c ELSE samplerFailure

\* Impl::stop from its first statement: every event is to be disabled.
BeginStop == spc' = "disabling" /\ pendingRings' = Rings

-----------------------------------------------------------------------------
(* start() *)

Start ==
    /\ spc = "constructed" /\ ~started
    /\ \/ CollectorStarts
          /\ spc' = "enabling" /\ pendingRings' = Rings
          /\ UNCHANGED <<started, samplerFailure>>
       \/ StartFails /\ Fail("thread") /\ BeginStop /\ UNCHANGED started

EnableFails_skipsTheRing(r) ==
    pendingRings' = pendingRings \ {r} /\ UNCHANGED <<spc, samplerFailure>>
EnableFails(r) == Fail("enable") /\ BeginStop

\* RESET and ENABLE of the next event; one failure stops everything again.
EnableRing(r) ==
    /\ spc = "enabling" /\ r \in pendingRings
    /\ \/ /\ enabled' = enabled \cup {r}
          /\ pendingRings' = pendingRings \ {r}
          /\ UNCHANGED <<spc, started, samplerFailure>>
       \/ /\ "enable" \in SamplerFaults
          /\ EnableFails(r)
          /\ UNCHANGED <<enabled, started>>
    /\ UNCHANGED <<log, dropped, notified, hungUp, tail, ownerVars, wake, wpc,
                   workerVars, failure>>

StartReturns ==
    /\ spc = "enabling" /\ pendingRings = {}
    /\ spc' = "started" /\ started' = TRUE
    /\ UNCHANGED <<collectorVars, pendingRings, samplerFailure>>

-----------------------------------------------------------------------------
(* stop(), also called by ~Impl. *)

Stop ==
    /\ spc \in {"constructed", "started"}
    /\ BeginStop
    /\ UNCHANGED <<collectorVars, started, samplerFailure>>

\* DISABLE of the next event.  ESRCH, a target that is gone, is no failure.
DisableRing(r) ==
    /\ spc = "disabling" /\ r \in pendingRings
    /\ pendingRings' = pendingRings \ {r}
    /\ \/ enabled' = enabled \ {r} /\ UNCHANGED samplerFailure
       \/ r \in hungUp /\ UNCHANGED <<enabled, samplerFailure>>
       \/ "disable" \in SamplerFaults /\ Fail("disable") /\ UNCHANGED enabled
    /\ UNCHANGED <<log, dropped, notified, hungUp, tail, ownerVars, wake, wpc,
                   workerVars, failure, spc, started>>

Disabled_stopsCollectorFirst == TRUE
Disabled == pendingRings = {}

StopCollector ==
    /\ spc = "disabling" /\ Disabled
    /\ RequestStop
    /\ spc' = "stopping"
    /\ UNCHANGED <<pendingRings, started, samplerFailure>>

CollectorStep == WriteWake \/ Join

StopSteps ==
    /\ spc = "stopping"
    /\ CollectorStep
    /\ UNCHANGED callerVars

StopReturned ==
    /\ spc = "stopping" /\ phase = "stopped"
    /\ spc' = "stopped"
    /\ IF failure = "none" THEN UNCHANGED samplerFailure
                                    ELSE Fail(failure)
    /\ UNCHANGED <<collectorVars, pendingRings, started>>

\* samples() and lostSamples() return instead of throwing.
Available == spc = "stopped" /\ samplerFailure = "none" /\ Readable

-----------------------------------------------------------------------------
Caller ==
    \/ Start \/ StartReturns \/ Stop
    \/ \E r \in Rings : EnableRing(r) \/ DisableRing(r)
    \/ StopCollector \/ StopSteps \/ StopReturned

SamplerNext ==
    \/ Caller
    \/ (Kernel \/ Worker) /\ UNCHANGED callerVars

SamplerSpec == SamplerInit /\ [][SamplerNext]_samplerVars

\* The caller is obliged to finish what it began, not to begin.
SamplerFairness ==
    /\ WF_samplerVars(Worker /\ UNCHANGED callerVars)
    /\ WF_samplerVars(Caller /\ spc \notin {"constructed", "started"})

FairSamplerSpec == SamplerSpec /\ SamplerFairness

-----------------------------------------------------------------------------
(* Safety. *)

\* An available profile has every sample of the target that any ring received,
\* until its event was disabled.
EverySampleKept ==
    Available => \A r \in Rings : \A p \in DOMAIN log[r] :
        log[r][p].kind = "target" => <<r, p>> \in samples

\* It has every loss, too, that the kernel reported.
CompleteWhenAvailable ==
    /\ EverySampleKept
    /\ Available => lost = Cardinality(UNION {LossesOf(r, DataHead(r)) : r \in Rings})

\* "If sampling fails on any required CPU, the profile is reported as
\* unavailable": start() returns only with every event enabled, an event that
\* still counts when stop() has returned, on a target that lives, makes the
\* profile unavailable, and so does a start() that failed after samples came.
FailureIsReported ==
    /\ spc = "started" => enabled = Rings
    /\ spc = "stopped" /\ enabled \ hungUp # {} => ~Available
    /\ Available /\ samples # {} => started

(* Liveness, under FairSamplerSpec. *)

\* Both a failed start() and stop() return.
SamplerStopReturns == spc \in {"enabling", "disabling"} ~> spc \in {"started", "stopped"}
=============================================================================
