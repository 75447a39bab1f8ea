--------------------------- MODULE MCProcessRunner ---------------------------
(* Small option sets for ProcessRunner; durations are in loop iterations. *)
EXTENDS ProcessRunner

\* run: every combination of collectors, with and without a timeout.
StandaloneOptions ==
    {[service |-> FALSE, readyTcp |-> FALSE, collectPerfCounters |-> c,
      sampling |-> s, requirePerf |-> r, metrics |-> TRUE,
      timeout |-> t, terminationGrace |-> g, startupDelay |-> 0,
      readyTimeout |-> 1, shutdownGrace |-> 0] :
        c \in BOOLEAN, s \in BOOLEAN, r \in BOOLEAN,
        t \in {NoTimeout, 0, 2}, g \in {0, 1}}

\* compare --workload, without the sampler: both readiness modes, with a
\* start-up delay when there is a timeout.
ServiceOptions ==
    {[service |-> TRUE, readyTcp |-> tcp, collectPerfCounters |-> c,
      sampling |-> FALSE, requirePerf |-> c, metrics |-> TRUE,
      timeout |-> t, terminationGrace |-> 1,
      startupDelay |-> IF t = NoTimeout THEN 0 ELSE 1,
      readyTimeout |-> 2, shutdownGrace |-> 1] :
        tcp \in BOOLEAN, c \in BOOLEAN, t \in {NoTimeout, 3}}

\* A program or a service that collects but does not require perf events.
LenientOptions ==
    {[service |-> v, readyTcp |-> FALSE, collectPerfCounters |-> TRUE,
      sampling |-> FALSE, requirePerf |-> FALSE, metrics |-> FALSE,
      timeout |-> NoTimeout, terminationGrace |-> 1, startupDelay |-> 0,
      readyTimeout |-> 2, shutdownGrace |-> 1] : v \in BOOLEAN}

SupervisionOptions == StandaloneOptions \cup ServiceOptions \cup LenientOptions

\* The same service without any collector.
PlainServiceOptions ==
    {[o EXCEPT !.collectPerfCounters = FALSE] : o \in {p \in LenientOptions : p.service}}

\* Liveness: no collector; a program and a service, each with and without a
\* timeout.
LivenessOptions ==
    {[o EXCEPT !.collectPerfCounters = FALSE, !.timeout = t] :
        o \in LenientOptions, t \in {NoTimeout, 2}}
=============================================================================
