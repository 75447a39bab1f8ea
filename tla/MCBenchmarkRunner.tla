------------------------- MODULE MCBenchmarkRunner -------------------------
(* Results that differ in run time, in throughput or in the CPU time per     *)
(* operation; the last two may be missing.                                   *)
EXTENDS BenchmarkRunner

MCResult(wall, throughput, cpu, operations) ==
    [wallTime |-> wall, maxRss |-> 1, p99 |-> NoValue, throughput |-> throughput,
     cpuTime |-> cpu, operations |-> operations]

MCRunResults ==
    {MCResult(w, NoValue, 2, NoValue) : w \in {20, 31}}
    \cup {MCResult(25, t, 2, 2) : t \in {0, 2, 3}}
    \cup {MCResult(25, 2, 3, 1)}

Percent(n) == <<n, 1>>

\* 31 exceeds 20 by 55 percent.
MCFileLimits ==
    {NoLimits, [NoLimits EXCEPT !["runtime"] = Percent(0), !["throughput"] = <<61, 2>>]}
MCLimitOptions ==
    {NoLimits, [NoLimits EXCEPT !["runtime"] = Percent(55), !["throughput"] = Percent(0)],
     [NoLimits EXCEPT !["cpu_time_per_operation"] = <<81, 2>>],
     [NoLimits EXCEPT !["p99_latency"] = Percent(10)]}

\* A limit that a run may reach and none can exceed.
LimitReached == {[NoLimits EXCEPT !["runtime"] = Percent(55)]}
NoFile == {NoLimits}
RunTimes == {MCResult(w, NoValue, 2, NoValue) : w \in {20, 31}}
=============================================================================
