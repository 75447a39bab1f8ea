--------------------------- MODULE WorkloadMetrics ---------------------------
(***************************************************************************)
(* loadApplicationMetrics (src/process/workload_metrics.cpp) with the      *)
(* from_json functions it calls (src/model.cpp): which metrics files a run *)
(* accepts, and what it takes from them.  A JSON number is an integer;     *)
(* what nlohmann-json reports by a type_error is any value of a wrong type *)
(***************************************************************************)
EXTENDS Integers

CONSTANTS Missing,    \* a key that is not there
          Null,       \* JSON null
          WrongType,  \* a string, a list, ... (for a count also a fraction)
          NoFile, Unparsable,   \* documents that are no JSON object
          NoMetric, Rejected    \* std::nullopt; an exception

ASSUME MetricsAssumption ==
    /\ {Missing, Null, WrongType, NoMetric} \cap Int = {}
    /\ WrongType \notin {Missing, Null}

\* The three percentiles of a latency object.
Percentile == {"p50_us", "p95_us", "p99_us"}

Value == Int \cup {Missing, Null, WrongType}
Document == [operations: Value, throughput: Value,
             latency: {Missing, Null, WrongType} \cup [Percentile -> Value]]
Rank == [p50_us |-> 50, p95_us |-> 95, p99_us |-> 99]

Nonnegative(value) == value = NoMetric \/ value >= 0

\* getOptional: null counts as omitted.
Optional(value) == IF value \in {Missing, Null} THEN NoMetric ELSE value

\* find() on anything but an object finds nothing, so a latency that is no
\* object has no percentile.
Latency(document) ==
    IF document.latency \in {Missing, Null, WrongType}
    THEN [p \in Percentile |-> NoMetric]
    ELSE [p \in Percentile |-> Optional(document.latency[p])]

OperationsValid(value) ==
    value = Missing \/ (value \notin {Null, WrongType} /\ value > 0)

\* The three comparisons: a percentile that is omitted hides no other pair.
Ordered_neighboursOnly(latency) ==
    \A p, q \in Percentile :
        Rank[p] < Rank[q] /\ {p, q} # {"p50_us", "p99_us"}
        /\ latency[p] # NoMetric /\ latency[q] # NoMetric => latency[p] <= latency[q]
Ordered(latency) ==
    \A p, q \in Percentile :
        Rank[p] < Rank[q] /\ latency[p] # NoMetric /\ latency[q] # NoMetric =>
            latency[p] <= latency[q]

LoadObject(document) ==
    LET throughput == Optional(document.throughput)
        latency == Latency(document)
        typed == throughput # WrongType /\ \A p \in Percentile : latency[p] # WrongType
        measured == \/ document.operations # Missing
                    \/ throughput # NoMetric
                    \/ \E p \in Percentile : latency[p] # NoMetric
    IN IF /\ OperationsValid(document.operations)
          /\ typed
          /\ Nonnegative(throughput) /\ \A p \in Percentile : Nonnegative(latency[p])
          /\ measured
          /\ Ordered(latency)
       THEN [operations |-> Optional(document.operations),
             throughput |-> throughput, latency |-> latency]
       ELSE Rejected

\* The file may not exist, or may be cut off because its writer was killed.
LoadApplicationMetrics(document) ==
    CASE document = NoFile     -> NoMetric
      [] document = Unparsable -> Rejected
      [] OTHER                 -> LoadObject(document)
=============================================================================
