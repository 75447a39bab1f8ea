---------------------------- MODULE MCAlgorithms ----------------------------
(* Five-bit words, two runs of three functions, every shape of document.   *)
EXTENDS Algorithms

MCScaleJobs == [raw: Word, enabled: Word, running: Word \ {0}]

Profiles == UNION {[S -> {1, 2}] : S \in SUBSET {"f", "g", "h"}}
SmallProfiles == UNION {[S -> {1, 3}] : S \in SUBSET {"f", "g"}}
MCProfileJobs ==
    [baseline: {<<p>> : p \in Profiles}, candidate: {<<p>> : p \in Profiles}]
    \cup [baseline: {<<p, q>> : p \in SmallProfiles, q \in SmallProfiles},
          candidate: {<<p, <<>>>> : p \in SmallProfiles}]

MCDocuments ==
    {NoFile, Unparsable} \cup
    [operations: {Missing, Null, WrongType, -1, 0, 1},
     throughput: {Missing, Null, WrongType, -1, 0, 2},
     latency: {Missing, Null, WrongType}
              \cup [Percentile -> {Missing, Null, WrongType, -1, 1, 2, 3}]]
InvalidLatencyDocuments == {d \in MCDocuments : d \in {NoFile, Unparsable} \/ d.operations = 1}
NoJobs == {}
=============================================================================
