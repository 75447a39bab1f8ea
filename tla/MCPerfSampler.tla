---------------------------- MODULE MCPerfSampler ----------------------------
(* One or two rings for PerfSampler. *)
EXTENDS PerfSampler, TLC

CONSTANTS r1, r2

OneRing == {r1}
TwoRings == {r1, r2}
RingSymmetry == Permutations(TwoRings)
=============================================================================
