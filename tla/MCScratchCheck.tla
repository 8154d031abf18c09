---------------------------- MODULE MCScratchCheck ----------------------------
(* Two processes with three threads and three directory names, or one process. *)
EXTENDS ScratchCheck, TLC

CONSTANTS p1, p2, w1, w2, w3, r1, r2, r3, d1, d2

OneProcess == {p1}
TwoProcesses == {p1, p2}
TwoWorkers == {w1, w2}
ThreeWorkers == {w1, w2, w3}
ThreeRuns == {r1, r2, r3}
OneDatabase == {d1}
TwoDatabases == {d1, d2}

Symmetry ==
  Permutations(Processes) \cup Permutations(Workers) \cup Permutations(Runs) \cup Permutations(Databases)
===============================================================================
