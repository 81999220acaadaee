-------------------------- MODULE MCMonitorWorker --------------------------
(***************************************************************************)
(* Small instances of MonitorWorker for TLC.                               *)
(***************************************************************************)
EXTENDS MonitorWorker, TLC

CONSTANTS r1, r2, f1, f2, f3

Symmetry == Permutations(Repos) \union Permutations(Fires)
=============================================================================
