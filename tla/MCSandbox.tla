----------------------------- MODULE MCSandbox -----------------------------
(***************************************************************************)
(* Small instances of Sandbox for TLC.                                     *)
(***************************************************************************)
EXTENDS Sandbox, TLC

CONSTANTS j1, j2, j3

\* The volumes 1 and 2 together fit a cap of 3; volume 3 does not even alone.
Sizes == (1 :> 1) @@ (2 :> 2) @@ (3 :> 4)

Symmetry == Permutations(Jobs)
=============================================================================
