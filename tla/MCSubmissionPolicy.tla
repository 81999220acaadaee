------------------------- MODULE MCSubmissionPolicy -------------------------
(***************************************************************************)
(* Small instances of SubmissionPolicy for TLC.                            *)
(***************************************************************************)
EXTENDS SubmissionPolicy, TLC

CONSTANTS s1, s2

Symmetry == Permutations(Symbols)
=============================================================================
