--------------------------- MODULE MCLearningLoop ---------------------------
(***************************************************************************)
(* Small instances of LearningLoop for TLC.                                *)
(***************************************************************************)
EXTENDS LearningLoop, TLC

CONSTANTS g1, d1, s1, s2, cron, route, ui

\* Two rows of one pull request, from two scans; the token of the second scan
\* does not decrypt.
TwoRowsPR == 1 :> g1 @@ 2 :> g1
TwoRowsScan == 1 :> s1 @@ 2 :> s2
TwoRowsDep == 1 :> d1 @@ 2 :> d1
TwoRowsToken == 1 :> TRUE @@ 2 :> FALSE
=============================================================================
