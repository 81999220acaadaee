---------------------------- MODULE MCScanRunner ----------------------------
(***************************************************************************)
(* Small instances of ScanRunner for TLC.                                  *)
(***************************************************************************)
EXTENDS ScanRunner

CONSTANTS s1, s2, d1, d2, d3, c1, c2

\* Every dependency's branch names contain its own slug only.
DistinctSlugs(D) == {<<d, d>> : d \in D}

OwnSlugs1 == DistinctSlugs({d1})
OwnSlugs3 == DistinctSlugs({d1, d2, d3})

\* d1 is "react" and d2 is "react-dom": the branches of d2 contain the slug of
\* d1 as well.
NestedSlugs2 == DistinctSlugs({d1, d2}) \union {<<d1, d2>>}
NestedSlugs3 == OwnSlugs3 \union {<<d1, d2>>}

\* The runs of ScanRunner in which a cancel, if there is one, is requested while
\* the scan is in DIAGNOSE, so that three phases are still ahead of it.
CancelsInDiagnose ==
  Init /\ [][Next /\ \A s \in cancelledScans' \ cancelledScans :
                      pc[s] = "diagnose"]_vars
=============================================================================
