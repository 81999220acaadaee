----------------------------- MODULE MCScanView -----------------------------
(***************************************************************************)
(* Small instances of ScanView for TLC.                                    *)
(***************************************************************************)
EXTENDS ScanView

CONSTANTS d1, d2

TwoDeps == <<d1, d2>>
=============================================================================
