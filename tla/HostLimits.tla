----------------------------- MODULE HostLimits -----------------------------
(***************************************************************************)
(* The hosts of a scan are limited alike where they are typed (ScanForm),  *)
(* judged (Verdicts) and read (Readers).                                   *)
(***************************************************************************)

CONSTANTS
    Tier1Hosts,     \* TIER_1_HOSTS, which every scan may reach
    MaxHosts        \* TIER2_MAX_HOSTS, how many more a scan may name

=============================================================================
