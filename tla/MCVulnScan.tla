----------------------------- MODULE MCVulnScan -----------------------------
(* Small instances of VulnScan for TLC. *)
EXTENDS VulnScan
=============================================================================
