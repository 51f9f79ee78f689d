----------------------------- MODULE MCUpgrade -----------------------------
(* Small instances of Upgrade for TLC. *)
EXTENDS Upgrade

\* A third version, or a failure.
Few == packaged' = Newest => upgradeFaults' = 0
BoundedSpec == UpgradeInit /\ [][UpgradeNext /\ Few]_upgradeVars
=============================================================================
