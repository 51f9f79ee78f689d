---------------------------- MODULE MCAgentScan ----------------------------
(* Small instances of AgentScan for TLC: one task, which runs both engines on
   the agent, as the console's "global" engine does. *)
EXTENDS AgentScan

CONSTANT t1

BothEngines == [task : {t1}, engine : {"matcher", "nuclei"}]

\* A failure, or commands for both engines.
Few == faults' > 0 => Cardinality(issued' \cap Commands) <= 1

BoundedSpec == AgentScanInit /\ [][AgentScanNext /\ Few]_agentScanVars
=============================================================================
