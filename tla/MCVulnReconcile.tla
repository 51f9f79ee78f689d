--------------------------- MODULE MCVulnReconcile ---------------------------
(* Small instances, side by side, of what becomes of findings: a behaviour is
   one of a host's records or of the calls that have a model rate findings. *)
EXTENDS VulnReconcile, LlmRescan, TLC
CONSTANTS t1, t2, t3, k1, FirstEngine

VARIABLE part

OwnCategory(k) == k
Symmetry == Permutations(Tasks) \union Permutations(Keys)

Init == part \in {"records", "ratings"} /\ ReconcileInit /\ LlmInit /\ (part = "ratings" => present = {})

Next ==
  /\ UNCHANGED part
  /\ \/ part = "records" /\ ReconcileNext /\ UNCHANGED llmVars
     \/ part = "ratings" /\ LlmNext /\ UNCHANGED reconcileVars

\* An event, or a third scan.  With a failure, a task handed out a second time
\* meets one loop.
Few ==
  /\ events' = 0 \/ scans' <= 2
  /\ llmFaults' > 0 /\ (\E t \in Scans : rounds'[t] > 1)
       => Cardinality({e \in ScanEngines : loop'[e] # Asleep}) <= 1

\* Two engines that do the same are alike: the first of them goes on first.
InTurn ==
  \A e \in ScanEngines \ {FirstEngine} :
    (loop[e] = loop[FirstEngine] /\ \A t \in Scans : analysis[t].pc = "idle")
      => loop'[e] = loop[e] /\ \A t \in Scans : analysis'[t].pc = "idle" \/ analysis'[t].at # e

BoundedSpec == Init /\ [][Next /\ Few /\ InTurn]_<<part, reconcileVars, llmVars>>
=============================================================================
