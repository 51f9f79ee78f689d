---------------------------- MODULE MCTaskQueue ----------------------------
(* Small instances of TaskQueue for TLC. *)
EXTENDS TaskQueue
CONSTANT FirstWorker

\* Two workers that do the same are alike: the first of them goes on first.  A
\* task that is not run, and a queue other than the scans', see one disruption,
\* and so do runs that a claim overtakes, of a task that is alone.
InTurn ==
  \A w \in Workers \ {FirstWorker} :
    (jobs = {} /\ process[w] = process[FirstWorker])
      => process'[w] = process[w] /\ \A j \in jobs' : j.worker # w
FewerFaults ==
  (queue = "asset" \/ \E e \in Entry : payload'[e] # "ok") => faults' <= 1

FewerOverruns ==
  \A e \in Entry : overran'[e] > 0 => faults' <= 1 /\ added' = 1

BoundedSpec == Init /\ [][Next /\ InTurn /\ FewerFaults /\ FewerOverruns]_vars /\ Fairness
=============================================================================
