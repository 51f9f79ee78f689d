---------------------------- MODULE MCAlertIngest ----------------------------
(* Small instances of AlertIngest for TLC. *)
EXTENDS AlertIngest

\* Two engines that do the same are alike: the first of them goes on first.
CONSTANT FirstEngine
InTurn ==
  \A e \in Engines \ {FirstEngine} :
    (mode[e] = mode[FirstEngine] /\ batch[e] = batch[FirstEngine] /\ ended[e] = ended[FirstEngine])
      => UNCHANGED <<mode[e], batch[e], ended[e]>>

\* Once the stream overflows, one disruption.
FewerFaults == Len(log') > StreamMax => faults' <= 1

BoundedSpec == Init /\ [][Next /\ InTurn /\ FewerFaults]_vars /\ \A e \in Engines : WF_vars(Serve(e))
=============================================================================
