------------------------------ MODULE MCConsole ------------------------------
(* Small instances, side by side, of what needs the right operator: a behaviour
   is one of the approvals of an event or of the operators' accounts. *)
EXTENDS Approval, Accounts, TLC

VARIABLE part

\* Two administrators and a free name; two patches.
People  == {"ann", "bob", "cat"}
Seeds   == [n \in People |-> IF n = "cat" THEN "none" ELSE "admin"]
Patches == {[role |-> "keep", disabled |-> "yes", name |-> "keep"],
            [role |-> "viewer", disabled |-> "no", name |-> "cat"]}

\* Users and runs of an event are interchangeable, and so are handlers of requests.
Symmetry == Permutations(Voters) \cup Permutations(Runs) \cup Permutations(Routes)

ConsoleInit ==
  /\ part \in {"approval", "accounts"}
  /\ Init /\ AccountsInit
  /\ part = "accounts" => ~short /\ \A r \in Runs : level[r] = "L2"

ConsoleNext ==
  /\ UNCHANGED part
  /\ \/ part = "approval" /\ Next /\ UNCHANGED accountVars
     \/ part = "accounts" /\ AccountsNext /\ UNCHANGED vars

\* A fault beside runs of one level that wait as long as their node: two runs of
\* level L2, or one of L4 before the other begins.  A shorter wait beside runs of
\* level L4, of two approvals.
Few ==
  /\ faults' > 0 => /\ ~short /\ Cardinality({level[r] : r \in Runs}) = 1
                    /\ (\A r \in Runs : level[r] = "L2") \/ (\E r \in Runs : pc'[r] = "idle")
  /\ (part = "approval" /\ short) => \A r \in Runs : level[r] = "L4"

BoundedSpec == ConsoleInit /\ [][ConsoleNext /\ Few]_<<part, vars, accountVars>>
=============================================================================
