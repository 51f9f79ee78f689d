----------------------------- MODULE QuorumGate -----------------------------
(***************************************************************************)
(* What the approval of responses promises, with tables, notifications,    *)
(* API calls and crashes left out: every user has one vote on a run, a run *)
(* takes one answer, "approved" only with a quorum, and carries out its    *)
(* playbook at most once and only on that answer.                          *)
(*                                                                         *)
(* Nothing is promised of a refusal: a user's second vote is not counted,  *)
(* and may reject the run all the same.                                    *)
(***************************************************************************)
CONSTANTS
  Runs,       \* runs that may ask for approval
  Voters      \* users who may vote

VARIABLES
  enough,     \* sets of users whose approval suffices for each run
  ballot,     \* the vote of each user on each run
  answer,     \* what the run took for the decision
  executed    \* runs that carried out their playbook

gvars == <<enough, ballot, answer, executed>>

Quorum(r) == {v \in Voters : ballot[r][v] = "approved"} \in enough[r]

GInit ==
  /\ enough \in [Runs -> SUBSET SUBSET Voters]
  /\ ballot = [r \in Runs |-> [v \in Voters |-> "none"]]
  /\ answer = [r \in Runs |-> "none"]
  /\ executed = [r \in Runs |-> FALSE]

\* A vote is cast once, and stays.
Cast(r, v, d) ==
  /\ ballot[r][v] = "none"
  /\ ballot' = [ballot EXCEPT ![r][v] = d]
  /\ UNCHANGED <<enough, answer, executed>>

Take(r, a) ==
  /\ answer[r] = "none"
  /\ a = "approved" => Quorum(r)
  /\ answer' = [answer EXCEPT ![r] = a]
  /\ UNCHANGED <<enough, ballot, executed>>

Act(r) ==
  /\ answer[r] = "approved" /\ ~executed[r]
  /\ executed' = [executed EXCEPT ![r] = TRUE]
  /\ UNCHANGED <<enough, ballot, answer>>

\* The response is broken off; an approved playbook may have done its work.
BreakOff(r) ==
  /\ answer[r] \in {"none", "approved"} /\ ~executed[r]
  /\ answer' = [answer EXCEPT ![r] = "error"]
  /\ \/ UNCHANGED executed
     \/ answer[r] = "approved" /\ executed' = [executed EXCEPT ![r] = TRUE]
  /\ UNCHANGED <<enough, ballot>>

GNext ==
  \E r \in Runs :
    \/ \E v \in Voters, d \in {"approved", "rejected"} : Cast(r, v, d)
    \/ \E a \in {"approved", "rejected", "timeout"} : Take(r, a)
    \/ Act(r) \/ BreakOff(r)

GSpec == GInit /\ [][GNext]_gvars
=============================================================================
