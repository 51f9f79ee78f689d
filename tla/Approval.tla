------------------------------ MODULE Approval ------------------------------
(***************************************************************************)
(* Human approval of a response: pipeline runs of one event that wait for  *)
(* a decision (hitl_approval_node, ApprovalStore.wait_result), and the API *)
(* calls of the approvers (approve_event, ApprovalStore.add_vote).  They   *)
(* meet in two PostgreSQL tables and a Redis pub/sub channel; one step is  *)
(* one statement, message or timer.                                        *)
(*                                                                         *)
(* The event id is stable across redeliveries, so several runs may ask for *)
(* the same event: one after a crash, or one beside another.               *)
(***************************************************************************)
EXTENDS Integers, Sequences, FiniteSets

CONSTANTS
  Runs,       \* bound: pipeline runs of the event
  Voters,     \* users with the role admin or responder
  Levels,     \* operation levels the matched playbooks may have
  MaxVotes,   \* bound: approve_event calls
  MaxFaults   \* bound: crashes, lost notifications, API calls that die

Required == [L1 |-> 0, L2 |-> 0, L3 |-> 1, L4 |-> 2, L5 |-> 2]

ASSUME ApprovalAssumption ==
  /\ IsFiniteSet(Voters)
  /\ Levels \subseteq DOMAIN Required
  /\ MaxVotes \in Nat
  /\ MaxFaults \in Nat

VARIABLES
  short,     \* hitl_timeout_sec is set, below the time respond_node allows
  level,     \* max level of the playbook of each run
  row,       \* status of the approvals row of each run
  ballot,    \* approval_votes: the one vote of each user on each approval
  pc,        \* where each run is
  inbox,     \* notifications not yet read by the run's subscription
  result,    \* what the run took for the decision
  executed,  \* the run executed its playbook
  event,     \* status of the event record
  call,      \* the approve_event call of each user
  votes,     \* history: calls made
  faults     \* history: disruptions so far

tables == <<row, ballot>>
run    == <<pc, inbox, result, executed>>
vars   == <<short, level, tables, run, event, call, votes, faults>>

Decisions == {"approved", "rejected"}
Status    == Decisions \cup {"pending", "timeout"}
RunSteps  == {"idle", "ask", "check", "subscribe", "recheck", "wait", "reread", "execute",
              "record", "done", "dead"}
CallSteps == {"idle", "select", "insert", "count", "update", "publish", "mirror"}

\* respond_node's time limit is running; the run has its subscription.
Responding == RunSteps \ {"idle", "record", "done", "dead"}
Subscribed == {"recheck", "wait", "reread"}

Call == [pc : CallSteps, run : Runs \cup {"none"}, decision : Decisions,
         status : Status \cup {"not_found"}, again : BOOLEAN]

TypeOK ==
  /\ short \in BOOLEAN
  /\ level \in [Runs -> Levels]
  /\ row \in [Runs -> Status \cup {"none"}]
  /\ ballot \in [Runs -> [Voters -> Decisions \cup {"none"}]]
  /\ pc \in [Runs -> RunSteps]
  /\ inbox \in [Runs -> Seq(Status)]
  /\ result \in [Runs -> Decisions \cup {"none", "timeout", "error"}]
  /\ executed \in [Runs -> BOOLEAN]
  /\ event \in {"none", "processing", "completed", "rejected", "error"}
  /\ call \in [Voters -> Call]
  /\ votes \in 0 .. MaxVotes
  /\ faults \in 0 .. MaxFaults

NoCall == [pc |-> "idle", run |-> "none", decision |-> "approved",
           status |-> "not_found", again |-> FALSE]

Init ==
  /\ short \in BOOLEAN
  /\ level \in [Runs -> Levels]
  /\ row = [r \in Runs |-> "none"]
  /\ ballot = [r \in Runs |-> [v \in Voters |-> "none"]]
  /\ pc = [r \in Runs |-> "idle"]
  /\ inbox = [r \in Runs |-> <<>>]
  /\ result = [r \in Runs |-> "none"]
  /\ executed = [r \in Runs |-> FALSE]
  /\ event = "none"
  /\ call = [v \in Voters |-> NoCall]
  /\ votes = 0
  /\ faults = 0

Disruption == faults < MaxFaults /\ faults' = faults + 1

Approvers(r) == {v \in Voters : ballot[r][v] = "approved"}
HasQuorum(r) == Cardinality(Approvers(r)) >= Required[level[r]]

-----------------------------------------------------------------------------
(* A run *)

Goto(r, step) == pc' = [pc EXCEPT ![r] = step]

\* The run has its answer, and drops its subscription.
Conclude(r, answer) ==
  /\ result' = [result EXCEPT ![r] = answer]
  /\ inbox' = [inbox EXCEPT ![r] = <<>>]
  /\ Goto(r, IF answer = "approved" THEN "execute" ELSE "record")

\* run_pipeline: create_event overwrites the record of an earlier run.
Begin(r) ==
  /\ pc[r] = "idle"
  /\ event' = "processing"
  /\ Goto(r, "ask")
  /\ UNCHANGED <<short, level, tables, inbox, result, executed, call, votes, faults>>

\* hitl_approval_node: L1 and L2 approve themselves, the others get a row.
Ask(r) ==
  /\ pc[r] = "ask"
  /\ \/ Required[level[r]] = 0 /\ Conclude(r, "approved") /\ UNCHANGED row
     \/ /\ Required[level[r]] > 0
        /\ row' = [row EXCEPT ![r] = "pending"]
        /\ Goto(r, "check")
        /\ UNCHANGED <<inbox, result>>
  /\ UNCHANGED <<short, level, ballot, executed, event, call, votes, faults>>

\* wait_result looks at the row: at first, after subscribing, and when told of
\* a vote that decided nothing.
Look(r) ==
  /\ pc[r] \in {"check", "recheck", "reread"}
  /\ \/ row[r] # "pending" /\ Conclude(r, row[r])
     \/ /\ row[r] = "pending"
        /\ Goto(r, IF pc[r] = "check" THEN "subscribe" ELSE "wait")
        /\ UNCHANGED <<inbox, result>>
  /\ UNCHANGED <<short, level, tables, executed, event, call, votes, faults>>

\* Defect: no second look once subscribed.
SubscribeAndWait(r) ==
  /\ pc[r] = "subscribe"
  /\ Goto(r, "wait")
  /\ UNCHANGED <<short, level, tables, inbox, result, executed, event, call, votes, faults>>

Subscribe(r) ==
  /\ pc[r] = "subscribe"
  /\ Goto(r, "recheck")
  /\ UNCHANGED <<short, level, tables, inbox, result, executed, event, call, votes, faults>>

Receive(r) ==
  /\ pc[r] = "wait" /\ inbox[r] # <<>>
  /\ \/ Head(inbox[r]) # "pending" /\ Conclude(r, Head(inbox[r]))
     \/ /\ Head(inbox[r]) = "pending"
        /\ Goto(r, "reread")
        /\ inbox' = [inbox EXCEPT ![r] = Tail(@)]
        /\ UNCHANGED result
  /\ UNCHANGED <<short, level, tables, executed, event, call, votes, faults>>

\* wait_result's deadline: resolve leaves a row alone that is decided, and the
\* answer is "timeout" all the same.  When hitl_timeout_sec is 0 the deadline is
\* 300 s or more, and respond_node, which started earlier, gives up before it.
Expire(r) ==
  /\ pc[r] = "wait" /\ short
  /\ row' = [row EXCEPT ![r] = IF @ = "pending" THEN "timeout" ELSE @]
  /\ Conclude(r, "timeout")
  /\ UNCHANGED <<short, level, ballot, executed, event, call, votes, faults>>

Execute(r) ==
  /\ pc[r] = "execute"
  /\ executed' = [executed EXCEPT ![r] = TRUE]
  /\ Goto(r, "record")
  /\ UNCHANGED <<short, level, tables, inbox, result, event, call, votes, faults>>

\* respond_node: its 300 s are over, or something in the subgraph raised.  The
\* playbook may be under way; the row stays as it is.
GiveUp(r) ==
  /\ pc[r] \in Responding
  /\ result' = [result EXCEPT ![r] = "error"]
  /\ inbox' = [inbox EXCEPT ![r] = <<>>]
  /\ Goto(r, "record")
  /\ \/ UNCHANGED executed
     \/ pc[r] = "execute" /\ executed' = [executed EXCEPT ![r] = TRUE]
  /\ UNCHANGED <<short, level, tables, event, call, votes, faults>>

\* run_pipeline stores the status of the event.
Record(r) ==
  /\ pc[r] = "record"
  /\ event' = CASE result[r] = "approved" -> "completed"
                [] result[r] = "error"    -> "error"
                [] OTHER                  -> "rejected"
  /\ Goto(r, "done")
  /\ UNCHANGED <<short, level, tables, inbox, result, executed, call, votes, faults>>

\* The scan-engine process dies.  (The Celery task that should then resolve the
\* row imports a name approval_store does not have, and changes nothing.)
Crash(r) ==
  /\ pc[r] \notin {"idle", "done", "dead"}
  /\ Goto(r, "dead")
  /\ inbox' = [inbox EXCEPT ![r] = <<>>]
  /\ Disruption
  /\ UNCHANGED <<short, level, tables, result, executed, event, call, votes>>

\* The connection of the subscription broke, and with it went the messages.
LoseInbox(r) ==
  /\ inbox[r] # <<>>
  /\ inbox' = [inbox EXCEPT ![r] = <<>>]
  /\ Disruption
  /\ UNCHANGED <<short, level, tables, pc, result, executed, event, call, votes>>

-----------------------------------------------------------------------------
(* An approve_event call: add_vote, the event's status, and add_vote again *)

Proceed(v, step) == call' = [call EXCEPT ![v] = [@ EXCEPT !.pc = step]]

\* add_vote is over: the first one goes on to the event, the second ends the call.
AddVoteReturns(v, status) ==
  call' = [call EXCEPT ![v] = IF @.again THEN NoCall
                              ELSE [@ EXCEPT !.pc = "mirror", !.status = status]]

Vote(v, d) ==
  /\ call[v].pc = "idle" /\ event # "none" /\ votes < MaxVotes
  /\ call' = [call EXCEPT ![v] = [NoCall EXCEPT !.pc = "select", !.decision = d]]
  /\ votes' = votes + 1
  /\ UNCHANGED <<short, level, tables, run, event, faults>>

\* SELECT ... WHERE event_id AND status = 'pending' LIMIT 1, in no order.
Select(v) ==
  /\ call[v].pc = "select"
  /\ \/ \E r \in Runs :
          /\ row[r] = "pending"
          /\ call' = [call EXCEPT ![v] = [@ EXCEPT !.pc = "insert", !.run = r]]
     \/ (\A r \in Runs : row[r] # "pending") /\ AddVoteReturns(v, "not_found")
  /\ UNCHANGED <<short, level, tables, run, event, votes, faults>>

\* A second vote of the same user on an approval is ignored, not refused.
Insert(v) ==
  /\ call[v].pc = "insert"
  /\ ballot' = [ballot EXCEPT ![call[v].run][v] = IF @ = "none" THEN call[v].decision ELSE @]
  /\ call' = IF call[v].decision = "rejected"
             THEN [call EXCEPT ![v] = [@ EXCEPT !.pc = "update", !.status = "rejected"]]
             ELSE [call EXCEPT ![v] = [@ EXCEPT !.pc = "count"]]
  /\ UNCHANGED <<short, level, row, run, event, votes, faults>>

\* Defects: every vote counts for the quorum, or one too many is asked for.
CountBallots(v) ==
  /\ call[v].pc = "count"
  /\ call' = IF Cardinality({u \in Voters : ballot[call[v].run][u] # "none"})
                  >= Required[level[call[v].run]]
             THEN [call EXCEPT ![v] = [@ EXCEPT !.pc = "update", !.status = "approved"]]
             ELSE [call EXCEPT ![v] = [@ EXCEPT !.pc = "publish", !.status = "pending"]]
  /\ UNCHANGED <<short, level, tables, run, event, votes, faults>>

CountOneMore(v) ==
  /\ call[v].pc = "count"
  /\ call' = IF Cardinality(Approvers(call[v].run)) > Required[level[call[v].run]]
             THEN [call EXCEPT ![v] = [@ EXCEPT !.pc = "update", !.status = "approved"]]
             ELSE [call EXCEPT ![v] = [@ EXCEPT !.pc = "publish", !.status = "pending"]]
  /\ UNCHANGED <<short, level, tables, run, event, votes, faults>>

Count(v) ==
  /\ call[v].pc = "count"
  /\ call' = IF HasQuorum(call[v].run)
             THEN [call EXCEPT ![v] = [@ EXCEPT !.pc = "update", !.status = "approved"]]
             ELSE [call EXCEPT ![v] = [@ EXCEPT !.pc = "publish", !.status = "pending"]]
  /\ UNCHANGED <<short, level, tables, run, event, votes, faults>>

\* UPDATE ... WHERE approval_id: whatever the status has become meanwhile.
Update(v) ==
  /\ call[v].pc = "update"
  /\ row' = [row EXCEPT ![call[v].run] = call[v].status]
  /\ Proceed(v, "publish")
  /\ UNCHANGED <<short, level, ballot, run, event, votes, faults>>

\* Defect: a rejection is not news.
PublishApprovals(v) ==
  /\ call[v].pc = "publish"
  /\ inbox' = [inbox EXCEPT ![call[v].run] =
       IF pc[call[v].run] \in Subscribed /\ call[v].status # "rejected"
       THEN Append(@, call[v].status) ELSE @]
  /\ AddVoteReturns(v, call[v].status)
  /\ UNCHANGED <<short, level, tables, pc, result, executed, event, votes, faults>>

Publish(v) ==
  /\ call[v].pc = "publish"
  /\ inbox' = [inbox EXCEPT ![call[v].run] =
       IF pc[call[v].run] \in Subscribed THEN Append(@, call[v].status) ELSE @]
  /\ AddVoteReturns(v, call[v].status)
  /\ UNCHANGED <<short, level, tables, pc, result, executed, event, votes, faults>>

\* Defect: the event takes the decision of the vote, quorum or not.
MirrorDecision(v) ==
  /\ call[v].pc = "mirror"
  /\ event' = IF call[v].decision = "approved" THEN "completed" ELSE "rejected"
  /\ call' = [call EXCEPT ![v] = [@ EXCEPT !.pc = "select", !.again = TRUE]]
  /\ UNCHANGED <<short, level, tables, run, votes, faults>>

Mirror(v) ==
  /\ call[v].pc = "mirror"
  /\ event' = CASE call[v].status = "approved" -> "completed"
                [] call[v].status = "rejected" -> "rejected"
                [] OTHER                       -> event
  /\ call' = [call EXCEPT ![v] = [@ EXCEPT !.pc = "select", !.again = TRUE]]
  /\ UNCHANGED <<short, level, tables, run, votes, faults>>

CallDies(v) ==
  /\ call[v].pc # "idle"
  /\ call' = [call EXCEPT ![v] = NoCall]
  /\ Disruption
  /\ UNCHANGED <<short, level, tables, run, event, votes>>

-----------------------------------------------------------------------------
WaitStep(r) == Look(r) \/ Subscribe(r) \/ Receive(r)

RunStep(r) ==
  \/ Begin(r) \/ Ask(r) \/ WaitStep(r) \/ Expire(r) \/ Execute(r) \/ GiveUp(r)
  \/ Record(r) \/ Crash(r) \/ LoseInbox(r)

CallStep(v) ==
  Select(v) \/ Insert(v) \/ Count(v) \/ Update(v) \/ Publish(v) \/ Mirror(v)

Next ==
  \/ \E r \in Runs : RunStep(r)
  \/ \E v \in Voters : CallStep(v) \/ CallDies(v) \/ \E d \in Decisions : Vote(v, d)

\* The event loops of API and scan-engine serve what is ready.  No timer need
\* fire and nobody need vote.
Fairness ==
  /\ \A r \in Runs : WF_vars(WaitStep(r))
  /\ \A v \in Voters : WF_vars(CallStep(v))

Spec     == Init /\ [][Next]_vars
FairSpec == Spec /\ Fairness

-----------------------------------------------------------------------------
(* Properties *)

\* QuorumBeforeExecute: a playbook is executed only with as many approvals of
\* different users as its level asks for, in whatever order votes, counts,
\* updates and notifications interleave (_REQUIRED_APPROVERS, add_vote).
QuorumBeforeExecute == \A r \in Runs : executed[r] => HasQuorum(r)

\* NoDeafWaiter: a run that waits on its channel has not missed the decision:
\* it is in the inbox, or a call is about to publish it ("lost-wakeup race").
NoDeafWaiter ==
  \A r \in Runs :
    pc[r] = "wait" /\ row[r] # "pending" /\ faults = 0 =>
      \/ \E i \in DOMAIN inbox[r] : inbox[r][i] # "pending"
      \/ \E v \in Voters : call[v].pc = "publish" /\ call[v].run = r
                           /\ call[v].status # "pending"

\* QuorumResolves: no vote is lost between two calls that insert and count at
\* the same time: with no call under way a pending row lacks its quorum, and
\* nobody has rejected it.
QuorumResolves ==
  faults = 0 /\ (\A v \in Voters : call[v].pc \in {"idle", "select", "mirror"}) =>
    \A r \in Runs : row[r] = "pending" =>
      ~HasQuorum(r) /\ \A v \in Voters : ballot[r][v] # "rejected"

\* NoEarlyCompletion: the event is not "completed" before the second reviewer of
\* an L4 or L5 operation has voted (approve_event, P2-CORE-NEW-10).
NoEarlyCompletion ==
  event = "completed" => \E r \in Runs : pc[r] # "idle" /\ HasQuorum(r)

\* DecisionReachesRun: a decided row gets its run out of wait_result without the
\* help of any timer, unless a notification is lost.
DecisionReachesRun ==
  \A r \in Runs : row[r] \in Decisions ~> pc[r] \notin Subscribed \/ faults > 0

-----------------------------------------------------------------------------
(* What the approval promises *)

Gate == INSTANCE QuorumGate WITH
  enough <- [r \in Runs |-> {S \in SUBSET Voters : Cardinality(S) >= Required[level[r]]}],
  answer <- result

\* KeepsGate: votes, counts, notifications, timers and crashes implement the
\* gate: a playbook is executed once at most, on an answer that a quorum of
\* different users backed when the run took it, and no vote is changed.
KeepsGate == Gate!GSpec
=============================================================================
