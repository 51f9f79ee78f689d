------------------------------ MODULE VulnScan ------------------------------
(***************************************************************************)
(* The life of one vulnerability scan task: the worker run that takes it   *)
(* through the nodes of the vulnscan subgraph, the agents that answer its  *)
(* commands, and the API calls that cancel or delete it meanwhile.  They   *)
(* share a document in Elasticsearch (the task, its results, its report)   *)
(* and two Redis keys (the status side channel, the cancel tombstone), and *)
(* nothing locks any of them: one step is one read or write of these.      *)
(*                                                                         *)
(* The queue below is what TaskQueue shows of it: one run at a time, and   *)
(* another one after a crash or, up to MaxDelivery, after an exception.    *)
(***************************************************************************)
EXTENDS Integers, FiniteSets

CONSTANTS
  Agents,        \* the task's targets
  Engines,       \* engines a task may ask for
  MaxDelivery,   \* MAX_DELIVERY of the queue
  MaxCalls,      \* bound: cancel and delete calls
  MaxFaults      \* bound: crashes, failed commands, unreadable tombstones

ASSUME ScanAssumption ==
  /\ IsFiniteSet(Agents) /\ Agents # {}
  /\ Engines \subseteq {"matcher", "nuclei", "global"}
  /\ MaxDelivery \in Nat \ {0}
  /\ MaxCalls \in Nat
  /\ MaxFaults \in Nat

VARIABLES
  engine,     \* the task's engine
  doc,        \* status in the ES task document, or "absent"
  unreached,  \* its stats.failed: sends that failed
  report,     \* whether a report document exists
  finals,     \* is_final result documents of each agent
  key,        \* status in the side-channel key, or "none"
  tombstone,  \* the cancel key exists
  ordered,    \* scan commands each agent may still answer
  arriving,   \* agents whose result passed the status check, not yet saved
  pc,         \* where the run is
  todo,       \* sends the dispatch node has left: <<lane, agent>>
  missed,     \* sends of this run that failed
  late,       \* collect's deadline has passed
  why,        \* what ended this run's wait in collect
  attempts,   \* deliveries of the task's queue entry
  submitted,  \* enqueue_task has written the key and returned
  cancel,     \* where the cancel call is
  deletion,   \* where the delete call is
  calls,      \* history: cancel and delete calls made
  faults      \* history: disruptions so far

store  == <<doc, unreached, report, finals>>
flags  == <<key, tombstone>>
field  == <<ordered, arriving>>
local  == <<todo, missed, late, why>>
run    == <<pc, local, attempts>>
client == <<submitted, cancel, deletion, calls>>
vars   == <<engine, store, flags, field, run, client, faults>>

DocStatus == {"absent", "dispatching", "scanning", "analyzing", "cancelling",
              "cancelled", "completed", "failed"}
KeyStatus == {"none", "queued", "running", "cancelled", "completed", "failed"}
RunSteps  == {"waiting", "check", "save", "send", "enter", "gauge", "poll",
              "count", "analyzing", "aggregate", "analyse", "report", "publish",
              "complete", "abandon", "persistCancel", "finish", "finishCancelled",
              "fail", "failKey", "done", "dead"}
Idle      == {"waiting", "done", "dead"}

\* The runs of dispatch's two loops: one broadcast, one send per agent.
LanesOf(e) == IF e = "global" THEN {"matcher", "nuclei"} ELSE {e}
Sends      == LanesOf(engine) \X Agents

TypeOK ==
  /\ engine \in Engines
  /\ doc \in DocStatus
  /\ unreached \in 0 .. 2 * Cardinality(Agents)
  /\ report \in BOOLEAN
  /\ finals \in [Agents -> Nat]
  /\ key \in KeyStatus
  /\ tombstone \in BOOLEAN
  /\ ordered \in [Agents -> Nat]
  /\ arriving \subseteq Agents
  /\ pc \in RunSteps
  /\ todo \subseteq Sends
  /\ missed \subseteq Sends
  /\ late \in BOOLEAN
  /\ why \in {"none", "complete", "deadline", "unreachable"}
  /\ attempts \in Nat
  /\ submitted \in BOOLEAN
  /\ cancel \in {"no", "mark", "markQueued", "cancelling", "write", "answer"}
  /\ deletion \in {"no", "results", "report", "document"}
  /\ calls \in 0 .. MaxCalls
  /\ faults \in 0 .. MaxFaults

Init ==
  /\ engine \in Engines
  /\ doc = "absent" /\ unreached = 0 /\ report = FALSE
  /\ finals = [a \in Agents |-> 0]
  /\ key = "none" /\ tombstone = FALSE
  /\ ordered = [a \in Agents |-> 0] /\ arriving = {}
  /\ pc = "waiting"
  /\ todo = {} /\ missed = {} /\ late = FALSE /\ why = "none"
  /\ attempts = 0
  /\ submitted = FALSE /\ cancel = "no" /\ deletion = "no"
  /\ calls = 0 /\ faults = 0

Disruption == faults < MaxFaults /\ faults' = faults + 1
NoFault    == UNCHANGED faults

-----------------------------------------------------------------------------
(* The run: runner.py and the nodes of the subgraph *)

\* The queue hands the entry out; the tombstone skips a task not yet begun.
\* Writing "running" is best effort; reading the tombstone, or writing
\* "cancelled", is not.
Begin ==
  /\ pc = "waiting"
  /\ attempts' = attempts + 1
  /\ \/ tombstone  /\ pc' = "done"    /\ key' = "cancelled" /\ NoFault
     \/ tombstone  /\ pc' = "waiting" /\ key' = "cancelled" /\ Disruption  \* no XACK
     \/ ~tombstone /\ pc' = "check"   /\ key' = "running"   /\ NoFault
     \/ ~tombstone /\ pc' = "check"   /\ key' = key         /\ Disruption
     \/ pc' = "fail" /\ key' = key /\ Disruption
  /\ todo' = {} /\ missed' = {} /\ late' = FALSE /\ why' = "none"
  /\ UNCHANGED <<engine, store, tombstone, field, client>>

\* Defect: one look at the tombstone is enough.
ConfirmOnce(clear, cancelled) ==
  \/ tombstone /\ pc' = cancelled /\ NoFault
  \/ ~tombstone /\ pc' = clear /\ NoFault
  \/ ~tombstone /\ pc' = cancelled /\ Disruption

\* _confirm_cancellation: an unreadable tombstone counts as one, so it looks
\* twice; a cancellation it imagines takes two failed reads.
Confirm(clear, cancelled) ==
  \/ tombstone /\ pc' = cancelled /\ NoFault
  \/ ~tombstone /\ pc' = clear /\ (NoFault \/ Disruption)
  \/ ~tombstone /\ pc' = cancelled /\ faults + 2 <= MaxFaults /\ faults' = faults + 2

\* The nodes that begin with it.  A "cancelled" state falls through the rest of
\* the graph to generate_report, which persists it.
Checks ==
  /\ \/ pc = "check"     /\ Confirm("save", "persistCancel")
     \/ pc = "enter"     /\ Confirm("gauge", "persistCancel")
     \/ pc = "poll"      /\ Confirm("count", "abandon")
     \/ pc = "aggregate" /\ Confirm("analyse", "persistCancel")
     \/ pc = "analyse"   /\ Confirm("report", "persistCancel")
     \/ pc = "report"    /\ Confirm("publish", "persistCancel")
  /\ UNCHANGED <<engine, store, flags, field, local, attempts, client>>

\* dispatch: save_task writes the whole document, whatever was there.
Save ==
  /\ pc = "save"
  /\ doc' = "dispatching" /\ unreached' = 0
  /\ todo' = Sends
  /\ pc' = "send"
  /\ UNCHANGED <<engine, report, finals, flags, field, missed, late, why, attempts,
                 client, faults>>

\* One send: matcher first, then nuclei.  A send that fails may have parked the
\* command for the agent's next connection, so the agent may answer it too.
Send(lane, a) ==
  /\ pc = "send"
  /\ <<lane, a>> \in todo
  /\ lane = "nuclei" => \A s \in todo : s[1] = "nuclei"
  /\ todo' = todo \ {<<lane, a>>}
  /\ missed' \in {missed, missed \cup {<<lane, a>>}}
  /\ ordered' = [ordered EXCEPT ![a] = @ + 1]
  /\ UNCHANGED <<engine, store, flags, arriving, pc, late, why, attempts, client, faults>>

\* The failed sends of both lanes are added up.
Scanning ==
  /\ pc = "send" /\ todo = {} /\ doc # "absent"
  /\ doc' = "scanning" /\ unreached' = Cardinality(missed)
  /\ pc' = "enter"
  /\ UNCHANGED <<engine, report, finals, flags, field, local, attempts, client, faults>>

\* collect, before its loop: give up at once if no target was reached.
Gauge ==
  /\ pc = "gauge"
  /\ IF doc # "absent" /\ unreached >= Cardinality(Agents)
     THEN pc' = "analyzing" /\ why' = "unreachable"
     ELSE pc' = "poll" /\ UNCHANGED why
  /\ UNCHANGED <<engine, store, flags, field, todo, missed, late, attempts, client, faults>>

\* Defect: the wait ends on one batch per agent, whichever engine sent it.
OneFinalPerAgent == Cardinality(Agents)

FinalBatches   == UNION {{a} \X (1 .. finals[a]) : a \in Agents}
FinalsOfAll    == Cardinality(FinalBatches)
FinalsRequired == Cardinality(Agents) * Cardinality(LanesOf(engine))

\* Defect: the wait never gives up.
CountForever ==
  /\ pc = "count" /\ doc # "absent"
  /\ IF FinalsOfAll >= FinalsRequired THEN pc' = "analyzing" /\ why' = "complete"
     ELSE pc' = "poll" /\ UNCHANGED why
  /\ UNCHANGED <<engine, store, flags, field, todo, missed, late, attempts, client, faults>>

\* One turn of the loop: enough final batches, or the deadline, end it.
Count ==
  /\ pc = "count" /\ doc # "absent"
  /\ \/ FinalsOfAll >= FinalsRequired /\ pc' = "analyzing" /\ why' = "complete"
     \/ FinalsOfAll < FinalsRequired /\ late /\ pc' = "analyzing" /\ why' = "deadline"
     \/ FinalsOfAll < FinalsRequired /\ ~late /\ pc' = "poll" /\ UNCHANGED why
  /\ UNCHANGED <<engine, store, flags, field, todo, missed, late, attempts, client, faults>>

DeadlinePasses ==
  /\ pc \in {"poll", "count"} /\ ~late
  /\ late' = TRUE
  /\ UNCHANGED <<engine, store, flags, field, pc, todo, missed, why, attempts, client, faults>>

\* update_task: a partial update of the status; without a document it raises.
Write(status, next) ==
  /\ doc # "absent"
  /\ doc' = status
  /\ pc' = next
  /\ UNCHANGED <<engine, unreached, report, finals, flags, field, local, attempts, client,
                 faults>>

\* Defect: a report that cannot be saved does not keep the task from completing.
PublishOrNot ==
  /\ pc = "publish"
  /\ pc' = "complete"
  /\ UNCHANGED <<engine, store, flags, field, local, attempts, client, faults>>

Publish ==
  /\ pc = "publish"
  /\ report' = TRUE
  /\ pc' = "complete"
  /\ UNCHANGED <<engine, doc, unreached, finals, flags, field, local, attempts, client,
                 faults>>

\* Defect: the last node keeps a cancellation to itself.
CancelUnwritten ==
  \/ pc = "analyzing"     /\ Write("analyzing", "aggregate")
  \/ pc = "complete"      /\ Write("completed", "finish")
  \/ pc = "abandon"       /\ Write("analyzing", "persistCancel")
  \/ pc = "persistCancel" /\ Write(doc, "finishCancelled")

\* collect gives the task on or up; generate_report ends it one way or another.
Writes ==
  \/ pc = "analyzing"     /\ Write("analyzing", "aggregate")
  \/ pc = "complete"      /\ Write("completed", "finish")
  \/ pc = "abandon"       /\ Write("cancelled", "persistCancel")
  \/ pc = "persistCancel" /\ Write("cancelled", "finishCancelled")

\* The runner writes the key, best effort, and the worker acknowledges.
Finish ==
  /\ pc \in {"finish", "finishCancelled"}
  /\ LET final == IF pc = "finishCancelled" \/ tombstone THEN "cancelled" ELSE "completed"
     IN  \/ key' = final /\ pc' = "done" /\ NoFault
         \/ key' = key   /\ pc' = "done" /\ Disruption
         \/ key' = final /\ pc' = "waiting" /\ Disruption      \* the XACK failed
  /\ UNCHANGED <<engine, store, tombstone, field, local, attempts, client>>

\* update_task finds no document, or any command of the run fails; the runner's
\* last look at the tombstone can fail too, after the graph has returned.
Raise ==
  /\ \/ /\ \/ pc \in {"count", "analyzing", "complete", "abandon", "persistCancel"}
           \/ pc = "send" /\ todo = {}
        /\ doc = "absent" /\ NoFault
     \/ pc \notin Idle \cup {"finishCancelled", "fail", "failKey"} /\ Disruption
  /\ pc' = "fail"
  /\ UNCHANGED <<engine, store, flags, field, local, attempts, client>>

\* The runner records the failure, best effort, and raises; the worker leaves
\* the entry pending or buries it.
Fail ==
  /\ pc = "fail"
  /\ \/ doc # "absent" /\ doc' = "failed" /\ NoFault
     \/ doc = "absent" /\ doc' = doc /\ NoFault
     \/ doc' = doc /\ Disruption
  /\ pc' = "failKey"
  /\ UNCHANGED <<engine, unreached, report, finals, flags, field, local, attempts, client>>

FailKey ==
  /\ pc = "failKey"
  /\ \/ key' = "failed" /\ NoFault
     \/ key' = key /\ Disruption
  /\ pc' = IF attempts >= MaxDelivery THEN "dead" ELSE "waiting"
  /\ UNCHANGED <<engine, store, tombstone, field, local, attempts, client>>

\* The worker dies; the queue will hand the entry out again.
Crash ==
  /\ pc \notin Idle
  /\ pc' = "waiting"
  /\ Disruption
  /\ UNCHANGED <<engine, store, flags, field, local, attempts, client>>

-----------------------------------------------------------------------------
(* The agents, through the gateway *)

\* A final result arrives: _handle_scan_result reads the task's status ...
Receive(a) ==
  /\ ordered[a] > 0 /\ a \notin arriving
  /\ ordered' = [ordered EXCEPT ![a] = @ - 1]
  /\ arriving' = IF doc = "cancelled" THEN arriving ELSE arriving \cup {a}
  /\ UNCHANGED <<engine, store, flags, run, client, faults>>

\* ... and saves the result, or logs that it could not.
SaveResult(a) ==
  /\ a \in arriving
  /\ arriving' = arriving \ {a}
  /\ \/ finals' = [finals EXCEPT ![a] = @ + 1] /\ NoFault
     \/ finals' = finals /\ Disruption
  /\ UNCHANGED <<engine, doc, unreached, report, flags, ordered, run,
                 client>>

\* _deliver_pending sent the parked command and could not delete it: it will be
\* sent again.
Replay(a) ==
  /\ \E lane \in LanesOf(engine) : <<lane, a>> \in missed
  /\ ordered' = [ordered EXCEPT ![a] = @ + 1]
  /\ Disruption
  /\ UNCHANGED <<engine, store, flags, arriving, run, client>>

-----------------------------------------------------------------------------
(* The API *)

\* enqueue_task: the entry is written before the key, and the key best effort.
Enqueue ==
  /\ submitted' = TRUE
  /\ \/ key' = "queued" /\ NoFault
     \/ key' = key /\ Disruption

\* api_create_task for a body that passes its checks; the groups it looks up are a
\* label of the task.
Submit ==
  /\ ~submitted
  /\ Enqueue
  /\ UNCHANGED <<engine, store, tombstone, field, run, cancel, deletion, calls>>

\* What GET and the cancel call take for the status.
Seen == IF doc = "absent" THEN key ELSE doc

\* A cancel or a delete call comes in (MaxCalls: the bound).
Call == calls < MaxCalls /\ calls' = calls + 1

CancelRead ==
  /\ submitted /\ cancel = "no"
  /\ Seen \notin {"none", "cancelled", "completed", "failed"}
  /\ cancel' = IF doc = "absent" THEN "markQueued" ELSE "mark"
  /\ Call
  /\ UNCHANGED <<engine, store, flags, field, run, submitted, deletion, faults>>

CancelMark ==
  /\ cancel \in {"mark", "markQueued"}
  /\ tombstone' = TRUE
  /\ cancel' = IF cancel = "mark" THEN "cancelling" ELSE "answer"
  /\ UNCHANGED <<engine, store, key, field, run, submitted, deletion, calls, faults>>

\* update_task to "cancelling", then, after a scan_cancel to every agent, to
\* "cancelled"; a missing document ends the call with an error.
CancelWrite ==
  /\ \/ cancel = "cancelling" /\ cancel' = IF doc = "absent" THEN "no" ELSE "write"
     \/ cancel = "write"      /\ cancel' = IF doc = "absent" THEN "no" ELSE "answer"
  /\ doc' = IF doc = "absent" THEN doc
            ELSE IF cancel = "write" THEN "cancelled" ELSE "cancelling"
  /\ UNCHANGED <<engine, unreached, report, finals, flags, field, run, submitted, deletion,
                 calls, faults>>

CancelAnswer ==
  /\ cancel = "answer"
  /\ key' = "cancelled"
  /\ cancel' = "no"
  /\ UNCHANGED <<engine, store, tombstone, field, run, submitted, deletion, calls, faults>>

CancelDies ==
  /\ cancel # "no"
  /\ cancel' = "no"
  /\ Disruption
  /\ UNCHANGED <<engine, store, flags, field, run, submitted, deletion, calls>>

\* delete_task: the results, the report, then the task; no tombstone.
DeleteRead ==
  /\ deletion = "no" /\ doc # "absent"
  /\ deletion' = "results"
  /\ Call
  /\ UNCHANGED <<engine, store, flags, field, run, submitted, cancel, faults>>

DeleteResults ==
  /\ deletion = "results"
  /\ finals' = [a \in Agents |-> 0]
  /\ deletion' = "report"
  /\ UNCHANGED <<engine, doc, unreached, report, flags, field, run, submitted, cancel, calls,
                 faults>>

DeleteReport ==
  /\ deletion = "report"
  /\ report' = FALSE
  /\ deletion' = "document"
  /\ UNCHANGED <<engine, doc, unreached, finals, flags, field, run, submitted, cancel, calls,
                 faults>>

DeleteDocument ==
  /\ deletion = "document"
  /\ doc' = "absent" /\ unreached' = 0
  /\ deletion' = "no"
  /\ UNCHANGED <<engine, report, finals, flags, field, run, submitted, cancel, calls, faults>>

\* delete_task logs the error and the call answers "ok".
DeleteFails ==
  /\ deletion # "no"
  /\ deletion' = "no"
  /\ Disruption
  /\ UNCHANGED <<engine, store, flags, field, run, submitted, cancel, calls>>
-----------------------------------------------------------------------------
RunStep ==
  \/ Begin \/ Checks \/ Save \/ Scanning \/ Gauge \/ Count \/ Writes
  \/ Publish \/ Finish \/ Raise \/ Fail \/ FailKey
  \/ \E lane \in LanesOf(engine), a \in Agents : Send(lane, a)

AgentStep == \E a \in Agents : Receive(a) \/ SaveResult(a) \/ Replay(a)

CancelStep == CancelRead \/ CancelMark \/ CancelWrite \/ CancelAnswer
              \/ CancelDies

DeleteStep == DeleteRead \/ DeleteResults \/ DeleteReport \/ DeleteDocument \/ DeleteFails

Next == RunStep \/ DeadlinePasses \/ Crash \/ AgentStep \/ Submit \/ CancelStep \/ DeleteStep

\* The queue hands the entry out again and a run that is alive goes on; the
\* deadline comes.  No agent need ever answer, and no user need cancel.
Fairness == WF_vars(RunStep) /\ WF_vars(DeadlinePasses)

Spec     == Init /\ [][Next]_vars
FairSpec == Spec /\ Fairness

-----------------------------------------------------------------------------
(* Properties *)

Quiet == pc \in {"done", "dead"} /\ cancel = "no" /\ deletion = "no"

\* SettledOutcome: once run and calls are over, and nothing failed on the way,
\* GET shows a task that has ended, whatever order the writes of the run, of
\* the cancel call and of the delete call came in.
SettledOutcome ==
  Quiet /\ submitted /\ faults = 0 => doc \in {"absent", "completed", "cancelled"}

\* ScanInv: the types, and what becomes of the task document.
ScanInv == TypeOK /\ SettledOutcome

\* NoFalseCancel: a healthy task is not persisted as cancelled because the
\* tombstone could not be read once (the S-P1-9 double check).
NoFalseCancel == doc = "cancelled" /\ ~tombstone => faults >= 2

\* CompleteLeavesNone: when collect counted itself complete, no agent still owes
\* the batch of either engine (P1-VULN-GBL2); one run, no command replayed.
CompleteLeavesNone ==
  why = "complete" /\ attempts = 1 /\ faults = 0 =>
    \A a \in Agents : ordered[a] = 0 /\ a \notin arriving

\* ReportForCompleted: a completed task has its report, though a delete call may
\* be taking both away meanwhile.
ReportForCompleted == doc = "completed" /\ deletion = "no" /\ faults = 0 => report

\* EveryRunEnds: whatever agents, users and faults do, the queue entry of a task
\* is acknowledged or buried: no run waits for ever.
EveryRunEnds == pc = "waiting" ~> pc \in {"done", "dead"}
=============================================================================
