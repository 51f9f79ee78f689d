--------------------------- MODULE ResponsePipeline ---------------------------
(***************************************************************************)
(* What run_pipeline does with one security event: the main graph (triage, *)
(* investigation, vulnerability check, routing by verdict), the responder  *)
(* that picks a playbook and asks for approval, and the action dispatcher  *)
(* that executes it with idempotency marks and rollback.  The same event   *)
(* may be run again after a crash or a redelivery.  What survives a run is *)
(* the event row, the marks in Redis and the effects on the world.         *)
(*                                                                         *)
(* An engine that starts claims entries idle for 60 s, also from an engine *)
(* that is still running the event.  One run is followed node by node; the *)
(* runs beside it (others) in what they do to those three.  Any run of an  *)
(* event may be the one followed.                                          *)
(*                                                                         *)
(* Answers of the language model are free choices, confidence is one of    *)
(* three bands, and a person's decision is a free choice (Approval models  *)
(* how it is reached).                                                     *)
(***************************************************************************)
EXTENDS Integers, SequencesExt

CONSTANTS
  Ops,             \* operations of the playbooks: type and parameters
  Kind,            \* connector registered for each, or "none"
  Level,           \* risk level of each, 1 to 5
  Playbooks,       \* the operation sequences a playbook may have
  MaxIterations,   \* MAX_ITERATIONS of the PoC loop
  RecursionLimit,  \* supersteps LangGraph allows it
  Siblings,        \* engines that may run the event at the same time
  MaxRuns          \* bound: runs of the event

\* What connector.execute may answer.  The connectors of the repository catch
\* their own errors and answer "failed"; a "plugin" is any other implementation
\* of the ActionConnector protocol, which may raise.  Only dns_block and a plugin
\* have a rollback that undoes anything.
DnsAnswers       == {"success", "failed"}
TagAnswers       == {"success", "failed"}
NotifyAnswers    == {"success", "skipped"}
SimulatorAnswers == {"success"}
PluginAnswers    == {"success", "raised"}
Answers  == [dns |-> DnsAnswers, tag |-> TagAnswers, notify |-> NotifyAnswers,
             simulator |-> SimulatorAnswers, plugin |-> PluginAnswers]
Undoable == {o \in Ops : Kind[o] \in {"dns", "plugin"}}

\* What a PoC's container may come to; only "vulnerable" is a hit.
SandboxOutcomes == {"vulnerable", "success", "crash", "timeout", "error"}

ASSUME PipelineAssumption ==
  /\ Kind \in [Ops -> DOMAIN Answers \cup {"none"}]
  /\ Level \in [Ops -> 1 .. 5]
  /\ Playbooks \subseteq Seq(Ops)
  /\ MaxIterations \in Nat \ {0}
  /\ RecursionLimit \in Nat
  /\ MaxRuns \in Nat

VARIABLES
  dryRun,    \* settings.action_dry_run
  node,      \* node of the graph, or step of the dispatcher; "idle" between runs
  graph,     \* graph state the routing reads
  hunter,    \* memory of the PoC loop
  plan,      \* playbook_draft
  results,   \* outcome of its operations so far
  answer,    \* what the last connector answered
  undo,      \* results the rollback still looks at
  marks,     \* action:done keys in Redis
  inForce,   \* operations whose effect stands
  times,     \* history: effects of each operation
  unmarked,  \* history: operations with an effect whose mark was lost or unread
  stuck,     \* history: operations whose rollback failed
  crossed,   \* history: operations two runs held between check and mark
  theirs,    \* history: operations put in force beside the run since it undid them
  others,    \* the runs beside it: step, operations to come, and those done
  event,     \* status of the event row
  ours,      \* history: the run followed wrote the row last
  runs       \* history: runs so far

world == <<marks, inForce, times, unmarked, stuck, crossed, theirs>>
local == <<graph, hunter, plan, results, answer, undo>>
pipelineVars  == <<dryRun, node, local, world, others, event, ours, runs>>

Bands     == {"low", "mid", "high"}
Verdicts  == {"true_positive", "false_positive", "benign"}
Statuses  == {"processing", "completed", "rejected", "error"}
Looking   == {"cti_analyst", "investigator"}
Hunting   == {"generate_poc", "linter_check", "sandbox_exec", "finalize"}
Acting    == {"check", "execute", "mark", "rollback"}
Answering == {"playbook_matcher", "hitl_approval", "reject_response", "summary"} \cup Acting
Nodes     == {"idle", "entry", "orchestrator", "aggregator", "ignore", "store"}
               \cup Looking \cup Hunting \cup Answering

FreshGraph  == [stage |-> "triage", verdict |-> "unknown", conf |-> "low",
                approval |-> "none", signed |-> FALSE, error |-> FALSE]
NoRun       == [step |-> "none", todo |-> <<>>, done |-> {}]
FreshHunter == [round |-> 0, steps |-> 0, last |-> "none", lint |-> "none", ran |-> FALSE]

PipelineTypeOK ==
  /\ dryRun \in BOOLEAN
  /\ node \in Nodes
  /\ graph \in [stage : {"triage", "route", "investigate", "verify", "done"},
                verdict : Verdicts \cup {"unknown", "timeout", "error", "ignored"},
                conf : Bands, approval : {"none", "approved", "rejected"},
                signed : BOOLEAN, error : BOOLEAN]
  /\ hunter \in [round : 0 .. MaxIterations, steps : Nat,
                 last : SandboxOutcomes \cup {"none", "linter_fail", "linter_pass"},
                 lint : {"none", "pass", "fail"}, ran : BOOLEAN]
  /\ plan \in Playbooks \cup {<<>>}
  /\ Len(results) <= Len(plan)
  /\ answer \in {"none", "success", "failed", "skipped", "raised"}
  /\ undo \in 0 .. Len(results)
  /\ marks \subseteq Ops /\ unmarked \subseteq Ops /\ stuck \subseteq Ops
  /\ crossed \subseteq Ops /\ theirs \subseteq Ops
  /\ others \in [Siblings -> [step : {"none", "check", "execute", "mark", "rollback"},
                             todo : Seq(Ops), done : SUBSET Ops]]
  /\ ours \in BOOLEAN
  /\ inForce \subseteq Undoable
  /\ times \in [Ops -> Nat]
  /\ event \in Statuses
  /\ runs \in 0 .. MaxRuns

PipelineInit ==
  /\ dryRun \in BOOLEAN
  /\ node = "idle" /\ graph = FreshGraph /\ hunter = FreshHunter
  /\ plan = <<>> /\ results = <<>> /\ answer = "none" /\ undo = 0
  /\ marks = {} /\ inForce = {} /\ unmarked = {} /\ stuck = {} /\ crossed = {} /\ theirs = {}
  /\ others = [e \in Siblings |-> NoRun] /\ ours = FALSE
  /\ times = [o \in Ops |-> 0]
  /\ event = "processing" /\ runs = 0

----------------------------------------------------------------------------
(* The main graph *)

\* The row is overwritten when the event has one; its fields can be set one by one.
CreateEvent(own)         == event' = "processing" /\ ours' = own
UpdateEvent(status, own) == event' = status /\ ours' = own

StartRun ==
  /\ node = "idle" /\ runs < MaxRuns
  /\ node' = "entry" /\ runs' = runs + 1
  /\ graph' = FreshGraph /\ hunter' = FreshHunter
  /\ plan' = <<>> /\ results' = <<>> /\ answer' = "none" /\ undo' = 0
  /\ CreateEvent(TRUE)
  /\ theirs' = {}
  /\ UNCHANGED <<dryRun, marks, inForce, times, unmarked, stuck, crossed, others>>

Goto(n) == node' = n /\ UNCHANGED <<dryRun, others, event, ours, runs>>

Entry ==
  /\ node = "entry"
  /\ graph' = [graph EXCEPT !.stage = "triage", !.error = FALSE]
  /\ Goto("orchestrator")
  /\ UNCHANGED <<hunter, plan, results, answer, undo, world>>

\* Node that route_decision picks for a priority and a tag.
RouteDecision(priority, vulnerability) ==
  IF priority = "low" THEN "ignore"
  ELSE IF vulnerability THEN "generate_poc" ELSE "cti_analyst"

\* Triage by rule, by the model, or "medium" when the model is unavailable.
Orchestrate ==
  /\ node = "orchestrator"
  /\ graph' = [graph EXCEPT !.stage = "route"]
  /\ \E priority \in {"high", "medium", "low"}, vulnerability \in BOOLEAN :
       Goto(RouteDecision(priority, vulnerability))
  /\ UNCHANGED <<hunter, plan, results, answer, undo, world>>

\* Intelligence sources that fail are skipped: the node always goes on.
CtiAnalyst ==
  /\ node = "cti_analyst"
  /\ Goto("investigator")
  /\ UNCHANGED <<local, world>>

Investigate ==
  /\ node = "investigator"
  /\ \E v \in Verdicts, c \in Bands :
       graph' = [graph EXCEPT !.verdict = v, !.conf = c]
  /\ Goto("aggregator")
  /\ UNCHANGED <<hunter, plan, results, answer, undo, world>>

\* Time limit of the subgraph, or an exception of its model call.
InvestigateFails ==
  /\ node \in Looking
  /\ \E v \in {"timeout", "error"} :
       graph' = [graph EXCEPT !.stage = "investigate", !.verdict = v, !.conf = "low"]
  /\ Goto("aggregator")
  /\ UNCHANGED <<hunter, plan, results, answer, undo, world>>

----------------------------------------------------------------------------
(* The vuln_hunter subgraph *)

GeneratePoc ==
  /\ node = "generate_poc"
  /\ hunter' = [hunter EXCEPT !.round = @ + 1, !.steps = @ + 1,
                              !.lint = "none", !.ran = FALSE]
  /\ Goto("linter_check")
  /\ UNCHANGED <<graph, plan, results, answer, undo, world>>

\* Defect: a PoC that passes does not clear the marker of the one before it.
LinterKeepsMarker ==
  /\ node = "linter_check"
  /\ \E ok \in BOOLEAN :
       hunter' = [hunter EXCEPT !.steps = @ + 1,
                    !.lint = IF ok THEN "pass" ELSE "fail",
                    !.last = IF ok THEN @ ELSE "linter_fail"]
  /\ Goto("sandbox_exec")
  /\ UNCHANGED <<graph, plan, results, answer, undo, world>>

LinterCheck ==
  /\ node = "linter_check"
  /\ \E ok \in BOOLEAN :
       hunter' = [hunter EXCEPT !.steps = @ + 1,
                    !.lint = IF ok THEN "pass" ELSE "fail",
                    !.last = IF ok THEN "linter_pass" ELSE "linter_fail"]
  /\ Goto("sandbox_exec")
  /\ UNCHANGED <<graph, plan, results, answer, undo, world>>

CheckConvergence(h) ==
  IF h.last = "vulnerable" \/ h.round >= MaxIterations
  THEN "finalize" ELSE "generate_poc"

\* Skipped for a PoC the linter refused.
SandboxExec ==
  /\ node = "sandbox_exec"
  /\ \E outcome \in SandboxOutcomes :
       LET run == hunter.last # "linter_fail"
           h   == [hunter EXCEPT !.steps = @ + 1, !.ran = run,
                     !.last = IF run THEN outcome ELSE @]
       IN hunter' = h /\ Goto(CheckConvergence(h))
  /\ UNCHANGED <<graph, plan, results, answer, undo, world>>

Finalize ==
  /\ node = "finalize"
  /\ LET found == hunter.last = "vulnerable"
     IN graph' = [graph EXCEPT !.stage = "verify",
                    !.verdict = IF found THEN "true_positive" ELSE "false_positive",
                    !.conf = IF found THEN "high" ELSE "low"]
  /\ hunter' = [hunter EXCEPT !.steps = @ + 1]
  /\ Goto("aggregator")
  /\ UNCHANGED <<plan, results, answer, undo, world>>

\* Time limit of the subgraph, or an exception of its model call.
HuntFails ==
  /\ node \in Hunting
  /\ \E v \in {"timeout", "error"} :
       graph' = [graph EXCEPT !.stage = "verify", !.verdict = v, !.conf = "low"]
  /\ Goto("aggregator")
  /\ UNCHANGED <<hunter, plan, results, answer, undo, world>>

----------------------------------------------------------------------------
(* Routing after the verdict *)

\* Defect: the first pass does not look at the confidence.
RouteByVerdictOnly(s) ==
  IF s.verdict = "true_positive" THEN "playbook_matcher"
  ELSE IF s.stage # "verify" /\ s.conf = "mid" THEN "generate_poc" ELSE "store"

RouteAfterVerdict(s) ==
  IF s.stage = "verify"
  THEN IF s.verdict = "true_positive" THEN "playbook_matcher" ELSE "store"
  ELSE IF s.verdict = "true_positive" /\ s.conf = "high" THEN "playbook_matcher"
  ELSE IF s.conf = "mid" THEN "generate_poc" ELSE "store"

\* The stage is kept, so the next routing knows which pass it follows; a
\* second pass starts the PoC loop with a memory of its own.
Aggregate ==
  /\ node = "aggregator"
  /\ LET next == RouteAfterVerdict(graph)
     IN /\ Goto(next)
        /\ hunter' = IF next = "generate_poc" THEN FreshHunter
                     ELSE [FreshHunter EXCEPT !.last = hunter.last]
  /\ UNCHANGED <<graph, plan, results, answer, undo, world>>

Ignore ==
  /\ node = "ignore"
  /\ graph' = [graph EXCEPT !.verdict = "ignored", !.stage = "done"]
  /\ Goto("store")
  /\ UNCHANGED <<hunter, plan, results, answer, undo, world>>

----------------------------------------------------------------------------
(* The responder: playbook, approval *)

LevelOf(pb) == IF pb = <<>> THEN 1
               ELSE CHOOSE l \in 1 .. 5 : /\ \E i \in DOMAIN pb : Level[pb[i]] = l
                                          /\ \A i \in DOMAIN pb : Level[pb[i]] <= l

Op      == plan[Len(results) + 1]
Note(s) == results' = Append(results, [op |-> Op, status |-> s])

\* By rule, by the model, or the tag-only playbook when the model fails.
MatchPlaybook ==
  /\ node = "playbook_matcher"
  /\ plan' \in Playbooks
  /\ Goto("hitl_approval")
  /\ UNCHANGED <<graph, hunter, results, answer, undo, world>>

\* Levels 1 and 2 need no one; from 3 on a person decides, and no answer in
\* time counts as a refusal.
Hitl ==
  /\ node = "hitl_approval"
  /\ \/ /\ LevelOf(plan) <= 2
        /\ graph' = [graph EXCEPT !.approval = "approved"]
        /\ Goto("check")
     \/ /\ LevelOf(plan) > 2
        /\ \/ graph' = [graph EXCEPT !.approval = "approved", !.signed = TRUE] /\ Goto("check")
           \/ graph' = [graph EXCEPT !.approval = "rejected"] /\ Goto("reject_response")
  /\ UNCHANGED <<hunter, plan, results, answer, undo, world>>

RejectResponse ==
  /\ node = "reject_response"
  /\ Goto("store")
  /\ UNCHANGED <<local, world>>

\* respond_node gives up after its time limit, wherever the responder is, or
\* the approval store raises.  Cancellation is not an Exception: the dispatcher
\* neither rolls back nor marks what it was doing.
RespondFails ==
  /\ node \in Answering
  /\ graph' = [graph EXCEPT !.approval = "none", !.error = TRUE]
  /\ unmarked' = IF node = "mark" THEN unmarked \cup {Op} ELSE unmarked
  /\ Goto("store")
  /\ UNCHANGED <<hunter, plan, results, answer, undo, marks, inForce, times, stuck, crossed, theirs>>

----------------------------------------------------------------------------
(* The action dispatcher *)

\* Some run has looked for the mark of o and has not set it yet.
Between(o) ==
  \/ node \in {"execute", "mark"} /\ Op = o
  \/ \E e \in Siblings : others[e].step \in {"execute", "mark"} /\ Head(others[e].todo) = o

Pass(o) == crossed' = IF Between(o) THEN crossed \cup {o} ELSE crossed

\* dns_block may have added the domain before the call that failed.
Effect(o, a) ==
  \E effect \in BOOLEAN :
    /\ a = "success" => effect
    /\ effect => a = "success" \/ (a = "failed" /\ Kind[o] = "dns")
    /\ times' = IF effect THEN [times EXCEPT ![o] = @ + 1] ELSE times
    /\ inForce' = IF effect /\ o \in Undoable THEN inForce \cup {o} ELSE inForce

\* A mark that is there but cannot be read does not stop the operation.
CheckDone ==
  /\ node = "check" /\ Len(results) < Len(plan)
  /\ \E seen \in BOOLEAN :
       /\ seen => Op \in marks /\ ~dryRun
       /\ \/ /\ seen \/ Kind[Op] = "none"
             /\ Note("skipped") /\ Goto("check") /\ crossed' = crossed
          \/ /\ ~seen /\ Kind[Op] # "none" /\ dryRun
             /\ Note("dry_run") /\ Goto("check") /\ crossed' = crossed
          \/ /\ ~seen /\ Kind[Op] # "none" /\ ~dryRun
             /\ results' = results /\ Goto("execute") /\ Pass(Op)
       /\ unmarked' = IF ~seen /\ Op \in marks THEN unmarked \cup {Op} ELSE unmarked
  /\ UNCHANGED <<graph, hunter, plan, answer, undo, marks, inForce, times, stuck, theirs>>

Execute ==
  /\ node = "execute"
  /\ \E a \in Answers[Kind[Op]] : Effect(Op, a) /\ answer' = a
  /\ IF answer' = "raised"
     THEN Note("raised") /\ undo' = Len(results) /\ Goto("rollback")
     ELSE results' = results /\ undo' = undo /\ Goto("mark")
  /\ UNCHANGED <<graph, hunter, plan, marks, unmarked, stuck, crossed, theirs>>

\* Defect: only an operation that failed is marked.
MarkFailures ==
  /\ node = "mark"
  /\ Note(answer)
  /\ marks' = IF answer = "failed" THEN marks \cup {Op} ELSE marks
  /\ Goto("check")
  /\ UNCHANGED <<graph, hunter, plan, answer, undo, inForce, times, unmarked, stuck, crossed, theirs>>

\* Whatever the connector answered, failures included, is marked, if Redis takes the mark.
MarkDone ==
  /\ node = "mark"
  /\ Note(answer)
  /\ \/ marks' = marks \cup {Op} /\ unmarked' = unmarked
     \/ marks' = marks /\ unmarked' = unmarked \cup {Op}
  /\ Goto("check")
  /\ UNCHANGED <<graph, hunter, plan, answer, undo, inForce, times, stuck, crossed, theirs>>

\* Defect: the first result that is not a success ends the rollback.
UndoUntilOther ==
  /\ node = "rollback" /\ undo > 0
  /\ LET r == results[undo]
     IN /\ inForce' = IF r.status = "success" THEN inForce \ {r.op} ELSE inForce
        /\ undo' = IF r.status = "success" THEN undo - 1 ELSE 0
  /\ Goto("rollback")
  /\ UNCHANGED <<graph, hunter, plan, results, answer, marks, times, unmarked, stuck, crossed, theirs>>

\* In reverse order; a rollback that raises is logged and passed over, and the
\* marks stay.
Undo ==
  /\ node = "rollback" /\ undo > 0
  /\ LET r == results[undo]
     IN IF r.status = "success" /\ r.op \in Undoable
        THEN \/ inForce' = inForce \ {r.op} /\ theirs' = theirs \ {r.op} /\ stuck' = stuck
             \/ stuck' = stuck \cup {r.op} /\ UNCHANGED <<inForce, theirs>>
        ELSE UNCHANGED <<inForce, theirs, stuck>>
  /\ undo' = undo - 1
  /\ Goto("rollback")
  /\ UNCHANGED <<graph, hunter, plan, results, answer, marks, times, unmarked, crossed>>

PlaybookDone ==
  /\ \/ node = "check" /\ Len(results) = Len(plan)
     \/ node = "rollback" /\ undo = 0
  /\ Goto("summary")
  /\ UNCHANGED <<local, world>>

ExecuteResponse ==
  /\ node = "summary"
  /\ Goto("store")
  /\ UNCHANGED <<local, world>>

----------------------------------------------------------------------------
(* The event row, and what ends a run early *)

\* Defect: an approval id alone makes the event a completed one.
StatusOfApproval(g) == IF g.error THEN "error" ELSE "completed"

StatusFromResult(g) ==
  IF g.error THEN "error" ELSE IF g.approval = "rejected" THEN "rejected" ELSE "completed"

Store ==
  /\ node = "store"
  /\ UpdateEvent(StatusFromResult(graph), TRUE)
  /\ node' = "idle"
  /\ UNCHANGED <<dryRun, local, world, others, runs>>

\* The process dies, or the event store raises: the row stays as it is.
Crash ==
  /\ node # "idle"
  /\ node' = "idle"
  /\ unmarked' = IF node = "mark" THEN unmarked \cup {Op} ELSE unmarked
  /\ UNCHANGED <<dryRun, local, marks, inForce, times, stuck, crossed, theirs, others, event, ours, runs>>

\* A mark lives for a day.
Expire(o) ==
  /\ node = "idle" /\ o \in marks
  /\ marks' = marks \ {o} /\ unmarked' = unmarked \cup {o}
  /\ UNCHANGED <<dryRun, node, local, inForce, times, stuck, crossed, theirs, others, event, ours, runs>>

----------------------------------------------------------------------------
(* The runs beside the one followed *)

Set(e, r) == others' = [others EXCEPT ![e] = r]

\* An engine that starts takes the entry over, idle for 60 s, from the run that
\* is under way.  Its answers of the model, and so its playbook, are its own.
ClaimedAgain(e) ==
  /\ node # "idle" /\ others[e] = NoRun /\ runs < MaxRuns
  /\ \E pb \in Playbooks \cup {<<>>} : Set(e, [step |-> "check", todo |-> pb, done |-> {}])
  /\ runs' = runs + 1
  /\ CreateEvent(FALSE)
  /\ UNCHANGED <<dryRun, node, local, world>>

OtherChecks(e) ==
  LET run == others[e]
      o   == Head(run.todo)
  IN /\ run.step = "check" /\ run.todo # <<>>
     /\ \E seen \in BOOLEAN :
          /\ seen => o \in marks /\ ~dryRun
          /\ IF seen \/ Kind[o] = "none" \/ dryRun
             THEN Set(e, [run EXCEPT !.todo = Tail(@)]) /\ crossed' = crossed
             ELSE Set(e, [run EXCEPT !.step = "execute"]) /\ Pass(o)
          /\ unmarked' = IF ~seen /\ o \in marks THEN unmarked \cup {o} ELSE unmarked
     /\ UNCHANGED <<dryRun, node, local, marks, inForce, times, stuck, theirs, event, ours, runs>>

OtherExecutes(e) ==
  LET run == others[e]
      o   == Head(run.todo)
  IN /\ run.step = "execute"
     /\ \E a \in Answers[Kind[o]] :
          /\ Effect(o, a)
          /\ Set(e, [run EXCEPT !.step = IF a = "raised" THEN "rollback" ELSE "mark",
                                !.done = IF a = "success" THEN @ \cup {o} ELSE @])
     /\ theirs' = IF times' # times THEN theirs \cup {o} ELSE theirs
     /\ UNCHANGED <<dryRun, node, local, marks, unmarked, stuck, crossed, event, ours, runs>>

OtherMarks(e) ==
  LET run == others[e]
      o   == Head(run.todo)
  IN /\ run.step = "mark"
     /\ \/ marks' = marks \cup {o} /\ unmarked' = unmarked
        \/ marks' = marks /\ unmarked' = unmarked \cup {o}
     /\ Set(e, [run EXCEPT !.step = "check", !.todo = Tail(@)])
     /\ UNCHANGED <<dryRun, node, local, inForce, times, stuck, crossed, theirs, event, ours, runs>>

\* Its roll-back may undo what the run followed relies on, or fail.
OtherUndoes(e) ==
  /\ others[e].step = "rollback"
  /\ \E o \in others[e].done :
       /\ Set(e, [others[e] EXCEPT !.done = @ \ {o}])
       /\ inForce' \in {inForce, inForce \ {o}}
  /\ UNCHANGED <<dryRun, node, local, marks, times, unmarked, stuck, crossed, theirs, event, ours, runs>>

\* It writes the row, whatever its outcome, or dies; either may happen anywhere.
OtherEnds(e) ==
  /\ others[e].step # "none"
  /\ Set(e, NoRun)
  /\ unmarked' = IF others[e].step = "mark" THEN unmarked \cup {Head(others[e].todo)} ELSE unmarked
  /\ \/ \E status \in Statuses \ {"processing"} : UpdateEvent(status, FALSE)
     \/ UNCHANGED <<event, ours>>
  /\ UNCHANGED <<dryRun, node, local, marks, inForce, times, stuck, crossed, theirs, runs>>

OtherStep(e) ==
  ClaimedAgain(e) \/ OtherChecks(e) \/ OtherExecutes(e) \/ OtherMarks(e)
    \/ OtherUndoes(e) \/ OtherEnds(e)

PipelineNext ==
  \/ StartRun \/ Entry \/ Orchestrate \/ CtiAnalyst \/ Investigate \/ InvestigateFails
  \/ GeneratePoc \/ LinterCheck \/ SandboxExec \/ Finalize \/ HuntFails
  \/ Aggregate \/ Ignore \/ MatchPlaybook \/ Hitl \/ RejectResponse \/ RespondFails
  \/ CheckDone \/ Execute \/ MarkDone \/ Undo \/ PlaybookDone \/ ExecuteResponse
  \/ Store \/ Crash
  \/ \E o \in Ops : Expire(o)
  \/ \E e \in Siblings : OtherStep(e)

PipelineSpec == PipelineInit /\ [][PipelineNext]_pipelineVars

----------------------------------------------------------------------------
(* Properties *)

\* Whatever the dispatcher does was decided before, several nodes away: the
\* verdict is a true positive, of high confidence if it is the investigator's,
\* proved in the sandbox if it is the vuln_hunter's, and a playbook with an
\* operation of level 3 or more has a person's approval.
\* (route_after_verdict, finalize_node, playbook_matcher, route_after_hitl)
ConfirmedBeforeActing ==
  node \in Acting =>
    /\ graph.verdict = "true_positive"
    /\ IF graph.stage = "verify" THEN hunter.last = "vulnerable" ELSE graph.conf = "high"
    /\ (\E i \in DOMAIN plan : Level[plan[i]] >= 3) => graph.signed

\* Every PoC the linter lets through is run before the loop goes on: the marker
\* a refused PoC leaves does not outlive its round.  (linter_check_node)
LintedPocRuns ==
  node \in {"generate_poc", "finalize"} /\ hunter.lint = "pass" => hunter.ran

\* A loop that uses all its rounds still fits the recursion limit the main
\* graph gives it, so it never ends as an error.  (graph.py, _vuln_config)
LoopFitsLimit == hunter.steps <= RecursionLimit

\* The types and the two properties of the PoC loop: no refused PoC shadows a
\* later one, and the loop ends before the recursion limit does.
PipelineInv == PipelineTypeOK /\ LintedPocRuns /\ LoopFitsLimit

\* Over all runs of the event, one after another or at the same time, an
\* operation takes effect twice only if its mark was never set, could not be
\* read, or expired, or if two runs held it between the look at the mark and the
\* setting of it.  (_is_done, _mark_done)
RepeatOnlyWithoutMark ==
  \A o \in Ops : times[o] > 1 => o \in unmarked \cup crossed

\* When an operation raises, nothing this run did before it stays in force,
\* except where the rollback itself failed or another run has done it since.
\* (execute_playbook, _rollback)
RolledBackOnRaise ==
  node = "summary" /\ (\E i \in DOMAIN results : results[i].status = "raised") =>
    \A i \in DOMAIN results :
      results[i].status = "success" /\ results[i].op \in Undoable
        => results[i].op \notin inForce \/ results[i].op \in stuck \cup theirs

\* The stored status is true of the run that stored it last: a rejected event executed nothing, and
\* a completed one that responded went through its playbook to the end or to
\* the operation that raised.  (_status_from_result)
StoredStatusTruthful ==
  node = "idle" /\ ours =>
    /\ event = "rejected" => results = <<>> /\ graph.approval = "rejected"
    /\ event = "completed" /\ plan # <<>> =>
         /\ graph.approval = "approved"
         /\ Len(results) = Len(plan) \/ results[Len(results)].status = "raised"
=============================================================================
