# A TLA+ model of security-agent

This directory models the parts of security-agent in which several actors share state: its queues, the scans and
the agents that run them, rule packs and templates, upgrades, alerts, the response to them and its approval, the
operators' accounts and their conversations with the assistant. TLC checks the models on small instances; TLAPS
proves, for every size, the safety properties of all of them and that the task queue implements its abstract
specification.

    tlc -config MCTaskQueue.cfg MCTaskQueue.tla      # check one instance
    tlapm ConsoleProofs.tla                          # check the proofs of one module

Paths below are relative to `src/` of the repository unless they start with `agent/`.

## 1. The system

Alerts reach `preprocessing` through Kafka, are sanitized and appended to a Redis stream; `scan-engine` reads
the stream and runs the LangGraph pipeline (`orchestration/runner.py`) for each event: investigation, vulnerability
check, response. A response may need the approval of humans, who vote through the API. Scan tasks take another way:
the API appends them to a Redis stream, workers in `scan-engine` run the vulnscan subgraph for each, which sends
commands through the WebSocket gateway to Go agents on the hosts and collects what they report; asset scans have a
stream of their own and scan the network from the server. PostgreSQL holds approvals, hosts, tokens and users,
Elasticsearch tasks, results, findings, rule packs and templates, Redis queues, status keys, tombstones, locks and
channels. No lock or transaction spans two of them, and few span two requests to one of them.

| Component | State | Operations | What is hard | Must hold |
|---|---|---|---|---|
| Task queue, workers (`orchestration/task_queue`) | stream, group, delivery counts, DLQ, running jobs | enqueue, read, claim, process, ack, bury | death of a worker anywhere, lost replies, claims by idle time, MAXLEN | no task lost or run twice at once; a failing task is buried |
| Scan run, API, store (`subgraphs/vulnscan`, `api/routers/vulnscan.py`, `agents/store.py`) | task, results, records, report, tombstone, status key | create, dispatch, collect, aggregate, analyse, report, cancel, delete | unconditional writes, searches that lag, redelivery, agents that never answer | one settled outcome, one record for each vulnerability, every run ends |
| LLM load and rescan queue (`scan_engine/llm_analysis.py`, `rescan.py`) | gauge of calls, queue of failed batches, outcome marks | call, enqueue, rescan, give up, expire | several engines work on one queue | no failed batch is forgotten or given up early |
| WebSocket gateway (`agents/ws_gateway.py`) | local connections, routing key, subscriptions, one parked command | handshake, register, send, deliver, disconnect, revoke | old and new connection overlap, several API workers | a revoked agent stays out; a command arrives once |
| Fleet (`agents/{manager,enroll,revoke,store}.py`) | host rows, host documents, credentials, groups, enrolment tokens | enrol, replace, heartbeat, sweep, decommission, purge, group | two stores written one after the other | a retired host stays retired and locked out |
| Upgrade (`agents/upgrade.py`, `agent/internal/updater`) | record in Redis, files, process | prepare, send, stage, swap, restart, roll back, confirm | read-modify-write by several callers, crash between renames | an executable to start; a truthful record |
| Rule packs (`agents/rules_sync.py`, `agent/internal/scan`) | packs, version pointer, the agent's rules | sync, import, publish, push, download, load, persist | overlapping publications, lost commands, two workers on one agent | only signed rules; the agent catches up; the right releases match |
| Nuclei templates and binary (`agents/nuclei_templates.py`, updater) | indices, alias, lock; installed and staged copies | sync, edit, upgrade, swap | lock that runs out, failure at every step | the library and the installed copy are whole |
| Go agent: link, outbox, scans (`agent/internal/{comm,queue,scan}`) | connection, SQLite outbox, cancel functions | dial, serve, scan, cancel, replay | connection lost during the replay, scans of one task beside each other | one final result, saved once, nothing stranded |
| Asset scan (`asset_scan`) | task, assets, findings, report, tombstone | create, six nodes, cancel, delete, sweep | cancelled nodes do not stop the graph | a completed task has its report and its findings |
| Approval (`subgraphs/responder`, `api/routers/operations.py`) | approvals, votes, pub/sub, event status | ask, wait, vote, resolve | lost wake-up, racing votes, three timers | execution only with the quorum; a decision reaches the run |
| Pipeline and dispatcher (`orchestration/main_graph`, `vuln_hunter`, `execution/actions`) | graph state, event row, done marks, effects | route, investigate, hunt, match, execute, roll back, store | verdict passes through many nodes; crash between effect and mark | acts only on what was confirmed; status tells what happened |
| Alert ingestion (`preprocessing/consumer.py`, `scan_engine/main.py`) | offsets, DLQ, events stream, group | consume, emit, commit, claim, run, ack | a failed emit followed by a commit | an alert is lost in the named way only |
| Accounts (`api/routers/users.py`, `auth.py`) | users, versions of tokens | create, change, delete, restore, log in | count and change are two queries | an administrator remains; old sessions end |
| Chat assistant (`api/routers/chat.py`, `scan_chat.py`, `agents/conversation.py`) | title and array of messages, title tasks, their in-flight set | chat (both routes), append, write back a task number, rename, delete, name | the array is read, changed and stored as a whole; title tasks race the operator | no turn lost, no name overwritten, no card the model did not decide on |
| Sanitization, Sigma rules, knowledge, AI clients, common services | none | pure functions, I/O | - | functional |

The hazards of each are listed, at their lines, in `PROJECT.json`; a hazard without a property says why.

## 2. Modules

One step of a model is one request to Redis, Elasticsearch or PostgreSQL with the local code around it, because
asyncio and goroutines switch there. Variables marked "history" in the declarations are no program state: they
remember what a property needs. Faults (failed requests, crashes, lost connections) are actions, and a bound says
how many a behaviour may have. Each exception a property makes is a history variable named there, so that the
exception says which order of steps the code does not withstand.

| Module | Models | Built on |
|---|---|---|
| `AtLeastOnceQueue` | what the queue promises: a submitted task waits until a run returned, a copy is in a DLQ, or the stream overflowed | abstract |
| `TaskQueue` | `enqueue.py`, `dequeue.py`, `worker.py` | implements `AtLeastOnceQueue` (`Promise`) |
| `VulnScan` | one scan task: runner, nodes, answers, cancel and delete calls | what TaskQueue shows of the queue |
| `VulnReconcile` | the records of one host under several tasks, decisions, deletions | a task once VulnScan has collected |
| `LlmRescan` | calls to the model, their gauge, the queue of failed batches, rescan loops | llm_analysis and report of a task |
| `Gateway`, `Fleet` | one agent's connections; the host inventory | composed in `MCAgentGateway` |
| `AgentScan` | the Go agent: link, outbox, scans of both engines | commands from VulnScan's dispatch |
| `Upgrade` | upgrade of one agent, console and agent side | - |
| `RuleMatch`, `RulePacks` | versions, rules, matching (pure); distribution of packs | RulePacks extends RuleMatch |
| `NucleiContent` | template library on the server; binary and templates on an agent | - |
| `AssetScan` | asset tasks, their graph, documents and calls | RuleMatch, TaskQueue's queue |
| `QuorumGate` | what the approval promises: one vote a user, one answer a run, "approved" and executed only with a quorum | abstract |
| `Approval` | runs of one event that wait for a decision, votes | implements `QuorumGate` (`Gate`) |
| `ResponsePipeline` | main graph, vuln_hunter, responder, dispatcher for one event | Approval's decision as a free choice |
| `AlertIngest` | topic, stream, event loops | hands events to ResponsePipeline |
| `Accounts` | users, sessions, routes | - |
| `Chat` | one conversation, its routes, title tasks | - |
| `MC*` | instances for TLC; four of them put several components side by side | |
| `TaskQueueProofs` | theorems of the task queue | TaskQueue |
| `GatewayProofs` | theorems of the server's view of its agents | Gateway, Fleet |
| `AgentProofs` | theorems of the Go agent and its upgrades | AgentScan, Upgrade |
| `ScanProofs` | theorems of both kinds of scan | VulnScan, AssetScan |
| `AlertProofs` | theorems of the way from an alert to the response | AlertIngest, ResponsePipeline |
| `ConsoleProofs` | theorems of what operators use | Accounts, Chat, Approval |
| `ContentProofs` | theorems of what the platform hands out: nuclei content, rule packs | NucleiContent, RulePacks |
| `FindingsProofs` | theorems of the two modules about findings | VulnReconcile, LlmRescan |

**TaskQueue.** `pel`, `deliveries` and `idle` are the group's pending list; a job in `jobs` is one `_process` call
with its program counter. `ReadNew` is `_drain_once`, `ClaimStale` is `_claim_loop`, which processes its entry
inside the consume loop (`LoopFree`). Commands fail or lose their reply; `Crash`, `Stop`, `Exit`, `Restart` are the
life of a worker. XADD trims any part of the excess, and XAUTOCLAIM drops a trimmed entry from the pending list even
while it runs. A run may last as long as the claim threshold and longer: nothing in the code bounds the sum of its
subprocesses and calls. Its entry is then claimed while it is at work, and `overran` counts these deliveries.

**VulnScan.** `pc` goes through the runner and the nodes. Nodes that begin with the cancellation check share
`Checks`; a cancelled state falls through the graph to `generate_report`. `doc`, `unreached`, `finals`, `report` are
the store, `key` and `tombstone` Redis. `Enqueue` and `Submit` are the two steps of the create call. Dispatch is one
`Send` per lane and agent; a failed send may have parked the command, so a "missed" agent may answer too.

**VulnReconcile.** `ReadRecords` is the paged search of aggregate, `Reconcile` its bulk request, `Analyse` and
`Report` the later nodes, `Refresh` the moment Elasticsearch shows what was written. `ledger` is the abstract
specification: the effect of each scan, decision and deletion taken as one step; `LedgerAgrees` compares. `unwritten`
are the records for which neither a rating nor the fallback could be written.

**LlmRescan.** `ChatWithRetry` is one call with its immediate repetitions, `EnqueueRetry` the entry of a failed
batch, `ListPending`, `RescanOne`, `RemoveRetry`, `DropQueue` and `MarkOutcome` one round of `rescan_loop`.
`excused` and `swept` hold what a loop takes out of the queue that it had not seen there: of a task handed out again
since, and of a batch queued between the look and the deletion of the key.

**Gateway.** `Serve` takes a connection through authenticate, register, subscribe, deliver, clear and, when the link
is down, disconnect; `SendStep` takes a command through local send, publish, park and status. `Routed` are the
connections whose worker has written itself into the route.

**Fleet.** A call is the list of writes it has still to make for one host (`todo`) and, where it loops over hosts
(`decommission_host_by_ip`, the sweep), those it has still to come to (`coming`); `Step` makes the next write of any
call, and `Rest` and `Loop` say what is left of it. `Tolerated` names the writes whose failure the code logs and leaves
at that; any other ends the call. `Remember` keeps the history. `pg` and `es` are the two stores.

**AgentScan.** `Serve` is the worker of a connection with `processQueue` and the heartbeat loop; `Execute` a scan
goroutine step by step, `depth` telling the matcher's Execute that `runNuclei` falls back to.

**Upgrade.** `Read` and `Put` are the two halves of `_redis_update`, used by the router, the receiver of messages and
the status poll. `Stage`, `ClearBackup`, `MoveAside`, `Install`, `PutBack` are the file operations of HandleUpgrade;
`mine` and `follows` say which file the running process was started from and what os.Executable answers.

**RuleMatch, RulePacks.** Versions are sequences of character codes, parsed and compared as `matcher.go` and
`version.py` do; `Earlier` is the reference order of releases. `Store` and `Point` are the two writes of
`_publish_pack`, `HandleRuleUpdate` to `SaveConfig` the agent's worker. `Affected` says what an entry of a feed means,
`LeftOut` what its rule cannot find.

**NucleiContent.** `LibraryNext` is `rebuild_manifest` and its callers, `FilesNext` the heartbeat's upgrade and the
staged swaps of the agent. `ReloadSettings` is the hot reload of the configuration, which may ask for another version
of the binary at any moment. Every request of a synchronisation may fail, the deletions that clean up after a failure
and the release of the lock too, and a failing one may have been carried out; `untidy` says what is then left over.

**AssetScan.** One action for each read or write of the six nodes, the runner and the calls (`DeleteNext`: the requests
of a deletion, one by one); a cancelled node returns and the graph goes on. A task may have several runs at a time, one
for each of `Slots`, since an entry that has been pending for an hour is claimed whoever is at work on it. `MatchCves` evaluates RuleMatch on the server's side.

**ResponsePipeline.** One action for each node of the main graph, of the vuln_hunter loop and of the dispatcher
(`CheckDone`, `Execute`, `MarkDone`, `Undo`); `Crash` and `StartRun` redeliver the event. Answers of the model are
free choices. An engine that starts may claim the entry of a run under way (idle for 60 s, `ClaimedAgain`): one run is
followed through every node, the runs beside it (`others`, one for each of `Siblings`) in what they share with it, the
row, the marks and the effects, and with decisions of their own. Any run may be the one followed, so what is said of it
holds of each.

**Approval.** A run goes `ask`, `check`, `subscribe`, `recheck`, `wait`, `reread`, `execute`, `record`; a call of
`approve_event` goes `select`, `insert`, `count`, `update`, `publish`, `mirror` and through `add_vote` once more.
With the default `hitl_timeout_sec = 0` the deadline of `wait_result` is at least the 300 s of `respond_node` and
starts later, so only `short` runs can expire. `QuorumGate` promises nothing of refusals: a second vote of a user is
not counted, but "rejected" updates the row all the same. `QuorumBeforeExecute` follows from `KeepsGate`, which the run
checks in its place; it has a theorem of its own.

**AlertIngest.** `position` is what the iterator has returned, and `Commit` commits it all. `Serve` is the event loop
of an engine: start-up claim, read, run, acknowledge. `StartFails` is an error at the creation of the group, which
leaves a live process without the loop.

**Accounts.** A handler reads its target, counts the other administrators (`CountAdmins`) and writes (`UpdateUser`,
`DeleteUser`), each with its own query; `session` is the version in a token.

**Chat.** `AppendUser` and `AppendAssistant` are the two UPDATEs of a turn, `PatchRead` and `PatchWrite` the halves of
`patch_message`, which the console calls to put the number of a scan task on an answer. `FirstLook`, `AskTitle`,
`SecondLook`, `WriteTitle` and `TitleFails` are a title task in the background. What the routes make of a message
(`DispatchScan`, `DispatchSystem`, `DispatchChat`, `Degraded`, `AnswerSystemQuestion`) is a set of possible replies: a
message is what its words name, and the answers of the model, of searches and of stores are free choices.

## 3. Runs

| Run | Bounds | Shows |
|---|---|---|
| `task_queue` | 2 workers, 2 entries, MAX_DELIVERY 2, MAXLEN 1, 1 job a worker, a run may outlast the claim threshold, 2 disruptions | `NoTaskLost`, `OverlapsOnlyOverrun`, `BuriedWhenExhausted`, `RedeliveryBudget`, `RepeatOnlyAfterFault`, refinement `KeepsPromise`, liveness `EverySettles` |
| `task_queue_loop` | the same, asset queue included | refuted: the consume loop survives what a task does |
| `vuln_scan` | 1 agent, engine global, 2 deliveries, 1 call, 2 disruptions | `CompleteLeavesNone`, `ScanInv` (one settled outcome), `NoFalseCancel`, `ReportForCompleted`, liveness `EveryRunEnds` |
| `vuln_reconcile` | 3 tasks, 1 vulnerability, 3 scans, 1 event / 1 task of 2 batches, 2 engines, 1 fault | `ReconcileInv` (one record, history, ratings), `LedgerAgrees` / `LlmInv` |
| `agent_gateway` | 2 API workers, 2 connections, 1 command, 2 faults / 2 hosts behind 1 address, 1 call or fault for both, 2 calls and a fault for one | `GatewayInv` / `FleetInv` |
| `agent_scan` | both engines of a task, 2 connections, 1 batch of findings, 1 fault | `AgentScanInv` |
| `upgrade` | 3 packaged versions, 2 upgrades, 1 message under way, 1 fault | `UpgradeInv` |
| `rule_packs` | 2 publications in 2 seconds, 1 agent, 1 failure, 6 releases, 8 entries of feeds with every kind of end | `RulesInv`, `FindsTheAffected`, liveness `AgentCatchesUp` |
| `alert_ingest` | 3 alerts, one garbled, MAXLEN 2, 2 engines, 2 faults | `LostOnlyUnderLaterCommit`, `IngestInv`, liveness `IdleIsTakenOver` |
| `console` | 2 runs, 2 approvers, L2 and L4, 2 calls of two votes, 1 disruption, symmetry / 3 requests about accounts, 2 at a time | refinement `KeepsGate`, `NoDeafWaiter`, `QuorumResolves`, `NoEarlyCompletion` / `AccountsInv` |
| `approval_live` | 1 run, 2 approvers, L2 to L4, 3 calls, 2 disruptions | liveness `DecisionReachesRun` |
| `services` | 2 pipeline runs of 5 playbooks, one after the other or side by side / 2 asset tasks of 2 runs at a time, 1 call or fault / 2 synchronisations, 3 troubles / nuclei files, 2 updates, 3 troubles / 3 calls about one conversation, 1 process, 1 fault | `PipelineInv`, `ConfirmedBeforeActing`, `RepeatOnlyWithoutMark`, `RolledBackOnRaise`, `StoredStatusTruthful` / `AssetInv` / `NucleiInv` / `TurnsStay`, `ChatInv` |

A run with several components (`/` above) has a variable `part`, chosen in the initial state, and a behaviour moves
the variables of that part only: the state space is the sum of the parts, not their product, and each part is
checked as if alone. Components that share nothing need no more.

**Why the bounds are enough.** The properties speak of at most two entries, jobs, connections, writers, hosts or
voters, and two of each already race. MAXLEN 1 makes the stream overflow with the second entry; two deliveries make
exhaustion reachable; two disruptions cover a crash followed by a failed command, and are what a false cancellation
takes. L4 is the least level with a quorum of two. Two publications in two seconds have equal and different versions
both; nine, ten, a candidate and an epoch are where orders of versions differ. Three tasks on one host are the least
for which a record survives a task that has been deleted, and is seen stale by another. Five playbooks have one
operation, an unapproved kind, a failure after an effect and a repeated operation. Three calls about a conversation
are two that overlap and the one whose answer is patched; they are alike, so their order is no matter (symmetry).
`MaxHandouts` (6) is above every count the instance reaches (4), so it cuts off only the misrouted entry. One agent in
`vuln_scan` has both engines, which is what makes batches and agents differ in number; two agents with faults are
beyond the time of a run, and what they add (the fail-fast test) is in section 5. `FairSpec` runs use no symmetry. No
configuration checks deadlock: each system may really come to rest, a queue without entries, a task that has ended,
requests used up.

**Guards of the instances.** The specification a run checks is `BoundedSpec` of its `MC` module: that of the component
with a guard on every step, which bounds what the constants alone cannot bound. The component modules, and with them
the proofs, have no such guard. There are two kinds, each named.
- `InTurn` (`MCTaskQueue`, `MCAlertIngest`, `MCVulnReconcile`, `MCRulePacks`): while two processes are in the same
  state, the first moves first. The other choice is the same behaviour with their names exchanged, and no property
  names a process. It is symmetry where TLC's own would be unsound, beside liveness.
- `Few`, `FewerFaults`: combinations of rare events left out. `MCTaskQueue`: a second disruption only of the scan
  queue with good payloads; one task and one disruption where a run is overtaken by a claim (`FewerOverruns`). `MCAlertIngest`: no second fault with a third entry in the stream. `MCUpgrade`: a failure
  or the third version. `MCConsole`: a disruption beside runs of one level, of two runs for L2 and of one for L4; the
  short wait beside runs of L4. `MCRulePacks`: a second publication beside one of advisories. `MCVulnReconcile`: an event or a third scan; a failure and a second hand-out with one
  loop awake. `MCAgentGateway`: a second fault after the command was sent only on the first connection, and of the two
  hosts one is new when requests and faults are more than one. `MCServices`: a second run of an event is claimed while the first waits for its
  approval of a playbook of two operations, has the same playbook or none, and loses one mark; in the asset scans a
  call or a failure (or a deletion one of whose requests fails), a deletion with one run of the task only, and beside
  another task's findings; a failure beside two of three calls about a conversation. `MCAgentScan`: a failure or commands for both engines.

Fairness is kept: a `Few` guard disables disruptions and requests, of which no fairness is assumed, and `InTurn`
holds a process back only until the first one moves, which fairness of the first one demands, whatever it can do being
what the other could. Every mutant is refuted under the same guards.

**Exceptions in properties.** `SettledOutcome`, `CompleteLeavesNone` and `ReportForCompleted` ask for no fault because
after a disruption the runner may write "failed" over anything, and `CompleteLeavesNone` for a single run because a
second one begins with the documents of the first; `NoDeafWaiter` and `DecisionReachesRun` because Redis pub/sub loses
messages with the connection. `stale` (Upgrade), `raced` and `reused` (Accounts), `exposed` and `overtaken` (Chat),
`doubled` and `takenOver` (AssetScan), `stale` and `ever` (VulnReconcile), `overlap` and `crossed` (RulePacks), `loose`, `strays` and `unreached` (Fleet),
`overtaken`, `botched`, `replays` and `diverted` (Gateway), `usurped` and `stuck` (AgentScan), `disturbed`, `untidy` and
`bared` (NucleiContent), `unwritten` (VulnReconcile), `skewed`, `excused` and `swept` (LlmRescan), `crossed`, `theirs`
and `ours` (ResponsePipeline) are set by the steps that the code lets overlap or fail, and only by them: outside of
these the property must hold. `overran` (TaskQueue) counts the claims over a run at work in the same way.

**Fairness.** `TaskQueue`: a live worker goes on reading, claiming and processing, a dead one is restarted by its
container, time passes. `VulnScan`: the run is scheduled and its deadline comes; no agent need answer. `Approval`: the
event loops serve a waiting run and an open call; no timer need fire and nobody need vote. `AlertIngest`: an engine
that is down is started and one whose loop is up works; of one whose loop ended at the start (`StartFails`) nothing. `RulePacks`: systemd restarts the agent, which connects and sends
heartbeats, and tasks and workers run. Nothing is assumed of users, producers or faults.

## 4. Proofs

TLAPS proves that every behaviour of the specification has the property, for every value of the constants: any number
of workers, entries, agents, hosts, tasks, voters, calls and faults. Each goes the same way: an inductive invariant
holds initially, every action keeps it (a lemma for each action or group of actions), and it implies the property;
`KeepsPromise` and `KeepsGate` are step simulations. The table names the invariant and what it adds; without the addition some action
could break the property from a state that satisfies it.

| Module | Theorems | Inductive invariant | What it adds and why |
|---|---|---|---|
| `TaskQueueProofs` | `TypeCorrect`, `NoTaskLostHolds` | `QueueInv` | what the job of an entry knows: one at `ack` has returned, one at `buryack` has a copy in the DLQ. Else an XACK could settle anything |
| | `OverlapsOnlyOverrunHolds` | `AgeInv` | a pending entry has been idle no longer than any job of it is old, so a claim overtakes only jobs of the threshold's age; an entry never handed out over a job has one job at most |
| | `BuriedWhenExhaustedHolds` | `BuryInv` | an entry beyond the cursor has no history, and a job on its way to the DLQ has seen the count reach MAX_DELIVERY |
| | `RedeliveryBudgetHolds` | `BudgetInv` | a pending entry without a job has a delivery to spare, or a disruption or a claim over a job has paid for one (`Spare`); so have the entries of a worker about to exit |
| | `RepeatOnlyAfterFaultHolds` | `RepeatInv` | without a fault and without a claim over a job, whoever has left a trace of an entry (a returned run, a copy in a DLQ) has it in hand still and is about to take it off the list |
| | `KeepsPromiseHolds` | `QueueInv` | the refinement: enqueue, XACK and burial map to a step of `AtLeastOnceQueue`, every other step to a stutter |
| `AlertProofs` | `LostOnlyUnderLaterCommitHolds`, `IngestInvHolds` | `IngestInd` | the alert about to be committed is emitted or buried (`ConsumerInv`); what an engine holds was delivered, what it will acknowledge was handled, and what was delivered lies below the group's cursor, so a read repeats nothing (`EngineInv`) |
| | `ConfirmedBeforeActingHolds`, `StoredStatusTruthfulHolds`, `RolledBackOnRaiseHolds`, `RepeatOnlyWithoutMarkHolds`, `PipelineInvHolds` | `PipelineInd` | what the state of the graph is at each node (`Shape`), three supersteps for each PoC round (`LoopInv`), what has been decided at each node (`DecisionInv`), an operation that took effect is marked, about to be, or lost its mark, and one that two runs hold between check and mark is `crossed` (`MarkInv`), a roll-back goes backwards, and what it has passed is undone or stuck (`RollbackInv`) |
| `ConsoleProofs` | `AccountsInvHolds` | `AccountsInd` | what a handler has read and counted still stands unless another has written since (`Fresh`, `Counted`); no token is ahead of its row, and an outdated one is behind it (`Versioned`) |
|  | `TurnsStayHolds`, `ChatInvHolds` | `ChatInd` | every array a call is about to store shows what must not be lost (`Copied`), a question is stored before its answer (`Known`), a title task about to write saw no name (`Tasked`), and nothing precedes the row (`Blank`) |
| | `ApprovalTypeCorrect`, `QuorumHolds`, `NoEarlyCompletionHolds` | `Backed` | whatever claims "approved" of a run (its row, a message, its result, its execution, a call between count and mirror) has the quorum behind it now; `QuorumKept`: votes are never withdrawn |
| | `KeepsGateHolds` | `Backed`, `GateInv` | the refinement: an INSERT that is not a double vote, an answer taken, an execution and a response broken off are the steps of `QuorumGate`, all else a stutter; `GateInv`: before its answer a run has executed nothing, and a run that waits has a row |
| | `QuorumResolvesHolds`, `NoDeafWaiterHolds` | `Resolving` | a pending row that the votes decide has a call that still has to count or update (`Covered`); a run that waits for a decided row has the message or a call that still has to publish (`Heard`) |
| `ScanProofs` | `ScanInvHolds`, `NoFalseCancelHolds`, `ReportForCompletedHolds`, `CompleteLeavesNoneHolds` | `ScanInd` | who writes "cancelled" has seen the tombstone, which is never taken away, or failed to read it twice (`CancelInv`); what the store holds when a run or call is about to end (`EndInv`, `ReportInv`); an agent owes or has stored at most one final batch for each engine, so as many batches as agents times engines are all of them (`BatchInv`, by cardinality) |
| | `AssetInvHolds` | `AssetInd` | a run has found nothing before it matches, and from its save on what it has found is listed (`ListedInd`); who is about to close a task made its report or was told not to (`EndedInd`); a run that has no second one beside it is alone, and holds a pending entry whose task has a document unless a fault lost it (`HeldInd`) |
| `FindingsProofs` | `ReconcileInvHolds`, `LedgerAgreesHolds` | `RecordsInd` | a record belongs to the task its id was drawn for, and keeps it (`Owned`, `MineKept`): a deletion removes those of one task only |
| | `LlmInvHolds` | `LlmInd` | a batch not answered in full is queued, or its task is marked or about to be, or it is one of those that may be missing (`PassedKept`, `AwaitingKept`); what a loop about to delete a queue has read of it has failed too often (`DropsFairly`); attempts are at most failures, and these at most rounds, strictly where a call may still fail (`FailedInRounds`) |
| `ContentProofs` | `NucleiInvHolds` | `NucleiInd` | an index being built is beside the alias and nobody else's, and so is one about to be dropped (`Fates`, `Apart`: else the failure of one synchronisation could remove what the alias names for another); while no lock ran out, one synchronisation accounts for all that exists except what a failure has left (`Orderly`, kept by whoever is the `SoleSync`); an update keeps the copy in place until the staged one, complete by then, follows it (`FilesInd`) |
| | `RulesInvHolds` | `RulesInd` | a publication about to store or point has rules, and while none overlap the one under way has the newest version (`PublishedInd`, `NewestInd`); every message to an agent and every pack a worker holds was signed under its version (`SignedInd`); unless two workers crossed, one at most has loaded and not saved, and it is about to report what is loaded (`ReportInd`) |
| `GatewayProofs` | `GatewayInvHolds` | `GatewayInd` | an entry of a table names a connection of that worker (`TablesInd`); a command that one subscriber heard and that was not parked arrives once: it waits in one place of one inbox, and not where it came already; one that nobody heard has not arrived before it is parked (`CountsInd`); whoever has seen the route name its worker shares that worker with every connection the route still names (`RouteInd`) |
| | `FleetInvHolds` | `FleetInd` | the lists a call goes through, and who goes through which (`CallsInd`); a host without a mark is in one call at most (`SoloInd`); the two stores agree on it unless that call has written one and not the other, and then the call's status says how (`AgreeInd`); a host that is in and not current is revoked or a call has the revocation still to make (`RevokeInd`); each host an enrolment replaces is revoked, being revoked or still to come in its loop (`LockInd`); no call has a write that brings a retired host back (`QuietInd`) |
| `AgentProofs` | `AgentScanInvHolds` | `AgentScanInd` | a command waits in one inbox or is with its handler (`InboxInd`); a result is in one place only: the outbox, a connection, popped for one, or saved (`OnceInd`); the final result has the greatest number and nothing follows it (`SentInd`); what a scan counts as covered it has reported (`CoverInd`); on a first connection without a fault what arrives is a prefix of what was sent (`FirstInd`); the map of cancel functions names live scans of its own task (`MapInd`) |
| | `UpgradeInvHolds` | `UpgradeInd` | a caller's view of the record holds or is marked `raced`, and what it is about to write is allowed by the record (`RecordInd`); after an executable has followed its binary away from the path, no handler works on that path (`PathInd`); what the worker installs is not below any version on the disk, and what a roll-back restores not below any that ran (`VersionInd`); where the process's binary, and the acknowledged one, are between two renames (`OwnPlace`, `AckedPlace`) |

**Assumptions.** The named ones of the modules (`QueueAssumption`, `ApprovalAssumption`, `IngestAssumption`,
`AccountsAssumption`, `PipelineAssumption`, `ScanAssumption`, `ChatAssumption`, `ReconcileAssumption`, `LlmAssumption`,
`NucleiAssumption`, `RulePacksAssumption`, `GatewayAssumption`, `FleetAssumption`, `AssetAssumption`,
`AgentScanAssumption`, `UpgradeAssumption`), which type the constants and say which sets are finite; TLC evaluates
them in the runs. `RulePacksAssumption` says besides that the built-in rules are not empty (rules_sync.py:68) and that
there is a second in which to publish. One hypothesis comes on top of these, where the property depends on numbers
the code chooses:
- `3 * MaxIterations + 1 <= RecursionLimit` (`PipelineInv`): 10 rounds (poc_generator.py:14) and a limit of 35
  (graph.py:110).

**What the proofs showed.** Three properties were false as first stated, though the runs held them:
- `SessionsEnd`: a name that gets a new row makes older tokens valid again (`reused`, section 5).
- `CompletedHasReport`: a cancelled run completes its task, crashes, and fails to write "running" when it is
  redelivered; the history `told` forgot too early why there is no report. That takes a fault more than the run has.
- `CopySurvives`: the configured version may change while an agent's copy is missing, and the update that follows
  removes the kept one (`bared`).

Where an invariant turned out not to be inductive, it was strengthened, and TLC checked the strengthened form on the
run's instance first.

**Only model-checked.** Every safety property of the passing runs is proved but one. Out of the prover's reach are
liveness under fairness and ENABLED (`EverySettles`, `EveryRunEnds`, `DecisionReachesRun`, `AgentCatchesUp`,
`IdleIsTakenOver`), and induction over data: what `RuleMatch` computes with folds over character codes
(`FindsTheAffected`). No module has a RECURSIVE operator, so that every one
can be proved about.

## 5. What the models disagree with the documentation about

`task_queue_loop` refutes one statement (worker.py, quoted in `PROJECT.json`). The other findings in `PROJECT.json`
name the module and the action that has the behaviour; each was met while translating, and no run of its own is kept
for it. Besides, reading the code showed:

- approval: the Celery fallback never closes an approval (`common/celery_app.py` asks approval_store for `get_pool`,
  which it lacks), so after a crash, or after `respond_node` gives up, the row stays pending and a later vote on the
  event may go to it; operations.py:171-172 says a blocked wait picks a vote up "via the next PG poll", but the row is
  read again only when a message arrives;
- queue: dequeue.py:38-42 keeps the claim threshold "above the longest task", yet the 3600 s of settings.py:144 hold for
  each subprocess of an asset scan (runner.py:93): a run may be overtaken by a claim, of its own worker too, and the first
  of the two to end acknowledges the entry while the other still writes the document (`doubled`);
- queue: keys.py:11 calls the stream "bounded only by Redis maxmemory" (enqueue.py gives it a MAXLEN); dequeue.py:50
  says the consumer name makes XAUTOCLAIM skip the caller (it claims by idle time alone);
- ingestion: "Do not commit -- Kafka re-delivers" (consumer.py:93) holds only until the next message is committed,
  since a commit without offsets commits the position of the iterator;
- events: an error of Redis other than BUSYGROUP when the consumer starts ends it for good in a live process, whose
  `/healthz` goes on saying "ok" (scan_engine/main.py:66-76, 462);
- ratings: "we always write a fallback row per finding" (nodes.py:846-848) holds unless the update fails, which is
  swallowed (nodes.py:806-822);
- events: runner.py:87 maps the time-out of an approval to "error", but the approval node has made it "rejected" by
  then (hitl_handler.py:135-139), which is what `Hitl` stores;
- dispatcher: two runs of one event, the second claimed from a live engine after 60 s (scan_engine/main.py:78-87), may
  both pass the check of a mark before either sets it (`crossed`), and the row shows whichever wrote last;
- rescans: `_mark_final` deletes the whole queue of a task, and `remove_retry_batch` an entry renewed since it was
  read, so a batch may lose its place after one failure (rescan.py:160);
- gateway: a revoked agent whose handshake is past authentication is let in until the notice arrives; `disconnect`
  may delete the routing key of a newer connection (`diverted`), which the comment at ws_gateway.py:179-182 means to
  exclude: it looks at the connection table only, and awaits twice after it; a send that is heard is then parked all
  the same, and comes twice; clearing the parked slot may delete a newer command;
- upgrade: the router sends the command before it writes the record, so an acknowledgement may come first;
- rules: the versions of `versionEndIncluding` and `last_affected` become `lt` rules, which leave that version out; of a
  list of versions the greatest text is the threshold, not the greatest version; a CVE without an end is found on
  releases without an epoch only; where a range begins no rule knows. `LeftOut` names what is not found; a slow
  synchronisation that began earlier may move the pointer back to its older version;
- asset scan: a cancelled node does not stop the graph, and the sweep deletes every tombstone, those of waiting tasks
  too; the agent's `PopAll` empties the outbox before anything is sent;
- accounts: a token names a user and a version, and versions start at 0 with each row, so a token issued before a
  user was purged or renamed is good again for a new user of the same name with the same version (`reused`); routes.py
  says that such a token is rejected. The proof of `SessionsEnd` is where this came up;
- nuclei library: `_alias_backing` takes any error for "no alias yet", after which two libraries are behind the alias
  and the older one is never dropped (nuclei_templates.py:133-139); and when `update_aliases` fails after it was carried
  out, the index removed is the one the alias names, so that the next searches meet none (:176-185);
- nuclei files: a copy kept as `.old` is there so that "a bad swap is recoverable" (upgrade.go:391), but nothing takes it
  back at the next start, and the next update removes it before looking whether anything is in place (`bared`);
- chat: `patch_message` stores the array it has read, so turns appended in between are lost (`exposed`), stores it
  also when no message has the time stamp, and raises a KeyError for a conversation without messages.

## 6. Not modelled

- Detection with Sigma rules, sanitization, IOC extraction, the EDR adapter: pure functions of one message.
- Knowledge base, GraphRAG, AI clients, web search: retrieval, prompts and streaming. Of the assistant, what an answer
  says.
- Listing, export, statistics, SSE and other endpoints that only read; audit logs and metrics.
- Remote response, alert, monitor and metrics stores: single writes of one document, and pushes that `Gateway` covers.
- Agent: signature check (a field of the message), monitor, response and protection: host-level I/O.
- Details of modelled parts: re-creation of a stream's group after a Redis flush; the side-channel key of asset tasks;
  the refresh lag of delete_by_query; expiry of outcome and gauge keys; the loop that logs queue alerts; fetching from
  NVD and GitHub (an input); parsers of nmap, masscan and nuclei output (inputs); installer scripts; the Windows helper
  of the updater; expiry of bearer tokens; in `LlmRescan`, a hand-out of a task while its last one is still being
  analysed (`StartAnalysis` waits for it), which `TaskQueue`, `VulnScan` and `AssetScan` have.

## 7. Where to go on

The modelling is complete as far as the code has protocols between actors, and the proofs as far as the properties of
the runs go. A change to the code begins with the definition `PROJECT.json` maps to its lines; the run of that module
shows whether its properties still hold, and the proofs, which stop at the first lemma that a change breaks, where the
argument has to be different. A proof module for two modules, as `FindingsProofs` is, keeps what they share in one
place.
