------------------------------- MODULE AssetScan -------------------------------
(***************************************************************************)
(* The agentless scan of a network: tasks taken from the asset queue, each *)
(* through the six nodes of its graph, their documents in four indices,    *)
(* and the calls that cancel and delete them.  A node that finds the       *)
(* cancel tombstone returns, and the graph goes on to the next one; a      *)
(* scanner that finds it raises what no handler of the run catches.        *)
(*                                                                         *)
(* The queue is what TaskQueue shows of it.                                *)
(***************************************************************************)
EXTENDS RuleMatch

CONSTANTS
  AssetTasks,      \* scan tasks
  Hosts,           \* addresses in the tasks' targets
  Listening,       \* ports that are open on the hosts
  TopPorts,        \* those among nmap's thousand most frequent ones
  Serving,         \* product and release behind each of them
  Exposed,         \* templates that hit there, by port
  ScanRequests,    \* what may be asked for: engine, ports and modules
  RuleIndex,       \* documents of the index vulnscan-rules
  AssetDeliveries, \* MAX_DELIVERY of the queue
  Slots,           \* bound: runs of one task at a time
  MaxAssetCalls,   \* bound: cancel and delete calls, and sweeps
  MaxAssetFaults   \* bound: failed calls, scanners that fail, crashes

\* The validators of _AssetTaskCreate; targets are the hosts, and of the ports only
\* those where something listens matter.
AcceptedRequests ==
  [engine  : {"fast", "full", "global"},
   ports   : SUBSET Listening,
   modules : SUBSET {"discovery", "fingerprint", "cve", "nuclei", "brute"}]

ASSUME AssetAssumption ==
  /\ ScanRequests \subseteq AcceptedRequests
  /\ TopPorts \subseteq Listening
  /\ AssetDeliveries \in Nat \ {0} /\ MaxAssetCalls \in Nat /\ MaxAssetFaults \in Nat

VARIABLES
  request,    \* what each task asks for
  taskDoc,    \* status of the task document, or "none"
  entry,      \* its queue entry: "none", "queued", "pending", "acked" or "dlq"
  deliveries, \* how often the entry was handed out
  cancelKey,  \* the tombstone exists
  deleting,   \* the index a delete call comes to next, or "none"
  assetNode,  \* where each run of a task is, or "idle"
  work,       \* state of each run: hosts up, ports open, services, findings,
              \* and ratings not yet written back
  assetDocs,  \* hosts with a document, by task
  vulnDocs,   \* finding documents: the task they name and their AI fields
  reportDoc,  \* findings counted in the report, or that there is none
  told,       \* history: a run found the tombstone when it came to its report, and no
              \* run has started alone since
  wiped,      \* history: a delete call got to the task
  doubled,    \* history: two runs of the task were at work at once
  takenOver,  \* history: findings of a task that another task wrote again
  assetCalls, assetFaults

queueSide == <<entry, deliveries>>
assetResults   == <<assetDocs, vulnDocs, reportDoc>>
assetPast      == <<told, wiped, doubled, takenOver>>
assetVars == <<request, taskDoc, queueSide, cancelKey, deleting, assetNode, work, assetResults,
               assetPast, assetCalls, assetFaults>>

\* A run is one of those a task may have at a time.
Runs      == AssetTasks \X Slots
TaskOf(r) == r[1]
AtWork(t) == {r \in Runs : TaskOf(r) = t /\ assetNode[r] # "idle"}

\* delete_task goes through the indices, and its caller ends with the tombstone.
Following == [tasks |-> "assets", assets |-> "vulns", vulns |-> "reports", reports |-> "key",
              key |-> "none"]

Places   == Hosts \X Listening
NoReport == [made |-> FALSE, counts |-> {}]
NoDoc    == [task |-> "none", ai |-> "none"]
Blank    == [up |-> {}, open |-> {}, services |-> {}, found |-> {}, rating |-> {}]

AssetFault == assetFaults < MaxAssetFaults /\ assetFaults' = assetFaults + 1
Smoothly   == UNCHANGED assetFaults
AssetCall  == assetCalls < MaxAssetCalls /\ assetCalls' = assetCalls + 1

-----------------------------------------------------------------------------
(* Scanners and matching *)

\* scan_ports: masscan over all ports for the full engine, else nmap over the
\* ports asked for or the most frequent ones.
Reach(r) ==
  IF r.engine = "full" /\ r.ports = {} THEN Listening
  ELSE IF r.ports # {} THEN r.ports \intersect Listening ELSE TopPorts

\* split_version of the server: the number before a colon is the epoch, the rest
\* is cut at its first hyphen.
ServerSplit(v) ==
  LET epochs == {i \in DOMAIN v : v[i] = Colon /\ i > 1 /\ \A j \in 1 .. i - 1 : v[j] \in Digit}
      rest   == IF epochs = {} THEN v ELSE Drop(v, Min(epochs))
      dashes == {i \in DOMAIN rest : rest[i] = Hyphen}
      cut    == IF dashes = {} THEN Len(rest) + 1 ELSE Min(dashes)
  IN [epoch    |-> IF epochs = {} THEN 0 ELSE Number(Take(v, Min(epochs) - 1)),
      upstream |-> Take(rest, cut - 1), revision |-> Drop(rest, cut)]

\* compare_versions of the server, over the same chunks as the agent's.
ServerCompare(v, w) ==
  LET a == ServerSplit(v)  b == ServerSplit(w)
      upstream == CompareVersionParts[<<a.upstream, b.upstream>>]
  IN IF a.epoch # b.epoch THEN Sign(a.epoch - b.epoch)
     ELSE IF upstream # 0 THEN upstream
     ELSE CompareVersionParts[<<a.revision, b.revision>>]

VersionMatches(v, op, w) ==
  LET c == ServerCompare(v, w)
  IN \/ op = "lt" /\ c < 0
     \/ op = "le" /\ c <= 0
     \/ op = "eq" /\ c = 0
     \/ op = "ge" /\ c >= 0
     \/ op = "gt" /\ c > 0

\* The query asks for documents whose check is of a package's version.
LoadCveRules(documents) ==
  {d \in documents : "type" \in DOMAIN d /\ d.type = "package_version"}

\* An underscore of a CPE version stands for a hyphen; a star is no version.
NormalizeVersion(v) ==
  IF v = Star THEN <<>> ELSE [i \in DOMAIN v |-> IF v[i] = 95 THEN Hyphen ELSE v[i]]

\* Products are sequences of words, and a rule names a product by its first ones.
RuleProductMatches(name, product) == name # <<>> /\ IsPrefix(name, product)

\* A finding is known by the host, the port and the rule, whatever the task.
MatchByCpe(places, rules) ==
  {<<pr[1][1], pr[1][2], pr[2].id>> : pr \in {x \in places \X rules :
     LET served == Serving[x[1][2]]  version == NormalizeVersion(Version(served.release))
     IN /\ version # <<>> /\ x[2].value # <<>>
        /\ RuleProductMatches(x[2].name, served.product)
        /\ VersionMatches(version, x[2].op, x[2].value)}}

\* run_nuclei: each open port by http and by https; the same id twice is one.
NucleiHits(places) == UNION {{<<p[1], p[2], x>> : x \in Exposed[p[2]]} : p \in places}

-----------------------------------------------------------------------------
(* Documents *)

Identifiers == NucleiHits(Places) \union MatchByCpe(Places, LoadCveRules(RuleIndex))

AssetTypeOK ==
  /\ request \in [AssetTasks -> ScanRequests]
  /\ taskDoc \in [AssetTasks -> {"none", "queued", "running", "completed", "failed"}]
  /\ entry \in [AssetTasks -> {"none", "queued", "pending", "acked", "dlq"}]
  /\ deliveries \in [AssetTasks -> Nat]
  /\ cancelKey \subseteq AssetTasks
  /\ deleting \in [AssetTasks -> DOMAIN Following \union {"none"}]
  /\ assetNode \in [Runs -> {"idle", "parse", "discover", "alive", "ports", "assets",
       "fingerprint", "services", "cve", "nuclei", "save", "analyse", "rate", "report", "complete",
       "close", "ack", "fail"}]
  /\ \A r \in Runs :
       /\ work[r].up \subseteq Hosts /\ work[r].found \subseteq Identifiers
       /\ {work[r].open, work[r].services} \subseteq SUBSET Places
       /\ work[r].rating \subseteq Identifiers \X {"rated", "fallback"}
  /\ \A t \in AssetTasks : reportDoc[t].counts \subseteq Identifiers
  /\ assetDocs \in [AssetTasks -> SUBSET Hosts]
  /\ vulnDocs \in [Identifiers -> [task : AssetTasks \union {"none"},
                                    ai : {"none", "rated", "fallback"}]]
  /\ {told, wiped, doubled} \subseteq SUBSET AssetTasks
  /\ takenOver \subseteq AssetTasks \X Identifiers
  /\ assetCalls \in 0 .. MaxAssetCalls /\ assetFaults \in 0 .. MaxAssetFaults

AssetInit ==
  /\ request \in [AssetTasks -> ScanRequests]
  /\ taskDoc = [t \in AssetTasks |-> "none"]
  /\ entry = [t \in AssetTasks |-> "none"]
  /\ deliveries = [t \in AssetTasks |-> 0]
  /\ cancelKey = {}
  /\ deleting = [t \in AssetTasks |-> "none"]
  /\ assetNode = [r \in Runs |-> "idle"]
  /\ work = [r \in Runs |-> Blank]
  /\ assetDocs = [t \in AssetTasks |-> {}]
  /\ vulnDocs = [v \in Identifiers |-> NoDoc]
  /\ reportDoc = [t \in AssetTasks |-> NoReport]
  /\ told = {} /\ wiped = {} /\ doubled = {} /\ takenOver = {}
  /\ assetCalls = 0 /\ assetFaults = 0

\* The run goes on in another node.
Onward(r, n) == assetNode' = [assetNode EXCEPT ![r] = n]

\* _confirm_cancellation: what cannot be read is no tombstone.
Cancelled(r)    == TaskOf(r) \in cancelKey /\ Smoothly
NotCancelled(r) == IF TaskOf(r) \in cancelKey THEN AssetFault ELSE Smoothly

\* update_task: a missing document, or a failing call, raises.
Update(r, status, then) ==
  \/ /\ taskDoc[TaskOf(r)] # "none" /\ Smoothly
     /\ taskDoc' = [taskDoc EXCEPT ![TaskOf(r)] = status]
     /\ Onward(r, then)
  \/ /\ IF taskDoc[TaskOf(r)] = "none" THEN Smoothly ELSE AssetFault
     /\ Onward(r, "fail") /\ UNCHANGED taskDoc

\* A run that goes on with the result w.
With(r, w, n) == work' = [work EXCEPT ![r] = w] /\ Onward(r, n)

\* ScannerRunner.run looks at the tombstone first and then every two seconds: the
\* CancelledError passes every handler, the entry stays pending and the document
\* as it is.  (What the worker makes of it is in TaskQueue.)
ScannerCancelled(r) ==
  /\ TaskOf(r) \in cancelKey /\ Smoothly
  /\ With(r, Blank, "idle")

-----------------------------------------------------------------------------
(* The API and the queue *)

\* enqueue_asset_task: the document first, best effort; then the entry, whose
\* failure is the caller's.
EnqueueAssetTask(t) ==
  \/ taskDoc' = [taskDoc EXCEPT ![t] = "queued"] /\ entry' = [entry EXCEPT ![t] = "queued"]
     /\ Smoothly
  \/ taskDoc' = [taskDoc EXCEPT ![t] = "queued"] /\ UNCHANGED entry /\ AssetFault
  \/ UNCHANGED taskDoc /\ entry' = [entry EXCEPT ![t] = "queued"] /\ AssetFault

\* A task has an identifier of its own.
CreateTask(t) ==
  /\ taskDoc[t] = "none" /\ entry[t] = "none" /\ t \notin wiped
  /\ EnqueueAssetTask(t)
  /\ UNCHANGED <<request, deliveries, cancelKey, deleting, assetNode, work, assetResults, assetPast,
                 assetCalls>>

\* The call checks nothing.
CancelTask(t) ==
  /\ AssetCall
  /\ cancelKey' = cancelKey \union {t}
  /\ UNCHANGED <<request, taskDoc, queueSide, deleting, assetNode, work, assetResults, assetPast,
                 assetFaults>>

DeleteAssetTask(t) ==
  /\ taskDoc[t] # "none" /\ deleting[t] = "none"
  /\ AssetCall
  /\ deleting' = [deleting EXCEPT ![t] = "tasks"]
  /\ wiped' = wiped \union {t}
  /\ UNCHANGED <<request, taskDoc, queueSide, cancelKey, assetNode, work, assetResults, told, doubled,
                 takenOver, assetFaults>>

\* One request after another; one that fails is logged, and the API may die between two.
DeleteNext(t) ==
  LET index == deleting[t]
  IN /\ index # "none"
     /\ \/ /\ Smoothly
           /\ deleting' = [deleting EXCEPT ![t] = Following[index]]
           /\ taskDoc' = [taskDoc EXCEPT ![t] = IF index = "tasks" THEN "none" ELSE @]
           /\ assetDocs' = [assetDocs EXCEPT ![t] = IF index = "assets" THEN {} ELSE @]
           /\ vulnDocs' = [v \in Identifiers |->
                             IF index = "vulns" /\ vulnDocs[v].task = t THEN NoDoc ELSE vulnDocs[v]]
           /\ reportDoc' = [reportDoc EXCEPT ![t] = IF index = "reports" THEN NoReport ELSE @]
           /\ cancelKey' = IF index = "key" THEN cancelKey \ {t} ELSE cancelKey
        \/ /\ AssetFault
           /\ \E next \in {Following[index], "none"} : deleting' = [deleting EXCEPT ![t] = next]
           /\ UNCHANGED <<taskDoc, assetResults, cancelKey>>
     /\ UNCHANGED <<request, queueSide, assetNode, work, assetPast, assetCalls>>

\* The hourly loop deletes every tombstone there is.
SweepTombstones ==
  /\ cancelKey # {} /\ AssetCall
  /\ cancelKey' = {}
  /\ UNCHANGED <<request, taskDoc, queueSide, deleting, assetNode, work, assetResults, assetPast,
                 assetFaults>>

\* A worker gets the entry, new or again, and again too when it has been pending
\* for an hour and a run is still at work on it; the task is running.
BeginTask(r) ==
  LET t == TaskOf(r)
      alone == AtWork(t) = {}
  IN /\ entry[t] \in {"queued", "pending"} /\ assetNode[r] = "idle"
     /\ entry' = [entry EXCEPT ![t] = "pending"]
     /\ deliveries' = [deliveries EXCEPT ![t] = @ + 1]
     /\ Update(r, "running", "parse")
     /\ told' = IF alone /\ taskDoc'[t] = "running" THEN told \ {t} ELSE told
     /\ doubled' = IF alone THEN doubled ELSE doubled \union {t}
     /\ UNCHANGED <<request, cancelKey, deleting, work, assetResults, wiped, takenOver, assetCalls>>

\* The exception handler of the run, which swallows its own error; the entry is
\* buried when it is pending and was handed out often enough.
FailTask(r) ==
  LET t == TaskOf(r)
      buried == entry[t] = "pending" /\ deliveries[t] >= AssetDeliveries
  IN /\ assetNode[r] = "fail"
     /\ \/ taskDoc[t] # "none" /\ taskDoc' = [taskDoc EXCEPT ![t] = "failed"] /\ Smoothly
        \/ (IF taskDoc[t] = "none" THEN Smoothly ELSE AssetFault) /\ UNCHANGED taskDoc
     /\ entry' = [entry EXCEPT ![t] = IF buried THEN "dlq" ELSE @]
     /\ With(r, Blank, "idle")
     /\ UNCHANGED <<request, deliveries, cancelKey, deleting, assetResults, assetPast, assetCalls>>

\* The runner's last word, whatever the graph ended with.
CloseTask(r) ==
  /\ assetNode[r] = "close"
  /\ Update(r, "completed", "ack")
  /\ UNCHANGED <<request, queueSide, cancelKey, deleting, work, assetResults, assetPast, assetCalls>>

\* No effect on an entry that is no longer pending.
AckTask(r) ==
  /\ assetNode[r] = "ack"
  /\ \/ entry' = [entry EXCEPT ![TaskOf(r)] = IF @ = "pending" THEN "acked" ELSE @] /\ Smoothly
     \/ UNCHANGED entry /\ AssetFault
  /\ With(r, Blank, "idle")
  /\ UNCHANGED <<request, taskDoc, deliveries, cancelKey, deleting, assetResults, assetPast, assetCalls>>

ServiceDies ==
  /\ \E r \in Runs : assetNode[r] # "idle"
  /\ AssetFault
  /\ assetNode' = [r \in Runs |-> "idle"]
  /\ work' = [r \in Runs |-> Blank]
  /\ UNCHANGED <<request, taskDoc, queueSide, cancelKey, deleting, assetResults, assetPast, assetCalls>>

-----------------------------------------------------------------------------
(* The nodes *)

\* What no node changes.
NodeFrame == UNCHANGED <<request, taskDoc, queueSide, cancelKey, deleting, wiped, doubled, assetCalls>>

\* A node that finds the tombstone has no result: the next one takes its turn.
Skip(r, n) == Cancelled(r) /\ Onward(r, n) /\ UNCHANGED work

\* The API has checked targets and engine already.
ParseIntent(r) ==
  /\ assetNode[r] = "parse"
  /\ (Cancelled(r) \/ NotCancelled(r)) /\ Onward(r, "discover")
  /\ NodeFrame /\ UNCHANGED <<work, assetResults, told, takenOver>>

Discover(r) ==
  /\ assetNode[r] = "discover"
  /\ \/ Skip(r, "fingerprint")
     \/ NotCancelled(r) /\ Onward(r, "alive") /\ UNCHANGED work
  /\ NodeFrame /\ UNCHANGED <<assetResults, told, takenOver>>

\* nmap -sn: no hosts, as when its output is unreadable, ends the node; its
\* timeout, or a missing binary, fails the task.
DiscoverHosts(r) ==
  /\ assetNode[r] = "alive"
  /\ \/ ScannerCancelled(r)
     \/ /\ TaskOf(r) \notin cancelKey /\ Smoothly
        /\ With(r, [work[r] EXCEPT !.up = Hosts], "ports")
     \/ AssetFault /\ With(r, work[r], "fingerprint")
     \/ AssetFault /\ With(r, Blank, "fail")
  /\ NodeFrame /\ UNCHANGED <<assetResults, told, takenOver>>

ScanPorts(r) ==
  /\ assetNode[r] = "ports"
  /\ \/ ScannerCancelled(r)
     \/ /\ TaskOf(r) \notin cancelKey /\ Smoothly
        /\ With(r, [work[r] EXCEPT !.open = work[r].up \X Reach(request[TaskOf(r)])], "assets")
     \/ AssetFault /\ With(r, work[r], "assets")
     \/ AssetFault /\ With(r, Blank, "fail")
  /\ NodeFrame /\ UNCHANGED <<assetResults, told, takenOver>>

\* The hosts that are up, with or without open ports; a failure is logged.
SaveAssets(r) ==
  /\ assetNode[r] = "assets"
  /\ \/ assetDocs' = [assetDocs EXCEPT ![TaskOf(r)] = @ \union work[r].up] /\ Smoothly
     \/ UNCHANGED assetDocs /\ AssetFault
  /\ Onward(r, "fingerprint")
  /\ NodeFrame /\ UNCHANGED <<work, vulnDocs, reportDoc, told, takenOver>>

Fingerprint(r) ==
  /\ assetNode[r] = "fingerprint"
  /\ \/ Skip(r, "cve")
     \/ NotCancelled(r) /\ Onward(r, "services") /\ UNCHANGED work
  /\ NodeFrame /\ UNCHANGED <<assetResults, told, takenOver>>

\* nmap -sV host by host; one that fails is left out.
ScanServices(r) ==
  LET wanted == work[r].open
      Known(places) == With(r, [work[r] EXCEPT !.services = places], "cve")
  IN /\ assetNode[r] = "services"
     /\ \/ wanted # {} /\ ScannerCancelled(r)
        \/ (wanted = {} \/ TaskOf(r) \notin cancelKey) /\ Smoothly /\ Known(wanted)
        \/ /\ wanted # {} /\ AssetFault
           /\ \E h \in Hosts : Known({p \in wanted : p[1] # h})
     /\ NodeFrame /\ UNCHANGED <<assetResults, told, takenOver>>

\* The rules come from the index, or as many pages of them as could be read.
MatchCves(r) ==
  LET rules == IF "cve" \in request[TaskOf(r)].modules THEN LoadCveRules(RuleIndex) ELSE {}
  IN /\ assetNode[r] = "cve"
     /\ \/ Skip(r, "analyse")
        \/ /\ NotCancelled(r)
           /\ With(r, [work[r] EXCEPT !.found = MatchByCpe(work[r].services, rules)], "nuclei")
     /\ NodeFrame /\ UNCHANGED <<assetResults, told, takenOver>>

\* A target that takes too long is left out; any other failure leaves out all.
MatchNuclei(r) ==
  LET wanted == IF "nuclei" \in request[TaskOf(r)].modules THEN work[r].open ELSE {}
      Found(hits) == With(r, [work[r] EXCEPT !.found = @ \union hits], "save")
  IN /\ assetNode[r] = "nuclei"
     /\ \/ wanted # {} /\ ScannerCancelled(r)
        \/ (wanted = {} \/ TaskOf(r) \notin cancelKey) /\ Smoothly /\ Found(NucleiHits(wanted))
        \/ /\ wanted # {} /\ AssetFault
           /\ \E some \in SUBSET wanted : Found(NucleiHits(some))
     /\ NodeFrame /\ UNCHANGED <<assetResults, told, takenOver>>

\* The documents are indexed anew, in the name of this task and not yet rated.
SaveFindings(r) ==
  LET t == TaskOf(r)
      found == work[r].found
      others == {u \in AssetTasks : u # t}
  IN /\ assetNode[r] = "save"
     /\ \/ /\ Smoothly /\ Onward(r, "analyse")
           /\ vulnDocs' = [v \in Identifiers |->
                             IF v \in found THEN [task |-> t, ai |-> "none"] ELSE vulnDocs[v]]
           /\ takenOver' = (takenOver \ ({t} \X found)) \union (others \X found)
        \/ /\ found # {} /\ AssetFault /\ Onward(r, "fail")
           /\ UNCHANGED <<vulnDocs, takenOver>>
     /\ NodeFrame /\ UNCHANGED <<work, assetDocs, reportDoc, told>>

\* _parse_ai_json: an answer rates some of the findings; one that cannot be read,
\* or names none, is no answer, and then all get the fallback.
ParsedAnswers(found) == {named \X {"rated"} : named \in SUBSET found \ {{}}}
                  \union {found \X {"fallback"}}

\* One batch holds all findings of a task.
RateFindings(r) ==
  LET found == work[r].found
      Rate(ratings) == With(r, [work[r] EXCEPT !.rating = ratings], "rate")
  IN /\ assetNode[r] = "analyse"
     /\ \/ Skip(r, "report")
        \/ found = {} /\ NotCancelled(r) /\ Onward(r, "report") /\ UNCHANGED work
        \/ /\ found # {} /\ NotCancelled(r)
           /\ \E ratings \in ParsedAnswers(found) : Rate(ratings)
     /\ NodeFrame /\ UNCHANGED <<assetResults, told, takenOver>>

\* Finding by finding, through its identifier alone; a failing update is logged.
WriteRating(r) ==
  /\ assetNode[r] = "rate"
  /\ \/ work[r].rating = {} /\ Onward(r, "report") /\ UNCHANGED <<work, vulnDocs>> /\ Smoothly
     \/ \E x \in work[r].rating :
          /\ With(r, [work[r] EXCEPT !.rating = @ \ {x}], "rate")
          /\ \/ Smoothly
                /\ vulnDocs' = IF vulnDocs[x[1]] = NoDoc THEN vulnDocs
                               ELSE [vulnDocs EXCEPT ![x[1]].ai = x[2]]
             \/ vulnDocs[x[1]] # NoDoc /\ AssetFault /\ UNCHANGED vulnDocs
  /\ NodeFrame /\ UNCHANGED <<assetDocs, reportDoc, told, takenOver>>

\* Defect: a task is complete before its report is.
CompleteFirst(r) ==
  /\ assetNode[r] = "report"
  /\ Update(r, "completed", "close")
  /\ UNCHANGED <<request, queueSide, cancelKey, deleting, work, assetResults, assetPast, assetCalls>>

\* generate_report saves the report, and the task is completed next.
GenerateReport(r) ==
  /\ assetNode[r] = "report"
  /\ \/ /\ Skip(r, "close")
        /\ told' = told \union {TaskOf(r)} /\ UNCHANGED reportDoc
     \/ /\ NotCancelled(r) /\ Onward(r, "complete")
        /\ reportDoc' = [reportDoc EXCEPT ![TaskOf(r)] = [made |-> TRUE, counts |-> work[r].found]]
        /\ UNCHANGED <<work, told>>
     \/ AssetFault /\ Onward(r, "fail") /\ UNCHANGED <<work, reportDoc, told>>
  /\ NodeFrame /\ UNCHANGED <<assetDocs, vulnDocs, takenOver>>

CompleteTask(r) ==
  /\ assetNode[r] = "complete"
  /\ Update(r, "completed", "close")
  /\ UNCHANGED <<request, queueSide, cancelKey, deleting, work, assetResults, assetPast, assetCalls>>

AssetNext ==
  \/ SweepTombstones \/ ServiceDies
  \/ \E t \in AssetTasks : CreateTask(t) \/ CancelTask(t) \/ DeleteAssetTask(t) \/ DeleteNext(t)
  \/ \E r \in Runs :
       \/ BeginTask(r) \/ FailTask(r) \/ CloseTask(r) \/ AckTask(r)
       \/ ParseIntent(r) \/ Discover(r) \/ DiscoverHosts(r) \/ ScanPorts(r) \/ SaveAssets(r)
       \/ Fingerprint(r) \/ ScanServices(r) \/ MatchCves(r) \/ MatchNuclei(r) \/ SaveFindings(r)
       \/ RateFindings(r) \/ WriteRating(r) \/ GenerateReport(r) \/ CompleteTask(r)

AssetSpec == AssetInit /\ [][AssetNext]_assetVars

-----------------------------------------------------------------------------
(* Properties *)

\* A completed task has its report, unless it was cancelled or deleted
\* (generate_report, runner.py), through crashes and redeliveries.
CompletedHasReport ==
  \A t \in AssetTasks :
    taskDoc[t] = "completed" => reportDoc[t].made \/ t \in told \union wiped

\* What a report counts is listed under its task, unless a later scan of the
\* host took the record or the task was deleted (save_vulns, delete_task).
ReportedIsListed ==
  \A t \in AssetTasks \ wiped : \A v \in reportDoc[t].counts :
    vulnDocs[v].task = t \/ <<t, v>> \in takenOver

\* The queue lets go of a task only when its document says how it ended
\* (_process acknowledges after the runner returned), unless the task was deleted
\* or two runs of it were at work at once, of which the first to end speaks for
\* both; a document that cannot be written is a fault.
LetGoWhenEnded ==
  \A t \in AssetTasks \ (wiped \union doubled) :
    /\ entry[t] = "acked" => taskDoc[t] = "completed"
    /\ entry[t] = "dlq" /\ assetFaults = 0 => taskDoc[t] = "failed"

\* The types and the three above.
AssetInv == AssetTypeOK /\ CompletedHasReport /\ ReportedIsListed /\ LetGoWhenEnded
=============================================================================
