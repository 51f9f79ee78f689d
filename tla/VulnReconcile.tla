---------------------------- MODULE VulnReconcile ----------------------------
(***************************************************************************)
(* The vulnerability records of one host.  Several scan tasks reconcile    *)
(* what their scan found with the records in Elasticsearch: each reads the *)
(* host's records, decides, and writes one bulk request; nothing keeps two *)
(* tasks, an operator's decision or the deletion of a task out of the gap, *)
(* and the read is a search, which sees writes only once the index has     *)
(* been refreshed.  Then the task has the model rate its findings and      *)
(* writes its report.                                                      *)
(*                                                                         *)
(* `ledger' is the history variable that says what the records ought to    *)
(* be: the effect of every reconciliation, decision and deletion, each     *)
(* taken as one step.  A task is here once VulnScan has collected results. *)
(***************************************************************************)
EXTENDS Integers, FiniteSetsExt

CONSTANTS
  Tasks,        \* scan tasks that target the host
  Keys,         \* vulnerabilities: (cve, name) on this host
  Category(_),  \* the scan module that finds a key
  MaxDelivery,  \* MAX_DELIVERY of the task queue
  PageLimit,    \* page size of the reconcile's read
  MaxScans,     \* bound: scans of the host
  MaxEvents     \* bound: decisions, deletions, lost batches and writes, failures, crashes

ASSUME ReconcileAssumption ==
  /\ IsFiniteSet(Tasks) /\ IsFiniteSet(Keys)
  /\ {MaxDelivery, PageLimit} \subseteq Nat \ {0}
  /\ {MaxScans, MaxEvents} \subseteq Nat

VARIABLES
  present,  \* keys the host really has
  scans,    \* scans so far; the detection time of what a scan found
  found,    \* result documents: task -> key -> time first reported, or 0
  covered,  \* scanned_categories of the task's final results
  vulns,    \* records by finding id
  shown,    \* the records a search sees: those of the last refresh
  pc,       \* where the task's run is
  read,     \* the records its aggregate read
  mine,     \* collected_findings: ids that stand for the task's findings
  tries,    \* runs of the task so far
  clean,    \* tasks whose report says that no vulnerabilities were found
  ledger,   \* history: what each key's record ought to be
  stale,    \* history: keys last written from an outdated read
  ever,     \* history: keys ever written from an outdated read
  unwritten, \* history: records whose rating and fallback were both lost
  events    \* history: how many of MaxEvents have happened

host  == <<present, scans>>
es    == <<found, covered, vulns, shown, clean>>
runState == <<pc, read, mine, tries>>
past  == <<ledger, stale, ever, unwritten>>
reconcileVars  == <<host, es, runState, past, events>>

Categories == {Category(k) : k \in Keys}
Times      == 1 .. MaxScans
Ids        == Tasks \X Keys        \* finding_id: drawn when the result is saved
KeyOf(i)   == i[2]
VulnStatuses   == {"open", "fixed", "accepted"}

Nothing == [status |-> "absent", at |-> 0, history |-> {}, owner |-> {},
            seen |-> {}, ai |-> "none"]
Record  == [status : VulnStatuses, at : Times, history : SUBSET Times,
            owner : {{t} : t \in Tasks}, seen : {{}} \union {{t} : t \in Tasks},
            ai : {"none", "rated", "awaiting"}]

Live(docs)      == {i \in Ids : docs[i] # Nothing}
Copies(docs, k) == {i \in Live(docs) : KeyOf(i) = k}
MineIn(docs, t) == {i \in Live(docs) : t \in docs[i].owner \union docs[i].seen}

Unknown == [status |-> "absent", times |-> {}]

ReconcileTypeOK ==
  /\ present \subseteq Keys /\ scans \in 0 .. MaxScans
  /\ found \in [Tasks -> [Keys -> 0 .. MaxScans]]
  /\ covered \in [Tasks -> SUBSET Categories]
  /\ vulns \in [Ids -> Record \union {Nothing}]
  /\ shown \in [Ids -> Record \union {Nothing}]
  /\ pc \in [Tasks -> {"scan", "read", "write", "analyse", "report", "done", "dead"}]
  /\ read \in [Tasks -> [Ids -> Record \union {Nothing}]]
  /\ mine \in [Tasks -> SUBSET Ids]
  /\ tries \in [Tasks -> 1 .. MaxDelivery]
  /\ clean \subseteq Tasks
  /\ ledger \in [Keys -> [status : VulnStatuses \union {"absent"}, times : SUBSET Times]]
  /\ stale \subseteq ever /\ ever \subseteq Keys /\ unwritten \subseteq Ids
  /\ events \in 0 .. MaxEvents

Empty == [i \in Ids |-> Nothing]

ReconcileInit ==
  /\ present \in SUBSET Keys /\ scans = 0
  /\ found = [t \in Tasks |-> [k \in Keys |-> 0]]
  /\ covered = [t \in Tasks |-> {}]
  /\ vulns = Empty /\ shown = Empty
  /\ pc = [t \in Tasks |-> "scan"]
  /\ read = [t \in Tasks |-> Empty] /\ mine = [t \in Tasks |-> {}]
  /\ tries = [t \in Tasks |-> 1]
  /\ clean = {}
  /\ ledger = [k \in Keys |-> Unknown]
  /\ stale = {} /\ ever = {} /\ unwritten = {}
  /\ events = 0

Disruption == events < MaxEvents /\ events' = events + 1
NoFault    == UNCHANGED events
Act        == Disruption
Proceed(t, s) == pc' = [pc EXCEPT ![t] = s]

\* An exception or a crash: the queue delivers the task again, or buries it.
RunAgain(t) ==
  IF tries[t] < MaxDelivery
  THEN Proceed(t, "scan") /\ tries' = [tries EXCEPT ![t] = @ + 1]
  ELSE Proceed(t, "dead") /\ UNCHANGED tries

-----------------------------------------------------------------------------
(* The host, its scan and the index *)

Patched ==
  /\ \E k \in present : present' = present \ {k}
  /\ UNCHANGED <<scans, es, runState, past, events>>

\* Dispatch and collect: the host reports what it has in the categories it got
\* through; a batch of findings can be lost on the way although the final
\* batch arrives.  Results of an earlier run of the task are still there.
Scan(t) ==
  /\ pc[t] = "scan" /\ scans < MaxScans
  /\ scans' = scans + 1
  /\ \E done \in SUBSET Categories :
       \E got \in SUBSET {k \in present : Category(k) \in done} :
         /\ found' = [found EXCEPT ![t] =
                        [k \in Keys |-> IF k \in got /\ @[k] = 0 THEN scans' ELSE @[k]]]
         /\ covered' = [covered EXCEPT ![t] = @ \union done]
         /\ IF got = {k \in present : Category(k) \in done} THEN NoFault ELSE Disruption
  /\ Proceed(t, "read")
  /\ UNCHANGED <<present, vulns, shown, clean, read, mine, tries, past>>

\* The index makes its writes visible to searches once a second.
Refresh ==
  /\ shown # vulns
  /\ shown' = vulns
  /\ UNCHANGED <<host, found, covered, vulns, clean, runState, past, events>>

-----------------------------------------------------------------------------
(* aggregate *)

\* list_vulns_all.  The first page is sorted by one field, so its cursor has
\* one value where the second page's sort has two: a full page makes the read
\* raise, as a failing search does.
ReadRecords(t) ==
  /\ pc[t] = "read"
  /\ \/ /\ Cardinality(Live(shown)) < PageLimit
        /\ read' = [read EXCEPT ![t] = shown] /\ Proceed(t, "write")
        /\ NoFault /\ UNCHANGED tries
     \/ /\ Cardinality(Live(shown)) >= PageLimit
        /\ RunAgain(t) /\ NoFault /\ UNCHANGED read
     \/ RunAgain(t) /\ Disruption /\ UNCHANGED read
  /\ UNCHANGED <<host, es, mine, past>>

Reported(t) == {k \in Keys : found[t][k] # 0}

\* The newest copy of a key stands for it, the others are queued for deletion.
Canonical(docs, k) ==
  CHOOSE i \in Copies(docs, k) : \A j \in Copies(docs, k) : docs[i].at >= docs[j].at
Doubles(docs) ==
  UNION {Copies(docs, k) \ {Canonical(docs, k)} : k \in {KeyOf(i) : i \in Live(docs)}}

\* The id a reported key ends up under.
IdFor(t, k) == IF Copies(read[t], k) = {} THEN <<t, k>> ELSE Canonical(read[t], k)

New(t, k) ==
  [status |-> "open", at |-> found[t][k], history |-> {}, owner |-> {t},
   seen |-> {}, ai |-> "none"]

\* Defect: the bulk update forgets the detection times of the copies.
HistoryOfKept(t, k) == read[t][Canonical(read[t], k)].history \ {found[t][k]}

\* Every earlier detection time of the copies read, but the current one.
History(t, k) ==
  (read[t][Canonical(read[t], k)].history
     \union {read[t][i].at : i \in Copies(read[t], k)}) \ {found[t][k]}

Confirmed(t, k, doc) ==
  [doc EXCEPT !.status = "open", !.at = found[t][k],
              !.history = History(t, k), !.seen = {t}]

\* Defect: coverage is not asked, every unreported open record is closed.
Unreported(t) ==
  {i \in Live(read[t]) : read[t][i].status = "open" /\ KeyOf(i) \notin Reported(t)}

\* Open records of a covered category that the scan did not report.
AutoFixed(t) ==
  {i \in Live(read[t]) : /\ read[t][i].status = "open"
                         /\ KeyOf(i) \notin Reported(t)
                         /\ Category(KeyOf(i)) \in covered[t]}

\* The bulk request on the documents as they are now: an update or a delete
\* of a document that is gone does nothing.
Bulk(t) ==
  LET target == {IdFor(t, k) : k \in Reported(t)}
      fresh  == {<<t, k>> : k \in {k \in Reported(t) : Copies(read[t], k) = {}}}
  IN [i \in Ids |->
       IF i \in Doubles(read[t]) THEN Nothing
       ELSE IF i \in fresh THEN New(t, KeyOf(i))
       ELSE IF vulns[i] = Nothing THEN Nothing
       ELSE IF i \in target THEN Confirmed(t, KeyOf(i), vulns[i])
       ELSE IF i \in AutoFixed(t) THEN [vulns[i] EXCEPT !.status = "fixed"]
       ELSE vulns[i]]

\* Documents the request names and the index no longer has.
Gone(t) ==
  {i \in Live(read[t]) : /\ vulns[i] = Nothing
                         /\ \/ i \in {IdFor(t, k) : k \in Reported(t)}
                            \/ i \in AutoFixed(t) \union Doubles(read[t])}

\* What the reconciliation ought to do to a key.
Reconciled(t, k) ==
  IF k \in Reported(t)
  THEN [status |-> "open", times |-> ledger[k].times \union {found[t][k]}]
  ELSE IF ledger[k].status = "open" /\ Category(k) \in covered[t]
       THEN [ledger[k] EXCEPT !.status = "fixed"]
       ELSE ledger[k]

\* Keys whose records are no longer what the task has read, ratings aside.
Outdated(t) ==
  LET Unrated(doc) == [doc EXCEPT !.ai = "none"]
  IN {KeyOf(i) : i \in {i \in Ids : Unrated(read[t][i]) # Unrated(vulns[i])}}

Judged(t) ==
  /\ ledger' = [k \in Keys |-> Reconciled(t, k)]
  /\ stale' = Outdated(t)
  /\ ever' = ever \union Outdated(t)
  /\ UNCHANGED unwritten

\* bulk_update_vulns: a missing document fails the request although the rest of
\* it is done, and so do the two repeats.  A repeat after a lost answer finds
\* the doubles gone.
Reconcile(t) ==
  /\ pc[t] = "write"
  /\ \/ /\ vulns' = Bulk(t) /\ Judged(t)
        /\ mine' = [mine EXCEPT ![t] = {IdFor(t, k) : k \in Reported(t)}]
        /\ \/ Gone(t) = {} /\ Proceed(t, "analyse") /\ NoFault /\ UNCHANGED tries
           \/ Gone(t) # {} /\ RunAgain(t) /\ NoFault
           \/ Gone(t) = {} /\ Doubles(read[t]) # {} /\ RunAgain(t) /\ Disruption
     \/ RunAgain(t) /\ Disruption /\ UNCHANGED <<vulns, past, mine>>
  /\ read' = [read EXCEPT ![t] = Empty]
  /\ UNCHANGED <<host, found, covered, shown, clean>>

-----------------------------------------------------------------------------
(* llm_analysis, generate_report *)

\* Only what exists can be updated; each update is awaited in a try.
UpdateVulns(docs, ids, ai) ==
  [i \in Ids |-> IF i \in ids \intersect Live(docs)
                 THEN [docs[i] EXCEPT !.ai = ai] ELSE docs[i]]

WriteBack(docs, ids)     == UpdateVulns(docs, ids, "rated")
WriteFallback(docs, ids) == UpdateVulns(docs, ids, "awaiting")

\* No adapter, a batch that failed (LlmRescan has its findings then), or an
\* answer that rates some of the findings.  A finding whose rating could not be
\* written gets the fallback like one that has none; the run goes on when the
\* fallback cannot be written either.
Analyse(t) ==
  /\ pc[t] = "analyse"
  /\ Proceed(t, "report")
  /\ \E rated \in SUBSET mine[t] : \E lost \in SUBSET ((mine[t] \ rated) \intersect Live(vulns)) :
       /\ vulns' = WriteFallback(WriteBack(vulns, rated), mine[t] \ (rated \union lost))
       /\ unwritten' = (unwritten \ mine[t]) \union lost
       /\ IF lost = {} THEN NoFault ELSE Disruption
  /\ UNCHANGED <<host, found, covered, shown, clean, read, mine, tries, ledger, stale, ever>>

Report(t) ==
  /\ pc[t] = "report"
  /\ clean' = IF MineIn(shown, t) = {} THEN clean \union {t} ELSE clean \ {t}
  /\ Proceed(t, "done")
  /\ UNCHANGED <<host, found, covered, vulns, shown, read, mine, tries, past,
                 events>>

RunDies(t) ==
  /\ pc[t] \in {"write", "analyse", "report"}
  /\ Disruption /\ RunAgain(t)
  /\ read' = [read EXCEPT ![t] = Empty]
  /\ UNCHANGED <<host, es, mine, past>>

-----------------------------------------------------------------------------
(* Operators *)

\* PATCH /vulns/{id}.
Decide(i, status) ==
  /\ vulns[i] # Nothing /\ vulns[i].status # status /\ Act
  /\ vulns' = [vulns EXCEPT ![i].status = status]
  /\ ledger' = [ledger EXCEPT ![KeyOf(i)].status = status]
  /\ UNCHANGED <<host, found, covered, shown, clean, runState, stale, ever, unwritten>>

\* delete_task: by query, so it takes what a search sees of the records the
\* task owns, and stops at one that has changed since (a version conflict).
DeleteTask(t) ==
  LET owned   == {i \in Live(shown) : shown[i].owner = {t}}
      changed == {i \in owned : vulns[i] # shown[i]}
  IN /\ pc[t] = "done" /\ owned # {} /\ Act
     /\ \E gone \in SUBSET (owned \ changed) :
          /\ changed = {} => gone = owned
          /\ vulns' = [i \in Ids |-> IF i \in gone THEN Nothing ELSE vulns[i]]
     /\ IF changed = {}
        THEN /\ shown' = vulns'
             /\ found' = [found EXCEPT ![t] = [k \in Keys |-> 0]]
             /\ covered' = [covered EXCEPT ![t] = {}]
             /\ clean' = clean \ {t}
        ELSE UNCHANGED <<shown, found, covered, clean>>
     /\ ledger' = [k \in Keys |-> IF Copies(vulns', k) = {} THEN Unknown ELSE ledger[k]]
     /\ UNCHANGED <<host, runState, stale, ever, unwritten>>

ReconcileNext ==
  \/ Patched \/ Refresh
  \/ \E t \in Tasks : \/ Scan(t) \/ ReadRecords(t) \/ Reconcile(t) \/ Analyse(t)
                      \/ Report(t) \/ RunDies(t) \/ DeleteTask(t)
  \/ \E i \in Ids, s \in VulnStatuses : Decide(i, s)

ReconcileSpec == ReconcileInit /\ [][ReconcileNext]_reconcileVars

-----------------------------------------------------------------------------
(* Properties *)

\* "One host + one vuln keeps a single record": two records of a key appear
\* only when a task wrote from a read that was out of date, and the next
\* reconciliation from a current read leaves one again.
OneRecord == \A k \in Keys \ stale : Cardinality(Copies(vulns, k)) <= 1

\* Unless a task wrote from an outdated read, a record is what the scans, the
\* decisions and the deletions, taken one at a time, make of it: a decision
\* falls to a detection only, only a covered category is closed.
LedgerAgrees ==
  \A k \in Keys \ ever :
    /\ Copies(vulns, k) = {} <=> ledger[k].status = "absent"
    /\ \A i \in Copies(vulns, k) : vulns[i].status = ledger[k].status

\* Detection times are not lost when a record is confirmed.
HistoryKept ==
  \A k \in Keys \ ever : \A i \in Copies(vulns, k) :
    ledger[k].times = {vulns[i].at} \union vulns[i].history

\* No finding of a task that ended is without a rating or a fallback, unless the
\* last run to rate it could write neither, or a run that had not seen its record
\* indexed it once more.
NoBlankRating ==
  \A t \in Tasks : pc[t] = "done" =>
    \A i \in mine[t] \intersect Live(vulns) :
      KeyOf(i) \notin ever /\ i \notin unwritten => vulns[i].ai # "none"

ReconcileInv == ReconcileTypeOK /\ OneRecord /\ HistoryKept /\ NoBlankRating
=============================================================================
