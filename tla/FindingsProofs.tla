---------------------------- MODULE FindingsProofs ----------------------------
(***************************************************************************)
(* What becomes of findings: the records of a host for any number of       *)
(* tasks, vulnerabilities and scans, and the calls that have a model rate  *)
(* them for any number of engines, tasks, batches and faults.              *)
(***************************************************************************)
EXTENDS VulnReconcile, LlmRescan, FiniteSetTheorems, WellFoundedInduction, TLAPS

-----------------------------------------------------------------------------
(* Records *)

Docs == Record \union {Nothing}

\* One record, and one story of it, for each key that no task has written from
\* an outdated read.
AtMostOne == \A k \in Keys \ stale : \A i, j \in Copies(vulns, k) : i = j
NoTimes   == \A k \in Keys : ledger[k].status = "absent" => ledger[k].times = {}

\* A record belongs to the task its id was drawn for.
Own(docs) == \A i \in Ids : docs[i] # Nothing => docs[i].owner = {i[1]}
Owned     == Own(vulns) /\ Own(shown) /\ \A t \in Tasks : Own(read[t])

\* The findings a task has collected last until a task that is done is deleted,
\* and are rated from its analysis on.
MineKept ==
  \A t \in Tasks : \A i \in mine[t] :
    KeyOf(i) \notin ever => i \in Live(vulns) \/ pc[i[1]] = "done"
Rated ==
  \A t \in Tasks : pc[t] \in {"report", "done"} =>
    \A i \in mine[t] \intersect Live(vulns) :
      KeyOf(i) \notin ever /\ i \notin unwritten => vulns[i].ai # "none"

RecordsInd ==
  ReconcileTypeOK /\ AtMostOne /\ NoTimes /\ Owned /\ MineKept /\ Rated /\ HistoryKept /\ LedgerAgrees

LEMMA LeastNatural ==
  ASSUME NEW S \in SUBSET Nat, S # {}
  PROVE  \E m \in S : \A n \in S : m <= n
<1>1. PICK m \in S : \A n \in S : ~(<<n, m>> \in OpToRel(<, Nat))
  BY NatLessThanWellFounded, WFMin
<1>2. \A n \in S : ~(n < m)
  BY <1>1 DEF OpToRel
<1> QED BY <1>2

LEMMA IdShape ==
  ASSUME NEW i \in Ids
  PROVE  i[1] \in Tasks /\ KeyOf(i) \in Keys /\ i = <<i[1], KeyOf(i)>>
BY DEF Ids, KeyOf

LEMMA DocFields ==
  ASSUME NEW doc \in Docs
  PROVE  /\ doc = Nothing <=> doc.status = "absent"
         /\ doc # Nothing => doc \in Record /\ doc.status \in VulnStatuses /\ doc.at \in Times
                             /\ doc.history \in SUBSET Times
                             /\ doc.ai \in {"none", "rated", "awaiting"}
BY DEF Docs, Record, Nothing, VulnStatuses

\* Two documents that differ in their rating at most.
LEMMA SameButRating ==
  ASSUME NEW a \in Docs, NEW b \in Docs, [a EXCEPT !.ai = "none"] = [b EXCEPT !.ai = "none"]
  PROVE  /\ a.status = b.status /\ a.at = b.at /\ a.history = b.history
         /\ a = Nothing <=> b = Nothing
<1>1. a.status = b.status /\ a.at = b.at /\ a.history = b.history
  <2> DEFINE c == [a EXCEPT !.ai = "none"]  d == [b EXCEPT !.ai = "none"]
  <2>1. /\ c.status = a.status /\ c.at = a.at /\ c.history = a.history
        /\ d.status = b.status /\ d.at = b.at /\ d.history = b.history
    BY DEF Docs, Record, Nothing
  <2>2. QED BY <2>1
<1>2. QED BY <1>1, DocFields

\* The newest copy exists.
LEMMA CanonicalCopy ==
  ASSUME NEW docs \in [Ids -> Docs], NEW k, Copies(docs, k) # {}
  PROVE  Canonical(docs, k) \in Copies(docs, k)
<1>1. \A i \in Copies(docs, k) : docs[i].at \in 1 .. MaxScans
  BY DocFields DEF Copies, Live, Times
<1> DEFINE ages == {MaxScans - docs[i].at : i \in Copies(docs, k)}
<1>2. ages \in SUBSET Nat /\ ages # {}
  BY <1>1, ReconcileAssumption
<1>3. PICK m \in ages : \A n \in ages : m <= n
  BY <1>2, LeastNatural
<1>4. PICK i \in Copies(docs, k) : m = MaxScans - docs[i].at
  BY <1>3
<1>5. \A j \in Copies(docs, k) : MaxScans - docs[i].at <= MaxScans - docs[j].at
  BY <1>3, <1>4
<1>6. \A j \in Copies(docs, k) : docs[i].at >= docs[j].at
  BY <1>1, <1>5, ReconcileAssumption
<1>7. QED BY <1>6 DEF Canonical

LEMMA DoublesOfKey ==
  ASSUME NEW docs, NEW i \in Ids
  PROVE  i \in Doubles(docs) <=> i \in Copies(docs, KeyOf(i)) /\ i # Canonical(docs, KeyOf(i))
BY DEF Doubles, Copies, Live

LEMMA IdsOfKey ==
  ASSUME ReconcileTypeOK, NEW t \in Tasks, NEW k \in Keys
  PROVE  /\ IdFor(t, k) \in Ids /\ KeyOf(IdFor(t, k)) = k
         /\ Copies(read[t], k) # {} => /\ IdFor(t, k) = Canonical(read[t], k)
                                       /\ IdFor(t, k) \in Copies(read[t], k)
         /\ Copies(read[t], k) = {} => IdFor(t, k) = <<t, k>>
<1>1. read[t] \in [Ids -> Docs]
  BY DEF ReconcileTypeOK, Docs
<1>2. CASE Copies(read[t], k) # {}
  <2>1. IdFor(t, k) = Canonical(read[t], k) /\ IdFor(t, k) \in Copies(read[t], k)
    BY <1>1, <1>2, CanonicalCopy DEF IdFor
  <2>2. QED BY <1>2, <2>1 DEF Copies, Live
<1>3. CASE Copies(read[t], k) = {}
  BY <1>3 DEF IdFor, Ids, KeyOf
<1>4. QED BY <1>2, <1>3

\* What the bulk request makes of one document.
LEMMA BulkOfId ==
  ASSUME ReconcileTypeOK, NEW t \in Tasks, NEW i \in Ids
  PROVE  LET k == KeyOf(i)  copies == Copies(read[t], KeyOf(i))
         IN Bulk(t)[i] =
              IF i \in copies /\ i # Canonical(read[t], k) THEN Nothing
              ELSE IF k \in Reported(t) /\ copies = {} /\ i = <<t, k>> THEN New(t, k)
              ELSE IF vulns[i] = Nothing THEN Nothing
              ELSE IF k \in Reported(t) /\ i = IdFor(t, k) THEN Confirmed(t, k, vulns[i])
              ELSE IF i \in AutoFixed(t) THEN [vulns[i] EXCEPT !.status = "fixed"]
              ELSE vulns[i]
<1> DEFINE k == KeyOf(i)
           target == {IdFor(t, j) : j \in Reported(t)}
           fresh  == {<<t, j>> : j \in {j \in Reported(t) : Copies(read[t], j) = {}}}
<1>1. i \in target <=> k \in Reported(t) /\ i = IdFor(t, k)
  BY IdsOfKey, IdShape DEF Reported
<1>2. i \in fresh <=> k \in Reported(t) /\ Copies(read[t], k) = {} /\ i = <<t, k>>
  BY DEF KeyOf
<1>3. i \in Doubles(read[t]) <=> i \in Copies(read[t], k) /\ i # Canonical(read[t], k)
  BY DoublesOfKey
<1>4. Bulk(t)[i] = IF i \in Doubles(read[t]) THEN Nothing
                   ELSE IF i \in fresh THEN New(t, k)
                   ELSE IF vulns[i] = Nothing THEN Nothing
                   ELSE IF i \in target THEN Confirmed(t, k, vulns[i])
                   ELSE IF i \in AutoFixed(t) THEN [vulns[i] EXCEPT !.status = "fixed"]
                   ELSE vulns[i]
  BY DEF Bulk
<1> HIDE DEF target, fresh
<1>5. QED BY <1>1, <1>2, <1>3, <1>4

\* The history a confirmed record gets, and what New and Confirmed are.
LEMMA ConfirmedIsRecord ==
  ASSUME ReconcileTypeOK, NEW t \in Tasks, NEW k \in Reported(t), NEW doc \in Record
  PROVE  /\ found[t][k] \in Times /\ New(t, k) \in Record /\ New(t, k).status = "open"
         /\ New(t, k).owner = {t}
         /\ Copies(read[t], k) # {} =>
              /\ Confirmed(t, k, doc) \in Record
              /\ LET c == Confirmed(t, k, doc)
                 IN /\ c.status = "open" /\ c.at = found[t][k] /\ c.history = History(t, k)
                    /\ c.owner = doc.owner /\ c.ai = doc.ai
<1>1. k \in Keys /\ found[t][k] \in Times
  BY ReconcileAssumption DEF Reported, ReconcileTypeOK, Times
<1>2. New(t, k) \in Record /\ New(t, k).status = "open" /\ New(t, k).owner = {t}
  BY <1>1 DEF New, Record, VulnStatuses
<1>3. ASSUME Copies(read[t], k) # {} PROVE History(t, k) \in SUBSET Times
  <2>1. read[t] \in [Ids -> Docs]
    BY DEF ReconcileTypeOK, Docs
  <2>2. Canonical(read[t], k) \in Copies(read[t], k)
    BY <1>3, <2>1, CanonicalCopy
  <2>3. \A i \in Copies(read[t], k) : read[t][i] \in Record
    BY <2>1 DEF Copies, Live, Docs
  <2>4. \A i \in Copies(read[t], k) : read[t][i].at \in Times /\ read[t][i].history \subseteq Times
    BY <2>3 DEF Record
  <2>5. QED BY <2>2, <2>4 DEF History
<1>4. ASSUME Copies(read[t], k) # {}
      PROVE  /\ Confirmed(t, k, doc) \in Record
             /\ LET c == Confirmed(t, k, doc)
                IN /\ c.status = "open" /\ c.at = found[t][k] /\ c.history = History(t, k)
                   /\ c.owner = doc.owner /\ c.ai = doc.ai
  <2>1. History(t, k) \in SUBSET Times
    BY <1>3, <1>4
  <2>2. QED BY <1>1, <2>1 DEF Confirmed, Record, VulnStatuses
<1>5. QED BY <1>1, <1>2, <1>4

LEMMA FixedIsRecord ==
  ASSUME NEW doc \in Record, NEW status \in VulnStatuses
  PROVE  LET d == [doc EXCEPT !.status = status]
         IN /\ d \in Record /\ d.status = status /\ d.at = doc.at /\ d.history = doc.history
            /\ d.owner = doc.owner /\ d.ai = doc.ai
BY DEF Record

LEMMA BulkTyped ==
  ASSUME ReconcileTypeOK, Owned, NEW t \in Tasks
  PROVE  Bulk(t) \in [Ids -> Docs] /\ Own(Bulk(t))
<1>1. ASSUME NEW i \in Ids
      PROVE  Bulk(t)[i] \in Docs /\ (Bulk(t)[i] # Nothing => Bulk(t)[i].owner = {i[1]})
  <2> DEFINE k == KeyOf(i)
  <2>1. vulns[i] \in Docs /\ (vulns[i] # Nothing => vulns[i] \in Record /\ vulns[i].owner = {i[1]})
    BY DEF ReconcileTypeOK, Docs, Owned, Own
  <2>2. Nothing \in Docs
    BY DEF Docs
  <2>3. CASE Bulk(t)[i] \in {Nothing, vulns[i]}
    BY <2>1, <2>2, <2>3
  <2>4. CASE k \in Reported(t) /\ i = <<t, k>> /\ Bulk(t)[i] = New(t, k)
    <3>1. PICK doc \in Record : TRUE
      <4>1. found[t][k] \in Times
        BY <2>4, ReconcileAssumption DEF Reported, ReconcileTypeOK, Times
      <4>2. New(t, k) \in Record
        BY <2>4, <4>1 DEF New, Record, VulnStatuses
      <4>3. QED BY <4>2
    <3>2. New(t, k) \in Record /\ New(t, k).owner = {t}
      BY <2>4, <3>1, ConfirmedIsRecord
    <3>3. i[1] = t
      BY <2>4
    <3>4. QED BY <2>4, <3>2, <3>3 DEF Docs
  <2>5. CASE /\ k \in Reported(t) /\ i = IdFor(t, k) /\ vulns[i] # Nothing
             /\ ~(Copies(read[t], k) = {} /\ i = <<t, k>>)
             /\ Bulk(t)[i] = Confirmed(t, k, vulns[i])
    <3>1. Copies(read[t], k) # {}
      BY <2>5, IdsOfKey DEF Reported
    <3>2. Confirmed(t, k, vulns[i]) \in Record /\ Confirmed(t, k, vulns[i]).owner = vulns[i].owner
      BY <2>1, <2>5, <3>1, ConfirmedIsRecord
    <3>3. QED BY <2>1, <2>5, <3>2 DEF Docs
  <2>6. CASE vulns[i] # Nothing /\ Bulk(t)[i] = [vulns[i] EXCEPT !.status = "fixed"]
    <3>1. "fixed" \in VulnStatuses
      BY DEF VulnStatuses
    <3>2. Bulk(t)[i] \in Record /\ Bulk(t)[i].owner = vulns[i].owner
      BY <2>1, <2>6, <3>1, FixedIsRecord
    <3>3. QED BY <2>1, <2>6, <3>2 DEF Docs
  <2>7. QED BY <2>3, <2>4, <2>5, <2>6, BulkOfId
<1>2. DOMAIN Bulk(t) = Ids /\ Bulk(t) = [i \in Ids |-> Bulk(t)[i]]
  BY DEF Bulk
<1>3. QED BY <1>1, <1>2 DEF Own

\* What the bulk request makes of the copies of a key that is as the task has
\* read it: one copy stays, the newest, with what was found; or one is new.
KeyBulked(t, k, copies, after) ==
  /\ copies = {} => after = IF k \in Reported(t) THEN {<<t, k>>} ELSE {}
  /\ copies # {} => Canonical(read[t], k) \in copies /\ after = {Canonical(read[t], k)}
  /\ \A i \in after :
       /\ copies # {} => Bulk(t)[i].ai = vulns[i].ai
       /\ IF k \in Reported(t)
          THEN /\ Bulk(t)[i].status = "open" /\ Bulk(t)[i].at = found[t][k]
               /\ Bulk(t)[i].history = IF copies = {} THEN {} ELSE History(t, k)
          ELSE /\ Bulk(t)[i].at = vulns[i].at /\ Bulk(t)[i].history = vulns[i].history
               /\ Bulk(t)[i].status =
                    IF vulns[i].status = "open" /\ Category(k) \in covered[t]
                    THEN "fixed" ELSE vulns[i].status

LEMMA BulkOfKey ==
  ASSUME ReconcileTypeOK, NEW t \in Tasks, NEW k \in Keys \ Outdated(t)
  PROVE  /\ Copies(vulns, k) = Copies(read[t], k)
         /\ \A i \in Copies(vulns, k) : /\ read[t][i].status = vulns[i].status
                                        /\ read[t][i].at = vulns[i].at
                                        /\ read[t][i].history = vulns[i].history
         /\ KeyBulked(t, k, Copies(vulns, k), Copies(Bulk(t), k))
<1> DEFINE copies == Copies(vulns, k)  after == Copies(Bulk(t), k)
<1>1. ASSUME NEW i \in Ids, KeyOf(i) = k
      PROVE  /\ read[t][i] \in Docs /\ vulns[i] \in Docs
             /\ read[t][i].status = vulns[i].status /\ read[t][i].at = vulns[i].at
             /\ read[t][i].history = vulns[i].history
             /\ read[t][i] = Nothing <=> vulns[i] = Nothing
  <2>1. read[t][i] \in Docs /\ vulns[i] \in Docs
    BY DEF ReconcileTypeOK, Docs
  <2>2. [read[t][i] EXCEPT !.ai = "none"] = [vulns[i] EXCEPT !.ai = "none"]
    BY <1>1 DEF Outdated
  <2>3. QED BY <2>1, <2>2, SameButRating
<1>2. copies = Copies(read[t], k)
  BY <1>1 DEF Copies, Live
<1>3. \A i : i \in after <=> i \in Ids /\ KeyOf(i) = k /\ Bulk(t)[i] # Nothing
  BY DEF Copies, Live
<1>4. \A i : i \in copies <=> i \in Ids /\ KeyOf(i) = k /\ vulns[i] # Nothing
  BY DEF Copies, Live
<1> HIDE DEF copies, after
<1>5. ASSUME copies = {} PROVE KeyBulked(t, k, copies, after)
  <2>1. ASSUME NEW i \in Ids, KeyOf(i) = k
        PROVE  Bulk(t)[i] = IF k \in Reported(t) /\ i = <<t, k>> THEN New(t, k) ELSE Nothing
    BY <1>2, <1>4, <1>5, <2>1, BulkOfId
  <2>2. <<t, k>> \in Ids /\ KeyOf(<<t, k>>) = k
    BY DEF Ids, KeyOf
  <2>3. CASE k \notin Reported(t)
    BY <1>3, <1>5, <2>1, <2>3 DEF KeyBulked
  <2>4. CASE k \in Reported(t)
    <3>1. /\ New(t, k) # Nothing /\ New(t, k).status = "open"
          /\ New(t, k).at = found[t][k] /\ New(t, k).history = {}
      BY DEF New, Nothing
    <3>2. after = {<<t, k>>}
      BY <1>3, <2>1, <2>2, <2>4, <3>1
    <3>3. QED BY <1>5, <2>1, <2>2, <2>4, <3>1, <3>2 DEF KeyBulked
  <2>5. QED BY <2>3, <2>4
<1>6. ASSUME copies # {} PROVE KeyBulked(t, k, copies, after)
  <2> DEFINE c == Canonical(read[t], k)
  <2>1. c \in copies /\ c \in Ids /\ KeyOf(c) = k /\ vulns[c] \in Record /\ IdFor(t, k) = c
    <3>1. c \in copies /\ IdFor(t, k) = c
      BY <1>2, <1>6, IdsOfKey
    <3>2. QED BY <1>1, <1>4, <3>1 DEF Docs
  <2> HIDE DEF c
  <2>2. ASSUME NEW i \in Ids, KeyOf(i) = k, i # c PROVE Bulk(t)[i] = Nothing
    BY <1>2, <1>4, <1>6, <2>1, <2>2, BulkOfId DEF c
  <2>3. Bulk(t)[c] = IF k \in Reported(t) THEN Confirmed(t, k, vulns[c])
                     ELSE IF c \in AutoFixed(t) THEN [vulns[c] EXCEPT !.status = "fixed"]
                     ELSE vulns[c]
    BY <1>2, <1>4, <1>6, <2>1, BulkOfId DEF c
  <2>4. k \notin Reported(t) =>
          (c \in AutoFixed(t) <=> vulns[c].status = "open" /\ Category(k) \in covered[t])
    BY <1>1, <1>4, <2>1 DEF AutoFixed, Live
  <2>5. CASE k \in Reported(t)
    <3>1. /\ Bulk(t)[c] \in Record /\ Bulk(t)[c].status = "open" /\ Bulk(t)[c].at = found[t][k]
          /\ Bulk(t)[c].history = History(t, k) /\ Bulk(t)[c].ai = vulns[c].ai
      BY <1>2, <1>6, <2>1, <2>3, <2>5, ConfirmedIsRecord
    <3>2. after = {c}
      BY <1>3, <2>1, <2>2, <3>1, DocFields DEF Docs, Nothing, Record, VulnStatuses
    <3>3. QED BY <1>6, <2>1, <2>5, <3>1, <3>2 DEF c, KeyBulked
  <2>6. CASE k \notin Reported(t)
    <3>1. /\ Bulk(t)[c] \in Record /\ Bulk(t)[c].at = vulns[c].at
          /\ Bulk(t)[c].history = vulns[c].history /\ Bulk(t)[c].ai = vulns[c].ai
          /\ Bulk(t)[c].status = IF vulns[c].status = "open" /\ Category(k) \in covered[t]
                                 THEN "fixed" ELSE vulns[c].status
      <4>1. "fixed" \in VulnStatuses
        BY DEF VulnStatuses
      <4>2. QED BY <2>1, <2>3, <2>4, <2>6, <4>1, FixedIsRecord
    <3>2. after = {c}
      BY <1>3, <2>1, <2>2, <3>1, DocFields DEF Docs, Nothing, Record, VulnStatuses
    <3>3. QED BY <1>6, <2>1, <2>6, <3>1, <3>2 DEF c, KeyBulked
  <2>7. QED BY <2>5, <2>6
<1>7. QED BY <1>1, <1>2, <1>4, <1>5, <1>6 DEF copies, after

-----------------------------------------------------------------------------
(* Steps that leave the records, what tasks have collected and the ledger alone *)

QuietStep ==
  \/ Patched \/ Refresh \/ UNCHANGED reconcileVars
  \/ \E t \in Tasks : \/ Scan(t) \/ ReadRecords(t) \/ Report(t) \/ RunDies(t)
                      \/ Reconcile(t) /\ UNCHANGED <<vulns, past, mine>>

LEMMA RunAgainTyped ==
  ASSUME ReconcileTypeOK, NEW t \in Tasks, RunAgain(t)
  PROVE  /\ tries' \in [Tasks -> 1 .. MaxDelivery]
         /\ pc' \in [Tasks -> {"scan", "read", "write", "analyse", "report", "done", "dead"}]
         /\ pc'[t] \in {"scan", "dead"} /\ \A u \in Tasks \ {t} : pc'[u] = pc[u]
<1>1. MaxDelivery \in Nat
  BY ReconcileAssumption
<1>2. CASE tries[t] < MaxDelivery /\ Proceed(t, "scan") /\ tries' = [tries EXCEPT ![t] = @ + 1]
  BY <1>1, <1>2 DEF Proceed, ReconcileTypeOK
<1>3. CASE Proceed(t, "dead") /\ UNCHANGED tries
  BY <1>3 DEF Proceed, ReconcileTypeOK
<1>4. QED BY <1>2, <1>3 DEF RunAgain

\* What a quiet step may do to where the runs are.
LEMMA QuietRuns ==
  ASSUME ReconcileTypeOK, QuietStep
  PROVE  /\ tries' \in [Tasks -> 1 .. MaxDelivery]
         /\ pc' \in [Tasks -> {"scan", "read", "write", "analyse", "report", "done", "dead"}]
         /\ \A u \in Tasks : /\ pc[u] = "done" => pc'[u] = "done"
                             /\ pc'[u] \in {"report", "done"} => pc[u] \in {"report", "done"}
<1>1. CASE Patched \/ Refresh \/ UNCHANGED reconcileVars
  BY <1>1 DEF Patched, Refresh, reconcileVars, runState, ReconcileTypeOK
<1>2. ASSUME NEW t \in Tasks, Scan(t)
      PROVE  pc[t] = "scan" /\ Proceed(t, "read") /\ UNCHANGED tries
  BY <1>2 DEF Scan
<1>3. ASSUME NEW t \in Tasks, ReadRecords(t)
      PROVE  pc[t] = "read" /\ (RunAgain(t) \/ (Proceed(t, "write") /\ UNCHANGED tries))
  BY <1>3 DEF ReadRecords
<1>4. ASSUME NEW t \in Tasks, Report(t)
      PROVE  pc[t] = "report" /\ Proceed(t, "done") /\ UNCHANGED tries
  BY <1>4 DEF Report
<1>5. ASSUME NEW t \in Tasks, RunDies(t)
      PROVE  pc[t] \in {"write", "analyse", "report"} /\ RunAgain(t)
  BY <1>5 DEF RunDies
<1>6. ASSUME NEW t \in Tasks, Reconcile(t)
      PROVE  pc[t] = "write" /\ (RunAgain(t) \/ (Proceed(t, "analyse") /\ UNCHANGED tries))
  BY <1>6 DEF Reconcile
<1>7. ASSUME NEW t \in Tasks, pc[t] # "done", RunAgain(t)
      PROVE  \A u \in Tasks : /\ pc[u] = "done" => pc'[u] = "done"
                              /\ pc'[u] \in {"report", "done"} => pc[u] \in {"report", "done"}
  BY <1>7, RunAgainTyped
<1>8. ASSUME NEW t \in Tasks, NEW s, Proceed(t, s), UNCHANGED tries, pc[t] # "done",
             \/ s \in {"read", "write", "analyse"}
             \/ s = "done" /\ pc[t] = "report"
      PROVE  /\ tries' \in [Tasks -> 1 .. MaxDelivery]
             /\ pc' \in [Tasks -> {"scan", "read", "write", "analyse", "report", "done", "dead"}]
             /\ \A u \in Tasks : /\ pc[u] = "done" => pc'[u] = "done"
                                 /\ pc'[u] \in {"report", "done"} => pc[u] \in {"report", "done"}
  BY <1>8 DEF Proceed, ReconcileTypeOK
<1>9. ASSUME NEW t \in Tasks,
             Scan(t) \/ ReadRecords(t) \/ Report(t) \/ RunDies(t) \/ Reconcile(t)
      PROVE  /\ tries' \in [Tasks -> 1 .. MaxDelivery]
             /\ pc' \in [Tasks -> {"scan", "read", "write", "analyse", "report", "done", "dead"}]
             /\ \A u \in Tasks : /\ pc[u] = "done" => pc'[u] = "done"
                                 /\ pc'[u] \in {"report", "done"} => pc[u] \in {"report", "done"}
  <2>1. CASE pc[t] # "done" /\ RunAgain(t)
    BY <1>7, <2>1, RunAgainTyped
  <2>2. CASE ~(pc[t] # "done" /\ RunAgain(t))
    BY <1>2, <1>3, <1>4, <1>5, <1>6, <1>8, <1>9, <2>2
  <2>3. QED BY <2>1, <2>2
<1>10. QED BY <1>1, <1>9 DEF QuietStep

LEMMA EmptyDocs ==
  Empty \in [Ids -> Docs] /\ Own(Empty)
BY DEF Empty, Docs, Own

LEMMA QuietTypes ==
  ASSUME ReconcileTypeOK, Owned, QuietStep
  PROVE  ReconcileTypeOK' /\ Owned'
<1>1. /\ tries' \in [Tasks -> 1 .. MaxDelivery]
      /\ pc' \in [Tasks -> {"scan", "read", "write", "analyse", "report", "done", "dead"}]
  BY QuietRuns
<1>2. UNCHANGED <<vulns, past, mine>>
  BY DEF QuietStep, Patched, Refresh, Scan, ReadRecords, Report, RunDies, reconcileVars, es,
         runState
<1>3. present' \subseteq Keys /\ scans' \in 0 .. MaxScans
  <2>1. present' \subseteq present
    BY DEF QuietStep, Patched, Refresh, Scan, ReadRecords, Report, RunDies,
           Reconcile, reconcileVars, host
  <2>2. UNCHANGED scans \/ (scans < MaxScans /\ scans' = scans + 1)
    BY DEF QuietStep, Patched, Refresh, Scan, ReadRecords, Report, RunDies,
           Reconcile, reconcileVars, host
  <2>3. QED BY <2>1, <2>2, ReconcileAssumption DEF ReconcileTypeOK
<1>4. found' \in [Tasks -> [Keys -> 0 .. MaxScans]]
  <2>1. CASE UNCHANGED found
    BY <2>1 DEF ReconcileTypeOK
  <2>2. ASSUME NEW t \in Tasks, Scan(t) PROVE found' \in [Tasks -> [Keys -> 0 .. MaxScans]]
    <3>1. scans' \in 0 .. MaxScans
      BY <1>3
    <3>2. PICK got : found' = [found EXCEPT ![t] =
                        [k \in Keys |-> IF k \in got /\ @[k] = 0 THEN scans' ELSE @[k]]]
      BY <2>2 DEF Scan
    <3>3. QED BY <3>1, <3>2 DEF ReconcileTypeOK
  <2>3. QED BY <2>1, <2>2 DEF QuietStep, Patched, Refresh, ReadRecords, Report, RunDies,
                              Reconcile, reconcileVars, es
<1>5. covered' \in [Tasks -> SUBSET Categories]
  <2>1. CASE UNCHANGED covered
    BY <2>1 DEF ReconcileTypeOK
  <2>2. ASSUME NEW t \in Tasks, Scan(t) PROVE covered' \in [Tasks -> SUBSET Categories]
    <3>1. PICK done \in SUBSET Categories : covered' = [covered EXCEPT ![t] = @ \union done]
      BY <2>2 DEF Scan
    <3>2. QED BY <3>1 DEF ReconcileTypeOK
  <2>3. QED BY <2>1, <2>2 DEF QuietStep, Patched, Refresh, ReadRecords, Report, RunDies,
                              Reconcile, reconcileVars, es
<1>6. clean' \subseteq Tasks
  BY DEF QuietStep, Patched, Refresh, Scan, ReadRecords, Report, RunDies, Reconcile,
         reconcileVars, es, ReconcileTypeOK
<1>7. shown' \in [Ids -> Docs] /\ Own(shown')
  <2>1. shown' \in {shown, vulns}
    BY DEF QuietStep, Patched, Refresh, Scan, ReadRecords, Report, RunDies, Reconcile,
           reconcileVars, es
  <2>2. QED BY <2>1 DEF ReconcileTypeOK, Docs, Owned
<1>8. read' \in [Tasks -> [Ids -> Docs]] /\ \A u \in Tasks : Own(read'[u])
  <2>1. \/ UNCHANGED read
        \/ \E t \in Tasks : read' = [read EXCEPT ![t] = shown] \/ read' = [read EXCEPT ![t] = Empty]
    BY DEF QuietStep, Patched, Refresh, Scan, ReadRecords, Report, RunDies, Reconcile,
           reconcileVars, runState
  <2>2. QED BY <2>1, EmptyDocs, ZenonT(60) DEF ReconcileTypeOK, Docs, Owned
<1>9. events' \in 0 .. MaxEvents
  <2>1. UNCHANGED events \/ (events < MaxEvents /\ events' = events + 1)
    BY DEF QuietStep, Patched, Refresh, Scan, ReadRecords, Report, RunDies, Reconcile,
           reconcileVars, NoFault, Disruption
  <2>2. QED BY <2>1, ReconcileAssumption DEF ReconcileTypeOK
<1>10. ReconcileTypeOK'
  BY <1>1, <1>2, <1>3, <1>4, <1>5, <1>6, <1>7, <1>8, <1>9 DEF ReconcileTypeOK, Docs, past
<1>11. Owned'
  BY <1>2, <1>7, <1>8 DEF Owned, Own
<1>12. QED BY <1>10, <1>11

LEMMA QuietKeeps ==
  ASSUME RecordsInd, QuietStep
  PROVE  RecordsInd'
<1>1. ReconcileTypeOK' /\ Owned'
  BY QuietTypes DEF RecordsInd
<1>2. UNCHANGED <<vulns, past, mine>>
  BY DEF QuietStep, Patched, Refresh, Scan, ReadRecords, Report, RunDies, reconcileVars, es,
         runState
<1>3. \A u \in Tasks : /\ pc[u] = "done" => pc'[u] = "done"
                       /\ pc'[u] \in {"report", "done"} => pc[u] \in {"report", "done"}
  BY QuietRuns DEF RecordsInd
<1>4. AtMostOne' /\ NoTimes' /\ HistoryKept' /\ LedgerAgrees'
  BY <1>2 DEF RecordsInd, AtMostOne, NoTimes, HistoryKept, LedgerAgrees, Copies, Live, past
<1>5. MineKept'
  BY <1>2, <1>3, IdShape DEF RecordsInd, ReconcileTypeOK, MineKept, Live, past
<1>6. Rated'
  BY <1>2, <1>3 DEF RecordsInd, Rated, Live, past
<1>7. QED BY <1>1, <1>4, <1>5, <1>6 DEF RecordsInd

-----------------------------------------------------------------------------
(* The bulk request of a reconciliation *)

\* The request has been carried out, whatever its answer.
Written(t) ==
  /\ Reconcile(t) /\ vulns' = Bulk(t) /\ Judged(t)
  /\ mine' = [mine EXCEPT ![t] = {IdFor(t, k) : k \in Reported(t)}]

LEMMA ReconciledTyped ==
  ASSUME ReconcileTypeOK, NEW t \in Tasks, NEW k \in Keys
  PROVE  Reconciled(t, k) \in [status : VulnStatuses \union {"absent"}, times : SUBSET Times]
<1>1. ledger[k] \in [status : VulnStatuses \union {"absent"}, times : SUBSET Times]
  BY DEF ReconcileTypeOK
<1>2. k \in Reported(t) => found[t][k] \in Times
  BY ReconcileAssumption DEF Reported, ReconcileTypeOK, Times
<1>3. {"open", "fixed"} \subseteq VulnStatuses
  BY DEF VulnStatuses
<1>4. CASE k \in Reported(t)
  BY <1>1, <1>2, <1>3, <1>4 DEF Reconciled
<1>5. CASE k \notin Reported(t)
  <2>1. [ledger[k] EXCEPT !.status = "fixed"]
          \in [status : VulnStatuses \union {"absent"}, times : SUBSET Times]
    BY <1>1, <1>3
  <2>2. QED BY <1>1, <1>5, <2>1 DEF Reconciled
<1>6. QED BY <1>4, <1>5

LEMMA WrittenRuns ==
  ASSUME ReconcileTypeOK, NEW t \in Tasks, Written(t)
  PROVE  /\ tries' \in [Tasks -> 1 .. MaxDelivery]
         /\ pc' \in [Tasks -> {"scan", "read", "write", "analyse", "report", "done", "dead"}]
         /\ pc[t] = "write" /\ pc'[t] \in {"scan", "analyse", "dead"}
         /\ \A u \in Tasks \ {t} : pc'[u] = pc[u]
<1>1. pc[t] = "write" /\ (RunAgain(t) \/ (Proceed(t, "analyse") /\ UNCHANGED tries))
  BY DEF Written, Reconcile
<1>2. CASE RunAgain(t)
  BY <1>1, <1>2, RunAgainTyped
<1>3. CASE Proceed(t, "analyse") /\ UNCHANGED tries
  BY <1>1, <1>3 DEF Proceed, ReconcileTypeOK
<1>4. QED BY <1>1, <1>2, <1>3

LEMMA WrittenTypes ==
  ASSUME ReconcileTypeOK, Owned, NEW t \in Tasks, Written(t)
  PROVE  ReconcileTypeOK' /\ Owned'
<1>1. vulns' \in [Ids -> Docs] /\ Own(vulns')
  BY BulkTyped DEF Written
<1>2. ledger' \in [Keys -> [status : VulnStatuses \union {"absent"}, times : SUBSET Times]]
  BY ReconciledTyped DEF Written, Judged
<1>3. stale' \subseteq ever' /\ ever' \subseteq Keys
  <2>1. Outdated(t) \subseteq Keys
    BY IdShape DEF Outdated
  <2>2. QED BY <2>1 DEF Written, Judged, ReconcileTypeOK
<1>4. mine' \in [Tasks -> SUBSET Ids]
  <2>1. \A k \in Reported(t) : IdFor(t, k) \in Ids
    BY IdsOfKey DEF Reported
  <2>2. QED BY <2>1 DEF Written, ReconcileTypeOK
<1>5. read' \in [Tasks -> [Ids -> Docs]] /\ \A u \in Tasks : Own(read'[u])
  BY EmptyDocs DEF Written, Reconcile, ReconcileTypeOK, Docs, Owned
<1>6. events' \in 0 .. MaxEvents
  <2>1. UNCHANGED events \/ (events < MaxEvents /\ events' = events + 1)
    BY DEF Written, Reconcile, NoFault, Disruption
  <2>2. QED BY <2>1, ReconcileAssumption DEF ReconcileTypeOK
<1>7. UNCHANGED <<host, found, covered, shown, clean>>
  BY DEF Written, Reconcile
<1>8. /\ tries' \in [Tasks -> 1 .. MaxDelivery]
      /\ pc' \in [Tasks -> {"scan", "read", "write", "analyse", "report", "done", "dead"}]
  BY WrittenRuns
<1>9. ReconcileTypeOK'
  BY <1>1, <1>2, <1>3, <1>4, <1>5, <1>6, <1>7, <1>8
     DEF ReconcileTypeOK, Docs, host, Written, Judged
<1>10. Owned'
  BY <1>1, <1>5, <1>7 DEF Owned
<1>11. QED BY <1>9, <1>10

\* What the request makes of a key that is as the task has read it and, unless
\* it is about to be put right, has one record.
LEMMA WrittenKey ==
  ASSUME RecordsInd, NEW t \in Tasks, Written(t), NEW k \in Keys \ ever'
  PROVE  /\ k \in Keys \ Outdated(t) /\ k \notin ever /\ k \notin stale
         /\ ledger'[k] = Reconciled(t, k)
         /\ KeyBulked(t, k, Copies(vulns, k), Copies(vulns', k))
         /\ \A i \in Copies(vulns, k) : Copies(vulns, k) = {i} /\ Copies(vulns', k) = {i}
<1>1. k \in Keys \ Outdated(t) /\ k \notin ever /\ k \notin stale /\ ledger'[k] = Reconciled(t, k)
  BY DEF Written, Judged, RecordsInd, ReconcileTypeOK
<1>2. KeyBulked(t, k, Copies(vulns, k), Copies(vulns', k))
  BY <1>1, BulkOfKey DEF Written, RecordsInd
<1>3. \A i, j \in Copies(vulns, k) : i = j
  BY <1>1 DEF RecordsInd, AtMostOne
<1>4. QED BY <1>1, <1>2, <1>3 DEF KeyBulked

LEMMA WrittenLedger ==
  ASSUME RecordsInd, NEW t \in Tasks, Written(t), NEW k \in Keys \ ever'
  PROVE  /\ Copies(vulns', k) = {} <=> ledger'[k].status = "absent"
         /\ \A i \in Copies(vulns', k) :
              /\ vulns'[i].status = ledger'[k].status
              /\ ledger'[k].times = {vulns'[i].at} \union vulns'[i].history
<1> DEFINE copies == Copies(vulns, k)
<1>1. /\ k \in Keys \ Outdated(t) /\ k \notin ever /\ ledger'[k] = Reconciled(t, k)
      /\ KeyBulked(t, k, copies, Copies(vulns', k))
      /\ \A i \in copies : copies = {i} /\ Copies(vulns', k) = {i}
      /\ vulns' = Bulk(t)
  BY WrittenKey DEF Written
<1>2. /\ copies = {} <=> ledger[k].status = "absent"
      /\ \A i \in copies : vulns[i].status = ledger[k].status
      /\ \A i \in copies : ledger[k].times = {vulns[i].at} \union vulns[i].history
      /\ ledger[k].status = "absent" => ledger[k].times = {}
  BY <1>1 DEF RecordsInd, LedgerAgrees, HistoryKept, NoTimes
<1>3. /\ copies = Copies(read[t], k)
      /\ \A i \in copies : read[t][i].at = vulns[i].at /\ read[t][i].history = vulns[i].history
  BY <1>1, BulkOfKey DEF RecordsInd
<1>4. ledger[k] \in [status : VulnStatuses \union {"absent"}, times : SUBSET Times]
  BY DEF RecordsInd, ReconcileTypeOK
<1> HIDE DEF copies
<1>5. CASE k \in Reported(t)
  <2>1. ledger'[k].status = "open" /\ ledger'[k].times = ledger[k].times \union {found[t][k]}
    BY <1>1, <1>5 DEF Reconciled
  <2>2. CASE copies = {}
    BY <1>1, <1>2, <1>5, <2>1, <2>2 DEF KeyBulked
  <2>3. CASE copies # {}
    <3>1. PICK c \in copies : copies = {c} /\ Copies(vulns', k) = {c}
      BY <1>1, <2>3
    <3>2. Canonical(read[t], k) = c
      BY <1>1, <2>3, <3>1 DEF KeyBulked
    <3>3. vulns'[c].status = "open" /\ vulns'[c].at = found[t][k] /\ vulns'[c].history = History(t, k)
      BY <1>1, <1>5, <2>3, <3>1 DEF KeyBulked
    <3>4. History(t, k) = ({vulns[c].at} \union vulns[c].history) \ {found[t][k]}
      <4>1. {read[t][i].at : i \in Copies(read[t], k)} = {vulns[c].at}
        BY <1>3, <3>1
      <4>2. read[t][c].history = vulns[c].history
        BY <1>3, <3>1
      <4>3. QED BY <3>2, <4>1, <4>2 DEF History
    <3>5. ledger'[k].times = {vulns'[c].at} \union vulns'[c].history
      BY <1>2, <2>1, <3>1, <3>3, <3>4
    <3>6. QED BY <2>1, <3>1, <3>3, <3>5
  <2>4. QED BY <2>2, <2>3
<1>6. CASE k \notin Reported(t)
  <2>1. CASE copies = {}
    BY <1>1, <1>2, <1>6, <2>1 DEF KeyBulked, Reconciled
  <2>2. CASE copies # {}
    <3>1. PICK c \in copies : copies = {c} /\ Copies(vulns', k) = {c}
      BY <1>1, <2>2
    <3>2. /\ vulns'[c].at = vulns[c].at /\ vulns'[c].history = vulns[c].history
          /\ vulns'[c].status = IF vulns[c].status = "open" /\ Category(k) \in covered[t]
                                THEN "fixed" ELSE vulns[c].status
      BY <1>1, <1>6, <2>2, <3>1 DEF KeyBulked
    <3>3. /\ ledger'[k].times = ledger[k].times
          /\ ledger'[k].status = IF ledger[k].status = "open" /\ Category(k) \in covered[t]
                                 THEN "fixed" ELSE ledger[k].status
      BY <1>1, <1>4, <1>6 DEF Reconciled
    <3>4. QED BY <1>2, <2>2, <3>1, <3>2, <3>3
  <2>3. QED BY <2>1, <2>2
<1>7. QED BY <1>5, <1>6

LEMMA WrittenKeeps ==
  ASSUME RecordsInd, NEW t \in Tasks, Written(t)
  PROVE  RecordsInd'
<1>1. ReconcileTypeOK' /\ Owned'
  BY WrittenTypes DEF RecordsInd
<1>2. HistoryKept' /\ LedgerAgrees'
  BY WrittenLedger DEF HistoryKept, LedgerAgrees
<1>3. AtMostOne'
  <2>1. ASSUME NEW k \in Keys \ stale' PROVE \A i, j \in Copies(vulns', k) : i = j
    <3>1. k \in Keys \ Outdated(t) /\ vulns' = Bulk(t)
      BY <2>1 DEF Written, Judged
    <3>2. KeyBulked(t, k, Copies(vulns, k), Copies(vulns', k))
      BY <3>1, BulkOfKey DEF RecordsInd
    <3>3. QED BY <3>2 DEF KeyBulked
  <2>2. QED BY <2>1 DEF AtMostOne
<1>4. NoTimes'
  <2>1. ASSUME NEW k \in Keys, Reconciled(t, k).status = "absent"
        PROVE  Reconciled(t, k).times = {}
    <3>1. /\ ledger[k] \in [status : VulnStatuses \union {"absent"}, times : SUBSET Times]
          /\ ledger[k].status = "absent" => ledger[k].times = {}
      BY DEF RecordsInd, ReconcileTypeOK, NoTimes
    <3>2. QED BY <2>1, <3>1 DEF Reconciled
  <2>2. QED BY <2>1 DEF NoTimes, Written, Judged
<1>5. /\ pc[t] = "write" /\ pc'[t] \notin {"report", "done"}
      /\ \A u \in Tasks \ {t} : pc'[u] = pc[u] /\ mine'[u] = mine[u]
      /\ mine'[t] = {IdFor(t, k) : k \in Reported(t)} /\ mine \in [Tasks -> SUBSET Ids]
  BY WrittenRuns DEF Written, RecordsInd, ReconcileTypeOK
<1>6. ASSUME NEW u \in Tasks, NEW i \in mine'[u], KeyOf(i) \notin ever'
      PROVE  i \in Live(vulns') \/ pc'[i[1]] = "done"
  <2> DEFINE k == KeyOf(i)
  <2>1. mine' \in [Tasks -> SUBSET Ids]
    BY <1>1 DEF ReconcileTypeOK
  <2>2. i \in Ids /\ i[1] \in Tasks /\ k \in Keys \ ever'
    BY <1>6, <2>1, IdShape
  <2>3. /\ k \notin ever /\ k \notin Outdated(t)
        /\ KeyBulked(t, k, Copies(vulns, k), Copies(vulns', k))
        /\ \A j \in Copies(vulns, k) : Copies(vulns', k) = {j}
    BY <2>2, WrittenKey
  <2>4. CASE u = t
    <3>1. PICK j \in Reported(t) : i = IdFor(t, j)
      BY <1>5, <1>6, <2>4
    <3>2. j = k /\ k \in Reported(t)
      BY <3>1, IdsOfKey DEF Reported, RecordsInd
    <3>3. Copies(vulns, k) = Copies(read[t], k)
      BY <2>2, <2>3, BulkOfKey DEF RecordsInd
    <3>4. i \in Copies(vulns', k)
      BY <2>2, <2>3, <3>1, <3>2, <3>3, IdsOfKey DEF KeyBulked, RecordsInd
    <3>5. QED BY <3>4 DEF Copies
  <2>5. CASE u # t
    <3>1. i \in Live(vulns) \/ pc[i[1]] = "done"
      BY <1>5, <1>6, <2>3, <2>5 DEF RecordsInd, MineKept
    <3>2. CASE pc[i[1]] = "done"
      BY <1>5, <2>2, <3>2
    <3>3. CASE i \in Live(vulns)
      <4>1. i \in Copies(vulns, k)
        BY <3>3 DEF Copies
      <4>2. QED BY <2>3, <4>1 DEF Copies
    <3>4. QED BY <3>1, <3>2, <3>3
  <2>6. QED BY <2>4, <2>5
<1>7. MineKept'
  BY <1>6 DEF MineKept
<1>8. ASSUME NEW u \in Tasks, pc'[u] \in {"report", "done"}, NEW i \in mine'[u] \intersect Live(vulns'),
             KeyOf(i) \notin ever', i \notin unwritten'
      PROVE  vulns'[i].ai # "none"
  <2> DEFINE k == KeyOf(i)
  <2>1. u # t /\ pc[u] \in {"report", "done"} /\ i \in mine[u] /\ i \notin unwritten
    BY <1>5, <1>8 DEF Written, Judged
  <2>2. i \in Ids /\ i[1] \in Tasks /\ k \in Keys \ ever' /\ i = <<i[1], k>>
    BY <1>8, IdShape DEF Live
  <2>3. /\ k \notin ever
        /\ KeyBulked(t, k, Copies(vulns, k), Copies(vulns', k))
        /\ \A j \in Copies(vulns, k) : Copies(vulns', k) = {j}
    BY <2>2, WrittenKey
  <2>4. i \in Copies(vulns', k)
    BY <1>8 DEF Copies
  <2>5. CASE Copies(vulns, k) = {}
    <3>1. i = <<t, k>> /\ i[1] = t
      BY <2>3, <2>4, <2>5 DEF KeyBulked
    <3>2. i \notin Live(vulns)
      BY <2>5 DEF Copies
    <3>3. QED BY <1>5, <2>1, <2>3, <3>1, <3>2 DEF RecordsInd, MineKept
  <2>6. CASE Copies(vulns, k) # {}
    <3>1. i \in Copies(vulns, k) /\ vulns'[i].ai = vulns[i].ai
      BY <2>3, <2>4, <2>6 DEF KeyBulked, Written
    <3>2. vulns[i].ai # "none"
      BY <2>1, <2>3, <3>1 DEF RecordsInd, Rated, Copies
    <3>3. QED BY <3>1, <3>2
  <2>7. QED BY <2>5, <2>6
<1>9. Rated'
  BY <1>8 DEF Rated
<1>10. QED BY <1>1, <1>2, <1>3, <1>4, <1>7, <1>9 DEF RecordsInd

-----------------------------------------------------------------------------
(* Ratings, decisions and deletions *)

WithRating(doc, v) == [doc EXCEPT !.ai = v]

LEMMA RatedIsRecord ==
  ASSUME NEW doc \in Record, NEW v \in {"rated", "awaiting"}
  PROVE  LET d == WithRating(doc, v)
         IN /\ d \in Record /\ d # Nothing /\ d.ai = v /\ d.status = doc.status /\ d.at = doc.at
            /\ d.history = doc.history /\ d.owner = doc.owner
<1> DEFINE d == WithRating(doc, v)
<1>1. /\ d \in Record /\ d.ai = v /\ d.status = doc.status /\ d.at = doc.at
      /\ d.history = doc.history /\ d.owner = doc.owner
  BY DEF Record, WithRating
<1>2. d # Nothing
  BY <1>1, DocFields DEF Docs, Nothing, Record, VulnStatuses
<1>3. QED BY <1>1, <1>2

\* What the two updates of llm_analysis make of one document.
LEMMA AnalysedDoc ==
  ASSUME NEW docs \in [Ids -> Docs], NEW rated, NEW rest, rated \intersect rest = {}, NEW i \in Ids
  PROVE  WriteFallback(WriteBack(docs, rated), rest)[i] =
           IF docs[i] # Nothing /\ i \in rated THEN WithRating(docs[i], "rated")
           ELSE IF docs[i] # Nothing /\ i \in rest THEN WithRating(docs[i], "awaiting")
           ELSE docs[i]
<1> DEFINE mid == WriteBack(docs, rated)
<1>1. mid[i] = IF docs[i] # Nothing /\ i \in rated THEN WithRating(docs[i], "rated") ELSE docs[i]
  BY DEF WriteBack, UpdateVulns, Live, WithRating
<1>2. docs[i] # Nothing => docs[i] \in Record
  BY DEF Docs
<1>3. mid[i] = Nothing <=> docs[i] = Nothing
  BY <1>1, <1>2, RatedIsRecord
<1> HIDE DEF mid
<1>4. WriteFallback(mid, rest)[i] =
        IF mid[i] # Nothing /\ i \in rest THEN WithRating(mid[i], "awaiting") ELSE mid[i]
  BY DEF WriteFallback, UpdateVulns, Live, WithRating
<1>5. QED BY <1>1, <1>3, <1>4 DEF mid

LEMMA AnalyseKeeps ==
  ASSUME RecordsInd, NEW t \in Tasks, Analyse(t)
  PROVE  RecordsInd'
<1>1. vulns \in [Ids -> Docs] /\ mine[t] \subseteq Ids /\ unwritten \subseteq Ids
  BY DEF RecordsInd, ReconcileTypeOK, Docs
<1>0. PICK ids : ids = mine[t]
  OBVIOUS
<1>2. PICK rated, lost, rest :
        /\ rated \subseteq ids /\ lost \subseteq ids /\ lost \intersect rated = {} /\ rest = ids \ (rated \union lost)
        /\ vulns' = WriteFallback(WriteBack(vulns, rated), rest)
        /\ unwritten' = (unwritten \ ids) \union lost
        /\ NoFault \/ Disruption
  BY <1>0 DEF Analyse
<1>3. vulns' = [i \in Ids |-> vulns'[i]]
  BY <1>2 DEF WriteFallback, UpdateVulns
<1>4. ASSUME NEW i \in Ids
      PROVE  /\ vulns'[i] \in Docs /\ (vulns'[i] = Nothing <=> vulns[i] = Nothing)
             /\ vulns'[i].status = vulns[i].status /\ vulns'[i].at = vulns[i].at
             /\ vulns'[i].history = vulns[i].history /\ vulns'[i].owner = vulns[i].owner
             /\ vulns'[i].ai = vulns[i].ai \/ vulns'[i].ai # "none"
             /\ vulns[i] # Nothing /\ i \in mine[t] \ unwritten' => vulns'[i].ai # "none"
  <2>0. rated \intersect rest = {}
    BY <1>2
  <2>1. vulns'[i] = IF vulns[i] # Nothing /\ i \in rated THEN WithRating(vulns[i], "rated")
                    ELSE IF vulns[i] # Nothing /\ i \in rest THEN WithRating(vulns[i], "awaiting")
                    ELSE vulns[i]
    BY <1>1, <1>2, <2>0, AnalysedDoc
  <2>2. vulns[i] # Nothing => vulns[i] \in Record
    BY <1>1 DEF Docs
  <2>3. CASE vulns[i] = Nothing \/ i \notin rated \union rest
    <3>1. vulns'[i] = vulns[i]
      BY <2>1, <2>3
    <3>2. vulns[i] # Nothing /\ i \in mine[t] => i \in unwritten'
      BY <1>0, <1>2, <2>3
    <3>3. QED BY <1>1, <3>1, <3>2
  <2>4. CASE vulns[i] # Nothing /\ i \in rated \union rest
    BY <2>1, <2>2, <2>4, RatedIsRecord DEF Docs
  <2>5. QED BY <2>3, <2>4
<1>5. /\ pc[t] = "analyse" /\ pc' = [pc EXCEPT ![t] = "report"]
      /\ UNCHANGED <<host, found, covered, shown, clean, read, mine, tries, ledger, stale, ever>>
  BY DEF Analyse, Proceed
<1>6. vulns' \in [Ids -> Docs] /\ Own(vulns')
  BY <1>3, <1>4 DEF RecordsInd, Owned, Own
<1>7. ReconcileTypeOK' /\ Owned'
  <2>1. events' \in 0 .. MaxEvents
    BY <1>2, ReconcileAssumption DEF RecordsInd, ReconcileTypeOK, NoFault, Disruption
  <2>2. unwritten' \subseteq Ids
    BY <1>0, <1>1, <1>2
  <2>3. QED BY <1>5, <1>6, <2>1, <2>2 DEF RecordsInd, ReconcileTypeOK, Owned, Docs, host
<1>8. Live(vulns') = Live(vulns)
  BY <1>4 DEF Live
<1>9. \A k : Copies(vulns', k) = Copies(vulns, k)
  BY <1>8 DEF Copies
<1>10. \A k : \A i \in Copies(vulns, k) : i \in Ids
  BY DEF Copies, Live
<1>11. AtMostOne' /\ NoTimes'
  BY <1>5, <1>9 DEF RecordsInd, AtMostOne, NoTimes
<1>12. HistoryKept' /\ LedgerAgrees'
  BY <1>4, <1>5, <1>9, <1>10 DEF RecordsInd, HistoryKept, LedgerAgrees
<1>13. \A u \in Tasks : /\ u # t => pc'[u] = pc[u]
                        /\ pc[u] = "done" => pc'[u] = "done"
  BY <1>5 DEF RecordsInd, ReconcileTypeOK
<1>14. MineKept'
  BY <1>5, <1>8, <1>13, IdShape DEF RecordsInd, ReconcileTypeOK, MineKept
<1>15. Rated'
  <2>1. ASSUME NEW u \in Tasks, pc'[u] \in {"report", "done"},
               NEW i \in mine[u] \intersect Live(vulns), KeyOf(i) \notin ever, i \notin unwritten'
        PROVE  vulns'[i].ai # "none"
    <3>1. i \in Ids /\ vulns[i] # Nothing
      BY <2>1 DEF Live
    <3>2. CASE i \in mine[t]
      BY <1>4, <2>1, <3>1, <3>2
    <3>3. CASE i \notin mine[t]
      <4>1. u # t /\ i \notin unwritten
        BY <1>0, <1>2, <2>1, <3>3
      <4>2. QED BY <1>4, <1>13, <2>1, <3>1, <4>1 DEF RecordsInd, Rated
    <3>4. QED BY <3>2, <3>3
  <2>2. QED BY <1>5, <1>8, <2>1 DEF Rated
<1>16. QED BY <1>7, <1>11, <1>12, <1>14, <1>15 DEF RecordsInd

LEMMA DecideKeeps ==
  ASSUME RecordsInd, NEW d \in Ids, NEW status \in VulnStatuses, Decide(d, status)
  PROVE  RecordsInd'
<1>1. /\ vulns[d] # Nothing /\ vulns' = [vulns EXCEPT ![d].status = status]
      /\ ledger' = [ledger EXCEPT ![KeyOf(d)].status = status]
      /\ UNCHANGED <<host, found, covered, shown, clean, pc, read, mine, tries, stale, ever, unwritten>>
      /\ events < MaxEvents /\ events' = events + 1
  BY DEF Decide, Act, Disruption, runState
<1>2. vulns \in [Ids -> Docs] /\ vulns[d] \in Record
  BY <1>1 DEF RecordsInd, ReconcileTypeOK, Docs
<1>3. ASSUME NEW i \in Ids
      PROVE  /\ vulns'[i] \in Docs /\ (vulns'[i] = Nothing <=> vulns[i] = Nothing)
             /\ vulns'[i].at = vulns[i].at /\ vulns'[i].history = vulns[i].history
             /\ vulns'[i].owner = vulns[i].owner /\ vulns'[i].ai = vulns[i].ai
             /\ vulns'[i].status = IF i = d THEN status ELSE vulns[i].status
  <2>1. CASE i # d
    BY <1>1, <1>2, <2>1
  <2>2. CASE i = d
    <3>1. vulns'[i] = [vulns[d] EXCEPT !.status = status]
      BY <1>1, <1>2, <2>2
    <3>2. [vulns[d] EXCEPT !.status = status] \in Record
      BY <1>2, FixedIsRecord
    <3>3. vulns'[i] # Nothing
      BY <3>1, <3>2, DocFields DEF Docs, Nothing, Record, VulnStatuses
    <3>4. QED BY <1>1, <1>2, <2>2, <3>1, <3>2, <3>3, FixedIsRecord DEF Docs
  <2>3. QED BY <2>1, <2>2
<1>4. vulns' \in [Ids -> Docs] /\ Own(vulns')
  BY <1>1, <1>2, <1>3 DEF RecordsInd, Owned, Own
<1>5. ledger \in [Keys -> [status : VulnStatuses \union {"absent"}, times : SUBSET Times]]
  BY DEF RecordsInd, ReconcileTypeOK
<1>6. \A k \in Keys : /\ ledger'[k] \in [status : VulnStatuses \union {"absent"}, times : SUBSET Times]
                      /\ ledger'[k].times = ledger[k].times
                      /\ ledger'[k].status = IF k = KeyOf(d) THEN status ELSE ledger[k].status
  BY <1>1, <1>5
<1>7. ledger' \in [Keys -> [status : VulnStatuses \union {"absent"}, times : SUBSET Times]]
  BY <1>1, <1>5, <1>6
<1>8. events' \in 0 .. MaxEvents
  BY <1>1, ReconcileAssumption DEF RecordsInd, ReconcileTypeOK
<1>9. ReconcileTypeOK' /\ Owned'
  BY <1>1, <1>4, <1>7, <1>8 DEF RecordsInd, ReconcileTypeOK, Owned, Docs, host
<1>10. Live(vulns') = Live(vulns)
  BY <1>3 DEF Live
<1>11. \A k : Copies(vulns', k) = Copies(vulns, k)
  BY <1>10 DEF Copies
<1>12. \A k : \A i \in Copies(vulns, k) : i \in Ids /\ KeyOf(i) = k
  BY DEF Copies, Live
<1>13. d \in Copies(vulns, KeyOf(d))
  BY <1>1 DEF Copies, Live
<1>14. AtMostOne'
  BY <1>1, <1>11 DEF RecordsInd, AtMostOne
<1>15. NoTimes'
  BY <1>6 DEF RecordsInd, NoTimes, VulnStatuses
<1>16. HistoryKept'
  BY <1>1, <1>3, <1>6, <1>11, <1>12 DEF RecordsInd, HistoryKept
<1>17. LedgerAgrees'
  <2>1. ASSUME NEW k \in Keys \ ever
        PROVE  /\ Copies(vulns', k) = {} <=> ledger'[k].status = "absent"
               /\ \A i \in Copies(vulns', k) : vulns'[i].status = ledger'[k].status
    <3>1. /\ Copies(vulns, k) = {} <=> ledger[k].status = "absent"
          /\ \A i \in Copies(vulns, k) : vulns[i].status = ledger[k].status
      BY DEF RecordsInd, LedgerAgrees
    <3>2. CASE k # KeyOf(d)
      BY <1>3, <1>6, <1>11, <1>12, <3>1, <3>2
    <3>3. CASE k = KeyOf(d)
      <4>1. \A i \in Copies(vulns, k) : i = d
        BY <1>13, <3>3 DEF RecordsInd, ReconcileTypeOK, AtMostOne
      <4>2. QED BY <1>3, <1>6, <1>11, <1>13, <3>3, <4>1 DEF VulnStatuses
    <3>4. QED BY <3>2, <3>3
  <2>2. QED BY <1>1, <2>1 DEF LedgerAgrees
<1>18. MineKept'
  BY <1>1, <1>10 DEF RecordsInd, MineKept
<1>19. Rated'
  BY <1>1, <1>3, <1>10 DEF RecordsInd, Rated, Live
<1>20. QED BY <1>9, <1>14, <1>15, <1>16, <1>17, <1>18, <1>19 DEF RecordsInd

LEMMA DeleteTaskKeeps ==
  ASSUME RecordsInd, NEW t \in Tasks, DeleteTask(t)
  PROVE  RecordsInd'
<1>1. PICK gone : /\ \A i \in gone : i \in Ids /\ shown[i] # Nothing /\ shown[i].owner = {t}
                  /\ vulns' = [i \in Ids |-> IF i \in gone THEN Nothing ELSE vulns[i]]
  BY DEF DeleteTask, Live
<1>2. /\ pc[t] = "done" /\ UNCHANGED <<host, pc, read, mine, tries, stale, ever, unwritten>>
      /\ ledger' = [k \in Keys |-> IF Copies(vulns', k) = {} THEN Unknown ELSE ledger[k]]
      /\ events < MaxEvents /\ events' = events + 1
  BY DEF DeleteTask, Act, Disruption, runState
<1>3. \/ UNCHANGED <<shown, found, covered, clean>>
      \/ /\ shown' = vulns' /\ found' = [found EXCEPT ![t] = [k \in Keys |-> 0]]
         /\ covered' = [covered EXCEPT ![t] = {}] /\ clean' = clean \ {t}
  BY DEF DeleteTask
<1>4. \A i \in gone : i \in Ids /\ i[1] = t
  BY <1>1 DEF RecordsInd, Owned, Own
<1>5. \A i \in Ids : vulns'[i] = IF i \in gone THEN Nothing ELSE vulns[i]
  BY <1>1
<1>6. vulns' \in [Ids -> Docs] /\ Own(vulns')
  BY <1>1, <1>5 DEF RecordsInd, ReconcileTypeOK, Docs, Owned, Own
<1>7. shown' \in [Ids -> Docs] /\ Own(shown')
  BY <1>3, <1>6 DEF RecordsInd, ReconcileTypeOK, Docs, Owned
<1>8. found' \in [Tasks -> [Keys -> 0 .. MaxScans]]
  <2>1. [k \in Keys |-> 0] \in [Keys -> 0 .. MaxScans]
    BY ReconcileAssumption
  <2>2. found \in [Tasks -> [Keys -> 0 .. MaxScans]]
    BY DEF RecordsInd, ReconcileTypeOK
  <2>3. QED BY <1>3, <2>1, <2>2
<1>9. covered' \in [Tasks -> SUBSET Categories] /\ clean' \subseteq Tasks
  BY <1>3 DEF RecordsInd, ReconcileTypeOK
<1>10. ledger \in [Keys -> [status : VulnStatuses \union {"absent"}, times : SUBSET Times]]
  BY DEF RecordsInd, ReconcileTypeOK
<1>11. ledger' \in [Keys -> [status : VulnStatuses \union {"absent"}, times : SUBSET Times]]
  BY <1>2, <1>10 DEF Unknown
<1>12. events' \in 0 .. MaxEvents
  BY <1>2, ReconcileAssumption DEF RecordsInd, ReconcileTypeOK
<1>13. ReconcileTypeOK'
  BY <1>2, <1>6, <1>7, <1>8, <1>9, <1>11, <1>12 DEF RecordsInd, ReconcileTypeOK, Docs, host
<1>14. Owned'
  BY <1>2, <1>6, <1>7 DEF RecordsInd, Owned
<1>15. /\ Live(vulns') \subseteq Live(vulns)
       /\ \A i \in Live(vulns') : vulns'[i] = vulns[i] /\ i \in Ids
       /\ \A i \in Live(vulns) : i \notin Live(vulns') => i \in gone
  BY <1>5 DEF Live
<1>16. \A k : /\ Copies(vulns', k) \subseteq Copies(vulns, k)
              /\ \A i \in Copies(vulns', k) : vulns'[i] = vulns[i]
  BY <1>15 DEF Copies
<1>17. AtMostOne'
  BY <1>2, <1>16 DEF RecordsInd, AtMostOne
<1>18. \A k \in Keys : ledger'[k] = IF Copies(vulns', k) = {} THEN Unknown ELSE ledger[k]
  BY <1>2
<1>19. NoTimes'
  BY <1>18 DEF RecordsInd, NoTimes, Unknown
<1>20. HistoryKept'
  BY <1>2, <1>16, <1>18 DEF RecordsInd, HistoryKept
<1>21. LedgerAgrees'
  <2>1. ASSUME NEW k \in Keys \ ever
        PROVE  /\ Copies(vulns', k) = {} <=> ledger'[k].status = "absent"
               /\ \A i \in Copies(vulns', k) : vulns'[i].status = ledger'[k].status
    <3>1. /\ Copies(vulns, k) = {} <=> ledger[k].status = "absent"
          /\ \A i \in Copies(vulns, k) : vulns[i].status = ledger[k].status
      BY DEF RecordsInd, LedgerAgrees
    <3>2. CASE Copies(vulns', k) = {}
      BY <1>18, <3>2 DEF Unknown
    <3>3. CASE Copies(vulns', k) # {}
      BY <1>16, <1>18, <3>1, <3>3
    <3>4. QED BY <3>2, <3>3
  <2>2. QED BY <1>2, <2>1 DEF LedgerAgrees
<1>22. MineKept'
  <2>1. ASSUME NEW u \in Tasks, NEW i \in mine[u], KeyOf(i) \notin ever
        PROVE  i \in Live(vulns') \/ pc[i[1]] = "done"
    BY <1>2, <1>4, <1>15, <2>1 DEF RecordsInd, MineKept
  <2>2. QED BY <1>2, <2>1 DEF MineKept
<1>23. Rated'
  BY <1>2, <1>15 DEF RecordsInd, Rated
<1>24. QED BY <1>13, <1>14, <1>17, <1>19, <1>20, <1>21, <1>22, <1>23 DEF RecordsInd

-----------------------------------------------------------------------------
(* The records of a host *)

LEMMA RecordsStart == ReconcileInit => RecordsInd
<1> SUFFICES ASSUME ReconcileInit PROVE RecordsInd
  OBVIOUS
<1>1. \A k : Copies(Empty, k) = {}
  BY DEF Copies, Live, Empty
<1>2. ReconcileTypeOK
  <2>1. /\ scans \in 0 .. MaxScans /\ events \in 0 .. MaxEvents
        /\ tries \in [Tasks -> 1 .. MaxDelivery]
        /\ found \in [Tasks -> [Keys -> 0 .. MaxScans]]
    BY ReconcileAssumption DEF ReconcileInit
  <2>2. /\ vulns \in [Ids -> Docs] /\ shown \in [Ids -> Docs]
        /\ read \in [Tasks -> [Ids -> Docs]]
    BY EmptyDocs DEF ReconcileInit
  <2>3. ledger \in [Keys -> [status : VulnStatuses \union {"absent"}, times : SUBSET Times]]
    BY DEF ReconcileInit, Unknown
  <2>4. QED BY <2>1, <2>2, <2>3 DEF ReconcileInit, ReconcileTypeOK, Docs
<1>3. AtMostOne /\ HistoryKept /\ LedgerAgrees
  BY <1>1 DEF ReconcileInit, AtMostOne, HistoryKept, LedgerAgrees, Unknown
<1>4. NoTimes /\ MineKept /\ Rated
  BY DEF ReconcileInit, NoTimes, MineKept, Rated, Unknown
<1>5. Owned
  BY EmptyDocs DEF ReconcileInit, Owned
<1>6. QED BY <1>2, <1>3, <1>4, <1>5 DEF RecordsInd

LEMMA RecordsStep == RecordsInd /\ [ReconcileNext]_reconcileVars => RecordsInd'
<1> SUFFICES ASSUME RecordsInd, [ReconcileNext]_reconcileVars PROVE RecordsInd'
  OBVIOUS
<1>1. CASE QuietStep
  BY <1>1, QuietKeeps
<1>2. ASSUME NEW t \in Tasks, Reconcile(t), ~QuietStep PROVE RecordsInd'
  <2>1. Written(t)
    BY <1>2 DEF Reconcile, QuietStep, Written
  <2>2. QED BY <2>1, WrittenKeeps
<1>3. ASSUME NEW t \in Tasks, Analyse(t) \/ DeleteTask(t) PROVE RecordsInd'
  BY <1>3, AnalyseKeeps, DeleteTaskKeeps
<1>4. ASSUME NEW i \in Ids, NEW s \in VulnStatuses, Decide(i, s) PROVE RecordsInd'
  BY <1>4, DecideKeeps
<1>5. QED BY <1>1, <1>2, <1>3, <1>4 DEF ReconcileNext, QuietStep

LEMMA RecordsAlways == ReconcileSpec => []RecordsInd
<1>1. QED BY RecordsStart, RecordsStep, PTL DEF ReconcileSpec

LEMMA RecordsImplied == RecordsInd => ReconcileInv
<1> SUFFICES ASSUME RecordsInd PROVE ReconcileInv
  OBVIOUS
<1>1. ReconcileTypeOK /\ HistoryKept
  BY DEF RecordsInd
<1>2. OneRecord
  <2>1. ASSUME NEW k \in Keys \ stale PROVE Cardinality(Copies(vulns, k)) <= 1
    <3>1. CASE Copies(vulns, k) = {}
      BY <3>1, FS_EmptySet
    <3>2. CASE Copies(vulns, k) # {}
      <4>1. PICK c \in Copies(vulns, k) : Copies(vulns, k) = {c}
        BY <3>2 DEF RecordsInd, AtMostOne
      <4>2. QED BY <4>1, FS_Singleton
    <3>3. QED BY <3>1, <3>2
  <2>2. QED BY <2>1 DEF OneRecord
<1>3. NoBlankRating
  BY DEF RecordsInd, Rated, NoBlankRating
<1>4. QED BY <1>1, <1>2, <1>3 DEF ReconcileInv

\* What list_vulns_all, the bulk update of aggregate, the ratings and the
\* operators' calls make of a host's records, however the runs of its tasks
\* overlap: one record of a vulnerability unless a task wrote from an outdated
\* read, its detection times, and a rating or a fallback at the end.
THEOREM ReconcileInvHolds == ReconcileSpec => []ReconcileInv
<1>1. QED BY RecordsAlways, RecordsImplied, PTL

\* Where no task has written from an outdated read, the records are what the
\* scans, decisions (PATCH /vulns/{id}) and deletions of tasks make of them,
\* taken one at a time.
THEOREM LedgerAgreesHolds == ReconcileSpec => []LedgerAgrees
<1>1. RecordsInd => LedgerAgrees
  BY DEF RecordsInd
<1>2. QED BY <1>1, RecordsAlways, PTL

-----------------------------------------------------------------------------
(* Calls, queue and rescan loops *)

\* A batch that has not been answered in full is queued, or its task is marked
\* or about to be, or it is one of those that may be missing.
Kept(t, b) ==
  \/ <<t, b>> \in excused \/ retry[t][b] > 0 \/ t \in outcome
  \/ \E e \in ScanEngines : loop[e].pc = "mark" /\ loop[e].task = t

\* Of a round: batches whose call is over, and those whose call may still fail.
Passed(r, b) == r.pc # "idle" /\ (b < r.batch \/ (b = r.batch /\ r.pc = "return"))
Ahead(r, b)  == r.pc # "idle" /\ (r.batch < b \/ (b = r.batch /\ r.pc \in {"next", "call"}))

PassedKept ==
  \A t \in Scans, b \in Parts :
    records[t] = "own" /\ Passed(analysis[t], b) /\ b \notin analysis[t].answered => Kept(t, b)
AwaitingKept ==
  \A t \in Scans, b \in Parts : records[t] = "own" /\ ai[t][b] = "awaiting" => Kept(t, b)

\* A batch fails at most once a round, and is queued as often as it has failed
\* at most.
FailedOf(r, queued, failed, handed, b) ==
  /\ queued <= failed /\ failed <= handed
  /\ Ahead(r, b) => failed < handed
  /\ r.pc = "enqueue" /\ r.batch = b => queued < failed
FailedInRounds ==
  \A t \in Scans, b \in Parts :
    FailedOf(analysis[t], retry[t][b], failures[t][b], rounds[t], b)

Places ==
  /\ \A t \in Scans : /\ analysis[t].pc = "write" => analysis[t].batch = Batches + 1
                      /\ analysis[t].pc = "enqueue" => analysis[t].batch \in Parts
  /\ \A e \in ScanEngines : loop[e].pc # "sleep" => loop[e].task \in Scans

\* What a loop has read of a task it is about to give up has failed too often.
DropsFairly ==
  \A e \in ScanEngines : loop[e].pc = "drop" =>
    \A b \in loop[e].entries : failures[loop[e].task][b] >= MaxAttempts

LlmInd ==
  /\ LlmTypeOK /\ CallsCounted /\ GivenUpFairly /\ DropsFairly
  /\ PassedKept /\ AwaitingKept /\ FailedInRounds /\ Places

Steps == {"idle", "next", "write"} \union Calls
Round == [pc : Steps, at : ScanEngines, batch : 1 .. Batches + 1, attempt : 1 .. Attempts,
          answered : SUBSET Parts]

LEMMA LlmNumbers ==
  /\ Batches \in Nat /\ Batches > 0 /\ Attempts \in Nat /\ Attempts > 0
  /\ MaxAttempts \in Nat /\ MaxAttempts > 0 /\ MaxRounds \in Nat /\ MaxLlmFaults \in Nat
  /\ Scans \subseteq Nat /\ IsFiniteSet(Scans) /\ ScanEngines # {}
BY LlmAssumption

LEMMA RestIsRound ==
  /\ Rest \in Round /\ Rest.pc = "idle" /\ Rest.batch = 1 /\ Rest.attempt = 1
  /\ Rest.answered = {}
<1>1. (CHOOSE e \in ScanEngines : TRUE) \in ScanEngines
  BY LlmNumbers
<1>2. 1 \in 1 .. Batches + 1 /\ 1 \in 1 .. Attempts
  BY LlmNumbers
<1>3. QED BY <1>1, <1>2 DEF Rest, Round, Steps

LEMMA RoundFields ==
  ASSUME LlmTypeOK, NEW t \in Scans
  PROVE  /\ analysis[t] \in Round /\ analysis[t].pc \in Steps /\ analysis[t].at \in ScanEngines
         /\ analysis[t].batch \in 1 .. Batches + 1 /\ analysis[t].attempt \in 1 .. Attempts
         /\ analysis[t].answered \in SUBSET Parts
BY DEF LlmTypeOK, Round, Steps

\* One task's round goes on.
LEMMA Advanced ==
  ASSUME LlmTypeOK, NEW t \in Scans, NEW r \in Round, analysis' = [analysis EXCEPT ![t] = r]
  PROVE  /\ analysis' \in [Scans -> Round] /\ analysis'[t] = r
         /\ \A u \in Scans \ {t} : analysis'[u] = analysis[u]
BY DEF LlmTypeOK, Round, Steps

LEMMA Moved ==
  ASSUME LlmTypeOK, NEW t \in Scans, NEW pc1 \in Steps, MoveTo(t, pc1)
  PROVE  /\ analysis' \in [Scans -> Round] /\ \A u \in Scans \ {t} : analysis'[u] = analysis[u]
         /\ analysis'[t].pc = pc1 /\ analysis'[t].at = analysis[t].at
         /\ analysis'[t].batch = analysis[t].batch /\ analysis'[t].attempt = analysis[t].attempt
         /\ analysis'[t].answered = analysis[t].answered
<1>1. analysis[t] \in Round
  BY RoundFields
<1> DEFINE r == [analysis[t] EXCEPT !.pc = pc1]
<1>2. /\ r \in Round /\ r.pc = pc1 /\ r.at = analysis[t].at /\ r.batch = analysis[t].batch
      /\ r.attempt = analysis[t].attempt /\ r.answered = analysis[t].answered
  BY <1>1 DEF Round
<1>3. analysis' = [analysis EXCEPT ![t] = r]
  BY DEF MoveTo
<1>4. QED BY <1>2, <1>3, Advanced

LEMMA CallsFinite ==
  ASSUME NEW S, S \subseteq Scans
  PROVE  IsFiniteSet(S) /\ Cardinality(S) \in Nat
BY LlmNumbers, FS_Subset, FS_CardinalityType

\* Steps that neither begin nor end a call.
LEMMA CountsStay ==
  ASSUME CallsCounted, UNCHANGED <<active, gauge, skewed>>,
         \A u \in Scans : /\ analysis'[u].pc \in Calls <=> analysis[u].pc \in Calls
                          /\ analysis[u].pc \in Calls => analysis'[u].at = analysis[u].at
  PROVE  CallsCounted'
<1>1. \A e \in ScanEngines : CallsOf(e)' = CallsOf(e)
  BY DEF CallsOf
<1>2. {u \in Scans : analysis'[u].pc \in Calls} = {u \in Scans : analysis[u].pc \in Calls}
  OBVIOUS
<1>3. QED BY <1>1, <1>2 DEF CallsCounted


LEMMA FaultsTyped ==
  ASSUME LlmTypeOK, Fine \/ LlmFault
  PROVE  llmFaults' \in 0 .. MaxLlmFaults
BY LlmNumbers DEF LlmTypeOK, Fine, LlmFault

Look == [pc : {"sleep", "remove", "drop", "mark"}, todo : SUBSET Scans,
         task : Scans \union {0}, entries : SUBSET Parts]

LEMMA LookFields ==
  ASSUME LlmTypeOK, NEW e \in ScanEngines
  PROVE  /\ loop[e] \in Look /\ loop[e].pc \in {"sleep", "remove", "drop", "mark"}
         /\ loop[e].todo \in SUBSET Scans /\ loop[e].entries \in SUBSET Parts
BY DEF LlmTypeOK, Look

LEMMA AsleepIsLook ==
  /\ Asleep \in Look /\ Asleep.pc = "sleep"
  /\ \A todo \in SUBSET Scans :
       [Asleep EXCEPT !.todo = todo] \in Look /\ [Asleep EXCEPT !.todo = todo].pc = "sleep"
BY DEF Asleep, Look

\* What a step of a loop, or the end of a key's time, comes to.
LoopResult ==
  /\ LoopFrame /\ llmFaults' \in 0 .. MaxLlmFaults
  /\ retry' \in [Scans -> [Parts -> 0 .. MaxRounds]]
  /\ \A t \in Scans, b \in Parts : retry'[t][b] <= retry[t][b]
  /\ outcome' \subseteq Scans /\ loop' \in [ScanEngines -> Look]
  /\ \A e \in ScanEngines : loop'[e].pc # "sleep" => loop'[e].task \in Scans
  /\ givenUp' \subseteq Scans \X Parts /\ swept' \subseteq Scans \X Parts
  /\ excused' \subseteq Scans \X Parts
  /\ GivenUpFairly' /\ DropsFairly'
  /\ \A t \in Scans, b \in Parts : records[t] = "own" /\ Kept(t, b) => Kept(t, b)'

LEMMA LoopResultKeeps ==
  ASSUME LlmInd, LoopResult
  PROVE  LlmInd'
<1>1. UNCHANGED <<analysis, rounds, records, ai, active, gauge, failures, skewed>>
  BY DEF LoopResult, LoopFrame, counts
<1>2. LlmTypeOK'
  BY <1>1 DEF LlmInd, LlmTypeOK, LoopResult, Look
<1>3. CallsCounted'
  BY <1>1, CountsStay DEF LlmInd
<1>4. PassedKept' /\ AwaitingKept'
  BY <1>1 DEF LlmInd, LoopResult, PassedKept, AwaitingKept
<1>5. FailedInRounds'
  <2>1. ASSUME NEW t \in Scans, NEW b \in Parts
        PROVE  FailedOf(analysis[t], retry'[t][b], failures[t][b], rounds[t], b)
    <3>1. /\ FailedOf(analysis[t], retry[t][b], failures[t][b], rounds[t], b)
          /\ retry'[t][b] <= retry[t][b]
      BY DEF LlmInd, FailedInRounds, LoopResult
    <3>2. retry'[t][b] \in Nat /\ retry[t][b] \in Nat /\ failures[t][b] \in Nat
      BY LlmNumbers DEF LlmInd, LlmTypeOK, LoopResult
    <3>3. QED BY <3>1, <3>2 DEF FailedOf
  <2>2. QED BY <1>1, <2>1 DEF FailedInRounds
<1>6. Places' /\ GivenUpFairly' /\ DropsFairly'
  BY <1>1 DEF LlmInd, Places, LoopResult
<1>7. QED BY <1>2, <1>3, <1>4, <1>5, <1>6 DEF LlmInd

\* A loop goes on, and is not about to give up a task.
LEMMA NoDrop ==
  ASSUME LlmInd, LoopFrame, NEW e \in ScanEngines, loop'[e].pc # "drop",
         \A f \in ScanEngines \ {e} : loop'[f] = loop[f]
  PROVE  DropsFairly'
BY DEF LlmInd, DropsFairly, LoopFrame

\* A loop that was not about to mark a task goes on.
LEMMA LoopMoves ==
  ASSUME LlmInd, NEW e \in ScanEngines, NEW l \in Look, loop' = [loop EXCEPT ![e] = l],
         l.pc # "sleep" => l.task \in Scans
  PROVE  /\ loop' \in [ScanEngines -> Look] /\ loop'[e] = l
         /\ \A f \in ScanEngines : loop'[f].pc # "sleep" => loop'[f].task \in Scans
         /\ \A f \in ScanEngines \ {e} : loop'[f] = loop[f]
BY DEF LlmInd, LlmTypeOK, Look, Places

LEMMA QueueTyped ==
  ASSUME LlmTypeOK
  PROVE  /\ retry \in [Scans -> [Parts -> 0 .. MaxRounds]]
         /\ failures \in [Scans -> [Parts -> 0 .. MaxRounds]]
         /\ givenUp \subseteq Scans \X Parts /\ swept \subseteq Scans \X Parts
         /\ excused \subseteq Scans \X Parts
         /\ outcome \subseteq Scans
         /\ \A t \in Scans, b \in Parts : retry[t][b] \in Nat /\ failures[t][b] \in Nat
BY LlmNumbers DEF LlmTypeOK

LEMMA ListPendingKeeps ==
  ASSUME LlmInd, NEW e \in ScanEngines, ListPending(e)
  PROVE  LoopResult
<1>1. PICK todo \in SUBSET Scans : loop' = [loop EXCEPT ![e].todo = todo]
  BY DEF ListPending
<1> DEFINE l == [loop[e] EXCEPT !.todo = todo]
<1>2. loop[e] \in Look /\ loop[e].pc = "sleep"
  BY LookFields DEF LlmInd, ListPending, Awake
<1>3. l \in Look /\ l.pc = "sleep" /\ loop' = [loop EXCEPT ![e] = l]
  BY <1>1, <1>2 DEF Look
<1> HIDE DEF l
<1>4. /\ LoopFrame /\ UNCHANGED <<retry, outcome, givenUp, swept, excused, llmFaults>>
  BY DEF ListPending, queues
<1>5. \A t \in Scans, b \in Parts : Kept(t, b) => Kept(t, b)'
  BY <1>2, <1>3, <1>4, LoopMoves DEF Kept
<1>6. GivenUpFairly' /\ DropsFairly'
  BY <1>2, <1>3, <1>4, LoopMoves, NoDrop DEF LlmInd, GivenUpFairly, LoopFrame
<1>7. /\ loop' \in [ScanEngines -> Look]
      /\ \A f \in ScanEngines : loop'[f].pc # "sleep" => loop'[f].task \in Scans
  BY <1>3, LoopMoves
<1>8. llmFaults' \in 0 .. MaxLlmFaults
  BY <1>4 DEF LlmInd, LlmTypeOK
<1>9. QED BY <1>4, <1>5, <1>6, <1>7, <1>8, QueueTyped DEF LlmInd, LoopResult

LEMMA RescanOneKeeps ==
  ASSUME LlmInd, NEW e \in ScanEngines, RescanOne(e)
  PROVE  LoopResult
<1> DEFINE t == Min(loop[e].todo)
<1>1. loop[e].todo \in SUBSET Scans /\ loop[e].todo # {} /\ loop[e].pc = "sleep"
  BY LookFields DEF LlmInd, RescanOne, Awake
<1>2. t \in Scans
  <2>1. \E m \in loop[e].todo : \A n \in loop[e].todo : m <= n
    BY <1>1, LlmNumbers, LeastNatural
  <2>2. QED BY <1>1, <2>1 DEF Min
<1>3. LoopFrame /\ UNCHANGED <<retry, outcome, givenUp, swept, excused>> /\ (Fine \/ LlmFault)
  BY DEF RescanOne, queues
<1> HIDE DEF t
<1>4. PICK pc1 \in {"sleep", "remove", "drop"}, batches \in SUBSET Parts :
        /\ loop' \in {[loop EXCEPT ![e] = Asleep],
                      [loop EXCEPT ![e] = [pc |-> pc1, todo |-> loop[e].todo \ {t}, task |-> t,
                                           entries |-> batches]]}
        /\ pc1 = "drop" => AllExhausted(t) /\ batches = Queued(t)
  BY DEF RescanOne, Queued, t
<1>5. PICK l \in Look : /\ loop' = [loop EXCEPT ![e] = l] /\ l.task \in Scans \union {0}
                        /\ l.pc # "sleep" => l.task = t
                        /\ l.pc = "drop" => AllExhausted(t) /\ l.entries = Queued(t)
  <2>1. [pc |-> pc1, todo |-> loop[e].todo \ {t}, task |-> t, entries |-> batches] \in Look
    BY <1>1, <1>2 DEF Look
  <2>2. QED BY <1>2, <1>4, <2>1, AsleepIsLook DEF Look
<1>6. /\ loop' \in [ScanEngines -> Look] /\ loop'[e] = l
      /\ \A f \in ScanEngines : loop'[f].pc # "sleep" => loop'[f].task \in Scans
      /\ \A f \in ScanEngines \ {e} : loop'[f] = loop[f]
  BY <1>2, <1>5, LoopMoves
<1>7. \A u \in Scans, b \in Parts : Kept(u, b) => Kept(u, b)'
  BY <1>1, <1>3, <1>6 DEF Kept
<1>8. GivenUpFairly'
  BY <1>3 DEF LlmInd, GivenUpFairly, LoopFrame
<1>9. ASSUME NEW b \in Queued(t), AllExhausted(t) PROVE failures[t][b] >= MaxAttempts
  <2>1. b \in Parts /\ retry[t][b] >= MaxAttempts
    BY <1>9 DEF AllExhausted, Queued
  <2>2. retry[t][b] <= failures[t][b]
    BY <1>2, <2>1 DEF LlmInd, FailedInRounds, FailedOf
  <2>3. QED BY <1>2, <2>1, <2>2, LlmNumbers, QueueTyped DEF LlmInd
<1>10. DropsFairly'
  <2>1. ASSUME NEW f \in ScanEngines, loop'[f].pc = "drop", NEW b \in loop'[f].entries
        PROVE  failures[loop'[f].task][b] >= MaxAttempts
    <3>1. CASE f = e
      BY <1>5, <1>6, <1>9, <2>1, <3>1
    <3>2. CASE f # e
      BY <1>6, <2>1, <3>2 DEF LlmInd, DropsFairly
    <3>3. QED BY <3>1, <3>2
  <2>2. QED BY <1>3, <2>1 DEF DropsFairly, LoopFrame
<1>11. llmFaults' \in 0 .. MaxLlmFaults
  BY <1>3, FaultsTyped DEF LlmInd
<1>12. QED BY <1>3, <1>6, <1>7, <1>8, <1>10, <1>11, QueueTyped DEF LlmInd, LoopResult

\* Entries of the queue are taken out.
LEMMA Emptied ==
  ASSUME LlmTypeOK, NEW t \in Scans, NEW out,
         retry' = [retry EXCEPT ![t] = [b \in Parts |-> IF b \in out THEN 0 ELSE @[b]]]
  PROVE  /\ retry' \in [Scans -> [Parts -> 0 .. MaxRounds]]
         /\ \A u \in Scans, b \in Parts :
              /\ retry'[u][b] <= retry[u][b]
              /\ ~(u = t /\ b \in out) => retry'[u][b] = retry[u][b]
<1>1. /\ retry \in [Scans -> [Parts -> 0 .. MaxRounds]] /\ 0 \in 0 .. MaxRounds
      /\ \A u \in Scans, b \in Parts : retry[u][b] \in Nat
  BY LlmNumbers, QueueTyped
<1>2. retry' \in [Scans -> [Parts -> 0 .. MaxRounds]]
  BY <1>1
<1>3. ASSUME NEW u \in Scans, NEW b \in Parts
      PROVE  retry'[u][b] = IF u = t /\ b \in out THEN 0 ELSE retry[u][b]
  BY <1>1
<1>4. QED BY <1>1, <1>2, <1>3

LEMMA RemoveRetryKeeps ==
  ASSUME LlmInd, NEW e \in ScanEngines, RemoveRetry(e)
  PROVE  LoopResult
<1> DEFINE t == loop[e].task  out == loop[e].entries  l == [Asleep EXCEPT !.todo = loop[e].todo]
<1>1. /\ t \in Scans /\ out \in SUBSET Parts /\ loop[e].pc = "remove"
      /\ l \in Look /\ l.pc = "sleep" /\ loop' = [loop EXCEPT ![e] = l]
  BY LookFields, AsleepIsLook DEF LlmInd, RemoveRetry, Awake, Places
<1>2. LoopFrame /\ UNCHANGED <<outcome, givenUp, swept>> /\ (Fine \/ LlmFault)
  BY DEF RemoveRetry
<1>3. \/ /\ retry' = [retry EXCEPT ![t] = [b \in Parts |-> IF b \in out THEN 0 ELSE @[b]]]
         /\ excused' = IF records[t] = "own" THEN excused \union ({t} \X out) ELSE excused
      \/ UNCHANGED <<retry, excused>>
  BY DEF RemoveRetry
<1> HIDE DEF t, out, l
<1>4. /\ retry' \in [Scans -> [Parts -> 0 .. MaxRounds]]
      /\ \A u \in Scans, b \in Parts :
           /\ retry'[u][b] <= retry[u][b]
           /\ \/ retry'[u][b] = retry[u][b] \/ <<u, b>> \in excused'
              \/ records[u] # "own"
  <2>1. CASE retry' = [retry EXCEPT ![t] = [b \in Parts |-> IF b \in out THEN 0 ELSE @[b]]]
             /\ excused' = IF records[t] = "own" THEN excused \union ({t} \X out) ELSE excused
    <3>1. /\ retry' \in [Scans -> [Parts -> 0 .. MaxRounds]]
          /\ \A u \in Scans, b \in Parts :
               /\ retry'[u][b] <= retry[u][b]
               /\ ~(u = t /\ b \in out) => retry'[u][b] = retry[u][b]
      BY <1>1, <2>1, Emptied DEF LlmInd
    <3>2. QED BY <2>1, <3>1
  <2>2. CASE UNCHANGED <<retry, excused>>
    BY <2>2, QueueTyped DEF LlmInd
  <2>3. QED BY <1>3, <2>1, <2>2
<1>5. excused \subseteq excused' /\ excused' \subseteq Scans \X Parts
  BY <1>1, <1>3, QueueTyped DEF LlmInd
<1>6. /\ loop' \in [ScanEngines -> Look]
      /\ \A f \in ScanEngines : loop'[f].pc # "sleep" => loop'[f].task \in Scans
      /\ \A f \in ScanEngines \ {e} : loop'[f] = loop[f]
  BY <1>1, LoopMoves
<1>7. \A u \in Scans, b \in Parts : records[u] = "own" /\ Kept(u, b) => Kept(u, b)'
  BY <1>1, <1>2, <1>4, <1>5, <1>6 DEF Kept
<1>8. GivenUpFairly' /\ llmFaults' \in 0 .. MaxLlmFaults
  BY <1>2, FaultsTyped DEF LlmInd, GivenUpFairly, LoopFrame
<1>10. DropsFairly'
  BY <1>1, <1>2, <1>6, LoopMoves, NoDrop
<1>9. QED BY <1>2, <1>4, <1>5, <1>6, <1>7, <1>8, <1>10, QueueTyped DEF LlmInd, LoopResult

LEMMA DropQueueKeeps ==
  ASSUME LlmInd, NEW e \in ScanEngines, DropQueue(e)
  PROVE  LoopResult
<1> DEFINE t == loop[e].task  l == [loop[e] EXCEPT !.pc = "mark"]
<1>1. /\ t \in Scans /\ loop[e].pc = "drop" /\ l \in Look /\ l.pc = "mark" /\ l.task = t
      /\ loop' = [loop EXCEPT ![e] = l]
  BY LookFields DEF LlmInd, DropQueue, Awake, Places, Look
<1>2. LoopFrame /\ UNCHANGED <<outcome, excused>> /\ (Fine \/ LlmFault)
  BY DEF DropQueue
<1>3. \/ retry' = [retry EXCEPT ![t] = [b \in Parts |-> IF b \in Parts THEN 0 ELSE @[b]]]
      \/ UNCHANGED retry
  BY DEF DropQueue
<1>9. \/ /\ givenUp' = givenUp \union ({t} \X Queued(t))
         /\ swept' = swept \union ({t} \X (Queued(t) \ loop[e].entries))
      \/ UNCHANGED <<givenUp, swept>>
  BY DEF DropQueue
<1>10. \A b \in loop[e].entries : failures[t][b] >= MaxAttempts
  BY <1>1 DEF LlmInd, DropsFairly
<1> HIDE DEF t, l
<1>11. /\ givenUp' \subseteq Scans \X Parts /\ swept' \subseteq Scans \X Parts
  BY <1>1, <1>9, QueueTyped DEF LlmInd, Queued
<1>12. GivenUpFairly'
  <2>1. ASSUME NEW x \in givenUp' \ swept' PROVE failures[x[1]][x[2]] >= MaxAttempts
    <3>1. CASE x \in givenUp
      BY <1>9, <2>1, <3>1 DEF LlmInd, GivenUpFairly
    <3>2. CASE x \notin givenUp
      <4>1. x[1] = t /\ x[2] \in loop[e].entries
        BY <1>9, <2>1, <3>2
      <4>2. QED BY <1>10, <4>1
    <3>3. QED BY <3>1, <3>2
  <2>2. QED BY <1>2, <2>1 DEF GivenUpFairly, LoopFrame
<1>4. /\ retry' \in [Scans -> [Parts -> 0 .. MaxRounds]]
      /\ \A u \in Scans, b \in Parts : /\ retry'[u][b] <= retry[u][b]
                                       /\ u # t => retry'[u][b] = retry[u][b]
  <2>1. CASE retry' = [retry EXCEPT ![t] = [b \in Parts |-> IF b \in Parts THEN 0 ELSE @[b]]]
    BY <1>1, <2>1, Emptied DEF LlmInd
  <2>2. CASE UNCHANGED retry
    BY <2>2, QueueTyped DEF LlmInd
  <2>3. QED BY <1>3, <2>1, <2>2
<1>5. /\ loop' \in [ScanEngines -> Look] /\ loop'[e] = l
      /\ \A f \in ScanEngines : loop'[f].pc # "sleep" => loop'[f].task \in Scans
      /\ \A f \in ScanEngines \ {e} : loop'[f] = loop[f]
  BY <1>1, LoopMoves
<1>6. \A u \in Scans, b \in Parts : Kept(u, b) => Kept(u, b)'
  BY <1>1, <1>2, <1>4, <1>5 DEF Kept
<1>7. llmFaults' \in 0 .. MaxLlmFaults
  BY <1>2, FaultsTyped DEF LlmInd
<1>13. DropsFairly'
  BY <1>1, <1>2, <1>5, NoDrop
<1>8. QED BY <1>2, <1>4, <1>5, <1>6, <1>7, <1>11, <1>12, <1>13, QueueTyped DEF LlmInd, LoopResult

LEMMA MarkOutcomeKeeps ==
  ASSUME LlmInd, NEW e \in ScanEngines, MarkOutcome(e)
  PROVE  LoopResult
<1> DEFINE t == loop[e].task  l == [Asleep EXCEPT !.todo = loop[e].todo]
<1>1. /\ t \in Scans /\ loop[e].pc = "mark" /\ l \in Look /\ l.pc = "sleep"
      /\ loop' = [loop EXCEPT ![e] = l]
  BY LookFields, AsleepIsLook DEF LlmInd, MarkOutcome, Awake, Places
<1>2. LoopFrame /\ UNCHANGED <<retry, givenUp, swept>> /\ (Fine \/ LlmFault)
  BY DEF MarkOutcome
<1>3. \/ outcome' = outcome \union {t} /\ UNCHANGED excused
      \/ excused' = excused \union ({t} \X Parts) /\ UNCHANGED outcome
  BY DEF MarkOutcome
<1>4. /\ loop' \in [ScanEngines -> Look]
      /\ \A f \in ScanEngines : loop'[f].pc # "sleep" => loop'[f].task \in Scans
      /\ \A f \in ScanEngines \ {e} : loop'[f] = loop[f]
  BY <1>1, LoopMoves
<1>10. DropsFairly'
  BY <1>1, <1>2, <1>4, LoopMoves, NoDrop
<1> HIDE DEF l
<1>5. \A u \in Scans, b \in Parts : Kept(u, b) => Kept(u, b)'
  BY <1>2, <1>3, <1>4 DEF Kept
<1>6. outcome' \subseteq Scans /\ excused' \subseteq Scans \X Parts
  BY <1>1, <1>3, QueueTyped DEF LlmInd
<1>7. GivenUpFairly' /\ llmFaults' \in 0 .. MaxLlmFaults
  BY <1>2, FaultsTyped DEF LlmInd, GivenUpFairly, LoopFrame
<1>8. \A u \in Scans, b \in Parts : retry'[u][b] <= retry[u][b]
  BY <1>2, QueueTyped DEF LlmInd
<1>9. QED BY <1>2, <1>4, <1>5, <1>6, <1>7, <1>8, <1>10, QueueTyped DEF LlmInd, LoopResult

LEMMA ExpireRetryKeeps ==
  ASSUME LlmInd, NEW t \in Scans, ExpireRetry(t)
  PROVE  LoopResult
<1>1. /\ LoopFrame /\ UNCHANGED <<outcome, loop, givenUp, swept>> /\ LlmFault
      /\ retry' = [retry EXCEPT ![t] = [b \in Parts |-> IF b \in Parts THEN 0 ELSE @[b]]]
      /\ excused' = excused \union ({t} \X Queued(t))
  BY DEF ExpireRetry, LoopFrame
<1>2. /\ retry' \in [Scans -> [Parts -> 0 .. MaxRounds]]
      /\ \A u \in Scans, b \in Parts : /\ retry'[u][b] <= retry[u][b]
                                       /\ u # t => retry'[u][b] = retry[u][b]
  BY <1>1, Emptied DEF LlmInd
<1>3. \A u \in Scans, b \in Parts : Kept(u, b) => Kept(u, b)'
  BY <1>1, <1>2 DEF Kept, Queued
<1>4. excused' \subseteq Scans \X Parts
  BY <1>1, QueueTyped DEF LlmInd, Queued
<1>5. GivenUpFairly' /\ DropsFairly' /\ llmFaults' \in 0 .. MaxLlmFaults
  BY <1>1, FaultsTyped DEF LlmInd, GivenUpFairly, DropsFairly, LoopFrame
<1>6. /\ loop' \in [ScanEngines -> Look]
      /\ \A f \in ScanEngines : loop'[f].pc # "sleep" => loop'[f].task \in Scans
  BY <1>1 DEF LlmInd, LlmTypeOK, Look, Places
<1>7. QED BY <1>1, <1>2, <1>3, <1>4, <1>5, <1>6, QueueTyped DEF LlmInd, LoopResult

-----------------------------------------------------------------------------
(* The rounds of a task *)

\* A call is added to the counts.
LEMMA CallBegins ==
  ASSUME LlmInd, NEW t \in Scans, analysis[t].pc \notin Calls,
         analysis'[t].pc \in Calls, analysis'[t].at = analysis[t].at,
         \A u \in Scans \ {t} : analysis'[u] = analysis[u],
         active' = [active EXCEPT ![analysis[t].at] = @ + 1],
         (gauge' = gauge + 1 /\ skewed' = skewed) \/ skewed' = TRUE
  PROVE  CallsCounted'
<1> DEFINE a == analysis[t].at  all == {u \in Scans : analysis[u].pc \in Calls}
<1>1. a \in ScanEngines /\ active \in [ScanEngines -> Nat]
  BY RoundFields DEF LlmInd, LlmTypeOK
<1>2. /\ \A e \in ScanEngines : active[e] = Cardinality(CallsOf(e))
      /\ ~skewed => gauge = Cardinality(all)
  BY DEF LlmInd, CallsCounted
<1>3. \A e \in ScanEngines : CallsOf(e)' = IF e = a THEN CallsOf(e) \union {t} ELSE CallsOf(e)
  BY DEF CallsOf
<1>4. {u \in Scans : analysis'[u].pc \in Calls} = all \union {t}
  OBVIOUS
<1>5. ASSUME NEW S, S \subseteq Scans, t \notin S
      PROVE  Cardinality(S \union {t}) = Cardinality(S) + 1
  BY <1>5, CallsFinite, FS_AddElement
<1>6. t \notin CallsOf(a) /\ CallsOf(a) \subseteq Scans /\ t \notin all /\ all \subseteq Scans
  BY DEF CallsOf
<1>7. Cardinality(CallsOf(a) \union {t}) = Cardinality(CallsOf(a)) + 1
  BY <1>5, <1>6
<1>8. Cardinality(all \union {t}) = Cardinality(all) + 1
  BY <1>5, <1>6
<1> HIDE DEF a, all
<1>9. \A e \in ScanEngines : active'[e] = Cardinality(CallsOf(e)')
  <2>1. active' = [active EXCEPT ![a] = @ + 1]
    BY DEF a
  <2>2. QED BY <1>1, <1>2, <1>3, <1>7, <2>1
<1>10. ~skewed' => gauge' = Cardinality({u \in Scans : analysis'[u].pc \in Calls})
  BY <1>2, <1>4, <1>8
<1>11. QED BY <1>9, <1>10 DEF CallsCounted

\* A call is taken off the counts.
LEMMA CallEnds ==
  ASSUME LlmInd, NEW t \in Scans, analysis[t].pc \in Calls, analysis'[t].pc \notin Calls,
         \A u \in Scans \ {t} : analysis'[u] = analysis[u],
         active' = [active EXCEPT ![analysis[t].at] = IF @ = 0 THEN 0 ELSE @ - 1],
         (gauge' = gauge - 1 /\ skewed' = skewed) \/ skewed' = TRUE
  PROVE  CallsCounted' /\ active' \in [ScanEngines -> Nat]
<1> DEFINE a == analysis[t].at  all == {u \in Scans : analysis[u].pc \in Calls}
<1>1. a \in ScanEngines /\ active \in [ScanEngines -> Nat]
  BY RoundFields DEF LlmInd, LlmTypeOK
<1>2. /\ \A e \in ScanEngines : active[e] = Cardinality(CallsOf(e))
      /\ ~skewed => gauge = Cardinality(all)
  BY DEF LlmInd, CallsCounted
<1>3. \A e \in ScanEngines : CallsOf(e)' = IF e = a THEN CallsOf(e) \ {t} ELSE CallsOf(e)
  BY DEF CallsOf
<1>4. {u \in Scans : analysis'[u].pc \in Calls} = all \ {t}
  OBVIOUS
<1>5. ASSUME NEW S, S \subseteq Scans, t \in S
      PROVE  Cardinality(S \ {t}) = Cardinality(S) - 1
  BY <1>5, CallsFinite, FS_RemoveElement
<1>6. t \in CallsOf(a) /\ CallsOf(a) \subseteq Scans /\ t \in all /\ all \subseteq Scans
  BY DEF CallsOf
<1>7. Cardinality(CallsOf(a) \ {t}) = Cardinality(CallsOf(a)) - 1
  BY <1>5, <1>6
<1>8. Cardinality(all \ {t}) = Cardinality(all) - 1
  BY <1>5, <1>6
<1>9. active[a] # 0
  <2>1. Cardinality(CallsOf(a) \ {t}) \in Nat /\ Cardinality(CallsOf(a)) \in Nat
    BY <1>6, CallsFinite
  <2>2. QED BY <1>1, <1>2, <1>7, <2>1
<1> HIDE DEF a, all
<1>10. active' = [active EXCEPT ![a] = @ - 1] /\ active[a] - 1 \in Nat
  BY <1>1, <1>9 DEF a
<1>11. \A e \in ScanEngines : active'[e] = Cardinality(CallsOf(e)')
  BY <1>1, <1>2, <1>3, <1>7, <1>10
<1>12. ~skewed' => gauge' = Cardinality({u \in Scans : analysis'[u].pc \in Calls})
  BY <1>2, <1>4, <1>8
<1>13. QED BY <1>1, <1>10, <1>11, <1>12 DEF CallsCounted

\* What a step of one task's round comes to.
RoundResult(t) ==
  /\ analysis' \in [Scans -> Round] /\ \A u \in Scans \ {t} : analysis'[u] = analysis[u]
  /\ rounds' \in [Scans -> 0 .. MaxRounds]
  /\ records' \in [Scans -> {"none", "own", "gone"}]
  /\ ai' \in [Scans -> [Parts -> {"none", "rated", "awaiting", "unavailable"}]]
  /\ retry' \in [Scans -> [Parts -> 0 .. MaxRounds]]
  /\ failures' \in [Scans -> [Parts -> 0 .. MaxRounds]]
  /\ excused' \subseteq Scans \X Parts
  /\ active' \in [ScanEngines -> Nat] /\ gauge' \in Int /\ skewed' \in BOOLEAN
  /\ llmFaults' \in 0 .. MaxLlmFaults
  /\ UNCHANGED <<outcome, loop, givenUp, swept>>
  /\ CallsCounted'
  /\ \A u \in Scans : records'[u] = "own" =>
       records[u] = "own" \/ (u = t /\ \A b \in Parts : ~Passed(analysis'[t], b))
  /\ \A u \in Scans, b \in Parts :
       /\ Kept(u, b) => Kept(u, b)'
       /\ failures[u][b] <= failures'[u][b]
       /\ records'[u] = "own" /\ ai'[u][b] = "awaiting" =>
            \/ records[u] = "own" /\ ai[u][b] = "awaiting"
            \/ Kept(u, b)
  /\ \A b \in Parts :
       Passed(analysis'[t], b) /\ b \notin analysis'[t].answered =>
         \/ Passed(analysis[t], b) /\ b \notin analysis[t].answered
         \/ Kept(t, b)'
  /\ \A b \in Parts : FailedOf(analysis'[t], retry'[t][b], failures'[t][b], rounds'[t], b)
  /\ \A u \in Scans \ {t}, b \in Parts :
       retry'[u][b] = retry[u][b] /\ failures'[u][b] = failures[u][b] /\ rounds'[u] = rounds[u]
  /\ analysis'[t].pc = "write" => analysis'[t].batch = Batches + 1
  /\ analysis'[t].pc = "enqueue" => analysis'[t].batch \in Parts

LEMMA RoundResultKeeps ==
  ASSUME LlmInd, NEW t \in Scans, RoundResult(t)
  PROVE  LlmInd'
<1>1. LlmTypeOK'
  BY DEF LlmInd, LlmTypeOK, RoundResult, Round, Steps
<1>2. GivenUpFairly'
  <2>1. ASSUME NEW x \in givenUp \ swept PROVE failures'[x[1]][x[2]] >= MaxAttempts
    <3>1. x[1] \in Scans /\ x[2] \in Parts /\ failures[x[1]][x[2]] >= MaxAttempts
      <4>1. x \in Scans \X Parts
        BY QueueTyped DEF LlmInd
      <4>2. QED BY <4>1 DEF LlmInd, GivenUpFairly
    <3>2. failures[x[1]][x[2]] <= failures'[x[1]][x[2]]
      BY <3>1 DEF RoundResult
    <3>3. failures[x[1]][x[2]] \in Nat /\ failures'[x[1]][x[2]] \in Nat
      <4>1. /\ failures \in [Scans -> [Parts -> 0 .. MaxRounds]]
            /\ failures' \in [Scans -> [Parts -> 0 .. MaxRounds]]
        BY QueueTyped DEF LlmInd, RoundResult
      <4>2. /\ failures[x[1]][x[2]] \in 0 .. MaxRounds
            /\ failures'[x[1]][x[2]] \in 0 .. MaxRounds
        BY <3>1, <4>1
      <4>3. QED BY <4>2, LlmNumbers
    <3>4. QED BY <3>1, <3>2, <3>3, LlmNumbers
  <2>2. QED BY <2>1 DEF GivenUpFairly, RoundResult
<1>3. PassedKept'
  <2>1. ASSUME NEW u \in Scans, NEW b \in Parts, records'[u] = "own",
               Passed(analysis'[u], b), b \notin analysis'[u].answered
        PROVE  Kept(u, b)'
    BY <2>1 DEF LlmInd, PassedKept, RoundResult
  <2>2. QED BY <2>1 DEF PassedKept
<1>4. AwaitingKept'
  <2>1. ASSUME NEW u \in Scans, NEW b \in Parts, records'[u] = "own", ai'[u][b] = "awaiting"
        PROVE  Kept(u, b)'
    BY <2>1 DEF LlmInd, AwaitingKept, RoundResult
  <2>2. QED BY <2>1 DEF AwaitingKept
<1>5. FailedInRounds'
  <2>1. ASSUME NEW u \in Scans, NEW b \in Parts
        PROVE  FailedOf(analysis'[u], retry'[u][b], failures'[u][b], rounds'[u], b)
    BY DEF LlmInd, FailedInRounds, RoundResult
  <2>2. QED BY <2>1 DEF FailedInRounds
<1>6. Places'
  BY DEF LlmInd, Places, RoundResult
<1>7. DropsFairly'
  <2>1. ASSUME NEW e \in ScanEngines, loop[e].pc = "drop", NEW b \in loop[e].entries
        PROVE  failures'[loop[e].task][b] >= MaxAttempts
    <3> DEFINE u == loop[e].task
    <3>1. u \in Scans /\ b \in Parts /\ failures[u][b] >= MaxAttempts
      BY <2>1, LookFields DEF LlmInd, Places, DropsFairly
    <3> HIDE DEF u
    <3>2. failures[u][b] <= failures'[u][b]
      BY <3>1 DEF RoundResult
    <3>3. failures[u][b] \in 0 .. MaxRounds /\ failures'[u][b] \in 0 .. MaxRounds
      BY <3>1, QueueTyped DEF LlmInd, RoundResult
    <3>4. failures'[u][b] >= MaxAttempts
      BY <3>1, <3>2, <3>3, LlmNumbers
    <3>5. QED BY <3>4 DEF u
  <2>2. QED BY <2>1 DEF DropsFairly, RoundResult
<1>8. QED BY <1>1, <1>2, <1>3, <1>4, <1>5, <1>6, <1>7 DEF LlmInd, RoundResult

LEMMA Unfailed ==
  ASSUME LlmInd, UNCHANGED <<retry, failures, excused, outcome, loop>>
  PROVE  /\ retry' \in [Scans -> [Parts -> 0 .. MaxRounds]]
         /\ failures' \in [Scans -> [Parts -> 0 .. MaxRounds]]
         /\ excused' \subseteq Scans \X Parts
         /\ \A u \in Scans, b \in Parts : /\ Kept(u, b) => Kept(u, b)'
                                          /\ failures[u][b] <= failures'[u][b]
<1>1. \A u \in Scans, b \in Parts : failures[u][b] \in Nat
  BY QueueTyped DEF LlmInd
<1>2. QED BY <1>1, QueueTyped DEF LlmInd, Kept

LEMMA RecordsTyped ==
  ASSUME LlmTypeOK
  PROVE  /\ records \in [Scans -> {"none", "own", "gone"}] /\ rounds \in [Scans -> 0 .. MaxRounds]
         /\ ai \in [Scans -> [Parts -> {"none", "rated", "awaiting", "unavailable"}]]
         /\ active \in [ScanEngines -> Nat] /\ gauge \in Int /\ skewed \in BOOLEAN
         /\ llmFaults \in 0 .. MaxLlmFaults
BY DEF LlmTypeOK

LEMMA StartAnalysisKeeps ==
  ASSUME LlmInd, NEW t \in Scans, NEW e \in ScanEngines, StartAnalysis(t, e)
  PROVE  RoundResult(t)
<1>1. /\ analysis[t].pc = "idle" /\ rounds[t] < MaxRounds
      /\ rounds' = [rounds EXCEPT ![t] = @ + 1] /\ records' = [records EXCEPT ![t] = "own"]
      /\ UNCHANGED <<retry, failures, excused, outcome, loop, active, gauge, skewed, givenUp, swept, llmFaults>>
  BY DEF StartAnalysis, At, queues, counts, history
<1> DEFINE r == [Rest EXCEPT !.pc = "next", !.at = e]
<1>2. /\ r \in Round /\ r.pc = "next" /\ r.batch = 1
  BY RestIsRound DEF Round, Steps
<1>3. PICK s \in Round : /\ analysis' = [analysis EXCEPT ![t] = s] /\ s.pc \in {"idle", "next"}
                         /\ s.pc = "next" => s.batch = 1
  <2>1. CASE analysis' = [analysis EXCEPT ![t] = [Rest EXCEPT !.pc = "next", !.at = e]]
    BY <1>2, <2>1
  <2>2. CASE UNCHANGED analysis
    <3>1. analysis[t] \in Round /\ analysis' = [analysis EXCEPT ![t] = analysis[t]]
      BY <2>2, RoundFields DEF LlmInd, LlmTypeOK
    <3>2. QED BY <1>1, <3>1
  <2>3. QED BY <2>1, <2>2 DEF StartAnalysis
<1>4. /\ analysis' \in [Scans -> Round] /\ analysis'[t] = s
      /\ \A u \in Scans \ {t} : analysis'[u] = analysis[u]
  BY <1>3, Advanced DEF LlmInd
<1>5. /\ rounds' \in [Scans -> 0 .. MaxRounds] /\ rounds'[t] = rounds[t] + 1 /\ rounds[t] \in Nat
      /\ \A u \in Scans \ {t} : rounds'[u] = rounds[u]
  BY <1>1, LlmNumbers, RecordsTyped DEF LlmInd
<1>6. PICK new \in [Parts -> {"none", "rated", "awaiting", "unavailable"}] :
        /\ ai' = [ai EXCEPT ![t] = new]
        /\ \A b \in Parts : new[b] = "awaiting" => records[t] = "own" /\ ai[t][b] = "awaiting"
  <2>1. ai[t] \in [Parts -> {"none", "rated", "awaiting", "unavailable"}]
    BY RecordsTyped DEF LlmInd
  <2>2. \/ ai' = [ai EXCEPT ![t] = [b \in Parts |-> "unavailable"]]
        \/ ai' = [ai EXCEPT ![t] = IF records[t] = "own" THEN ai[t] ELSE [b \in Parts |-> "none"]]
    BY DEF StartAnalysis
  <2> DEFINE blank == [b \in Parts |-> "none"]  fallback == [b \in Parts |-> "unavailable"]
  <2>b. /\ blank \in [Parts -> {"none", "rated", "awaiting", "unavailable"}]
        /\ fallback \in [Parts -> {"none", "rated", "awaiting", "unavailable"}]
        /\ \A b \in Parts : blank[b] # "awaiting" /\ fallback[b] # "awaiting"
    OBVIOUS
  <2> HIDE DEF blank, fallback
  <2>3. CASE ai' = [ai EXCEPT ![t] = fallback]
    BY <2>b, <2>3
  <2>4. CASE ai' = [ai EXCEPT ![t] = IF records[t] = "own" THEN ai[t] ELSE blank]
    <3>1. CASE records[t] = "own"
      BY <2>1, <2>4, <3>1
    <3>2. CASE records[t] # "own"
      <4>1. ai' = [ai EXCEPT ![t] = blank]
        BY <2>4, <3>2
      <4>2. QED BY <2>b, <4>1
    <3>3. QED BY <3>1, <3>2
  <2>5. QED BY <2>2, <2>3, <2>4 DEF blank, fallback
<1>7. /\ records' \in [Scans -> {"none", "own", "gone"}]
      /\ ai' \in [Scans -> [Parts -> {"none", "rated", "awaiting", "unavailable"}]]
      /\ \A u \in Scans, b \in Parts :
           records'[u] = "own" /\ ai'[u][b] = "awaiting" => records[u] = "own" /\ ai[u][b] = "awaiting"
  BY <1>1, <1>6, RecordsTyped DEF LlmInd
<1>8. CallsCounted'
  <2>1. \A u \in Scans : /\ analysis'[u].pc \in Calls <=> analysis[u].pc \in Calls
                         /\ analysis[u].pc \in Calls => analysis'[u].at = analysis[u].at
    BY <1>1, <1>3, <1>4 DEF Calls
  <2>2. QED BY <1>1, <2>1, CountsStay DEF LlmInd
<1>9. \A b \in Parts : FailedOf(s, retry[t][b], failures[t][b], rounds'[t], b)
  <2>1. ASSUME NEW b \in Parts
        PROVE  retry[t][b] <= failures[t][b] /\ failures[t][b] <= rounds[t]
    BY DEF LlmInd, FailedInRounds, FailedOf
  <2>2. \A b \in Parts : retry[t][b] \in Nat /\ failures[t][b] \in Nat
    BY QueueTyped DEF LlmInd
  <2>3. QED BY <1>3, <1>5, <2>1, <2>2 DEF FailedOf
<1>10. \A b \in Parts : ~Passed(s, b)
  BY <1>3, LlmNumbers DEF Passed, Parts
<1>11. QED BY <1>1, <1>3, <1>4, <1>5, <1>7, <1>8, <1>9, <1>10, Unfailed, RecordsTyped DEF LlmInd, RoundResult

LEMMA IncrActiveKeeps ==
  ASSUME LlmInd, NEW t \in Scans, IncrActive(t)
  PROVE  RoundResult(t)
<1>1. /\ analysis[t].pc = "next" /\ MoveTo(t, "call")
      /\ active' = [active EXCEPT ![analysis[t].at] = @ + 1]
      /\ \/ gauge' = gauge + 1 /\ UNCHANGED skewed
         \/ skewed' = TRUE /\ UNCHANGED gauge
      /\ UNCHANGED <<rounds, records, ai, retry, outcome, loop, failures, givenUp, swept, excused>>
      /\ Fine \/ LlmFault
  BY DEF IncrActive, At, queues
<1>2. /\ analysis' \in [Scans -> Round] /\ \A u \in Scans \ {t} : analysis'[u] = analysis[u]
      /\ analysis'[t].pc = "call" /\ analysis'[t].at = analysis[t].at
      /\ analysis'[t].batch = analysis[t].batch /\ analysis'[t].answered = analysis[t].answered
  BY <1>1, Moved DEF LlmInd, Steps, Calls
<1>3. CallsCounted'
  <2>1. analysis[t].pc \notin Calls /\ analysis'[t].pc \in Calls
    BY <1>1, <1>2 DEF Calls
  <2>2. (gauge' = gauge + 1 /\ skewed' = skewed) \/ skewed' = TRUE
    BY <1>1
  <2>3. QED BY <1>1, <1>2, <2>1, <2>2, CallBegins
<1>4. active' \in [ScanEngines -> Nat] /\ gauge' \in Int /\ skewed' \in BOOLEAN
  <2>1. active \in [ScanEngines -> Nat] /\ gauge \in Int /\ skewed \in BOOLEAN
    BY RecordsTyped DEF LlmInd
  <2>2. active' \in [ScanEngines -> Nat]
    <3>1. analysis[t].at \in ScanEngines
      BY RoundFields DEF LlmInd
    <3>2. QED BY <1>1, <2>1, <3>1
  <2>3. gauge' \in Int
    BY <1>1, <2>1
  <2>4. skewed' \in BOOLEAN
    <3>1. skewed' = skewed \/ skewed' = TRUE
      BY <1>1
    <3>2. QED BY <2>1, <3>1
  <2>5. QED BY <2>2, <2>3, <2>4
<1>5. llmFaults' \in 0 .. MaxLlmFaults
  BY <1>1, FaultsTyped DEF LlmInd
<1>6. \A b \in Parts : /\ Passed(analysis'[t], b) <=> Passed(analysis[t], b)
                       /\ FailedOf(analysis'[t], retry[t][b], failures[t][b], rounds[t], b)
  <2>1. \A b \in Parts : FailedOf(analysis[t], retry[t][b], failures[t][b], rounds[t], b)
    BY DEF LlmInd, FailedInRounds
  <2>2. \A b \in Parts : /\ Passed(analysis'[t], b) <=> Passed(analysis[t], b)
                         /\ Ahead(analysis'[t], b) => Ahead(analysis[t], b)
    BY <1>1, <1>2 DEF Passed, Ahead
  <2>3. QED BY <1>2, <2>1, <2>2 DEF FailedOf
<1>7. QED BY <1>1, <1>2, <1>3, <1>4, <1>5, <1>6, Unfailed, RecordsTyped DEF LlmInd, RoundResult

LEMMA WriteRatingsKeeps ==
  ASSUME LlmInd, NEW t \in Scans, WriteRatings(t)
  PROVE  RoundResult(t)
<1>1. /\ analysis[t].pc = "write" /\ MoveTo(t, "next")
      /\ UNCHANGED <<rounds, records, retry, outcome, loop, failures, givenUp, swept, excused,
                     active, gauge, skewed, llmFaults>>
  BY DEF WriteRatings, At, queues, counts, history
<1>2. /\ analysis' \in [Scans -> Round] /\ \A u \in Scans \ {t} : analysis'[u] = analysis[u]
      /\ analysis'[t].pc = "next" /\ analysis'[t].batch = analysis[t].batch
      /\ analysis'[t].answered = analysis[t].answered
  BY <1>1, Moved DEF LlmInd, Steps
<1>3. analysis[t].batch = Batches + 1
  BY <1>1 DEF LlmInd, Places
<1> DEFINE new == [b \in Parts |-> IF records[t] # "own" THEN "none"
                                   ELSE IF b \in analysis[t].answered THEN "rated" ELSE "awaiting"]
<1>4. ai' = [ai EXCEPT ![t] = new]
  BY DEF WriteRatings
<1>5. \A b \in Parts : Passed(analysis[t], b)
  BY <1>1, <1>3, LlmNumbers DEF Passed, Parts
<1>6. \A b \in Parts : new[b] = "awaiting" => Kept(t, b)
  BY <1>5 DEF LlmInd, PassedKept
<1>7. new \in [Parts -> {"none", "rated", "awaiting", "unavailable"}]
  OBVIOUS
<1> HIDE DEF new
<1>8. /\ ai' \in [Scans -> [Parts -> {"none", "rated", "awaiting", "unavailable"}]]
      /\ \A u \in Scans, b \in Parts :
           ai'[u][b] = "awaiting" => ai[u][b] = "awaiting" \/ Kept(u, b)
  BY <1>4, <1>6, <1>7, RecordsTyped DEF LlmInd
<1>9. CallsCounted'
  <2>1. \A u \in Scans : /\ analysis'[u].pc \in Calls <=> analysis[u].pc \in Calls
                         /\ analysis[u].pc \in Calls => analysis'[u].at = analysis[u].at
    BY <1>1, <1>2 DEF Calls
  <2>2. QED BY <1>1, <2>1, CountsStay DEF LlmInd
<1>10. \A b \in Parts : FailedOf(analysis'[t], retry[t][b], failures[t][b], rounds[t], b)
  <2>1. \A b \in Parts : ~Ahead(analysis'[t], b)
    BY <1>2, <1>3, LlmNumbers DEF Ahead, Parts
  <2>2. QED BY <1>2, <2>1 DEF LlmInd, FailedInRounds, FailedOf
<1>11. QED BY <1>1, <1>2, <1>5, <1>8, <1>9, <1>10, Unfailed, RecordsTyped DEF LlmInd, RoundResult

LEMMA LoseRecordsKeeps ==
  ASSUME LlmInd, NEW t \in Scans, LoseRecords(t)
  PROVE  RoundResult(t)
<1> DEFINE blank == [b \in Parts |-> "none"]
<1>1. /\ records' = [records EXCEPT ![t] = "gone"] /\ ai' = [ai EXCEPT ![t] = blank]
      /\ UNCHANGED <<analysis, rounds, retry, outcome, loop, failures, givenUp, swept, excused,
                     active, gauge, skewed, llmFaults>>
  BY DEF LoseRecords, queues, counts, history
<1>2. blank \in [Parts -> {"none", "rated", "awaiting", "unavailable"}]
  OBVIOUS
<1> HIDE DEF blank
<1>3. /\ records' \in [Scans -> {"none", "own", "gone"}]
      /\ ai' \in [Scans -> [Parts -> {"none", "rated", "awaiting", "unavailable"}]]
      /\ \A u \in Scans, b \in Parts :
           records'[u] = "own" /\ ai'[u][b] = "awaiting" => records[u] = "own" /\ ai[u][b] = "awaiting"
  BY <1>1, <1>2, RecordsTyped DEF LlmInd
<1>4. analysis' \in [Scans -> Round]
  BY <1>1 DEF LlmInd, LlmTypeOK, Round, Steps
<1>5. CallsCounted'
  BY <1>1, CountsStay DEF LlmInd
<1>6. \A b \in Parts : FailedOf(analysis[t], retry[t][b], failures[t][b], rounds[t], b)
  BY DEF LlmInd, FailedInRounds
<1>7. /\ analysis[t].pc = "write" => analysis[t].batch = Batches + 1
      /\ analysis[t].pc = "enqueue" => analysis[t].batch \in Parts
  BY DEF LlmInd, Places
<1>8. QED BY <1>1, <1>3, <1>4, <1>5, <1>6, <1>7, Unfailed, RecordsTyped DEF LlmInd, RoundResult

\* An answer, another attempt, or the last failure.
LEMMA ChatWithRetryKeeps ==
  ASSUME LlmInd, NEW t \in Scans, ChatWithRetry(t)
  PROVE  RoundResult(t)
<1> DEFINE b0 == analysis[t].batch
<1>1. /\ analysis[t].pc = "call"
      /\ UNCHANGED <<rounds, records, ai, retry, outcome, loop, givenUp, swept, active, gauge, skewed,
                     llmFaults>>
  BY DEF ChatWithRetry, At, queues, counts
<1>2. /\ analysis[t] \in Round /\ b0 \in 1 .. Batches + 1
      /\ analysis[t].attempt \in 1 .. Attempts /\ analysis[t].answered \in SUBSET Parts
  BY RoundFields DEF LlmInd
<1>3. \A b \in Parts : /\ FailedOf(analysis[t], retry[t][b], failures[t][b], rounds[t], b)
                       /\ retry[t][b] \in Nat /\ failures[t][b] \in Nat
                       /\ rounds[t] \in 0 .. MaxRounds
  BY QueueTyped, RecordsTyped DEF LlmInd, FailedInRounds
\* What the three have in common.
<1>4. ASSUME NEW r \in Round, analysis' = [analysis EXCEPT ![t] = r],
             r.at = analysis[t].at, r.batch = b0, r.pc \in Calls,
             failures' \in [Scans -> [Parts -> 0 .. MaxRounds]],
             \A u \in Scans, b \in Parts : failures[u][b] <= failures'[u][b],
             \A u \in Scans \ {t}, b \in Parts : failures'[u][b] = failures[u][b],
             excused \subseteq excused', excused' \subseteq Scans \X Parts,
             \A b \in Parts : Passed(r, b) /\ b \notin r.answered =>
               \/ Passed(analysis[t], b) /\ b \notin analysis[t].answered
               \/ <<t, b>> \in excused',
             \A b \in Parts : FailedOf(r, retry[t][b], failures'[t][b], rounds[t], b),
             r.pc = "enqueue" => b0 \in Parts
      PROVE  RoundResult(t)
  <2>1. /\ analysis' \in [Scans -> Round] /\ analysis'[t] = r
        /\ \A u \in Scans \ {t} : analysis'[u] = analysis[u]
    BY <1>4, Advanced DEF LlmInd
  <2>2. CallsCounted'
    <3>1. \A u \in Scans : /\ analysis'[u].pc \in Calls <=> analysis[u].pc \in Calls
                           /\ analysis[u].pc \in Calls => analysis'[u].at = analysis[u].at
      BY <1>1, <1>4, <2>1 DEF Calls
    <3>2. QED BY <1>1, <3>1, CountsStay DEF LlmInd
  <2>3. \A u \in Scans, b \in Parts : Kept(u, b) => Kept(u, b)'
    BY <1>1, <1>4 DEF Kept
  <2>4. \A b \in Parts : <<t, b>> \in excused' => Kept(t, b)'
    BY DEF Kept
  <2>5. r.pc # "write"
    BY <1>4 DEF Calls
  <2>6. retry' \in [Scans -> [Parts -> 0 .. MaxRounds]]
    BY <1>1, QueueTyped DEF LlmInd
  <2>7. /\ \A b \in Parts : Passed(analysis'[t], b) /\ b \notin analysis'[t].answered =>
             \/ Passed(analysis[t], b) /\ b \notin analysis[t].answered
             \/ Kept(t, b)'
        /\ \A b \in Parts : FailedOf(analysis'[t], retry'[t][b], failures'[t][b], rounds'[t], b)
        /\ analysis'[t].pc = "enqueue" => analysis'[t].batch \in Parts
    BY <1>1, <1>4, <2>1, <2>4
  <2>8. QED BY <1>1, <1>4, <2>1, <2>2, <2>3, <2>5, <2>6, <2>7, RecordsTyped DEF LlmInd, RoundResult
<1>5. ASSUME UNCHANGED failures
      PROVE  /\ failures' \in [Scans -> [Parts -> 0 .. MaxRounds]]
             /\ \A u \in Scans, b \in Parts : failures[u][b] <= failures'[u][b]
             /\ \A u \in Scans \ {t}, b \in Parts : failures'[u][b] = failures[u][b]
  BY <1>5, QueueTyped DEF LlmInd
<1>6. ASSUME NEW full \in BOOLEAN,
             analysis' = [analysis EXCEPT ![t].pc = "return",
                ![t].answered = IF full /\ b0 \in Parts THEN @ \union {b0} ELSE @],
             excused' = IF full \/ b0 \notin Parts THEN excused ELSE excused \union {<<t, b0>>},
             UNCHANGED failures
      PROVE  RoundResult(t)
  <2> DEFINE r == [analysis[t] EXCEPT !.pc = "return",
                     !.answered = IF full /\ b0 \in Parts THEN @ \union {b0} ELSE @]
  <2>1. /\ r \in Round /\ r.pc = "return" /\ r.at = analysis[t].at /\ r.batch = b0
        /\ r.answered = IF full /\ b0 \in Parts THEN analysis[t].answered \union {b0}
                        ELSE analysis[t].answered
    BY <1>2 DEF Round, Steps, Calls
  <2>2. analysis' = [analysis EXCEPT ![t] = r]
    BY <1>6 DEF LlmInd, LlmTypeOK
  <2> HIDE DEF r
  <2>3. \A b \in Parts : FailedOf(r, retry[t][b], failures'[t][b], rounds[t], b)
    <3>1. \A b \in Parts : Ahead(r, b) => Ahead(analysis[t], b)
      BY <1>1, <2>1 DEF Ahead
    <3>2. QED BY <1>3, <1>6, <2>1, <3>1 DEF FailedOf
  <2>4. excused \subseteq excused' /\ excused' \subseteq Scans \X Parts
    BY <1>6, QueueTyped DEF LlmInd
  <2>5. \A b \in Parts : Passed(r, b) /\ b \notin r.answered =>
               \/ Passed(analysis[t], b) /\ b \notin analysis[t].answered
               \/ <<t, b>> \in excused'
    BY <1>1, <1>6, <2>1 DEF Passed
  <2>6. QED BY <1>4, <1>5, <1>6, <2>1, <2>2, <2>3, <2>4, <2>5 DEF Calls
<1>7. ASSUME analysis[t].attempt # Attempts, analysis' = [analysis EXCEPT ![t].attempt = @ + 1],
             UNCHANGED <<failures, excused>>
      PROVE  RoundResult(t)
  <2> DEFINE r == [analysis[t] EXCEPT !.attempt = @ + 1]
  <2>1. analysis[t].attempt + 1 \in 1 .. Attempts
    BY <1>2, <1>7, LlmNumbers
  <2>2. /\ r \in Round /\ r.pc = "call" /\ r.at = analysis[t].at /\ r.batch = b0
        /\ r.answered = analysis[t].answered
    BY <1>1, <1>2, <2>1 DEF Round
  <2>3. analysis' = [analysis EXCEPT ![t] = r]
    BY <1>7 DEF LlmInd, LlmTypeOK
  <2> HIDE DEF r
  <2>4. \A b \in Parts : /\ FailedOf(r, retry[t][b], failures'[t][b], rounds[t], b)
                         /\ Passed(r, b) => Passed(analysis[t], b)
    <3>1. \A b \in Parts : /\ Ahead(r, b) => Ahead(analysis[t], b)
                           /\ Passed(r, b) => Passed(analysis[t], b)
      BY <1>1, <2>2 DEF Ahead, Passed
    <3>2. QED BY <1>3, <1>7, <2>2, <3>1 DEF FailedOf
  <2>5. excused \subseteq excused' /\ excused' \subseteq Scans \X Parts
    BY <1>7, QueueTyped DEF LlmInd
  <2>6. QED BY <1>4, <1>5, <1>7, <2>2, <2>3, <2>4, <2>5 DEF Calls
<1>8. ASSUME MoveTo(t, IF b0 \in Parts THEN "enqueue" ELSE "return"),
             failures' = IF b0 \in Parts THEN [failures EXCEPT ![t][b0] = @ + 1] ELSE failures,
             UNCHANGED excused
      PROVE  RoundResult(t)
  <2> DEFINE r == [analysis[t] EXCEPT !.pc = IF b0 \in Parts THEN "enqueue" ELSE "return"]
  <2>1. /\ r \in Round /\ r.pc = (IF b0 \in Parts THEN "enqueue" ELSE "return")
        /\ r.at = analysis[t].at /\ r.batch = b0 /\ r.answered = analysis[t].answered
    BY <1>2 DEF Round, Steps, Calls
  <2>2. analysis' = [analysis EXCEPT ![t] = r]
    BY <1>8 DEF MoveTo
  <2> HIDE DEF r
  <2>3. excused \subseteq excused' /\ excused' \subseteq Scans \X Parts
    BY <1>8, QueueTyped DEF LlmInd
  <2>4. \A b \in Parts : /\ Ahead(r, b) => Ahead(analysis[t], b) /\ b # b0
                         /\ Passed(r, b) => Passed(analysis[t], b)
    BY <1>1, <1>2, <2>1 DEF Ahead, Passed, Parts
  <2>5. CASE b0 \notin Parts
    <3>1. \A b \in Parts : FailedOf(r, retry[t][b], failures'[t][b], rounds[t], b)
      BY <1>3, <1>8, <2>1, <2>4, <2>5 DEF FailedOf
    <3>2. QED BY <1>4, <1>5, <1>8, <2>1, <2>2, <2>3, <2>4, <2>5, <3>1 DEF Calls
  <2>6. CASE b0 \in Parts
    <3>1. failures[t][b0] < rounds[t] /\ retry[t][b0] <= failures[t][b0]
      BY <1>1, <1>3, <2>6 DEF FailedOf, Ahead
    <3>2. failures[t][b0] + 1 \in 0 .. MaxRounds
      BY <1>3, <2>6, <3>1, LlmNumbers
    <3>3. /\ failures' \in [Scans -> [Parts -> 0 .. MaxRounds]]
          /\ failures'[t][b0] = failures[t][b0] + 1
          /\ \A u \in Scans, b \in Parts : ~(u = t /\ b = b0) => failures'[u][b] = failures[u][b]
      <4>1. failures \in [Scans -> [Parts -> 0 .. MaxRounds]]
        BY QueueTyped DEF LlmInd
      <4>2. failures' = [failures EXCEPT ![t][b0] = @ + 1]
        BY <1>8, <2>6
      <4> HIDE DEF b0
      <4>3. QED BY <2>6, <3>2, <4>1, <4>2
    <3>4. \A u \in Scans, b \in Parts : failures[u][b] <= failures'[u][b]
      BY <1>3, <2>6, <3>3, QueueTyped DEF LlmInd
    <3>5. \A b \in Parts : FailedOf(r, retry[t][b], failures'[t][b], rounds[t], b)
      BY <1>3, <2>1, <2>4, <2>6, <3>1, <3>3 DEF FailedOf
    <3>6. QED BY <1>4, <1>8, <2>1, <2>2, <2>3, <2>4, <2>6, <3>3, <3>4, <3>5 DEF Calls
  <2>7. QED BY <2>5, <2>6
<1>9. QED BY <1>6, <1>7, <1>8 DEF ChatWithRetry

LEMMA EnqueueRetryKeeps ==
  ASSUME LlmInd, NEW t \in Scans, EnqueueRetry(t)
  PROVE  RoundResult(t)
<1>0. PICK b0 \in Parts : b0 = analysis[t].batch
  BY DEF LlmInd, Places, EnqueueRetry, At
<1>1. /\ analysis[t].pc = "enqueue" /\ MoveTo(t, "return") /\ (Fine \/ LlmFault)
      /\ UNCHANGED <<rounds, records, ai, outcome, loop, failures, givenUp, swept, active, gauge, skewed>>
  BY DEF EnqueueRetry, At, counts
<1>2. \/ retry' = [retry EXCEPT ![t][b0] = @ + 1] /\ excused' = excused \ {<<t, b0>>}
      \/ excused' = excused \union {<<t, b0>>} /\ UNCHANGED retry
  BY <1>0 DEF EnqueueRetry
<1>3. /\ analysis' \in [Scans -> Round] /\ \A u \in Scans \ {t} : analysis'[u] = analysis[u]
      /\ analysis'[t].pc = "return" /\ analysis'[t].at = analysis[t].at
      /\ analysis'[t].batch = b0 /\ analysis'[t].answered = analysis[t].answered
  BY <1>0, <1>1, Moved DEF LlmInd, Steps, Calls
<1>4. \A b \in Parts : /\ FailedOf(analysis[t], retry[t][b], failures[t][b], rounds[t], b)
                       /\ retry[t][b] \in Nat /\ failures[t][b] \in 0 .. MaxRounds
  BY QueueTyped DEF LlmInd, FailedInRounds
<1>5. retry[t][b0] + 1 <= failures[t][b0] /\ retry[t][b0] + 1 \in 0 .. MaxRounds
  BY <1>0, <1>1, <1>4, LlmNumbers DEF FailedOf
<1>6. /\ retry' \in [Scans -> [Parts -> 0 .. MaxRounds]]
      /\ \A u \in Scans, b \in Parts : /\ retry[u][b] > 0 => retry'[u][b] > 0
                                       /\ ~(u = t /\ b = b0) => retry'[u][b] = retry[u][b]
      /\ retry'[t][b0] \in {retry[t][b0], retry[t][b0] + 1}
      /\ retry'[t][b0] > 0 \/ <<t, b0>> \in excused'
  <2>1. /\ retry \in [Scans -> [Parts -> 0 .. MaxRounds]]
        /\ \A u \in Scans, b \in Parts : retry[u][b] \in Nat
    BY QueueTyped DEF LlmInd
  <2>2. CASE retry' = [retry EXCEPT ![t][b0] = @ + 1]
    <3>1. \A u \in Scans, b \in Parts :
            retry'[u][b] = IF u = t /\ b = b0 THEN retry[t][b0] + 1 ELSE retry[u][b]
      BY <2>1, <2>2
    <3>2. retry' \in [Scans -> [Parts -> 0 .. MaxRounds]]
      BY <1>5, <2>1, <2>2
    <3>3. QED BY <2>1, <3>1, <3>2
  <2>3. CASE excused' = excused \union {<<t, b0>>} /\ UNCHANGED retry
    BY <2>1, <2>3
  <2>4. QED BY <1>2, <2>2, <2>3
<1>7. /\ excused' \subseteq Scans \X Parts
      /\ \A u \in Scans, b \in Parts :
           <<u, b>> \in excused /\ ~(u = t /\ b = b0) => <<u, b>> \in excused'
  BY <1>2, QueueTyped DEF LlmInd
<1>8. \A u \in Scans, b \in Parts : Kept(u, b) => Kept(u, b)'
  <2>1. ASSUME NEW u \in Scans, NEW b \in Parts, Kept(u, b) PROVE Kept(u, b)'
    <3>1. CASE u = t /\ b = b0
      BY <1>6, <3>1 DEF Kept
    <3>2. CASE ~(u = t /\ b = b0)
      BY <1>1, <1>6, <1>7, <2>1, <3>2 DEF Kept
    <3>3. QED BY <3>1, <3>2
  <2>2. QED BY <2>1
<1>9. Kept(t, b0)'
  BY <1>6 DEF Kept
<1>10. \A b \in Parts : Passed(analysis'[t], b) => Passed(analysis[t], b) \/ b = b0
  BY <1>0, <1>1, <1>3 DEF Passed
<1>11. \A b \in Parts : FailedOf(analysis'[t], retry'[t][b], failures[t][b], rounds[t], b)
  <2>1. \A b \in Parts : Ahead(analysis'[t], b) => Ahead(analysis[t], b)
    BY <1>0, <1>1, <1>3 DEF Ahead
  <2>2. ASSUME NEW b \in Parts PROVE retry'[t][b] <= failures[t][b]
    <3>1. CASE b = b0
      <4>1. retry[t][b0] <= failures[t][b0]
        BY <1>4 DEF FailedOf
      <4>2. QED BY <1>5, <1>6, <3>1, <4>1
    <3>2. CASE b # b0
      BY <1>4, <1>6, <3>2 DEF FailedOf
    <3>3. QED BY <3>1, <3>2
  <2>3. QED BY <1>3, <1>4, <2>1, <2>2 DEF FailedOf
<1>12. CallsCounted'
  <2>1. \A u \in Scans : /\ analysis'[u].pc \in Calls <=> analysis[u].pc \in Calls
                         /\ analysis[u].pc \in Calls => analysis'[u].at = analysis[u].at
    BY <1>1, <1>3 DEF Calls
  <2>2. QED BY <1>1, <2>1, CountsStay DEF LlmInd
<1>13. /\ failures' \in [Scans -> [Parts -> 0 .. MaxRounds]]
       /\ \A u \in Scans, b \in Parts : failures[u][b] <= failures'[u][b]
       /\ llmFaults' \in 0 .. MaxLlmFaults
  BY <1>1, QueueTyped, FaultsTyped DEF LlmInd
<1>14. QED BY <1>1, <1>3, <1>6, <1>7, <1>8, <1>9, <1>10, <1>11, <1>12, <1>13, RecordsTyped
           DEF LlmInd, RoundResult

LEMMA DecrActiveKeeps ==
  ASSUME LlmInd, NEW t \in Scans, DecrActive(t)
  PROVE  RoundResult(t)
<1>0. PICK b0 \in 1 .. Batches + 1 : b0 = analysis[t].batch
  BY RoundFields DEF LlmInd
<1>1. /\ analysis[t].pc = "return"
      /\ active' = [active EXCEPT ![analysis[t].at] = IF @ = 0 THEN 0 ELSE @ - 1]
      /\ \/ gauge' = gauge - 1 /\ UNCHANGED skewed
         \/ skewed' = TRUE /\ UNCHANGED gauge
      /\ UNCHANGED <<rounds, records, ai, retry, outcome, loop, failures, givenUp, swept, excused>>
      /\ Fine \/ LlmFault
  BY DEF DecrActive, At, queues
<1>2. analysis' = [analysis EXCEPT ![t] =
          IF b0 \notin Parts THEN Rest
          ELSE [@ EXCEPT !.pc = IF b0 = Batches THEN "write" ELSE "next",
                         !.batch = b0 + 1, !.attempt = 1]]
  BY <1>0 DEF DecrActive
<1>3. PICK r \in Round :
        /\ analysis' = [analysis EXCEPT ![t] = r]
        /\ \/ r.pc = "idle"
           \/ /\ b0 \in Parts /\ r.pc = (IF b0 = Batches THEN "write" ELSE "next")
              /\ r.batch = b0 + 1 /\ r.answered = analysis[t].answered
  <2>1. CASE b0 \notin Parts
    BY <1>2, <2>1, RestIsRound
  <2>2. CASE b0 \in Parts
    <3> DEFINE s == [analysis[t] EXCEPT !.pc = IF b0 = Batches THEN "write" ELSE "next",
                                        !.batch = b0 + 1, !.attempt = 1]
    <3>1. b0 + 1 \in 1 .. Batches + 1 /\ 1 \in 1 .. Attempts
      BY <2>2, LlmNumbers DEF Parts
    <3>2. analysis[t] \in Round
      BY RoundFields DEF LlmInd
    <3>3. /\ s \in Round /\ s.pc = (IF b0 = Batches THEN "write" ELSE "next")
          /\ s.batch = b0 + 1 /\ s.answered = analysis[t].answered
      BY <3>1, <3>2 DEF Round, Steps
    <3>4. analysis' = [analysis EXCEPT ![t] = s]
      BY <1>2, <2>2 DEF LlmInd, LlmTypeOK
    <3>5. QED BY <2>2, <3>3, <3>4
  <2>3. QED BY <2>1, <2>2
<1>4. /\ analysis' \in [Scans -> Round] /\ analysis'[t] = r
      /\ \A u \in Scans \ {t} : analysis'[u] = analysis[u]
  BY <1>3, Advanced DEF LlmInd
<1>5. CallsCounted' /\ active' \in [ScanEngines -> Nat]
  <2>1. analysis[t].pc \in Calls /\ analysis'[t].pc \notin Calls
    BY <1>1, <1>3, <1>4 DEF Calls
  <2>2. (gauge' = gauge - 1 /\ skewed' = skewed) \/ skewed' = TRUE
    BY <1>1
  <2>3. QED BY <1>1, <1>4, <2>1, <2>2, CallEnds
<1>6. gauge' \in Int /\ skewed' \in BOOLEAN
  <2>1. gauge \in Int /\ skewed \in BOOLEAN
    BY RecordsTyped DEF LlmInd
  <2>2. gauge' \in Int
    BY <1>1, <2>1
  <2>3. skewed' = skewed \/ skewed' = TRUE
    BY <1>1
  <2>4. QED BY <2>1, <2>2, <2>3
<1>7. llmFaults' \in 0 .. MaxLlmFaults
  BY <1>1, FaultsTyped DEF LlmInd
<1>8. \A b \in Parts : /\ Passed(r, b) => Passed(analysis[t], b) /\ r.answered = analysis[t].answered
                       /\ Ahead(r, b) => Ahead(analysis[t], b)
  BY <1>0, <1>1, <1>3, LlmNumbers DEF Passed, Ahead, Parts
<1>9. \A b \in Parts : FailedOf(r, retry[t][b], failures[t][b], rounds[t], b)
  <2>1. \A b \in Parts : FailedOf(analysis[t], retry[t][b], failures[t][b], rounds[t], b)
    BY DEF LlmInd, FailedInRounds
  <2>2. QED BY <1>3, <1>8, <2>1 DEF FailedOf
<1>10. (r.pc = "write" => r.batch = Batches + 1) /\ r.pc # "enqueue"
  BY <1>3
<1>11. QED BY <1>1, <1>4, <1>5, <1>6, <1>7, <1>8, <1>9, <1>10, Unfailed, RecordsTyped
           DEF LlmInd, RoundResult

LEMMA EngineDiesKeeps ==
  ASSUME LlmInd, NEW e \in ScanEngines, EngineDies(e)
  PROVE  LlmInd'
<1>1. /\ LlmFault /\ analysis' = [t \in Scans |-> IF analysis[t].at = e THEN Rest ELSE analysis[t]]
      /\ active' = [active EXCEPT ![e] = 0] /\ loop' = [loop EXCEPT ![e] = Asleep]
      /\ skewed' = (skewed \/ CallsOf(e) # {})
      /\ UNCHANGED <<rounds, records, ai, retry, outcome, gauge, failures, givenUp, swept>>
  BY DEF EngineDies, queues
<1>2. /\ excused \subseteq excused' /\ excused' \subseteq Scans \X Parts
      /\ loop[e].pc = "mark" =>
           \A t \in Scans, b \in Parts : loop[e].task = t => <<t, b>> \in excused'
  BY QueueTyped DEF LlmInd, EngineDies, Awake
<1>3. \A t \in Scans : /\ analysis'[t] = IF analysis[t].at = e THEN Rest ELSE analysis[t]
                       /\ analysis'[t] \in Round
  BY <1>1, RoundFields, RestIsRound DEF LlmInd
<1>4. analysis' \in [Scans -> Round]
  BY <1>1, <1>3
<1>5. /\ loop' \in [ScanEngines -> Look]
      /\ \A f \in ScanEngines : loop'[f].pc # "sleep" => loop'[f].task \in Scans
      /\ \A f \in ScanEngines \ {e} : loop'[f] = loop[f]
  BY <1>1, AsleepIsLook, LoopMoves
<1>6. active' \in [ScanEngines -> Nat] /\ llmFaults' \in 0 .. MaxLlmFaults
  BY <1>1, FaultsTyped, RecordsTyped DEF LlmInd
<1>7. LlmTypeOK'
  <2>1. skewed' \in BOOLEAN
    BY <1>1
  <2>2. QED BY <1>1, <1>2, <1>4, <1>5, <1>6, <2>1 DEF LlmInd, LlmTypeOK, Round, Steps, Look
<1>8. \A t \in Scans, b \in Parts : Kept(t, b) => Kept(t, b)'
  BY <1>1, <1>2, <1>5 DEF Kept
<1>9. CallsCounted'
  <2>1. Rest.pc \notin Calls
    BY RestIsRound DEF Calls
  <2>2. \A f \in ScanEngines : CallsOf(f)' = IF f = e THEN {} ELSE CallsOf(f)
    BY <1>3, <2>1 DEF CallsOf
  <2>3. \A f \in ScanEngines : active'[f] = Cardinality(CallsOf(f)')
    BY <1>1, <2>2, FS_EmptySet, RecordsTyped DEF LlmInd, CallsCounted
  <2>4. ASSUME ~skewed' PROVE gauge' = Cardinality({t \in Scans : analysis'[t].pc \in Calls})
    <3>1. ~skewed /\ CallsOf(e) = {}
      BY <1>1, <2>4
    <3>2. {t \in Scans : analysis'[t].pc \in Calls} = {t \in Scans : analysis[t].pc \in Calls}
      BY <1>3, <2>1, <3>1 DEF CallsOf
    <3>3. QED BY <1>1, <3>1, <3>2 DEF LlmInd, CallsCounted
  <2>5. QED BY <2>3, <2>4 DEF CallsCounted
<1>10. PassedKept'
  <2>1. \A b \in Parts : ~Passed(Rest, b)
    BY RestIsRound DEF Passed
  <2>2. QED BY <1>1, <1>3, <1>8, <2>1 DEF LlmInd, PassedKept
<1>11. AwaitingKept'
  BY <1>1, <1>8 DEF LlmInd, AwaitingKept
<1>12. FailedInRounds'
  <2>1. Rest.pc = "idle"
    BY RestIsRound
  <2>2. \A t \in Scans, b \in Parts : FailedOf(analysis'[t], retry[t][b], failures[t][b], rounds[t], b)
    BY <1>3, <2>1 DEF LlmInd, FailedInRounds, FailedOf, Ahead
  <2>3. QED BY <1>1, <2>2 DEF FailedInRounds
<1>13. Places'
  <2>1. Rest.pc = "idle"
    BY RestIsRound
  <2>2. QED BY <1>3, <1>5, <2>1 DEF LlmInd, Places
<1>14. GivenUpFairly' /\ DropsFairly'
  BY <1>1, <1>5, AsleepIsLook DEF LlmInd, LlmTypeOK, GivenUpFairly, DropsFairly
<1>15. QED BY <1>7, <1>9, <1>10, <1>11, <1>12, <1>13, <1>14 DEF LlmInd

LEMMA LlmStart == LlmInit => LlmInd
<1> SUFFICES ASSUME LlmInit PROVE LlmInd
  OBVIOUS
<1>1. \A t \in Scans : analysis[t] = Rest
  BY DEF LlmInit
<1>2. LlmTypeOK
  <2>1. analysis \in [Scans -> Round]
    BY <1>1, RestIsRound DEF LlmInit
  <2>2. /\ rounds \in [Scans -> 0 .. MaxRounds] /\ llmFaults \in 0 .. MaxLlmFaults
        /\ retry \in [Scans -> [Parts -> 0 .. MaxRounds]]
        /\ failures \in [Scans -> [Parts -> 0 .. MaxRounds]]
    <3>1. 0 \in 0 .. MaxRounds /\ 0 \in 0 .. MaxLlmFaults
      BY LlmNumbers
    <3>2. QED BY <3>1 DEF LlmInit
  <2>3. loop \in [ScanEngines -> Look]
    BY AsleepIsLook DEF LlmInit
  <2>4. /\ records \in [Scans -> {"none", "own", "gone"}]
        /\ ai \in [Scans -> [Parts -> {"none", "rated", "awaiting", "unavailable"}]]
        /\ active \in [ScanEngines -> Nat] /\ gauge \in Int
    BY DEF LlmInit
  <2>5. QED BY <2>1, <2>2, <2>3, <2>4 DEF LlmInit, LlmTypeOK, Round, Steps, Look
<1>3. CallsCounted
  <2>1. Rest.pc \notin Calls
    BY RestIsRound DEF Calls
  <2>2. /\ \A e \in ScanEngines : CallsOf(e) = {}
        /\ {t \in Scans : analysis[t].pc \in Calls} = {}
    BY <1>1, <2>1 DEF CallsOf
  <2>3. QED BY <2>2, FS_EmptySet DEF LlmInit, CallsCounted
<1>4. PassedKept /\ AwaitingKept
  BY <1>1, RestIsRound DEF LlmInit, PassedKept, AwaitingKept, Passed
<1>5. FailedInRounds
  BY <1>1, RestIsRound DEF LlmInit, FailedInRounds, FailedOf, Ahead
<1>6. Places /\ GivenUpFairly /\ DropsFairly
  BY <1>1, RestIsRound, AsleepIsLook DEF LlmInit, Places, GivenUpFairly, DropsFairly
<1>7. QED BY <1>2, <1>3, <1>4, <1>5, <1>6 DEF LlmInd

LEMMA LlmStep == LlmInd /\ [LlmNext]_llmVars => LlmInd'
<1> SUFFICES ASSUME LlmInd, [LlmNext]_llmVars PROVE LlmInd'
  OBVIOUS
<1>1. ASSUME NEW t \in Scans, NEW e \in ScanEngines, StartAnalysis(t, e) PROVE LlmInd'
  BY <1>1, StartAnalysisKeeps, RoundResultKeeps
<1>2. ASSUME NEW t \in Scans,
             \/ IncrActive(t) \/ ChatWithRetry(t) \/ EnqueueRetry(t) \/ DecrActive(t)
             \/ WriteRatings(t) \/ LoseRecords(t)
      PROVE  LlmInd'
  BY <1>2, IncrActiveKeeps, ChatWithRetryKeeps, EnqueueRetryKeeps, DecrActiveKeeps,
     WriteRatingsKeeps, LoseRecordsKeeps, RoundResultKeeps
<1>3. ASSUME NEW t \in Scans, ExpireRetry(t) PROVE LlmInd'
  BY <1>3, ExpireRetryKeeps, LoopResultKeeps
<1>4. ASSUME NEW e \in ScanEngines,
             ListPending(e) \/ RescanOne(e) \/ RemoveRetry(e) \/ DropQueue(e) \/ MarkOutcome(e)
      PROVE  LlmInd'
  BY <1>4, ListPendingKeeps, RescanOneKeeps, RemoveRetryKeeps, DropQueueKeeps,
     MarkOutcomeKeeps, LoopResultKeeps
<1>5. ASSUME NEW e \in ScanEngines, EngineDies(e) PROVE LlmInd'
  BY <1>5, EngineDiesKeeps
<1>6. CASE UNCHANGED llmVars
  <2>1. UNCHANGED <<analysis, rounds, records, ai, retry, outcome, active, gauge, loop,
                    failures, givenUp, swept, excused, skewed, llmFaults>>
    BY <1>6 DEF llmVars, queues, counts, history
  <2>2. CallsCounted'
    BY <2>1, CountsStay DEF LlmInd
  <2>3. LlmTypeOK' /\ Places' /\ GivenUpFairly' /\ DropsFairly' /\ FailedInRounds'
    BY <2>1 DEF LlmInd, LlmTypeOK, Places, GivenUpFairly, DropsFairly, FailedInRounds
  <2>4. PassedKept' /\ AwaitingKept'
    BY <2>1 DEF LlmInd, PassedKept, AwaitingKept, Kept
  <2>5. QED BY <2>2, <2>3, <2>4 DEF LlmInd
<1>7. QED BY <1>1, <1>2, <1>3, <1>4, <1>5, <1>6 DEF LlmNext

LEMMA LlmAlways == LlmSpec => []LlmInd
<1>1. QED BY LlmStart, LlmStep, PTL DEF LlmSpec

\* Of any number of engines, tasks and batches: the counts of _incr_active and
\* _decr_active are the calls in progress; what is written as "awaiting rescan"
\* is in the queue, marked, or lost with Redis or a process; and rescan_one_batch
\* gives up nothing that has not failed MaxAttempts times.
THEOREM LlmInvHolds == LlmSpec => []LlmInv
<1>1. LlmInd => LlmInv
  BY DEF LlmInd, LlmInv, AwaitingKept, AwaitingIsQueued, Kept
<1>2. QED BY <1>1, LlmAlways, PTL

===============================================================================
